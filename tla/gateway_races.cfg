CONSTANTS
  Callers = {c1, c2}
  Ops = {"submit", "initiate", "callback", "inquiry", "correct", "shipment"}
  AmountIds = {a1, a2}
  PaymentIds = {p1}
  Reviewers = {}
  Attempts = {t1, t2}
  BpmAttempts = {t2}
  OuterCommitFails = TRUE
  None = None
  MaxVersion = 2
  Values = {1, 2}
  Methods = {"GATEWAY"}
  Targets = {"CANCELLED"}
  Enforcement = "ENFORCED"
SPECIFICATION MCSpec
SYMMETRY Symmetry
CHECK_DEADLOCK FALSE
INVARIANTS OneOpenAttempt CreditedWasPaid
PROPERTY CallbackCreditsFirst
