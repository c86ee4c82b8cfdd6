CONSTANTS
  Callers = {c1, c2}
  Ops = {"submit", "initiate", "callback"}
  AmountIds = {a1}
  PaymentIds = {p1, p2}
  Reviewers = {}
  Attempts = {t1}
  BpmAttempts = {}
  OuterCommitFails = FALSE
  None = None
  MaxVersion = 1
  Values = {1}
  Methods = {"GATEWAY"}
  Targets = {}
  Enforcement = "OFF"
SPECIFICATION Spec
SYMMETRY Symmetry
CHECK_DEADLOCK FALSE
INVARIANT CreditedOnce
