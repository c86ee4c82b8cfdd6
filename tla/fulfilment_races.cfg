CONSTANTS
  Callers = {c1, c2}
  Ops = {"submit", "review", "correct", "authorize", "revoke", "grant", "shipment", "document"}
  AmountIds = {a1, a2, a3}
  PaymentIds = {p1}
  Reviewers = {r1}
  AuthIds = {u1, u2}
  Sessions = {s1}
  None = None
  MaxVersion = 4
  Values = {1, 2}
  Methods = {"MANUAL"}
  Targets = {"CANCELLED", "COMPLETED", "ARCHIVED", "NOT_UPLOADED", "VERIFIED"}
  Enforcement = "ENFORCED"
SPECIFICATION MCSpec
SYMMETRY Symmetry
CHECK_DEADLOCK FALSE
INVARIANTS OneCurrentAmount DecidedOnce OneActiveAuthorization DownloadableIffReleased NeverWithoutAuthorization PhaseKeepsPromise
PROPERTIES CancelledIsFinal ImplementsLedger
