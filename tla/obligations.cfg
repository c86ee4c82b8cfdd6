CONSTANTS
  Callers = {c1, c2}
  Ops = {"submit", "review", "accept", "decline", "publish", "recordRefund", "approveRefund", "rejectRefund"}
  AmountIds = {a1}
  PaymentIds = {p1}
  Reviewers = {r1}
  AuthIds = {u1}
  Sessions = {}
  Versions = {v1, v2}
  RefundIds = {f1, f2}
  Staff = {b1, b2}
  None = None
  MaxVersion = 5
  Values = {1, 2}
  Methods = {"MANUAL"}
  Targets = {}
  Enforcement = "ENFORCED"
SPECIFICATION LifeSpec
SYMMETRY Symmetry
CHECK_DEADLOCK FALSE
INVARIANTS RefundsWithinApproved OneActiveVersion AcceptedIsSigned PaidIsSigned PaidWasCredited
