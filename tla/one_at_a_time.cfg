CONSTANTS
  Callers = {c1}
  Ops = {"submit", "review", "correct", "authorize", "revoke", "grant", "recordRefund", "approveRefund", "rejectRefund"}
  AmountIds = {a1, a2}
  PaymentIds = {p1, p2}
  Reviewers = {r1}
  AuthIds = {u1}
  Sessions = {}
  Versions = {v1}
  RefundIds = {f1}
  Staff = {b1, b2}
  None = None
  MaxVersion = 4
  Values = {1, 2}
  Methods = {"MANUAL"}
  Targets = {}
  Enforcement = "OFF"
SPECIFICATION LifeSpec
SYMMETRY Symmetry
CHECK_DEADLOCK FALSE
INVARIANTS ReleasedIsAuthorized DashboardAgrees
PROPERTIES NoOverApproval OnlyCorrectionsOrphan OnlyRejectionsSettle OnlyOthersHide
