CONSTANTS
  Callers = {c1, c2, c3}
  DriverTabs = {c1, c2}
  DeskTabs = {c3}
  Workers = {}
  Transfers = {t1}
  Tracked = {t1}
  Attempts = {g1}
  Ops = {"submit", "review", "decline", "authorize", "grant"}
  AmountIds = {a1}
  PaymentIds = {p1, p2}
  Reviewers = {r1}
  AuthIds = {u1}
  Sessions = {}
  Versions = {v1}
  RefundIds = {}
  Staff = {}
  None = None
  MaxVersion = 2
  Values = {1}
  Methods = {"MANUAL", "GATEWAY"}
  Targets = {}
  Enforcement = "ENFORCED"
SPECIFICATION ScreensSpec
SYMMETRY Symmetry
CHECK_DEADLOCK FALSE
INVARIANT ApprovedMeansApproved
