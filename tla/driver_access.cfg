CONSTANTS
  Callers = {c1}
  Ops = {"shipment"}
  AmountIds = {a1}
  None = None
  MaxVersion = 2
  Targets = {"CANCELLED"}
  Handlers = {h1, h2}
  Links = {l1}
  SessionIds = {s1}
  MaxChallenges = 2
  MaxRequests = 1
  MaxAttempts = 2
  MaxLocks = 2
SPECIFICATION FairSpec
CHECK_DEADLOCK FALSE
INVARIANTS NoSessionOutlivesItsLink RequestsLimited SessionsPerCode
PROPERTIES LockIsKept RefusalEnds CancelledLostOnlyToLogin
