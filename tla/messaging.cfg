CONSTANTS
  Senders = {s1, s2}
  Jobs = {j1, j2, j3}
  DailyCap = 1
  FailureThreshold = 2
  Retried = {j1, j2}
  MaxAttempts = 2
  None = None
SPECIFICATION FairSpec
CHECK_DEADLOCK FALSE
INVARIANT CapPassedOnlyByOverlap
PROPERTY MessagesEnd
