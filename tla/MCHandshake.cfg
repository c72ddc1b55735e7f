SPECIFICATION FairSpec
CONSTANTS
  A = A
  B = B
  Connectors = {A, B}
  Closers = {B}
  SendFails = TRUE
  MaxSessions = 2
  MaxAttempts = 1
  MaxNet = 2
INVARIANT SessionsAgree
INVARIANT RetriesHarmless
PROPERTY BoundOnce
PROPERTY HalfOpenResolves
CHECK_DEADLOCK FALSE
