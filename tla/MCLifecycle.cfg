SPECIFICATION Spec
CONSTANTS
  Peers = {"p1"}
  InternalC = "i1"
  MaxConn = 1
  MaxLosses = 1
INVARIANT NoReaderLeft
INVARIANT QuietAfterShutdown
 
CHECK_DEADLOCK FALSE
