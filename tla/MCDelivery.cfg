SPECIFICATION Spec
CONSTANTS
  Pubs = {"p", "r"}
  Routers = {"r"}
  Sids = {1, 2}
  Reused = {1}
  Subjects = {"a", "b", "c"}
  Subject = "a"
  Allowed = {"a", "b"}
  maxResultCacheSize = 1
  maxPermCacheSize = 1
  pruneSize = 0
  MaxSubs = 2
  MaxMsgs = 2
  MaxUnsubs = 1
  Limits = {0, 1}
INVARIANT AtMostMax
INVARIANT DeliveryContract
INVARIANT TablesAgree
CHECK_DEADLOCK FALSE
