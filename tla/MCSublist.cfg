SPECIFICATION MCSpec
CONSTANTS
  s1 = s1
  s2 = s2
  s3 = s3
  s4 = s4
  grp = grp
  p1 = p1
  NoQueue = NoQueue
  Nil = Nil
  Sub <- Four
  subject <- MixedSubject
  queue <- MixedQueue
  Publisher = {p1}
  Literal <- Literals
  slCacheMax = 1
  maxResultCacheSize = 1
  pruneSize = 0
  MaxGen = 6
  MaxArray = 16
  MaxSubject = 4
  MaxLiteral = 4
SYMMETRY Symmetry
 
 
 
INVARIANT MatchersAgree
CHECK_DEADLOCK FALSE
