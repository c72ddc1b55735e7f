SPECIFICATION FairSpec
CONSTANTS
  Peer = {p1, p2}
  FirstLead = p1
  Compacts = 2
  MaxMade = 2
  MaxGets = 2
  MaxFaults = 1
  MaxLists = 1
  MaxEvents = 4
INVARIANT LatestIsLatest
INVARIANT FollowersHaveIt
 
PROPERTY TransfersReturn
CHECK_DEADLOCK FALSE
