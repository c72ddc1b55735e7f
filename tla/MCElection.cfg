SPECIFICATION Spec
CONSTANTS
  Agent = {1, 2}
  LeaseTime = 2
  MaxClockSkew = 1
  BeatDur = 2
  MaxTime = 11
  MaxFaults = 2
INVARIANT Converges
INVARIANT MembersTracked
 
CHECK_DEADLOCK FALSE
