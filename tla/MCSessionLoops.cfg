SPECIFICATION FairSpec
CONSTANTS
  AckCap = 2
  Packets = 2
  MaxAcks = 3
  Clients <- MCClients
INVARIANT NewestAckSurvives
PROPERTY LoopsEndTogether
PROPERTY CallsReturn
