SPECIFICATION Spec
CONSTANTS
  Clients = {"c"}
  Routes = {"r1"}
  MaxPingsOut = 1
  MaxUpdates = 2
  MaxConnects = 2
INVARIANT InfoDelivered
 
PROPERTY LostIsRemoved
PROPERTY AuthorizesOrCloses
CHECK_DEADLOCK FALSE
