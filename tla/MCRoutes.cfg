SPECIFICATION Spec
CONSTANTS
  Sids = {"s1"}
  MaxConns = 2
  MaxDials = 3
  MaxEvents = 2
INVARIANT RouteSettles
 
CHECK_DEADLOCK FALSE
