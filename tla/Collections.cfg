CONSTANTS
  k1 = k1
  k2 = k2
  k3 = k3
  Keys = {k1, k2, k3}
  Scenarios <- Committed
  FoundSize = 1
  LostSize = 2
SPECIFICATION FairSpec
INVARIANT ThrottleHolds
 
 
INVARIANT DependencyOrder
PROPERTY AllReady
 
PROPERTY StraysRemoved
CHECK_DEADLOCK FALSE
