SPECIFICATION Spec
CONSTANTS
  n1 = n1
  n2 = n2
  Nodes <- MCNodes
  Users <- MCUsers
  MaxLan = 1
  Expiry = 1
  LanPreferred = TRUE
  MayLink <- MCMayLink
  MaxCalls = 2
  MaxRestarts <- MCMaxRestarts
INVARIANTS TypeOK OffKnowsNobody
PROPERTY PoolCatchesUp
CHECK_DEADLOCK FALSE
