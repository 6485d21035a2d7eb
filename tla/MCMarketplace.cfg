SPECIFICATION Spec
CONSTANTS
  u1 = u1
  n1 = n1
  Users <- MCUsers
  Nodes <- MCNodes
  Lives = {0}
  ConfigLife = 0
  MaxTokens = 1
  OfflineAfter = 3
  DelistAfter = 3
  PurgeAfter = 4
  TokenIds = 2
  HeartbeatEvery = 1
  Tolerated = 1
  MaxCalls = 2
INVARIANTS TypeOK ListingFollowsNode
PROPERTY GhostsLeave
CHECK_DEADLOCK FALSE
