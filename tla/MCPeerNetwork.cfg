SPECIFICATION Spec
CONSTANTS
  n1 = n1
  n2 = n2
  Nodes <- MCNodes
  Checkers <- MCCheckers
  MaxWan = 1
  MaxFailures = 2
  VerifyAfter = 0
  StaleAfter = 2
  MaxRestarts = 1
INVARIANTS TypeOK OfflineHasCause
PROPERTY HalfLinksLeave
CHECK_DEADLOCK FALSE
