SPECIFICATION Spec
CONSTANTS
  t1 = t1
  t2 = t2
  t3 = t3
  n1 = n1
  r1 = r1
  e1 = e1
  None = None
  TaskIds <- MCTaskIds
  Nodes <- MCNodes
  Results <- MCResults
  Errors <- MCErrors
  CallTypes <- MCCallTypes
  CallPhases <- MCCallPhases
  MaxTasksInMemory = 1
  TaskExpiry = 2
  CleanupInterval = 2
  MaxClock = 3
  MaxSteps = 1
INVARIANTS TypeOK RecordMatchesStatus
PROPERTIES HistoryIsKept ImplementsOutcome
CHECK_DEADLOCK FALSE
SYMMETRY Symmetry
