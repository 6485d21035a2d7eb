SPECIFICATION ExecutionSpec
CONSTANTS
  c1 = c1
  c2 = c2
  c3 = c3
  k1 = k1
  NoTask = NoTask
  Calls <- MCCalls
  Tasks <- MCTasks
  TaskOf <- MCTaskOf
  LoopOf <- MCLoopOf
  IsCode <- MCIsCode
  Default = "openhands"
  a1 = a1
  t1 = t1
  t2 = t2
  y1 = y1
  y2 = y2
  Agents <- MCAgents
  Tools <- MCTools
  Syncs <- MCSyncs
  MaxRuntimes = 2
  MaxCommands = 2
  MaxIterations = 4
  Threshold = 6
  MaxToolCalls = 2
  ReplySizes <- MCReplySizes
  SummarySize = 1
  Workers <- MCWorkers
  MaxLocalRounds = 3
  Assignments <- MCAssignments
  x1 = x1
  x2 = x2
  Wrappers <- MCWrappers
INVARIANTS ExecutionTypeOK CallsAreAnswered LocalOutcomeJustified SharedIsReturned
PROPERTIES CallsReturn CommandsAreShown
CHECK_DEADLOCK FALSE
