SPECIFICATION FairSpec
CONSTANTS
  chat = chat
  job = job
  Tasks <- MCTasks
  OnLoop <- MCOnLoop
  Budgets <- MCBudgets
  CallerOptions <- MCCallerOptions
  MaxRemotes = 1
  MaxRequested = 1
  MaxRounds = 2
  MaxRuns <- MCMaxRuns
INVARIANTS TypeOK LastAnswerCounts DispatchesAreAllowed
PROPERTY EveryRunEnds
CHECK_DEADLOCK FALSE
