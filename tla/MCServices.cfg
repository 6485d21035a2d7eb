SPECIFICATION ServicesSpec
CONSTANTS
  j1 = j1
  l1 = l1
  l2 = l2
  s1 = s1
  s2 = s2
  w1 = w1
  w2 = w2
  c1 = c1
  c2 = c2
  Jobs <- MCJobs
  Loops <- MCLoops
  Sleep = 1
  Interval = 2
  MaxErrors = 2
  MaxTime = 6
  MaxActive = 3
  Registry = {"a", "b"}
  Dev = TRUE
  DevWorkers <- MCDevWorkers
  ProdWorkers <- MCDevWorkers
  Group = "1"
  NoGroup = "none"
  Groups <- MCGroups
  Legacy <- MCDevWorkers
  Models = {"", "m"}
  Own = "own"
  Savers <- MCSavers
  NoteSizes <- MCNoteSizes
  SummarySize = 1
  MaxChars = 5
  RecentChars = 4
  MinRecent = 2
  MaxPasses = 2
  MaxSaves = 3
  Writers <- MCWriters
  Amounts <- MCAmounts
  Initial = 1
  Capacity = 2
  MaxBooked = 3
  Calls <- MCCalls
  Messages <- MCMessages
  Bindings <- MCBindings
  Scope = "per-channel-peer"
  MaxHistory = 3
  Parents <- MCParents
  Addresses <- MCAddresses
  Exported = "none"
INVARIANTS ServicesTypeOK CrewFollowsAgents ToldAsSettled PaymentsFollowSettings
PROPERTIES RunsAreSpaced NothingLost
CHECK_DEADLOCK FALSE
