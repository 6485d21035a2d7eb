SPECIFICATION ConversationsSpec
CONSTANTS
  c1 = c1
  o1 = o1
  Subs <- MCSubs
  OtherListeners <- MCOthers
  QueueSize = 1
  MaxUpdates = 2
  MaxSteps = 2
  MaxReturns = 2
  MayTimeOut = TRUE
  m1 = m1
  p1 = p1
  Members <- MCMembers
  Peers <- MCPeers
  Reports <- MCReports
  MaxWork = 1
  MaxReports = 1
  MaxTurns = 2
INVARIANTS ConversationsTypeOK ShownIsTrue
PROPERTY OutcomeIsLearnt
CHECK_DEADLOCK FALSE
