SPECIFICATION Spec
CONSTANTS
  Clients = {c1}
  Capacity = 2
  QueueSize = 2
  Steps = 2
  MaxBreaks = 2
INVARIANT TypeOK
PROPERTY FeedIsComplete
CHECK_DEADLOCK FALSE
