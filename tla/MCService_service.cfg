SPECIFICATION FairServiceSpec
CONSTANTS
  w1 = w1
  w2 = w2
  u1 = u1
  Workers <- TwoWorkers
  Users = {u1}
  Calls <- TraderCalls
  MaxCalls = 3
  MaxBacklog = 1
INVARIANTS
  ReportsInOrder
  IdsAreUnique
  BroadcastReachesAll
PROPERTIES
  CallsEnd
  CallsAreTaken
  ReportsReachTheStream
CHECK_DEADLOCK FALSE
