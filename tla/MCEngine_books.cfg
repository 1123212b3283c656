SPECIFICATION Spec
CONSTANTS
  i1 = i1
  i2 = i2
  i3 = i3
  u1 = u1
  u2 = u2
  QuantityModulus = 8
  PoolSize = 3
  Symbols = {"X", "Y"}
  EmptySymbol = ""
  OrderIds <- Ids3
  Users = {u1, u2}
  MaxPrice = 2
  MaxOrders = 4
  Requests <- BookRequests
SYMMETRY IdSymmetry3
INVARIANTS
  TypeOK
  PoolSafety
  LookupAgreesWithLists
  LevelsNeverEmpty
  NotCrossed
  QuotesMatchLiveOrders
PROPERTIES
  LoopProgress
  RefinesExchange
