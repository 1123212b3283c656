SPECIFICATION FairSpec
CONSTANTS
  i1 = i1
  i2 = i2
  i3 = i3
  u1 = u1
  u2 = u2
  QuantityModulus = 4
  PoolSize = 3
  Symbols = {"X", ""}
  EmptySymbol = ""
  OrderIds <- Ids2
  Users = {u1, u2}
  MaxPrice = 2
  MaxOrders = 3
  Requests <- TypesRequests
INVARIANTS
  RestingOrdersAreLive
  FilledMatchesHistory
  OnlyFokAndMarketLeak
  TakerIsLive
PROPERTIES
  FokAllOrNothing
  CallReturns
