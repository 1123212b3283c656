SPECIFICATION FairEventLogSpec
CONSTANTS
  f1 = f1
  i1 = i1
  i2 = i2
  i3 = i3
  i4 = i4
  u1 = u1
  u2 = u2
  QuantityModulus = 8
  PoolSize = 3
  Symbols = {"X"}
  EmptySymbol = ""
  OrderIds <- Ids
  Users = {u1, u2}
  MaxPrice = 2
  MaxOrders = 4
  Requests <- Orders
  Fds <- OneFd
  NoFd = nofd
  Scripts <- LogScripts
  RecvSize = 2
  MaxConnections = 3
  MaxRestarts = 2
  Opening <- OpeningOf
INVARIANTS
  AtMostOneCutShort
  ReplayRestores
  RestingIsLogged
PROPERTIES
  ReplayEnds
CHECK_DEADLOCK FALSE
