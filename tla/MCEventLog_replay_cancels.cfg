SPECIFICATION EventLogSpec
CONSTANTS
  f1 = f1
  i1 = i1
  i2 = i2
  i3 = i3
  i4 = i4
  u1 = u1
  u2 = u2
  QuantityModulus = 8
  PoolSize = 2
  Symbols = {"X"}
  EmptySymbol = ""
  OrderIds <- Ids
  Users = {u1, u2}
  MaxPrice = 2
  MaxOrders = 4
  Requests <- Orders
  Fds <- OneFd
  NoFd = nofd
  Scripts <- CancelScripts
  RecvSize = 6
  MaxConnections = 1
  MaxRestarts = 1
  Opening <- OpeningOf
PROPERTIES
  ReplayProcessesHistory
CHECK_DEADLOCK FALSE
