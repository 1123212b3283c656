SPECIFICATION FairGatewaySpec
CONSTANTS
  f1 = f1
  f2 = f2
  i1 = i1
  i2 = i2
  i3 = i3
  u1 = u1
  u2 = u2
  QuantityModulus = 8
  PoolSize = 2
  Symbols = {"X"}
  EmptySymbol = ""
  OrderIds <- Ids
  Users = {u1, u2}
  MaxPrice = 1
  MaxOrders = 2
  Requests <- Orders
  Fds <- BothFds
  NoFd = nofd
  Scripts <- GatewayScripts
  RecvSize = 3
  MaxConnections = 2
INVARIANTS
  GatewayTypeOK
  SubscribersAreLoggedIn
  StreamInOrder
  SubscribersSeeTheBook
PROPERTIES
  EngineAsSpecified
  TakerReportsAgree
  MessagesAreHandled
CHECK_DEADLOCK FALSE
