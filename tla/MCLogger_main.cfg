SPECIFICATION FairSpec
CONSTANTS
  main = main
  other = other
  third = third
  Clients <- OneThread
  Main = main
  MaxCalls = 6
  MaxSpurious = 1
PROPERTIES
  LinesAreWritten
  FlushReturns
CHECK_DEADLOCK FALSE
