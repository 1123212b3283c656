SPECIFICATION FairSpec
CONSTANTS
  main = main
  other = other
  third = third
  Clients <- OneThread
  Main = main
  MaxCalls = 3
  MaxSpurious = 1
PROPERTIES
  DestructorReturns
CHECK_DEADLOCK FALSE
