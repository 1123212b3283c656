SPECIFICATION Spec
CONSTANTS
  main = main
  other = other
  third = third
  Clients <- ThreeThreads
  Main = main
  MaxCalls = 5
  MaxSpurious = 1
SYMMETRY OthersSymmetry
INVARIANTS
  TypeOK
  EveryLineOnce
  NothingLostAtExit
PROPERTIES
  FlushLeavesAtMostOne
CHECK_DEADLOCK FALSE
