SPECIFICATION FairSpec
CONSTANTS
  MaxProcs = 3
  first = first
  second = second
  Programs <- MCPrograms
  Exits <- MCPrograms
INVARIANTS
  
  
  StaleLockGivesWay
PROPERTIES
  NothingLeftBehind
CHECK_DEADLOCK FALSE
