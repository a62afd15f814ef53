SPECIFICATION FairMuxSpec
CONSTANTS
  Targets <- MCTwoTargets
  Period = 3
  MaxPolls = 12
  MaxLost = 2
  MaxLate = 3
  MaxCalls = 3
INVARIANTS
  ConfirmedIsSet
PROPERTIES
  SetReturns
CHECK_DEADLOCK FALSE
