SPECIFICATION FairNodeTestsSpec
CONSTANTS
  NumActuators = 2
  Plans <- MCPlans
  Nodes <- MCNodes
  Attempts = 3
  Tries = 2
  Restarts = 1
  MaxLost = 2
  MaxLate = 2
INVARIANTS
  PassIsEarned
  GoodNodePasses
  SensorRestored
PROPERTIES
  TestsEnd
