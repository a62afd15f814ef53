SPECIFICATION FairSpec
CONSTANTS
  NumActuators = 2
  All = 3
  Plans <- MCPlans
  Tries = 2
  MaxLost = 2
  MaxLate = 2
  MaxMissed = 1
INVARIANTS
  SavedIsCurrent
  MeasuredAsConfigured
  CommissionedIsSet
PROPERTIES
  Settles
