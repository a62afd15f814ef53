SPECIFICATION Spec
CONSTANTS
  Units <- MCUnits
  Launches <- MCLaunches
  MaxRuns = 2
INVARIANTS
  TypeOK
  VerdictMatchesSteps
  BatchOnlyEarned
  StatusTruthful
  OneRowPerUnit
PROPERTIES
  FailFast
