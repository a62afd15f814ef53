SPECIFICATION Spec
CONSTANTS
  Units <- MCUnits
  Launches <- StartLaunches
  MaxRuns = 1
INVARIANTS
  RecordedPassIsEarned
