SPECIFICATION Spec
CONSTANTS
  Scenarios <- MCScenarios
  Windows <- MCWindows
  MaxRetries = 2
INVARIANTS
  FullCoverage
  OutputOffAtEnd
  MinimumUnderLoad
  OffOnlyAfterFailure
PROPERTIES
  NoHotSwitch
