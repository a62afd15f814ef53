SPECIFICATION Spec
CONSTANTS
  Addresses <- MCAddresses
  Own <- MCOwn
  Networks <- MCNetworks
  Ranges <- MCRanges
  Wanted <- MCWanted
INVARIANTS
  ScanExplained
  BystandersUntouched
