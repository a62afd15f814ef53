SPECIFICATION FairSpec
CONSTANTS
  rs485 = rs485
  occupancy = occupancy
  Clients <- MCClients
  Exits <- MCExits
  Buf = 1
  MaxChunks = 2
INVARIANTS
  IterationStable
  NothingMissed
PROPERTIES
  ShutdownExits
CHECK_DEADLOCK FALSE
