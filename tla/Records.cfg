SPECIFICATION Spec
CONSTANTS
  Procs <- MCProcs
  Text <- MCText
  NewRow <- MCNewRow
  OldFiles <- MCOldFiles
INVARIANTS
  HistoryKept
PROPERTIES
  ImplementsStore
