SPECIFICATION Spec
CONSTANTS
  Limit <- MCLimit
  Pops <- MCPops
  MaxLines <- MCMaxLines
INVARIANTS
  Bounded
  MainNeverRaises
  DeadOnlyAfterBurst
PROPERTIES
  NeverTwice
  ImplementsFifo
CHECK_DEADLOCK FALSE
