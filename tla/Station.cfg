SPECIFICATION FairStationSpec
CONSTANTS
  MaxLaunches = 2
  MaxLines = 2
  MaxClicks = 3
INVARIANTS
  OneTestAtATime
  ShownWithoutGaps
PROPERTIES
  PageSettles
CHECK_DEADLOCK FALSE
