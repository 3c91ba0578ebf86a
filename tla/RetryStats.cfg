SPECIFICATION StatSpec
CONSTANTS
  StatRows = {1, 2}
  StatGroups = {1}
  StatErrors = {1, 2, 3}
  StatClass <- MCClass
  StatTime = 1
  StatMoves = 0
INVARIANT ClassIsAFilter
CHECK_DEADLOCK FALSE
