SPECIFICATION FairSpec
CONSTANTS
  Loop = Loop
  Repeater = Repeater
  Nobody = Nobody
  MaxBatch = 1
  MaxExtra = 0
  Deadlines = FALSE
PROPERTIES
  ReaderReleased
CHECK_DEADLOCK FALSE
