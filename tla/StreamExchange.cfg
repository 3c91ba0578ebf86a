\* Three batches, one repeated answer: a late answer can meet each later batch.
SPECIFICATION FairSpec
CONSTANTS
  Loop = Loop
  Repeater = Repeater
  Nobody = Nobody
  MaxBatch = 3
  MaxExtra = 1
  Deadlines = TRUE
INVARIANTS
  AnswersMatch
  ClientIsTold
  WaitIsGuarded
PROPERTIES
  ImplementsExchange
  WaitEnds
  LoopEnds
CHECK_DEADLOCK FALSE
