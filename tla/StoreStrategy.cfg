\* The strategy of a failed message when streams of one id overlap.
SPECIFICATION Spec
CONSTANTS
  Streams = {s1, s2}
  Ids = {c1, c2}
  None = None
INVARIANTS
  OwnStrategy
CHECK_DEADLOCK FALSE
