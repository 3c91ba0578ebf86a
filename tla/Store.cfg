\* Two streams, of two consumers or of one that connected again.
SPECIFICATION Spec
CONSTANTS
  Streams = {s1, s2}
  Ids = {c1, c2}
  None = None
SYMMETRY StreamSymmetry
INVARIANTS
  NoGhostBag
  NoGhostSeries
  GaugeCounts
  ConnectedMeansReading
  ServedIsVisible
  OthersKeepTheirStrategy
CHECK_DEADLOCK FALSE
