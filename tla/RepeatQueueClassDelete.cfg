SPECIFICATION Spec
CONSTANTS
  Ids = {r1, r2}
  Consumers = {c1}
  Instances = {b1}
  s0 = s0
  s1 = s1
  e1 = e1
  e2 = e2
  Strategies = {s0, s1}
  DefaultStrategy = s0
  NoStrategy = NoStrategy
  MaxAttempts <- MCMaxAttempts
  Delay <- MCDelay
  RetryAfters = {0, 2}
  Errors = {e1, e2}
  EmptyResult = e2
  NoError = NoError
  ErrorClass <- MCClass
SYMMETRY RowSymmetry

PROPERTY DeletesOnlyVisible
