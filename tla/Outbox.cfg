SPECIFICATION Spec
CONSTANTS
  Flushers = {f1, f2}
  Rows = {1, 2, 3}
  TopicOf <- MCTopicOf
  SizeOf <- MCSizeOf
  Refused = {"refused"}
  RequestLimit = 2
  BatchSize = 2
  MaxFaults = 1
INVARIANTS OncePerAttempt InOrder
PROPERTIES ImplementsRelay PassIsComplete RowsAreDelivered
