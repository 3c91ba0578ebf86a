SPECIFICATION Spec
CONSTANTS
  Flushers = {f1}
  Rows = {1, 2, 3}
  TopicOf <- MCTopicOf
  SizeOf <- MCLargeSizes
  Refused = {"refused"}
  RequestLimit = 3
  BatchSize = 2
  MaxFaults = 0
PROPERTIES RowsAreDelivered
