\* Two members and two partitions: partitions move while batches of both are under way.
SPECIFICATION FairSpec
CONSTANTS
  Members = {m1, m2}
  Partitions = {p1, p2}
  Nobody = Nobody
  LogSize = 2
  BatchSize = 2
  MaxFaults = 1
INVARIANTS
  CommittedIsHandled
  FirstDeliveryInOrder
  RepeatsNeedFaults
PROPERTIES
  ImplementsAtLeastOnce
  EveryMessageHandled
CHECK_DEADLOCK FALSE
