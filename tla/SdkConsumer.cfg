SPECIFICATION Spec
CONSTANTS
  Consumers = {c1, c2}
  Deliveries = {1, 2, 3}
  MessageOf <- MCMessageOf
  MaxFaults = 1
INVARIANTS EffectOnce RepeatsAreExplained
PROPERTIES ImplementsEffects BatchesEnd
CHECK_DEADLOCK FALSE
