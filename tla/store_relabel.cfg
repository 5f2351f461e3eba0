SPECIFICATION StoreSpec
CONSTANTS
  CounterModulus = 8
  StartCounters = {3}
  StartRotations = {13}
  StartErased = FALSE
  MaxWrites = 2
  MaxFaults = 1
  LegacyRotations = {0, 1}
  DamageKinds = {"id"}
INVARIANTS LegacyLoadNeverSpliced
CHECK_DEADLOCK FALSE
