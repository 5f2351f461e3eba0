SPECIFICATION StoreSpec
CONSTANTS
  CounterModulus = 8
  StartCounters = {6}
  StartRotations = {0, 1, 13}
  StartErased = TRUE
  MaxWrites = 2
  MaxFaults = 1
  LegacyRotations = {0, 4}
  DamageKinds = {"signature", "checksum", "counter", "id"}
INVARIANTS NewestWholeGenerationLoads StoreInv
CHECK_DEADLOCK FALSE
