SPECIFICATION ReaderSpec
CONSTANTS
  MaxCallbacks = 3
INVARIANTS ClockInv
PROPERTIES NeverBackward SnapshotReturns
