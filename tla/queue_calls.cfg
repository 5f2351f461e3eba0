SPECIFICATION FairSpec
CONSTANTS
  MaxPushed = 2
  MaxStarts = 2
  MaxUpsets = 2
INVARIANTS TypeOK
PROPERTIES HistoryNotReplayed StoppedQueueKept IntentApplied
