SPECIFICATION FairSpec
CONSTANTS
  LevelNames <- MCLevelNames
  Hosts <- MCHosts
INVARIANTS ImportInv NoTraceLeft DoneIsDurable
PROPERTIES OthersKept ImportEnds
CHECK_DEADLOCK FALSE
