SPECIFICATION Spec
CONSTANTS
  Ids = {A, B}
  Failures = {"ConnectFailed"}
  AttemptsPerBurst = 3
  RetryBase = 1
  Cooldown = 8
  DiscoveryInterval = 2
  StableAfter = 3
  HealthPoll = 1
  ShutdownGrace = 2
  MaxPendingEvents = 1
  MaxBlock = 1
  A = A
  B = B
SYMMETRY Symmetry
CHECK_DEADLOCK FALSE
INVARIANTS ScheduleInv RetriesBounded DefaultFollowedInTime
PROPERTY SleeperIsJoined
