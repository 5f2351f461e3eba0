SPECIFICATION FairSpec
CONSTANTS
  A = A
  Ids = {A}
  Failures = {"ConnectFailed"}
  AttemptsPerBurst = 2
  RetryBase = 1
  Cooldown = 3
  DiscoveryInterval = 2
  StableAfter = 2
  HealthPoll = 1
  ShutdownGrace = 1
  MaxPendingEvents = 1
  MaxBlock = 1
CHECK_DEADLOCK FALSE
PROPERTIES DriverStops SettlesAttached
