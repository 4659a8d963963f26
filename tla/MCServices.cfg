CONSTANTS
  Parts = {"app", "etcd", "nacos"}
  Default = "d"
  Sampling = "s"
  MaxSessions = 2
  Servers = {"s1", "s2"}
  Closes <- MCCloses
  CloserFails = TRUE
  MaxSignals = 3
  MaxRetry = 2
  MaxRegisters = 1
  MaxFaults = 3
  MaxChanges = 4
SPECIFICATION ServicesSpec
CHECK_DEADLOCK FALSE
INVARIANT SettingsRestored
PROPERTY StopsUnlessCloserFails
PROPERTY HeartBeatHeals
PROPERTY WatcherCurrent
PROPERTY NacosCurrent
PROPERTY CancelRemoves
