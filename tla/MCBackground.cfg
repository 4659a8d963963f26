CONSTANTS
  Parts = {"rabbitmq", "kafka", "cron"}
  Messages = {"m1", "m2"}
  Prefetches = {0, 1}
  MaxChannels = 2
  MaxFaults = 2
  LastOffset = 3
  MaxSessions = 3
  Sends = {"s1", "s2"}
  u1 = u1
  u2 = u2
  Users <- MCUsers
  Names = {"a"}
  RunOnce = {"a"}
  MaxEntries = 2
  MaxJobs = 1
SPECIFICATION BackgroundSpec
CHECK_DEADLOCK FALSE
INVARIANT ManualAckKeeps
INVARIANT CommittedWasTried
INVARIANT NamesMatchEntries
PROPERTY ConsumptionResumes
PROPERTY CloseEndsAll
PROPERTY EveryMessageTried
PROPERTY OnceLeaves
