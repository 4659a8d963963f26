CONSTANTS
  Parts = {"resend", "sse", "ws"}
  PageSize = 1
  Slow = TRUE
  MaxEvents = 3
  MaxBreaks = 2
  l1 = l1
  l2 = l2
  Loops <- TwoLoops
  Interval = 2
  MaxBackoff = 30
  MaxRetries = 5
  Texts = {TRUE, FALSE}
  UserStops = TRUE
  Reconnectors = {"ping", "user"}
  MaxDelay = 4
  MaxCuts = 2
  MaxCalls = 2
SPECIFICATION ClientsSpec
CHECK_DEADLOCK FALSE
INVARIANT NoneForgotten
INVARIANT StraysBounded
PROPERTY EventuallyReceived
PROPERTY StopEndsLoops
PROPERTY Reconnects
