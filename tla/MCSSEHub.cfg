CONSTANTS
  u1 = u1
  c1 = c1
  c2 = c2
  w1 = w1
  None = None
  Uids <- OneUser
  Conns <- TwoConns
  UidOf <- TwoUidOf
  Workers <- MCWorkers
  BroadcastCap = 2
  SendCap = 1
  TaskCap = 1
  MaxRetry = 2
  MaxPolls = 0
  MaxEvents = 4
  MaxCloseEvents = 0
  Overlap = TRUE
  Closes = FALSE
SPECIFICATION HubSpec
CHECK_DEADLOCK FALSE
INVARIANT NoPanic
INVARIANT Conservation
INVARIANT FastPathOrder
PROPERTY ImplementsService
