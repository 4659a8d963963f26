CONSTANTS
  c1 = c1
  c2 = c2
  Callers <- MCCallers
  Transports <- Grpc
  Outcomes <- AllReturns
  Request = 2
  Num = 1
  Den = 2
  Size = 2
  BucketDuration = 1
  Values <- MCValues
  MaxTime = 3
  MaxAdds = 3
SPECIFICATION BreakerSpec
CHECK_DEADLOCK FALSE
PROPERTY TripsOnlyWhenFailing
SYMMETRY CallerSymmetry
