CONSTANTS
  c1 = c1
  c2 = c2
  Callers <- MCCallers
  Transports <- Both
  Outcomes <- AllReturns
  Request = 2
  Num = 1
  Den = 2
  Size = 2
  BucketDuration = 1
  Values <- MCValues
  MaxTime = 2
  MaxAdds = 2
SPECIFICATION BreakerSpec
CHECK_DEADLOCK FALSE
PROPERTY TripsExactly
PROPERTY QuietWindowAdmits
SYMMETRY CallerSymmetry
