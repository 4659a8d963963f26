CONSTANTS
  r1 = r1
  r2 = r2
  r3 = r3
  Requests <- MCRequests
  MaxCalls = 4
  Panics = TRUE
  Second = 1
  Size = 2
  BucketDuration = 1
  Values <- MCValues
  MaxTime = 2
  MaxAdds = 1
SPECIFICATION LimiterSpec
CHECK_DEADLOCK FALSE
SYMMETRY RequestSymmetry
INVARIANT DropNeedsConcurrency
INVARIANT CoolDownEnds
INVARIANT LimitExact
