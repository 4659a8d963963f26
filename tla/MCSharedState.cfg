CONSTANTS
  Parts = {"window", "group", "tokens", "discovery", "merge"}
  Size = 3
  BucketDuration = 2
  Values <- MCValues
  MaxTime = 15
  MaxAdds = 1
  Getters = {"g1", "g2"}
  Keys = {"k"}
  MaxGets = 4
  MaxResets = 2
  Requests = {"r1", "r2"}
  Stores = {"memory", "redis"}
  MaxTokens = 4
  MaxErrors = 1
  w1 = w1
  w2 = w2
  i1 = i1
  i2 = i2
  i3 = i3
  None = None
  Resolvers <- MCResolvers
  Instances <- MCInstances
  Usable <- MCUsable
  Lists <- MCLists
  MaxIndex = 2
  Package = "p"
  UserDecls <- MCUserDecls
  GenFiles <- MCGenFiles
  Ignored = {"M"}
  Foreign <- MCForeign
  MaxEdits = 3
  MaxMerges = 3
SPECIFICATION SharedSpec
CHECK_DEADLOCK FALSE
INVARIANT WindowExact
INVARIANT GetsCoherent
INVARIANT OneTokenPerLogin
INVARIANT NoLockOut
INVARIANT NoLostUpdate
INVARIANT MergeExact
PROPERTY NeverBackwards
PROPERTY CatchesUp
PROPERTY KeepsUserCode
