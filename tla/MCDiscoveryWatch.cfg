CONSTANTS
  w1 = w1
  w2 = w2
  i1 = i1
  i2 = i2
  i3 = i3
  None = None
  Resolvers <- MCResolvers
  Instances <- MCInstances
  Usable <- MCUsable
  Lists <- MCLists
  MaxIndex = 2
SPECIFICATION DiscoveryLiveSpec
CHECK_DEADLOCK FALSE
PROPERTY WatchReturns
