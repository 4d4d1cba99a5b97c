SPECIFICATION FairSpec
CONSTANTS
  Resolvers = {r1, r2}
  Offers = {o1}
  Stray = stray
  Foreign = foreign
  Inodes = {i1, i2}
  None = none
  MaxNews = 1
INVARIANTS
  ResolverInv
  StartedOnceUntilUnlink
  OutputIsRequested
PROPERTY
  Resolves
CHECK_DEADLOCK FALSE
