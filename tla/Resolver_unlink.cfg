SPECIFICATION Spec
CONSTANTS
  Resolvers = {r1, r2, r3}
  Offers = {o1}
  Stray = stray
  Foreign = foreign
  Inodes = {i1, i2, i3}
  None = none
  MaxNews = 0
INVARIANT
  StartedOnce
CHECK_DEADLOCK FALSE
