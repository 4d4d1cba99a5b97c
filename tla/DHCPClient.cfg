SPECIFICATION FairSpec
CONSTANTS
  Callers = {c1, c2, c3}
  Offers = {o1, o2, bad}
  BadOffers = {bad}
  None = None
INVARIANTS
  ThreadOwned
  NoUseAfterDestruction
  NeverOverwritesThread
  ClientInv
PROPERTIES
  ImplementsService
  MutexReleased
  LeaseRenewed
  DestructorReturns
CHECK_DEADLOCK FALSE
