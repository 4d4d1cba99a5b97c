SPECIFICATION ControllerSpec
CONSTANTS
  c1 = c1
  c2 = c2
  o1 = o1
  o2 = o2
  bad = bad
  Callers = {c1, c2}
  Offers = {o1, o2, bad}
  BadOffers = {bad}
  None = None
SYMMETRY CallerSymmetry
INVARIANTS
  NoTornConfiguration
  ControllerInv
PROPERTY NoDHCPBehindStop
CHECK_DEADLOCK FALSE
