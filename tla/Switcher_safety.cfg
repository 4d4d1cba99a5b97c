SPECIFICATION Spec
CONSTANTS
  a = a
  b = b
  ghost = ghost
  v1 = v1
  v2 = v2
  Interfaces = {a, b}
  Unknown = {ghost}
  Versions = {v1, v2}
  Lists <- ListsBothOrders
  None = None
  Garbage = {TRUE, FALSE}
  Readdressing = {a}
  CommandsFail = TRUE
  MaxKills = 1
SYMMETRY VersionSymmetry
INVARIANTS
  RouteOwned
  CleanAfterDestructor
  SwitcherInv
PROPERTY HigherPrioritiesFailed
CHECK_DEADLOCK FALSE
