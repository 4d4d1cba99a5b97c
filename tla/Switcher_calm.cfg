SPECIFICATION FairSpec
CONSTANTS
  a = a
  b = b
  ghost = ghost
  v1 = v1
  v2 = v2
  Interfaces = {a, b}
  Unknown = {ghost}
  Versions = {v1}
  Lists <- ListsWithGhost
  None = None
  Garbage = {FALSE}
  Readdressing = {}
  CommandsFail = FALSE
  MaxKills = 0
INVARIANTS
  SetupMatchesCurrent
PROPERTIES
  Switches
  DestructorReturns
CHECK_DEADLOCK FALSE
