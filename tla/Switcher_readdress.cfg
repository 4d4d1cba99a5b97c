SPECIFICATION FairSpec
CONSTANTS
  a = a
  b = b
  ghost = ghost
  v1 = v1
  v2 = v2
  Interfaces = {a, b}
  Unknown = {ghost}
  Versions = {v1, v2}
  Lists <- ListsOneOrder
  None = None
  Garbage = {FALSE}
  Readdressing = {a}
  CommandsFail = FALSE
  MaxKills = 0
PROPERTIES
  Switches
CHECK_DEADLOCK FALSE
