SPECIFICATION FairSpec
CONSTANTS
  Clients = {b1, b2, b3}
  Impatient = {b2}
  Plugins = {p1, p2}
  None = None
INVARIANTS
  ManagerInv
PROPERTIES
  SharesPlugins
  NoClientBehindDestructor
  RequestsAnswered
  Terminates
CHECK_DEADLOCK FALSE
