SPECIFICATION Spec
CONSTANTS
  a = a
  b = b
  ghost = ghost
  x = x
  c1 = c1
  g1 = g1
  Clients = {c1}
  Interfaces = {a, b}
  Unknown = {ghost}
  Addresses = {x}
  Gateways = {g1}
  None = None
  Requests <- OneOrTheOther
  Rank <- Alphabetical
  MaxMark = 3
  Readdressing = {}
  MaxFailures = 0
INVARIANT Splits
CHECK_DEADLOCK FALSE
