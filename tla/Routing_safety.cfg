SPECIFICATION Spec
CONSTANTS
  a = a
  b = b
  ghost = ghost
  x = x
  c1 = c1
  c2 = c2
  g1 = g1
  Clients = {c1, c2}
  Interfaces = {a, b}
  Unknown = {ghost}
  Addresses = {x}
  Gateways = {g1}
  None = None
  Requests <- SomeRequests
  Rank <- Alphabetical
  MaxMark = 3
  Readdressing = {a}
  MaxFailures = 1
SYMMETRY ClientSymmetry
INVARIANTS
  LiveIsComplete
  OnePerInterface
  MarksAgree
  RoutingInv
PROPERTY ImplementsPointers
CHECK_DEADLOCK FALSE
