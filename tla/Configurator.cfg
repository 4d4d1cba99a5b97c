SPECIFICATION ConfiguratorSpec
CONSTANTS
  c1 = c1
  c2 = c2
  a = a
  b = b
  lan = lan
  ghost = ghost
  f1 = f1
  f2 = f2
  n1 = n1
  n2 = n2
  last = last
  Clients = {c1, c2}
  Interfaces = {a, b, lan}
  Ranges <- SomeRanges
  None = None
  MaxStarts = 2
  Files = {f1, f2}
  Content <- SomeContent
  Unknown = {ghost}
  Plugged <- SomePlugged
  Width = 65536
  Fallible = {a, f1}
SYMMETRY ClientSymmetry
INVARIANTS
  GrantedServed
  FileApplied
  ConfiguratorInv
CHECK_DEADLOCK FALSE
