SPECIFICATION Spec
CONSTANTS
  s1 = s1
  s2 = s2
  switcher = switcher
  prerouting = prerouting
  output = output
  postrouting = postrouting
  mangle = mangle
  nat = nat
  Owners = {s1, s2, switcher}
  Names = {prerouting, postrouting}
  Table <- SomeTable
  Uses <- SomeUses
  None = None
  MaxRules = 4
SYMMETRY OwnerSymmetry
INVARIANTS
  RulesKept
  XTablesInv
CHECK_DEADLOCK FALSE
