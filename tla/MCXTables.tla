-------------------------------- MODULE MCXTables -------------------------------
(* Instances of XTables for TLC: two owners that share the chain of one table,
   and one of a chain in another. *)
EXTENDS XTables, TLC

CONSTANTS s1, s2, switcher, prerouting, output, postrouting, mangle, nat

SomeUses  == s1 :> {prerouting} @@ s2 :> {prerouting} @@ switcher :> {postrouting}
SomeTable == prerouting :> mangle @@ output :> mangle @@ postrouting :> nat

OwnerSymmetry == Permutations({s1, s2})
================================================================================
