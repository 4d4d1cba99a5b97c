------------------------- MODULE MCINIFileConfigurator -------------------------
(* Instances of INIFileConfigurator for TLC: two interfaces, two first
   addresses, files that move ranges between the interfaces. *)
EXTENDS INIFileConfigurator, TLC

CONSTANTS a, b, lan, ghost, f1, f2, n1, n2, last

Range(start, lease) == [start |-> start, end |-> last, lease |-> lease]
Section(name, type, r) == [name |-> name, kind |-> type, range |-> r]

SomeContent ==
  f1 :> <<Section(lan, "dhcp", None), Section(a, "static", Range(n1, 7200)),
          Section(b, "static", Range(n2, 60))>>
  @@ f2 :> <<Section(ghost, "static", None), Section(a, "static", Range(n2, 150)),
             Section(b, "static", Range(n2, -1))>>
SomeRanges == {Range(n1, 7200), Range(n2, 150), Range(n2, 65535), Range(n2, 60)}
SomePlugged == {{a, b, lan}}

ClientSymmetry == Permutations(Clients)
=============================================================================
