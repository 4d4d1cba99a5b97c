------------------------- MODULE MCEthernetController --------------------------
(* Instances of EthernetController for TLC. *)
EXTENDS EthernetController, TLC

CallerSymmetry == Permutations(Callers)
=============================================================================
