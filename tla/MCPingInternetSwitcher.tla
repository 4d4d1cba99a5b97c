------------------------ MODULE MCPingInternetSwitcher -------------------------
(* Instances of PingInternetSwitcher for TLC: two interfaces, a and b. *)
EXTENDS PingInternetSwitcher, TLC

CONSTANTS a, b, ghost, v1, v2

ListsBothOrders == {<<a, b>>, <<b, a>>}
ListsOneOrder   == {<<a, b>>}
ListsWithGhost  == {<<ghost, a, b>>, <<b, a>>}

\* Nothing tells one router address of an interface from another.
VersionSymmetry == Permutations(Versions)
=============================================================================
