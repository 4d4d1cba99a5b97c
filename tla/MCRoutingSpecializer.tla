------------------------- MODULE MCRoutingSpecializer --------------------------
(* Instances of RoutingSpecializer for TLC: two interfaces, a and b. *)
EXTENDS RoutingSpecializer, TLC

CONSTANTS a, b, ghost, x

\* What a client asks for: a destination over both interfaces, or over an unknown
\* name; and one interface or the other.
SomeRequests == {a :> {x} @@ b :> {x}, ghost :> {x}}
OneOrTheOther == {a :> {x}, b :> {x}}

Alphabetical == a :> 1 @@ b :> 2 @@ ghost :> 3

ClientSymmetry == Permutations(Clients)
=============================================================================
