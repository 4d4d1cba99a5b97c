----------------------------- MODULE SharedObjects -----------------------------
(***************************************************************************)
(* What the plugins rely on when they share objects by std::shared_ptr: an *)
(* object is constructed once and for all, lives while somebody refers to  *)
(* it, and is destroyed once, by the thread that let go of it last.  An    *)
(* object that nobody refers to is never referred to again.                *)
(***************************************************************************)
CONSTANT Objects

VARIABLES
  made,   \* objects whose constructor has ended
  held,   \* objects that a shared_ptr refers to
  dying   \* objects that lost their last reference and are being destroyed

vars == <<made, held, dying>>

Init == made = {} /\ held = {} /\ dying = {}

\* A constructor returns, and its caller has the first reference,
Make(x) ==
  /\ x \notin made
  /\ made' = made \cup {x}
  /\ held' = held \cup {x}
  /\ UNCHANGED dying

\* or throws.
Throw(x) ==
  /\ x \notin made
  /\ made' = made \cup {x}
  /\ UNCHANGED <<held, dying>>

\* The last references to some objects go.  The destructor of each follows, if
\* it is not part of the same step.
LetGo(X) ==
  /\ X \subseteq held
  /\ held' = held \ X
  /\ \E Y \in SUBSET X : dying' = dying \cup Y
  /\ UNCHANGED made

Destroy(x) ==
  /\ x \in dying
  /\ dying' = dying \ {x}
  /\ UNCHANGED <<made, held>>

\* The process ends, with all that is in its memory.
Exit == made' = {} /\ held' = {} /\ dying' = {}

Next ==
  \/ \E x \in Objects : Make(x) \/ Throw(x) \/ Destroy(x)
  \/ \E X \in SUBSET Objects : LetGo(X)
  \/ Exit

Spec == Init /\ [][Next]_vars
=============================================================================
