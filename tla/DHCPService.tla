----------------------------- MODULE DHCPService ------------------------------
(***************************************************************************)
(* What a DHCPClient promises to the code that owns it, without its        *)
(* thread, its flag or its condition variables: between the effect of a    *)
(* start() and the effect of the next stop() the client is active and may  *)
(* deliver offers; outside, it delivers nothing.  Each call takes effect   *)
(* at one moment between its invocation and its return, and the end of the *)
(* destructor finds the client inactive for good.                          *)
(***************************************************************************)
CONSTANTS Callers, Offers, None

VARIABLES
  active,      \* may offers be delivered?
  call,        \* what each caller is doing
  delivered,   \* the last delivery: an offer and the DNS servers known with it
  lifetime     \* "alive", "dying" in the destructor, "destroyed"

vars == <<active, call, delivered, lifetime>>

Calls == {"idle", "starting", "started", "stopping"}

Init ==
  /\ active = FALSE
  /\ call = [c \in Callers |-> "idle"]
  /\ delivered = [offer |-> None, dns |-> {}]
  /\ lifetime = "alive"

Invoke(c) ==
  /\ lifetime = "alive"
  /\ call[c] = "idle"
  /\ \/ call' = [call EXCEPT ![c] = "starting"]
     \/ call' = [call EXCEPT ![c] = "stopping"]
  /\ UNCHANGED <<active, delivered, lifetime>>

InvokeDestructor(c) ==
  /\ lifetime = "alive"
  /\ \A d \in Callers : call[d] = "idle"
  /\ lifetime' = "dying"
  /\ call' = [call EXCEPT ![c] = "stopping"]
  /\ UNCHANGED <<active, delivered>>

\* A start() that finds the client inactive activates it, and returns later.
Activate(c) ==
  /\ call[c] = "starting"
  /\ ~active
  /\ active' = TRUE
  /\ call' = [call EXCEPT ![c] = "started"]
  /\ UNCHANGED <<delivered, lifetime>>

\* A start() returns once the client is active, whoever activated it.
StartReturns(c) ==
  /\ \/ call[c] = "started"
     \/ call[c] = "starting" /\ active
  /\ call' = [call EXCEPT ![c] = "idle"]
  /\ UNCHANGED <<active, delivered, lifetime>>

\* A stop() returns with the client inactive; the destructor destroys it then.
StopReturns(c) ==
  /\ call[c] = "stopping"
  /\ active' = FALSE
  /\ call' = [call EXCEPT ![c] = "idle"]
  /\ lifetime' = IF lifetime = "dying" THEN "destroyed" ELSE lifetime
  /\ UNCHANGED delivered

\* Only an active client delivers.  The servers delivered are those of every
\* offer of the client's life.
Deliver(o) ==
  /\ active
  /\ delivered' = [offer |-> o, dns |-> delivered.dns \cup {o}]
  /\ UNCHANGED <<active, call, lifetime>>

Next ==
  \/ \E c \in Callers : Invoke(c) \/ InvokeDestructor(c) \/ Activate(c)
                        \/ StartReturns(c) \/ StopReturns(c)
  \/ \E o \in Offers : Deliver(o)

Spec == Init /\ [][Next]_vars
=============================================================================
