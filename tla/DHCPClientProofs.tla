--------------------------- MODULE DHCPClientProofs ----------------------------
(***************************************************************************)
(* Proofs about DHCPClient: the inductive invariant ClientInv, the safety  *)
(* properties that follow from it and the refinement of DHCPService, for   *)
(* any set of callers and of offers.                                       *)
(***************************************************************************)
EXTENDS DHCPClient, TLAPS

\* The constructor establishes the invariant.
LEMMA InitInv == Init => ClientInv
<1> SUFFICES ASSUME Init PROVE ClientInv
  OBVIOUS
<1>1. TypeOK
  BY DEF Init, TypeOK, RunStates, PCs, Handed
<1>2. FreeInv /\ HeldInv /\ ObjectInv /\ OfferInv
  BY CallersAssumption
  DEF Init, FreeInv, HeldInv, ObjectInv, OfferInv, NeverOverwritesThread, Holds, InStart, InStop
<1> QED BY <1>1, <1>2 DEF ClientInv

\* The steps of the run thread keep the invariant.
LEMMA RunThreadInv ==
  ASSUME ClientInv, RunThread
  PROVE  ClientInv'
<1> USE DEF ClientInv, TypeOK, FreeInv, HeldInv, ObjectInv, OfferInv, NeverOverwritesThread, Holds,
            RunStates, InStart, InStop, RunAt
<1>1. CASE TestRunning
  BY <1>1 DEF TestRunning
<1>2. CASE ResolverExits
  BY <1>2 DEF ResolverExits
<1>11. CASE ResolverNotRun
  BY <1>11 DEF ResolverNotRun
<1>3. CASE Parse
  BY <1>3, OffersAssumption DEF Parse, Handed
<1>4. CASE CallbackReturns
  BY <1>4 DEF CallbackReturns
<1>5. CASE CallbackThrows
  BY <1>5 DEF CallbackThrows
<1>6. CASE NotifyTrigger
  BY <1>6 DEF NotifyTrigger, PCs
<1>7. CASE CheckRunning
  BY <1>7 DEF CheckRunning
<1>8. CASE EnterWait
  BY <1>8 DEF EnterWait
<1>9. CASE TimerExpires
  BY <1>9 DEF TimerExpires
<1> QED
  BY <1>1, <1>2, <1>3, <1>4, <1>5, <1>6, <1>7, <1>8, <1>9, <1>11 DEF RunThread

\* Calling a method keeps the invariant.
LEMMA CallInv ==
  ASSUME ClientInv, NEW c \in Callers,
         CallStart(c) \/ CallStop(c) \/ CallDestructor(c)
  PROVE  ClientInv'
<1> USE DEF ClientInv, TypeOK, FreeInv, HeldInv, ObjectInv, OfferInv, NeverOverwritesThread, Holds,
            InStart, InStop, PCs, At, Goto
<1>1. CASE CallStart(c)
  BY <1>1 DEF CallStart
<1>2. CASE CallStop(c)
  BY <1>2 DEF CallStop
<1>3. CASE CallDestructor(c)
  BY <1>3 DEF CallDestructor
<1> QED BY <1>1, <1>2, <1>3

\* The steps inside the methods keep the invariant.
LEMMA MethodInv ==
  ASSUME ClientInv, NEW c \in Callers, MethodStep(c)
  PROVE  ClientInv'
<1> USE CallersAssumption
    DEF ClientInv, TypeOK, FreeInv, HeldInv, ObjectInv, OfferInv, NeverOverwritesThread, Holds,
            RunStates, InStart, InStop, PCs, At, Goto
<1>1. CASE StartReturnsAtOnce(c)
  BY <1>1 DEF StartReturnsAtOnce
<1>2. CASE StartThread(c)
  BY <1>2 DEF StartThread
<1>3. CASE StartWaits(c)
  BY <1>3 DEF StartWaits
<1>4. CASE StartTimesOut(c)
  BY <1>4 DEF StartTimesOut
<1>5. CASE StartReturns(c)
  BY <1>5 DEF StartReturns
<1>6. CASE StopReturnsAtOnce(c)
  BY <1>6 DEF StopReturnsAtOnce, StopDone
<1>7. CASE StopClears(c)
  BY <1>7 DEF StopClears
<1>8. CASE StopNotifies(c)
  BY <1>8 DEF StopNotifies
<1>9. CASE StopWaits(c)
  BY <1>9 DEF StopWaits
<1>10. CASE StopTimesOut(c)
  BY <1>10 DEF StopTimesOut
<1>11. CASE StopJoins(c)
  BY <1>11 DEF StopJoins, StopDone
<1> QED
  BY <1>1, <1>2, <1>3, <1>4, <1>5, <1>6, <1>7, <1>8, <1>9, <1>10, <1>11
  DEF MethodStep

\* So every step keeps it.
LEMMA StepInv == ClientInv /\ [Next]_clientVars => ClientInv'
<1> SUFFICES ASSUME ClientInv, [Next]_clientVars PROVE ClientInv'
  OBVIOUS
<1>1. CASE UNCHANGED clientVars
  BY <1>1 DEF clientVars, ClientInv, TypeOK, FreeInv, HeldInv, ObjectInv, OfferInv,
              NeverOverwritesThread, Holds
<1>2. CASE Next
  BY <1>2, RunThreadInv, CallInv, MethodInv DEF Next
<1> QED BY <1>1, <1>2

\* ClientInv holds in every reachable state of a DHCPClient.
THEOREM ClientInvariant == Spec => []ClientInv
BY InitInv, StepInv, PTL DEF Spec

\* Every reachable state is type correct.
THEOREM TypeCorrect == Spec => []TypeOK
<1>1. ClientInv => TypeOK
  BY DEF ClientInv
<1> QED BY <1>1, ClientInvariant, PTL

\* No thread without an owner, whoever calls start() and stop() and in any
\* order: no thread outlives the last stop() that returned.
THEOREM ThreadAlwaysOwned == Spec => []ThreadOwned
<1>1. ClientInv => ThreadOwned
  BY DEF ClientInv, TypeOK, FreeInv, HeldInv, Holds, InStart, InStop, ThreadOwned
<1> QED BY <1>1, ClientInvariant, PTL

\* No thread and no caller uses a destroyed client.
THEOREM DestructionSafe == Spec => []NoUseAfterDestruction
<1>1. ClientInv => NoUseAfterDestruction
  BY DEF ClientInv, FreeInv, ObjectInv, NoUseAfterDestruction
<1> QED BY <1>1, ClientInvariant, PTL

\* start() never terminates the process by assigning to a joinable thread.
THEOREM NoThreadOverwritten == Spec => []NeverOverwritesThread
<1>1. ClientInv => NeverOverwritesThread
  BY DEF ClientInv, OfferInv
<1> QED BY <1>1, ClientInvariant, PTL

-----------------------------------------------------------------------------
(* The refinement of DHCPService. *)

\* The constructor is the service's initial state.
LEMMA RefineInit == Init => Service!Init
BY DEF Init, Service!Init, CallAt, InStart, InStop

\* A step of the run thread delivers an offer, or the service stutters.
LEMMA RefineRunThread ==
  ASSUME ClientInv, RunThread
  PROVE  [Service!Next]_(Service!vars)
<1> USE DEF ClientInv, TypeOK, OfferInv, Service!vars, InStart, InStop, RunAt
<1>1. CASE Parse
  <2>1. CASE answer \in BadOffers
    BY <1>1, <2>1 DEF Parse, CallAt
  <2>2. CASE answer \notin BadOffers
    <3>1. answer \in Offers
      BY <1>1 DEF Parse
    <3>2. Service!Deliver(answer)
      BY <1>1, <2>2 DEF Parse, Service!Deliver, CallAt
    <3> QED BY <3>1, <3>2 DEF Service!Next
  <2> QED BY <2>1, <2>2
<1>2. CASE NotifyTrigger
  <2>1. \A c \in Callers : CallAt(pc[c])' = CallAt(pc[c])
    BY <1>2 DEF NotifyTrigger, CallAt
  <2> QED BY <1>2, <2>1 DEF NotifyTrigger
<1>3. CASE TestRunning \/ ResolverExits \/ ResolverNotRun \/ CallbackReturns \/ CallbackThrows
           \/ CheckRunning \/ EnterWait \/ TimerExpires
  BY <1>3 DEF TestRunning, ResolverExits, ResolverNotRun, CallbackReturns, CallbackThrows,
              CheckRunning, EnterWait, TimerExpires, CallAt
<1> QED BY <1>1, <1>2, <1>3 DEF RunThread

\* A caller that stays within one abstract call state makes the service stutter
\* if it leaves the thread, the deliveries and the lifetime alone.
LEMMA CallUpdate ==
  ASSUME ClientInv, NEW c \in Callers, NEW l \in PCs, Goto(c, l)
  PROVE  [d \in Callers |-> CallAt(pc[d])]' =
           [[d \in Callers |-> CallAt(pc[d])] EXCEPT ![c] = CallAt(l)]
BY DEF ClientInv, TypeOK, Goto

\* Calling a method invokes the service.
LEMMA RefineCall ==
  ASSUME ClientInv, NEW c \in Callers,
         CallStart(c) \/ CallStop(c) \/ CallDestructor(c)
  PROVE  Service!Next
<1> USE DEF At
<1> DEFINE calls == [d \in Callers |-> CallAt(pc[d])]
<1>1. \A d \in Callers : pc[d] = "idle" => calls[d] = "idle"
  BY DEF CallAt, InStart
<1>2. CallAt("start") = "starting" /\ CallAt("stop") = "stopping"
  BY DEF CallAt, InStart
<1>3. CASE CallStart(c)
  <2>1. calls' = [calls EXCEPT ![c] = "starting"]
    BY <1>2, <1>3, CallUpdate DEF CallStart, PCs
  <2>2. Service!Invoke(c)
    BY <1>1, <1>3, <2>1 DEF CallStart, Service!Invoke
  <2> QED BY <2>2 DEF Service!Next
<1>4. CASE CallStop(c)
  <2>1. calls' = [calls EXCEPT ![c] = "stopping"]
    BY <1>2, <1>4, CallUpdate DEF CallStop, PCs
  <2>2. Service!Invoke(c)
    BY <1>1, <1>4, <2>1 DEF CallStop, Service!Invoke
  <2> QED BY <2>2 DEF Service!Next
<1>5. CASE CallDestructor(c)
  <2>1. calls' = [calls EXCEPT ![c] = "stopping"]
    BY <1>2, <1>5, CallUpdate DEF CallDestructor, PCs
  <2>2. Service!InvokeDestructor(c)
    BY <1>1, <1>5, <2>1 DEF CallDestructor, Service!InvokeDestructor
  <2> QED BY <2>2 DEF Service!Next
<1> QED BY <1>3, <1>4, <1>5

\* start() activates the service when it creates the thread, stop() deactivates
\* it when it joins; the other steps stutter or return.
LEMMA RefineMethod ==
  ASSUME ClientInv, NEW c \in Callers, MethodStep(c)
  PROVE  [Service!Next]_(Service!vars)
<1> USE DEF PCs, InStart, InStop, At
<1>1. CASE StartReturnsAtOnce(c) \/ StartReturns(c)
  <2>1. Service!StartReturns(c)
    BY <1>1, CallUpdate
    DEF StartReturnsAtOnce, StartReturns, Service!StartReturns, CallAt, ClientInv, FreeInv
  <2> QED BY <2>1 DEF Service!Next
<1>2. CASE StartThread(c)
  <2>1. run = "none" /\ run' = "test"
    BY <1>2 DEF StartThread, ClientInv, FreeInv
  <2>2. Service!Activate(c)
    BY <1>2, <2>1, CallUpdate DEF StartThread, Service!Activate, CallAt
  <2> QED BY <2>2 DEF Service!Next
<1>3. CASE StopReturnsAtOnce(c)
  <2>1. Service!StopReturns(c)
    BY <1>3, CallUpdate
    DEF StopReturnsAtOnce, StopDone, Service!StopReturns, CallAt, ClientInv, FreeInv
  <2> QED BY <2>1 DEF Service!Next
<1>4. CASE StopJoins(c)
  <2>1. Service!StopReturns(c)
    BY <1>4, CallUpdate DEF StopJoins, StopDone, Service!StopReturns, CallAt
  <2> QED BY <2>1 DEF Service!Next
<1>5. CASE StartWaits(c) \/ StartTimesOut(c) \/ StopClears(c) \/ StopNotifies(c)
           \/ StopWaits(c) \/ StopTimesOut(c)
  <2>1. PICK l \in PCs : Goto(c, l) /\ UNCHANGED <<handed, object>>
    BY <1>5 DEF StartWaits, StartTimesOut, StopClears, StopNotifies, StopWaits, StopTimesOut
  <2>2. [d \in Callers |-> CallAt(pc[d])]' = [d \in Callers |-> CallAt(pc[d])]
    BY <1>5 DEF ClientInv, TypeOK, CallAt, Goto, StartWaits, StartTimesOut, StopClears,
                StopNotifies, StopWaits, StopTimesOut
  <2>3. (run # "none")' = (run # "none")
    BY <1>5 DEF StartWaits, StartTimesOut, StopClears, StopNotifies, StopWaits, StopTimesOut
  <2> QED BY <2>1, <2>2, <2>3 DEF Service!vars
<1> QED BY <1>1, <1>2, <1>3, <1>4, <1>5 DEF MethodStep

\* Every step of the client is a step of the service or leaves it alone.
LEMMA RefineStep == ClientInv /\ [Next]_clientVars => [Service!Next]_(Service!vars)
<1> SUFFICES ASSUME ClientInv, [Next]_clientVars PROVE [Service!Next]_(Service!vars)
  OBVIOUS
<1>1. CASE UNCHANGED clientVars
  BY <1>1 DEF clientVars, Service!vars, CallAt
<1>2. CASE Next
  BY <1>2, RefineRunThread, RefineCall, RefineMethod DEF Next
<1> QED BY <1>1, <1>2

\* A DHCPClient with its thread, flag, mutex and condition variables implements
\* the service: in particular no offer is delivered after stop() returned.
THEOREM ClientImplementsService == Spec => ImplementsService
<1>1. Init => Service!Init
  BY RefineInit
<1>2. ClientInv /\ [Next]_clientVars => [Service!Next]_(Service!vars)
  BY RefineStep
<1> QED BY <1>1, <1>2, ClientInvariant, PTL DEF Spec, ImplementsService, Service!Spec
=============================================================================
