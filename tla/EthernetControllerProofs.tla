----------------------- MODULE EthernetControllerProofs ------------------------
(***************************************************************************)
(* Proofs about EthernetController: it drives its DHCPClient only through  *)
(* steps of DHCPClient, so what is proved of the client holds inside the   *)
(* controller; from that, which configuration an interface may keep.       *)
(***************************************************************************)
EXTENDS EthernetController, DHCPClientProofs

\* A step of the controller is a step of the client or leaves it alone.
LEMMA ClientStep == [ControllerNext]_vars => [Next]_clientVars
<1> SUFFICES ASSUME [ControllerNext]_vars PROVE [Next]_clientVars
  OBVIOUS
<1>1. CASE UNCHANGED vars
  BY <1>1 DEF vars
<1>2. CASE ThreadStep
  BY <1>2 DEF ThreadStep, Next, RunThread
<1>3. CASE CallbackStep
  BY <1>3 DEF CallbackStep, CallbackBegins, CallbackSetIP, CallbackSetIPFails, CallbackSetGW,
              CallbackSetDNS, Next, RunThread
<1>4. CASE \E c \in Callers : SetStatic(c) \/ UseDHCP(c) \/ Destroy(c) \/ InsideClient(c)
  BY <1>4 DEF SetStatic, UseDHCP, Destroy, InsideClient, Next
<1>5. CASE \E c \in Callers : ConfigureStep(c)
  BY <1>5 DEF ConfigureStep, StaticSetIP, StaticSetIPFails, StaticSetGW, StaticSetDNS
<1> QED BY <1>1, <1>2, <1>3, <1>4, <1>5 DEF ControllerNext

\* A controller behaves, seen from its client, as any callers of the client do.
THEOREM ControllerImplementsClient == ControllerSpec => Spec
<1>1. ControllerInit => Init
  BY DEF ControllerInit
<1> QED BY <1>1, ClientStep, PTL DEF ControllerSpec, Spec

-----------------------------------------------------------------------------
\* A new controller.
LEMMA ControllerInitInv == ControllerInit => ControllerInv
<1> SUFFICES ASSUME ControllerInit PROVE ControllerInv
  OBVIOUS
<1>1. ControllerTypeOK
  <2>1. TypeOK
    BY InitInv DEF ControllerInit, ClientInv
  <2> QED BY <2>1 DEF ControllerInit, ControllerTypeOK, Sources
<1>2. Writers = {}
  BY DEF ControllerInit, Writers
<1>3. BelongsTogether
  BY OffersAssumption, CallersAssumption DEF ControllerInit, BelongsTogether
<1> QED
  BY <1>1, <1>2, <1>3 DEF ControllerInit, ControllerInv, WritingInv, Overlap, Consistent,
                          Nowhere

\* Type correctness of the client's part of the state.
LEMMA ControllerTypeStep ==
  ASSUME ControllerTypeOK, TypeOK', ControllerNext
  PROVE  ControllerTypeOK'
<1> USE DEF ControllerTypeOK, Sources, Fields
<1>1. CASE ThreadStep
  BY <1>1 DEF ThreadStep
<1>2. CASE CallbackStep
  <2>1. handed.offer \in Sources /\ handed.dns \subseteq Sources
    BY DEF TypeOK, Handed
  <2>2. overlapped' \in BOOLEAN
    BY <1>2 DEF CallbackStep, CallbackBegins, CallbackSetIP, CallbackSetIPFails,
                CallbackSetGW, CallbackSetDNS
  <2> QED
    BY <1>2, <2>1, <2>2 DEF CallbackStep, CallbackBegins, CallbackSetIP, CallbackSetIPFails,
                       CallbackSetGW, CallbackSetDNS
<1>3. ASSUME NEW c \in Callers, SetStatic(c) \/ UseDHCP(c) \/ Destroy(c)
      PROVE  ControllerTypeOK'
  BY <1>3 DEF SetStatic, UseDHCP, Destroy
<1>4. ASSUME NEW c \in Callers, InsideClient(c)
      PROVE  ControllerTypeOK'
  <2>1. overlapped' \in BOOLEAN
    BY <1>4 DEF InsideClient
  <2> QED BY <1>4, <2>1 DEF InsideClient
<1>5. ASSUME NEW c \in Callers, ConfigureStep(c)
      PROVE  ControllerTypeOK'
  BY <1>5 DEF ConfigureStep, StaticSetIP, StaticSetIPFails, StaticSetGW, StaticSetDNS
<1> QED BY <1>1, <1>2, <1>3, <1>4, <1>5 DEF ControllerNext

\* A method in progress does not stand at "idle", and moves its caller alone.
LEMMA MethodMoves ==
  ASSUME TypeOK, NEW c \in Callers,
         CallStart(c) \/ CallStop(c) \/ CallDestructor(c) \/ MethodStep(c)
  PROVE  /\ \A d \in Callers \ {c} : pc'[d] = pc[d]
         /\ MethodStep(c) => pc[c] # "idle"
         /\ handed' = handed
         /\ run = "callback" => run' = "callback"
BY DEF CallStart, CallStop, CallDestructor, MethodStep, StartReturnsAtOnce, StartThread,
       StartWaits, StartTimesOut, StartReturns, StopReturnsAtOnce, StopClears, StopNotifies,
       StopWaits, StopTimesOut, StopJoins, StopDone, At, Goto, TypeOK

\* Every step keeps the invariant.
LEMMA ControllerStepInv ==
  ASSUME ControllerInv, ClientInv, ClientInv', [ControllerNext]_vars
  PROVE  ControllerInv'
<1> USE DEF ControllerInv, WritingInv, Overlap, Writers, Consistent, Nowhere
<1>0. UNCHANGED iface /\ BelongsTogether => BelongsTogether'
  BY DEF BelongsTogether
<1>1. CASE UNCHANGED vars
  BY <1>0, <1>1 DEF vars, clientVars, controllerVars, ControllerTypeOK, TypeOK
<1>2. ControllerNext => ControllerTypeOK'
  BY ControllerTypeStep DEF ClientInv
<1> USE DEF ControllerTypeOK
<1>3. CASE ThreadStep
  <2>1. UNCHANGED <<controllerVars, handed>>
    BY <1>3 DEF ThreadStep, controllerVars, TestRunning, ResolverExits, ResolverNotRun, NotifyTrigger,
                CheckRunning, EnterWait, TimerExpires
  <2>2. \A c \in Callers : pc[c] = "idle" => pc'[c] = "idle"
    BY <1>3 DEF ThreadStep, TypeOK, TestRunning, ResolverExits, ResolverNotRun, NotifyTrigger,
                CheckRunning, EnterWait, TimerExpires
  <2>3. run # "callback"
    BY <1>3 DEF ThreadStep, RunAt, TestRunning, ResolverExits, ResolverNotRun, NotifyTrigger,
                CheckRunning, EnterWait, TimerExpires
  <2> QED BY <1>0, <1>2, <1>3, <2>1, <2>2, <2>3 DEF ControllerNext, controllerVars
<1>4. CASE CallbackBegins
  <2>1. run # "callback" /\ pc' = pc /\ cbWriting' \in {"ip", Nowhere}
        /\ (cbWriting' # Nowhere => run' = "callback")
    BY <1>4 DEF CallbackBegins, Parse, RunAt
  <2>3. cbWriting' # Nowhere => handed'.offer \in Offers /\ handed'.offer \in handed'.dns
    BY <1>4 DEF CallbackBegins, Parse, RunAt, ClientInv, OfferInv
  <2>2. cbWriting = Nowhere
    BY <2>1
  <2> QED BY <1>0, <1>2, <1>4, <2>1, <2>2, <2>3 DEF CallbackBegins, ControllerNext, CallbackStep
<1>5. CASE CallbackSetIP \/ CallbackSetGW
  BY <1>2, <1>5 DEF CallbackSetIP, CallbackSetGW, clientVars, ControllerNext, CallbackStep
<1>6. CASE CallbackSetIPFails
  BY <1>0, <1>2, <1>6 DEF CallbackSetIPFails, CallbackThrows, ControllerNext, CallbackStep
<1>7. CASE CallbackSetDNS
  <2>1. handed.dns \subseteq Offers
    BY DEF ClientInv, TypeOK, Handed
  <2>2. cbWriting = "dns" /\ cbWriting' = Nowhere /\ UNCHANGED <<method, writing, overlapped, pc>>
    BY <1>7 DEF CallbackSetDNS, CallbackReturns
  <2>3. iface' = [iface EXCEPT !.dns = handed.dns]
    BY <1>7 DEF CallbackSetDNS
  <2>4. ~overlapped => BelongsTogether'
    BY <2>1, <2>2, <2>3, OffersAssumption, SourcesAssumption DEF BelongsTogether
  <2> QED BY <1>2, <1>7, <2>2, <2>3, <2>4 DEF ControllerNext, CallbackStep
<1>8. ASSUME NEW c \in Callers, SetStatic(c) \/ UseDHCP(c) \/ Destroy(c)
      PROVE  ControllerInv'
  <2>1. CallStart(c) \/ CallStop(c) \/ CallDestructor(c)
    BY <1>8 DEF SetStatic, UseDHCP, Destroy
  <2>2. method[c] = "none" /\ \A d \in Callers \ {c} : method'[d] = method[d]
    BY <1>8 DEF SetStatic, UseDHCP, Destroy
  <2>3. UNCHANGED <<writing, cbWriting, iface, overlapped>>
    BY <1>8 DEF SetStatic, UseDHCP, Destroy
  <2> QED BY <1>0, <1>2, <1>8, <2>1, <2>2, <2>3, MethodMoves DEF ControllerNext
<1>9. ASSUME NEW c \in Callers, InsideClient(c)
      PROVE  ControllerInv'
  <2>1. MethodStep(c) /\ writing[c] = Nowhere
    BY <1>9, MethodMoves DEF InsideClient
  <2>2. CASE pc'[c] = "idle" /\ method[c] = "setStatic"
    <3>1. /\ writing' = [writing EXCEPT ![c] = "ip"]
          /\ UNCHANGED <<method, cbWriting, iface, handed>>
          /\ overlapped' = (overlapped \/ Overlap')
      BY <1>9, <2>1, <2>2, MethodMoves DEF InsideClient
    <3>2. WritingInv'
      BY <2>1, <2>2, <3>1, MethodMoves
    <3>3. Consistent => Consistent'
      BY <1>0, <2>1, <3>1
    <3>4. ~overlapped' => ~overlapped /\ ~Overlap'
      BY <3>1
    <3> QED BY <1>2, <1>9, <3>2, <3>3, <3>4 DEF ControllerNext
  <2>3. CASE ~(pc'[c] = "idle" /\ method[c] = "setStatic")
    BY <1>0, <1>2, <1>9, <2>1, <2>3, MethodMoves DEF InsideClient, ControllerNext
  <2> QED BY <2>2, <2>3
<1>10. ASSUME NEW c \in Callers, ConfigureStep(c)
       PROVE  ControllerInv'
  <2>1. CASE StaticSetIPFails(c)
    BY <1>0, <1>2, <1>10, <2>1 DEF StaticSetIPFails, clientVars, ControllerNext
  <2>2. CASE StaticSetIP(c) \/ StaticSetGW(c)
    BY <1>2, <1>10, <2>2 DEF StaticSetIP, StaticSetGW, clientVars, ControllerNext
  <2>3. CASE StaticSetDNS(c)
    <3>1. ~overlapped => BelongsTogether'
      BY <2>3, CallersAssumption, SourcesAssumption DEF StaticSetDNS, BelongsTogether
    <3> QED BY <1>2, <1>10, <2>3, <3>1 DEF StaticSetDNS, clientVars, ControllerNext
  <2> QED BY <1>10, <2>1, <2>2, <2>3 DEF ConfigureStep
<1> QED
  BY <1>1, <1>3, <1>4, <1>5, <1>6, <1>7, <1>8, <1>9, <1>10 DEF ControllerNext, CallbackStep

\* ControllerInv holds in every reachable state of a controller.
THEOREM ControllerInvariant == ControllerSpec => []ControllerInv
<1>1. ControllerSpec => []ClientInv
  BY ControllerImplementsClient, ClientInvariant, PTL
<1> QED BY <1>1, ControllerInitInv, ControllerStepInv, PTL DEF ControllerSpec

\* Every reachable state is type correct.
THEOREM ControllerTypeCorrect == ControllerSpec => []ControllerTypeOK
<1>1. ControllerInv => ControllerTypeOK
  BY DEF ControllerInv
<1> QED BY <1>1, ControllerInvariant, PTL

\* Address, gateway and name servers of an interface are never of two
\* configurations, unless executions of configureInterface overlapped.
THEOREM NeverTorn == ControllerSpec => []NoTornConfiguration
<1>1. ControllerInv => NoTornConfiguration
  BY DEF ControllerInv, Consistent, NoTornConfiguration, WholeWhenQuiet, Writers, Nowhere
<1> QED BY <1>1, ControllerInvariant, PTL

\* What a lock around configureInterface would give: where its executions never
\* overlap, an interface nobody is writing to always holds one configuration.
THEOREM LockedIsWhole == ControllerSpec /\ []~Overlap => []WholeWhenQuiet
<1> DEFINE Apart == ~overlapped
<1>1. ControllerInit => Apart
  BY DEF ControllerInit
<1>2. Apart /\ (~Overlap)' /\ [ControllerNext]_vars => Apart'
  BY DEF ControllerNext, ThreadStep, CallbackStep, CallbackBegins, CallbackSetIP,
         CallbackSetIPFails, CallbackSetGW, CallbackSetDNS, SetStatic, UseDHCP, Destroy,
         InsideClient, ConfigureStep, StaticSetIP, StaticSetIPFails, StaticSetGW,
         StaticSetDNS, vars, controllerVars
<1>3. NoTornConfiguration /\ Apart => WholeWhenQuiet
  BY DEF NoTornConfiguration
<1> QED BY <1>1, <1>2, <1>3, NeverTorn, PTL DEF ControllerSpec

\* No DHCP answer reaches the interface behind a stop() that returned.
THEOREM StopSilencesDHCP == ControllerSpec => NoDHCPBehindStop
<1>1. ControllerInv /\ ClientInv /\ [ControllerNext]_vars
        => [DHCPWrites => running \/ \E c \in Callers : pc[c] \in InStop]_vars
  <2> SUFFICES ASSUME ControllerInv, ClientInv, ControllerNext, DHCPWrites
               PROVE  running \/ \E c \in Callers : pc[c] \in InStop
    OBVIOUS
  <2>1. iface' # iface
    BY DEF DHCPWrites
  <2>2. CASE CallbackStep
    BY <2>1, <2>2 DEF CallbackStep, CallbackBegins, CallbackSetIP, CallbackSetIPFails,
       CallbackSetGW, CallbackSetDNS, Nowhere, ControllerInv, WritingInv, ClientInv,
       TypeOK, FreeInv, HeldInv, Holds, InStart, InStop
  <2>3. ASSUME NEW c \in Callers, ConfigureStep(c)
        PROVE  FALSE
    BY <2>3, SourcesAssumption DEF ConfigureStep, StaticSetIP, StaticSetIPFails,
       StaticSetGW, StaticSetDNS, ControllerInv, ControllerTypeOK, DHCPWrites
  <2>4. CASE ThreadStep
    BY <2>1, <2>4 DEF ThreadStep
  <2>5. ASSUME NEW c \in Callers,
               SetStatic(c) \/ UseDHCP(c) \/ Destroy(c) \/ InsideClient(c)
        PROVE  FALSE
    BY <2>1, <2>5 DEF SetStatic, UseDHCP, Destroy, InsideClient
  <2> QED BY <2>2, <2>3, <2>4, <2>5 DEF ControllerNext
<1>2. ControllerSpec => []ClientInv
  BY ControllerImplementsClient, ClientInvariant, PTL
<1> QED BY <1>1, <1>2, ControllerInvariant, PTL DEF ControllerSpec, NoDHCPBehindStop
=============================================================================
