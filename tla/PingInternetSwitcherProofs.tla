---------------------- MODULE PingInternetSwitcherProofs -----------------------
(***************************************************************************)
(* Proofs about PingInternetSwitcher: no route without its owner, and a    *)
(* destructor that leaves behind only what a command failed to delete, for *)
(* any set of interfaces, any priority lists and any way the networks      *)
(* behave.                                                                 *)
(***************************************************************************)
EXTENDS PingInternetSwitcher, TLAPS

\* An element of a priority list is a name.
LEMMA CopyNames ==
  ASSUME TypeOK
  PROVE  copy \in Seq(Names) /\ \A k \in 1..Len(copy) : copy[k] \in Names
<1>1. copy \in Lists \cup {<<>>}
  BY DEF TypeOK
<1>2. Lists \subseteq Seq(Names) /\ <<>> \in Seq(Names)
  BY ListsAssumption
<1>3. copy \in Seq(Names)
  BY <1>1, <1>2
<1> QED BY <1>3

\* No route is set at first.
LEMMA InitRouteInv == Init => RouteInv
<1> SUFFICES ASSUME Init PROVE RouteInv
  OBVIOUS
<1>1. TypeOK
  <2>1. running \in BOOLEAN /\ kills \in 0..MaxKills
    BY ScenarioAssumption DEF Init, InitProcess
  <2>2. lan \in [Interfaces -> Gateways \cup {None}] /\ gateway = lan
    BY DEF Init
  <2>3. kernel \in [Destinations -> Gateways \cup {None}] /\ next \in Nat \ {0}
    BY DEF Init, InitProcess, Destinations
  <2>4. answered \in BOOLEAN
    BY DEF Init, InitProcess
  <2> QED BY <2>1, <2>2, <2>3, <2>4 DEF Init, InitProcess, TypeOK, RunStates
<1>2. RouteOwned /\ ProbeIsTransient /\ LifeInv
  BY DEF Init, InitProcess, RouteOwned, Ownerless, ProbeIsTransient, LifeInv, Destinations, SettingUp
<1> QED BY <1>1, <1>2 DEF RouteInv

\* The object's methods keep the invariant.
LEMMA MethodsInv ==
  ASSUME RouteInv, Methods
  PROVE  RouteInv'
<1> USE DEF RouteInv, TypeOK, RouteOwned, ProbeIsTransient, LifeInv, RunStates, SettingUp,
            Destinations, Ownerless, threadVars, ruleVars, kernelVars, networkVars
<1>1. CASE Configure
  BY <1>1 DEF Configure
<1>2. CASE Exec
  <2>1. CASE running
    BY <1>2, <2>1 DEF Exec
  <2>2. CASE ~running
    BY <1>2, <2>2 DEF Exec
  <2> QED BY <2>1, <2>2
<1>3. CASE DestroyIdle
  BY <1>3 DEF DestroyIdle, MembersDestroyed
<1>4. CASE DestroyRunning
  <2>1. CASE run = "none"
    <3>1. /\ running' = FALSE /\ object' = "terminated"
          /\ UNCHANGED <<interfaces, current_interface, ruleVars, dns_file, threadVars,
                         kernelVars, dns_loaded, networkVars, kills>>
      BY <1>4, <2>1 DEF DestroyRunning
    <3>2. TypeOK'
      <4> HIDE DEF RouteInv, RouteOwned, ProbeIsTransient, LifeInv, SettingUp, Destinations
      <4>1. running' \in BOOLEAN /\ object' \in {"new", "exec", "joining", "destroyed", "terminated"}
        BY <3>1
      <4>2. TypeOK
        BY DEF RouteInv
      <4> QED BY <3>1, <4>1, <4>2
    <3>3. RouteOwned' /\ ProbeIsTransient' /\ LifeInv'
      BY <2>1, <3>1
    <3> QED BY <3>2, <3>3
  <2>2. CASE run # "none"
    <3>1. /\ running' = FALSE /\ object' = "joining"
          /\ UNCHANGED <<interfaces, current_interface, ruleVars, dns_file, threadVars,
                         kernelVars, dns_loaded, networkVars, kills>>
      BY <1>4, <2>2 DEF DestroyRunning
    <3>3. TypeOK'
      <4> HIDE DEF RouteInv, RouteOwned, ProbeIsTransient, LifeInv, SettingUp, Destinations
      <4>1. running' \in BOOLEAN /\ object' \in {"new", "exec", "joining", "destroyed", "terminated"}
        BY <3>1
      <4>2. TypeOK
        BY DEF RouteInv
      <4> QED BY <3>1, <4>1, <4>2
    <3>2. RouteOwned' /\ ProbeIsTransient' /\ LifeInv'
      BY <1>4, <2>2 DEF DestroyRunning
    <3> QED BY <3>2, <3>3
  <2> QED BY <2>1, <2>2
<1>5. CASE Join
  BY <1>5 DEF Join, MembersDestroyed
<1> QED BY <1>1, <1>2, <1>3, <1>4, <1>5 DEF Methods

\* So do the steps of the thread.
LEMMA ThreadInv ==
  ASSUME RouteInv, RunThread
  PROVE  RouteInv'
<1> USE DEF RouteInv, TypeOK, RouteOwned, ProbeIsTransient, LifeInv, RunStates, SettingUp,
            Ownerless, objectVars, ruleVars, kernelVars, networkVars, Continue
<1>1. CASE TestRunning
  <2>1. CASE running
    BY <1>1, <2>1 DEF TestRunning
  <2>2. CASE ~running
    <3>1. /\ run = "test" /\ run' = "ended" /\ default_gw' = None
          /\ UNCHANGED <<objectVars, ruleVars, copy, next, name, ping_route, answered, failed,
                         leftover, dns_loaded, networkVars, kills>>
      BY <1>1, <2>2 DEF TestRunning
    <3>2. CASE kernel' = Deleted("default", default_gw) /\ undeleted' = undeleted
      BY <3>1, <3>2 DEF Deleted, Destinations
    <3>3. CASE undeleted' = undeleted \cup {"default"} /\ kernel' = kernel
      BY <3>1, <3>3 DEF Destinations
    <3> QED BY <1>1, <2>2, <3>2, <3>3 DEF TestRunning, Delete
  <2> QED BY <2>1, <2>2
<1>2. CASE CopyInterfaces
  BY <1>2 DEF CopyInterfaces
<1>3. CASE Pick
  <2>1. CASE next > Len(copy)
    BY <1>3, <2>1 DEF Pick
  <2>2. CASE ~(next > Len(copy))
    <3>1. copy \in Seq(Names) /\ \A k \in 1..Len(copy) : copy[k] \in Names
      BY CopyNames
    <3>2. next \in 1..Len(copy) /\ copy[next] \in Names
      BY <2>2, <3>1
    <3>3. name' = copy[next] /\ next' = next + 1
      BY <1>3, <2>2 DEF Pick
    <3>4. CASE copy[next] \in Interfaces
      BY <1>3, <2>2, <3>2, <3>3, <3>4 DEF Pick
    <3>5. CASE copy[next] \notin Interfaces
      BY <1>3, <2>2, <3>2, <3>3, <3>5 DEF Pick
    <3> QED BY <3>4, <3>5
  <2> QED BY <2>1, <2>2
<1>4. CASE AddPingRoute
  BY <1>4 DEF AddPingRoute, CanAdd, Destinations, Names
<1>5. CASE Ping
  BY <1>5 DEF Ping, Reaches
<1>6. CASE DropPingRoute
  <2>1. CASE undeleted' = undeleted \cup {"ping"} /\ UNCHANGED kernel
    BY <1>6, <2>1 DEF DropPingRoute, Destinations, Names
  <2>2. CASE kernel' = Deleted("ping", ping_route) /\ UNCHANGED undeleted
    BY <1>6, <2>2 DEF DropPingRoute, Deleted, Destinations, Names
  <2> QED BY <1>6, <2>1, <2>2 DEF DropPingRoute, Delete
<1>7. CASE DropDefault
  <2>1. CASE undeleted' = undeleted \cup {"default"} /\ UNCHANGED kernel
    BY <1>7, <2>1 DEF DropDefault, Destinations
  <2>2. CASE kernel' = Deleted("default", default_gw) /\ UNCHANGED undeleted
    BY <1>7, <2>2 DEF DropDefault, Deleted, Destinations
  <2> QED BY <1>7, <2>1, <2>2 DEF DropDefault, Delete
<1>8. CASE AddDefault
  BY <1>8 DEF AddDefault, CanAdd, Destinations, Names
<1>9. CASE AddMasquerade
  BY <1>9 DEF AddMasquerade, Names
<1>10. CASE AddDNS
  BY <1>10 DEF AddDNS, Names
<1>11. CASE ReloadDNS
  BY <1>11 DEF ReloadDNS
<1>12. CASE Sleep
  BY <1>12 DEF Sleep
<1> QED
  BY <1>1, <1>2, <1>3, <1>4, <1>5, <1>6, <1>7, <1>8, <1>9, <1>10, <1>11, <1>12
  DEF RunThread

\* And what happens outside: networks that change, and a process that is killed.
LEMMA OutsideInv ==
  ASSUME RouteInv, Outside
  PROVE  RouteInv'
<1> USE DEF RouteInv, TypeOK, RouteOwned, ProbeIsTransient, LifeInv, RunStates, SettingUp,
            Ownerless, objectVars, ruleVars, kernelVars, threadVars, networkVars
<1>1. ASSUME NEW i \in Interfaces, Uplink(i) PROVE RouteInv'
  BY <1>1 DEF Uplink
<1>2. ASSUME NEW i \in Interfaces, Readdress(i) PROVE RouteInv'
  <2>1. lan' \in [Interfaces -> Gateways \cup {None}]
    <3>1. PICK g \in {i} \X Versions : lan' = [lan EXCEPT ![i] = g]
      BY <1>2 DEF Readdress
    <3>2. g \in Gateways
      BY <3>1 DEF Gateways
    <3> QED BY <3>1, <3>2
  <2>2. kernel' \in [Destinations -> Gateways \cup {None}]
    BY <1>2 DEF Readdress
  <2>3. \A d \in Destinations : kernel'[d] # None => kernel'[d] = kernel[d]
    BY <1>2 DEF Readdress
  <2>4. \A d \in Destinations : /\ d \in leftover' <=> d \in leftover /\ kernel'[d] # None
                                /\ d \in undeleted' <=> d \in undeleted /\ kernel'[d] # None
    BY <1>2 DEF Readdress
  <2>5. /\ leftover' \subseteq Destinations /\ undeleted' \subseteq Destinations
        /\ UNCHANGED <<objectVars, ruleVars, threadVars, dns_loaded, gateway, online, kills>>
    BY <1>2 DEF Readdress
  <2>6. TypeOK'
    BY <2>1, <2>2, <2>5
  <2>7. RouteOwned'
    <3>1. ASSUME NEW d \in Destinations, d \in Ownerless, kernel'[d] # None
          PROVE  d \in Ownerless'
      BY <2>4, <3>1
    <3>2. UNCHANGED <<default_gw, ping_route>>
      BY <2>5
    <3> QED BY <2>3, <3>1, <3>2 DEF Destinations
  <2> QED BY <2>5, <2>6, <2>7
<1>3. ASSUME NEW i \in Interfaces, SetGW(i) PROVE RouteInv'
  BY <1>3 DEF SetGW
<1>4. CASE Kill
  <2>1. running' \in BOOLEAN /\ kills' \in 0..MaxKills /\ answered' \in BOOLEAN
    <3>1. running' \in Garbage /\ Garbage \subseteq BOOLEAN
      BY <1>4, ScenarioAssumption DEF Kill
    <3>2. kills' \in 0..MaxKills
      BY <1>4, ScenarioAssumption DEF Kill
    <3>3. answered' = FALSE
      BY <1>4 DEF Kill
    <3> QED BY <3>1, <3>2, <3>3
  <2>2. \A d \in Destinations : kernel[d] # None => d \in leftover'
    BY <1>4 DEF Kill
  <2>3. TypeOK'
    BY <1>4, <2>1 DEF Kill
  <2>4. RouteOwned'
    BY <1>4, <2>2 DEF Kill, Destinations
  <2>5. ProbeIsTransient' /\ LifeInv'
    BY <1>4 DEF Kill
  <2> QED BY <2>3, <2>4, <2>5
<1> QED BY <1>1, <1>2, <1>3, <1>4 DEF Outside

\* Every step preserves the invariant.
LEMMA StepRouteInv == RouteInv /\ [Next]_vars => RouteInv'
<1> SUFFICES ASSUME RouteInv, [Next]_vars PROVE RouteInv'
  OBVIOUS
<1>1. CASE UNCHANGED vars
  BY <1>1 DEF vars, objectVars, ruleVars, kernelVars, threadVars, networkVars, RouteInv,
              TypeOK, RouteOwned, Ownerless, ProbeIsTransient, LifeInv
<1>2. CASE Next
  BY <1>2, MethodsInv, ThreadInv, OutsideInv DEF Next
<1> QED BY <1>1, <1>2

\* RouteInv holds in every reachable state of the switcher.
THEOREM RouteInvariant == Spec => []RouteInv
BY InitRouteInv, StepRouteInv, PTL DEF Spec

\* Every reachable state is type correct.
THEOREM SwitcherTypeCorrect == Spec => []TypeOK
<1>1. RouteInv => TypeOK
  BY DEF RouteInv
<1> QED BY <1>1, RouteInvariant, PTL

\* A route of the program in the kernel always has its owner in the thread,
\* through failures, readdressing and restarts, or is one that a killed process
\* or a failing ip route del left.
THEOREM RoutesAlwaysOwned == Spec => []RouteOwned
<1>1. RouteInv => RouteOwned
  BY DEF RouteInv
<1> QED BY <1>1, RouteInvariant, PTL

\* The destructor leaves no file of this process behind, and no route or rule
\* of it but one that ip or iptables failed to delete: none where they succeed.
THEOREM DestructorCleans == Spec => []CleanAfterDestructor
<1>1. RouteInv => CleanAfterDestructor
  BY DEF RouteInv, RouteOwned, ProbeIsTransient, LifeInv, CleanAfterDestructor, Destinations,
         TypeOK
<1> QED BY <1>1, RouteInvariant, PTL

\* The host route to 8.8.8.8 exists only while its ping is under way.
THEOREM ProbeAlwaysTransient == Spec => []ProbeIsTransient
<1>1. RouteInv => ProbeIsTransient
  BY DEF RouteInv
<1> QED BY <1>1, RouteInvariant, PTL

-----------------------------------------------------------------------------
(* Priorities. *)

\* The loop starts with no failures,
LEMMA InitPassInv == Init => PassInv
BY DEF Init, InitProcess, PassInv

\* and goes past a name only when the name failed.
LEMMA StepPassInv == TypeOK /\ PassInv /\ [Next]_vars => PassInv'
<1> SUFFICES ASSUME TypeOK, PassInv, [Next]_vars PROVE PassInv'
  OBVIOUS
<1> USE DEF TypeOK, PassInv, objectVars, ruleVars, kernelVars, threadVars, networkVars, Continue
<1>1. CASE UNCHANGED vars
  BY <1>1 DEF vars
<1>2. CASE RunThread
  <2>1. CASE CopyInterfaces
    BY <2>1 DEF CopyInterfaces
  <2>2. CASE Pick
    <3>1. CASE next > Len(copy)
      BY <2>2, <3>1 DEF Pick
    <3>2. CASE ~(next > Len(copy)) /\ copy[next] \in Interfaces
      <4>1. name' = copy[next] /\ next' = next + 1 /\ failed' = failed /\ copy' = copy
            /\ run = "pick" /\ run' = "probe"
        BY <2>2, <3>2 DEF Pick
      <4> QED BY <4>1
    <3>3. CASE ~(next > Len(copy)) /\ copy[next] \notin Interfaces
      <4>1. next' = next + 1 /\ failed' = failed \cup {copy[next]} /\ copy' = copy
            /\ run = "pick" /\ run' = "pick"
        BY <2>2, <3>3 DEF Pick
      <4> QED BY <4>1
    <3> QED BY <3>1, <3>2, <3>3
  <2>3. CASE AddPingRoute
    BY <2>3 DEF AddPingRoute
  <2>4. CASE DropPingRoute
    BY <2>4 DEF DropPingRoute
  <2>5. CASE Ping \/ DropDefault \/ AddDefault
    BY <2>5 DEF Ping, DropDefault, AddDefault
  <2>6. CASE TestRunning \/ AddMasquerade \/ AddDNS \/ ReloadDNS \/ Sleep
    <3>1. run' \in {"copy", "ended", "dns", "sleep", "reload", "test"}
      BY <2>6 DEF TestRunning, AddMasquerade, AddDNS, ReloadDNS, Sleep
    <3> QED BY <3>1
  <2> QED BY <1>2, <2>1, <2>2, <2>3, <2>4, <2>5, <2>6 DEF RunThread
<1>3. CASE Methods
  <2>1. UNCHANGED <<copy, next, name, failed>> /\ (run' = run \/ run' \in {"test", "none"})
    BY <1>3 DEF Methods, Configure, Exec, DestroyIdle, DestroyRunning, Join
  <2> QED BY <2>1
<1>4. CASE Outside
  <2>1. CASE Kill
    BY <2>1 DEF Kill
  <2>2. CASE \E i \in Interfaces : Uplink(i) \/ Readdress(i) \/ SetGW(i)
    BY <2>2 DEF Uplink, Readdress, SetGW
  <2> QED BY <1>4, <2>1, <2>2 DEF Outside
<1> QED BY <1>1, <1>2, <1>3, <1>4 DEF Next

-----------------------------------------------------------------------------
(* Where the default route leads. *)

\* There is none at first,
LEMMA InitSourceInv == Init => SourceInv
<1> SUFFICES ASSUME Init PROVE SourceInv
  OBVIOUS
<1>1. gateway = lan /\ \A i \in Interfaces : lan[i] # None => lan[i][1] = i
  BY DEF Init
<1> QED BY <1>1 DEF Init, InitProcess, SourceInv

\* an interface's gateways are always its own, and the thread takes the source
\* and its route in one step.
LEMMA StepSourceInv == TypeOK /\ LifeInv /\ SourceInv /\ [Next]_vars => SourceInv'
<1> SUFFICES ASSUME TypeOK, LifeInv, SourceInv, [Next]_vars PROVE SourceInv'
  OBVIOUS
<1> USE DEF objectVars, ruleVars, kernelVars, threadVars, networkVars
<1>1. CASE UNCHANGED vars
  BY <1>1 DEF vars, SourceInv
<1>2. CASE AddDefault
  <2>1. CASE run' # "masquerade"
    BY <1>2, <2>1 DEF AddDefault, SourceInv, Continue
  <2>2. CASE run' = "masquerade"
    <3>1. name \in Interfaces /\ gateway[name] # None
      BY <1>2, <2>2 DEF AddDefault, CanAdd, LifeInv, SettingUp, Continue
    <3>2. default_gw' = gateway[name] /\ current_interface' = name /\ UNCHANGED <<lan, gateway>>
      BY <1>2, <2>2 DEF AddDefault, Continue
    <3> QED BY <3>1, <3>2 DEF SourceInv
  <2> QED BY <2>1, <2>2
<1>3. CASE RunThread /\ ~AddDefault
  <2>1. /\ UNCHANGED <<lan, gateway, current_interface>>
        /\ default_gw' = default_gw \/ default_gw' = None
    BY <1>3 DEF RunThread, TestRunning, CopyInterfaces, Pick, AddPingRoute, Ping, DropPingRoute,
                DropDefault, AddMasquerade, AddDNS, ReloadDNS, Sleep
  <2> QED BY <2>1 DEF SourceInv
<1>4. CASE Methods
  <2>1. UNCHANGED <<lan, gateway, current_interface, default_gw>>
    BY <1>4 DEF Methods, Configure, Exec, DestroyIdle, DestroyRunning, Join
  <2> QED BY <2>1 DEF SourceInv
<1>5. ASSUME NEW i \in Interfaces, Uplink(i) \/ Readdress(i) \/ SetGW(i)
      PROVE  SourceInv'
  <2>1. UNCHANGED <<current_interface, default_gw>>
    BY <1>5 DEF Uplink, Readdress, SetGW
  <2>2. CASE Uplink(i)
    BY <2>1, <2>2 DEF Uplink, SourceInv
  <2>3. CASE Readdress(i)
    <3>1. PICK g \in {i} \X Versions : lan' = [lan EXCEPT ![i] = g]
      BY <2>3 DEF Readdress
    <3>2. g[1] = i /\ gateway' = gateway
      BY <2>3 DEF Readdress
    <3> QED BY <2>1, <3>1, <3>2 DEF SourceInv, TypeOK
  <2>4. CASE SetGW(i)
    <3>1. gateway' = [gateway EXCEPT ![i] = lan[i]] /\ lan' = lan
      BY <2>4 DEF SetGW
    <3> QED BY <2>1, <3>1 DEF SourceInv, TypeOK
  <2> QED BY <1>5, <2>2, <2>3, <2>4
<1>6. CASE Kill
  BY <1>6 DEF Kill, SourceInv
<1> QED BY <1>1, <1>2, <1>3, <1>4, <1>5, <1>6 DEF Next, Outside

-----------------------------------------------------------------------------
(* A route that a killed process left. *)

\* There is none at first.
LEMMA InitLeftoverInv == Init => LeftoverInv
  BY DEF Init, InitProcess, LeftoverInv, LeftoverBlocks

\* As long as there is one the thread does not get through a set-up, nor, with
\* the route to 8.8.8.8, to a ping.
LEMMA ThreadLeftoverInv ==
  ASSUME TypeOK, LifeInv, LeftoverInv, RunThread
  PROVE  LeftoverInv'
<1>1. leftover' = leftover
  BY DEF RunThread, kernelVars, TestRunning, CopyInterfaces, Pick, AddPingRoute, Ping, DropPingRoute,
         DropDefault, AddDefault, AddMasquerade, AddDNS, ReloadDNS, Sleep
<1>2. CASE leftover = {}
  BY <1>1, <1>2 DEF LeftoverInv, LeftoverBlocks
<1>3. CASE leftover # {}
  <2>1. /\ default_gw = None /\ run \notin {"masquerade", "dns", "reload"}
        /\ \A d \in leftover : d \in Destinations /\ kernel[d] # None
        /\ leftover \subseteq Destinations
    BY <1>3 DEF LeftoverInv, LeftoverBlocks, TypeOK
  <2> USE DEF objectVars, ruleVars, Continue, Destinations, SettingUp
  <2>2. CASE TestRunning
    <3>1. \A d \in Destinations : kernel[d] # None => kernel'[d] = kernel[d]
      BY <2>1, <2>2 DEF TestRunning, Delete, Deleted, TypeOK
    <3>2. /\ default_gw' = None /\ run' \in {"copy", "ended"}
          /\ UNCHANGED <<objectVars, ruleVars, ping_route>>
      BY <2>1, <2>2 DEF TestRunning
    <3> QED BY <1>1, <1>3, <2>1, <3>1, <3>2 DEF LeftoverInv, LeftoverBlocks
  <2>3. CASE CopyInterfaces \/ Pick \/ Sleep
    <3>1. /\ run' \in {"pick", "sleep", "probe", "test"} \/ run' = run
          /\ UNCHANGED <<objectVars, ruleVars, ping_route, default_gw, kernel>>
      BY <2>3 DEF CopyInterfaces, Pick, Sleep, kernelVars
    <3> QED BY <1>1, <1>3, <2>1, <3>1 DEF LeftoverInv, LeftoverBlocks
  <2>4. CASE AddPingRoute
    <3>1. CASE run' = "ping"
      <4>1. /\ "ping" \notin leftover
            /\ kernel' = [kernel EXCEPT !["ping"] = gateway[name]] /\ run' = "ping"
            /\ UNCHANGED <<objectVars, ruleVars, default_gw>>
        BY <2>1, <2>4, <3>1 DEF AddPingRoute, CanAdd
      <4> QED BY <1>1, <1>3, <2>1, <4>1 DEF LeftoverInv, LeftoverBlocks, TypeOK
    <3>2. CASE run' # "ping"
      <4>1. run' = "pick" /\ UNCHANGED <<objectVars, ruleVars, default_gw, ping_route, kernel>>
        BY <2>4, <3>2 DEF AddPingRoute
      <4> QED BY <1>1, <1>3, <2>1, <4>1 DEF LeftoverInv, LeftoverBlocks
    <3> QED BY <3>1, <3>2
  <2>5. CASE Ping
    <3>1. /\ run = "ping" /\ run' = "pinged"
          /\ UNCHANGED <<objectVars, ruleVars, default_gw, ping_route, kernel>>
      BY <2>5 DEF Ping, kernelVars
    <3> QED BY <1>1, <1>3, <2>1, <3>1 DEF LeftoverInv, LeftoverBlocks
  <2>6. CASE DropPingRoute
    <3>1. /\ run = "pinged" /\ ping_route' = None /\ kernel' \in {kernel, Deleted("ping", ping_route)}
          /\ run' \in {"sleep", "dropDefault", "pick"}
          /\ UNCHANGED <<objectVars, ruleVars, default_gw>>
      BY <2>6 DEF DropPingRoute, Delete
    <3>2. "ping" \notin leftover
      BY <3>1 DEF LeftoverInv
    <3>3. kernel'["default"] = kernel["default"]
      BY <3>1 DEF Deleted, TypeOK
    <3> QED BY <1>1, <1>3, <2>1, <3>1, <3>2, <3>3 DEF LeftoverInv, LeftoverBlocks
  <2>7. CASE DropDefault
    <3>1. /\ run = "dropDefault" /\ run' = "addDefault" /\ default_gw' = None
          /\ UNCHANGED <<objectVars, ruleVars, ping_route>>
      BY <2>7 DEF DropDefault
    <3>2. \A d \in Destinations : kernel[d] # None => kernel'[d] = kernel[d]
      BY <2>1, <2>7 DEF DropDefault, Delete, Deleted, TypeOK
    <3> QED BY <1>1, <1>3, <2>1, <3>1, <3>2 DEF LeftoverInv, LeftoverBlocks
  <2>8. CASE AddDefault
    <3>1. run = "addDefault" /\ "ping" \notin leftover /\ "default" \in leftover
      BY <1>3, <2>1, <2>8 DEF AddDefault, LeftoverInv
    <3>2. ~CanAdd("default", gateway[name])
      BY <2>1, <3>1 DEF CanAdd
    <3>3. /\ run' = "sleep"
          /\ UNCHANGED <<default_gw, kernel, current_interface, ruleVars, ping_route, dns_file>>
      BY <2>8, <3>2 DEF AddDefault
    <3> QED BY <1>1, <1>3, <2>1, <3>1, <3>3 DEF LeftoverInv, LeftoverBlocks
  <2>9. ~AddMasquerade /\ ~AddDNS /\ ~ReloadDNS
    BY <2>1 DEF AddMasquerade, AddDNS, ReloadDNS
  <2> QED BY <2>2, <2>3, <2>4, <2>5, <2>6, <2>7, <2>8, <2>9 DEF RunThread
<1> QED BY <1>2, <1>3

\* Every step preserves the invariant: a kill forgets what the object had.
LEMMA StepLeftoverInv == TypeOK /\ LifeInv /\ LeftoverInv /\ [Next]_vars => LeftoverInv'
<1> SUFFICES ASSUME TypeOK, LifeInv, LeftoverInv, [Next]_vars PROVE LeftoverInv'
  OBVIOUS
<1> USE DEF objectVars, ruleVars, kernelVars, threadVars, networkVars
<1>1. CASE UNCHANGED vars
  BY <1>1 DEF vars, LeftoverInv, LeftoverBlocks
<1>2. CASE RunThread
  BY <1>2, ThreadLeftoverInv
<1>3. CASE Methods
  <2>1. /\ UNCHANGED <<leftover, kernel, ping_route, default_gw, current_interface>>
        /\ run' = run \/ run' \in {"test", "none"}
        /\ UNCHANGED ruleVars \/ masquerade' = stray'
        /\ dns_file' = dns_file \/ dns_file' = {}
    BY <1>3 DEF Methods, Configure, Exec, DestroyIdle, DestroyRunning, Join, MembersDestroyed
  <2> QED BY <2>1 DEF LeftoverInv, LeftoverBlocks, SettingUp
<1>4. ASSUME NEW i \in Interfaces, Uplink(i) \/ Readdress(i) \/ SetGW(i)
      PROVE  LeftoverInv'
  <2>1. UNCHANGED <<objectVars, ruleVars, threadVars>>
    BY <1>4 DEF Uplink, Readdress, SetGW
  <2>2. leftover' \subseteq leftover /\ \A d \in leftover' : kernel'[d] # None
    BY <1>4 DEF Uplink, Readdress, SetGW, LeftoverInv
  <2> QED BY <2>1, <2>2 DEF LeftoverInv, LeftoverBlocks
<1>5. CASE Kill
  BY <1>5 DEF Kill, LeftoverInv, LeftoverBlocks, SettingUp
<1> QED BY <1>1, <1>2, <1>3, <1>4, <1>5 DEF Next, Outside

-----------------------------------------------------------------------------
(* The parts together, and what follows. *)

\* The parts of the invariant hold together in every reachable state.
THEOREM SwitcherInvariant == Spec => []SwitcherInv
<1>1. RouteInv /\ PassInv /\ SourceInv /\ LeftoverInv <=> SwitcherInv
  BY DEF SwitcherInv
<1>2. RouteInv => TypeOK /\ LifeInv
  BY DEF RouteInv
<1>3. Init => RouteInv /\ PassInv /\ SourceInv /\ LeftoverInv
  BY InitRouteInv, InitPassInv, InitSourceInv, InitLeftoverInv
<1>4. RouteInv /\ PassInv /\ SourceInv /\ LeftoverInv /\ [Next]_vars
        => RouteInv' /\ PassInv' /\ SourceInv' /\ LeftoverInv'
  BY <1>2, StepRouteInv, StepPassInv, StepSourceInv, StepLeftoverInv
<1> QED BY <1>1, <1>3, <1>4, PTL DEF Spec

\* The default route leads over the interface that current_interface names, or
\* was left by a killed process or a failing ip route del, whatever else fails
\* and however interfaces are readdressed.
THEOREM DefaultIsCurrent == Spec => []SourceIsCurrent
<1>1. SwitcherInv => SourceIsCurrent
  <2> SUFFICES ASSUME SwitcherInv, kernel["default"] # None, "default" \notin Ownerless
               PROVE  kernel["default"][1] = current_interface
    BY DEF SourceIsCurrent
  <2>1. kernel["default"] = default_gw
    BY DEF SwitcherInv, RouteInv, RouteOwned, Ownerless
  <2> QED BY <2>1 DEF SwitcherInv, SourceInv
<1> QED BY <1>1, SwitcherInvariant, PTL

\* A process that was killed with a route in the kernel keeps the next ones from
\* choosing any source as long as the route is there.
THEOREM LeftoverAlwaysBlocks == Spec => []LeftoverBlocks
<1>1. SwitcherInv => LeftoverBlocks
  BY DEF SwitcherInv, LeftoverInv
<1> QED BY <1>1, SwitcherInvariant, PTL

\* The source changes only in AddDefault.
LEMMA OnlyAddDefault ==
  ASSUME Next, current_interface' \notin {current_interface, None}
  PROVE  AddDefault /\ current_interface' = name
<1> USE DEF objectVars, ruleVars, kernelVars, threadVars, networkVars
<1>1. CASE RunThread
  BY <1>1 DEF RunThread, TestRunning, CopyInterfaces, Pick, AddPingRoute, Ping, DropPingRoute,
              DropDefault, AddDefault, AddMasquerade, AddDNS, ReloadDNS, Sleep
<1>2. CASE Methods
  BY <1>2 DEF Methods, Configure, Exec, DestroyIdle, DestroyRunning, Join
<1>3. CASE Outside
  BY <1>3 DEF Outside, Uplink, Readdress, SetGW, Kill
<1> QED BY <1>1, <1>2, <1>3 DEF Next

\* An interface becomes the Internet source only after every interface of higher
\* priority failed in the same pass.
THEOREM PrioritiesRespected == Spec => HigherPrioritiesFailed
<1> DEFINE Respects == current_interface' \notin {current_interface, None}
                         => /\ current_interface' = copy[next - 1]
                            /\ \A k \in 1..(next - 2) : copy[k] \in failed
<1>1. PassInv /\ [Next]_vars => [Respects]_vars
  BY OnlyAddDefault DEF PassInv, AddDefault
<1>2. SwitcherInv => PassInv
  BY DEF SwitcherInv
<1> QED BY <1>1, <1>2, SwitcherInvariant, PTL DEF Spec, HigherPrioritiesFailed

-----------------------------------------------------------------------------
(* The set-up, where addresses stay, commands succeed and nobody kills the   *)
(* process.                                                                  *)

\* Nothing is set up yet.
LEMMA InitSetupInv ==
  ASSUME Garbage = {FALSE}, Init
  PROVE  SetupInv
<1>1. lan \in [Interfaces -> Gateways \cup {None}]
  BY DEF Init
<1> QED
  BY <1>1 DEF Init, InitProcess, SetupInv, SetupMatchesCurrent, SettingUp, Destinations

\* Each step of the set-up finds what the one before it left: in particular the
\* new default route is never refused once the old one is gone.
LEMMA StepSetupInv ==
  ASSUME Readdressing = {}, ~CommandsFail, MaxKills = 0,
         RouteInv, SetupInv, [Next]_vars
  PROVE  SetupInv'
<1> USE DEF RouteInv, TypeOK, LifeInv, SetupInv, SetupMatchesCurrent, SettingUp, Destinations,
            RunStates, objectVars, ruleVars, kernelVars, threadVars, networkVars, Continue
<1>1. CASE UNCHANGED vars
  BY <1>1 DEF vars
<1>2. CASE RunThread
  <2>1. CASE TestRunning
    BY <2>1 DEF TestRunning, Delete, Deleted
  <2>2. CASE CopyInterfaces
    BY <2>2 DEF CopyInterfaces
  <2>3. CASE Pick
    BY <2>3 DEF Pick
  <2>4. CASE AddPingRoute
    BY <2>4 DEF AddPingRoute, CanAdd
  <2>5. CASE Ping
    BY <2>5 DEF Ping
  <2>6. CASE DropPingRoute
    BY <2>6 DEF DropPingRoute, Delete, Deleted
  <2>7. CASE DropDefault
    BY <2>7 DEF DropDefault, Delete, Deleted
  <2>8. CASE AddDefault
    <3>1. CanAdd("default", gateway[name])
      BY <2>8 DEF AddDefault, CanAdd
    <3> QED BY <2>8, <3>1 DEF AddDefault
  <2>9. CASE AddMasquerade
    BY <2>9 DEF AddMasquerade
  <2>10. CASE AddDNS
    BY <2>10 DEF AddDNS
  <2>11. CASE ReloadDNS
    BY <2>11 DEF ReloadDNS
  <2>12. CASE Sleep
    BY <2>12 DEF Sleep
  <2> QED BY <1>2, <2>1, <2>2, <2>3, <2>4, <2>5, <2>6, <2>7, <2>8, <2>9, <2>10, <2>11, <2>12
          DEF RunThread
<1>3. CASE Methods
  <2>1. CASE Configure
    BY <2>1 DEF Configure
  <2>2. CASE Exec
    BY <2>2 DEF Exec
  <2>3. CASE DestroyIdle
    BY <2>3 DEF DestroyIdle, MembersDestroyed
  <2>4. CASE DestroyRunning
    BY <2>4 DEF DestroyRunning
  <2>5. CASE Join
    BY <2>5 DEF Join, MembersDestroyed
  <2> QED BY <1>3, <2>1, <2>2, <2>3, <2>4, <2>5 DEF Methods
<1>4. CASE Outside
  <2>1. ~Kill /\ \A i \in Interfaces : ~Readdress(i) /\ ~SetGW(i)
    BY DEF Kill, Readdress, SetGW
  <2>2. PICK i \in Interfaces : Uplink(i)
    BY <1>4, <2>1 DEF Outside
  <2> QED BY <2>2 DEF Uplink
<1> QED BY <1>1, <1>2, <1>3, <1>4 DEF Next

\* Where the environment is calm, each step of a set-up finds what it relies on.
THEOREM CalmSetupInvariant ==
  ASSUME Readdressing = {}, ~CommandsFail, MaxKills = 0, Garbage = {FALSE}
  PROVE  Spec => []SetupInv
<1>1. Init => SetupInv
  BY InitSetupInv
<1>2. RouteInv /\ SetupInv /\ [Next]_vars => SetupInv'
  BY StepSetupInv
<1> QED BY <1>1, <1>2, RouteInvariant, PTL DEF Spec

\* Where the environment is calm, current_interface never lies: the route, the
\* MASQUERADE rule and the DNS servers in use are those of the interface it
\* names, for any list, however often it is replaced and uplinks come and go.
THEOREM CalmSetupMatches ==
  ASSUME Readdressing = {}, ~CommandsFail, MaxKills = 0, Garbage = {FALSE}
  PROVE  Spec => []SetupMatchesCurrent
<1>1. SetupInv => SetupMatchesCurrent
  BY DEF SetupInv
<1> QED BY <1>1, CalmSetupInvariant, PTL
=============================================================================
