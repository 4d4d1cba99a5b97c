------------------------- MODULE PingInternetSwitcher --------------------------
(***************************************************************************)
(* PingInternetSwitcher (src/src/InternetSwitchers/src): a thread that     *)
(* pings 8.8.8.8 over each interface of a list, in order of priority, and  *)
(* makes the first that answers the Internet source: default route,        *)
(* MASQUERADE rule, DNS servers.  With it, the part of NetworkFactory and  *)
(* Route it uses (NetworkFactory::addRoute never finds a route it made     *)
(* before, because getWeakElement takes the array by value: every call     *)
(* makes a Route of its own, whose constructor adds it to the kernel and   *)
(* whose destructor deletes it).                                           *)
(*                                                                         *)
(* External: the kernel's routing table, the networks behind the           *)
(* interfaces and the threads that reconfigure them.  A gateway <<i, n>>   *)
(* is the n-th router address that interface i may be given.               *)
(***************************************************************************)
EXTENDS Naturals, Sequences

CONSTANTS
  Interfaces,    \* the interfaces of NetworkFactory
  Unknown,       \* names that may be configured but are no interface
  Versions,      \* the router addresses an interface may be given
  Lists,         \* priority lists the switcher may be configured with
  None,          \* no interface, no gateway
  Garbage,       \* values of the uninitialised member running
  Readdressing,  \* the interfaces that may get another address and gateway
  CommandsFail,  \* may ip route and iptables fail for reasons of their own?
  MaxKills       \* how often the process may be killed and started again

Names    == Interfaces \cup Unknown
Gateways == Interfaces \X Versions

ASSUME NoneAssumption == None \notin Names /\ None \notin Gateways
ASSUME NamesAssumption == Interfaces \cap Unknown = {}
ASSUME ListsAssumption == Lists \subseteq Seq(Names)
ASSUME ScenarioAssumption ==
  /\ Garbage \subseteq BOOLEAN
  /\ Readdressing \subseteq Interfaces
  /\ CommandsFail \in BOOLEAN
  /\ MaxKills \in Nat

VARIABLES
  (* the object *)
  running, interfaces, current_interface,
  dns_file,       \* interfaces whose servers this process's resolvconf file lists
  object,         \* "new", "exec" once exec() was called, "joining", "destroyed"
  (* the thread *)
  run,            \* where Run() is
  copy, next,     \* interfaces_copy and the index of the loop over it
  name,           \* interface_name
  ping_route,     \* gateway of the Route held by ping_route, or None
  answered,       \* 0 == ping_result
  default_gw,     \* gateway of the Route held by default_gw, or None
  failed,         \* history: the names that failed in this pass
  (* outside the process *)
  kernel,         \* main table: the gateway of each destination, or None
  leftover,       \* (history) destinations whose route a killed process left
  undeleted,      \* (history) destinations whose route a ~Route failed to delete
  masquerade,     \* interfaces with a MASQUERADE rule in POSTROUTING
  stray,          \* (history) those of rules that nobody will delete: iptables -D
                  \* failed, or the process was killed
  dns_loaded,     \* the file as dnsmasq last read it
  gateway,        \* Interface::gateway
  lan,            \* the router the interface's network has now
  online,         \* interfaces whose router leads to the Internet
  kills

objectVars == <<running, interfaces, current_interface, dns_file, object>>
ruleVars == <<masquerade, stray>>
threadVars == <<run, copy, next, name, ping_route, answered, default_gw, failed>>
kernelVars == <<kernel, leftover, undeleted>>
networkVars == <<gateway, lan, online>>
vars == <<objectVars, ruleVars, threadVars, kernelVars, dns_loaded, networkVars, kills>>

Destinations == {"default", "ping"}
RunStates == {"none", "test", "copy", "pick", "probe", "ping", "pinged",
              "dropDefault", "addDefault", "masquerade", "dns", "reload",
              "sleep", "ended"}
\* The steps between the decision to switch and the end of the set-up.
SettingUp == {"dropDefault", "addDefault", "masquerade", "dns", "reload"}

TypeOK ==
  /\ running \in BOOLEAN
  /\ interfaces \in Lists \cup {<<>>}
  /\ current_interface \in Names \cup {None}
  /\ masquerade \subseteq Names
  /\ stray \subseteq masquerade
  /\ dns_file \subseteq Names
  /\ object \in {"new", "exec", "joining", "destroyed", "terminated"}
  /\ run \in RunStates
  /\ copy \in Lists \cup {<<>>}
  /\ next \in Nat \ {0}
  /\ name \in Names \cup {None}
  /\ ping_route \in Gateways \cup {None}
  /\ answered \in BOOLEAN
  /\ default_gw \in Gateways \cup {None}
  /\ failed \subseteq Names
  /\ kernel \in [Destinations -> Gateways \cup {None}]
  /\ leftover \subseteq Destinations
  /\ undeleted \subseteq Destinations
  /\ dns_loaded \subseteq Names
  /\ gateway \in [Interfaces -> Gateways \cup {None}]
  /\ lan \in [Interfaces -> Gateways \cup {None}]
  /\ online \subseteq Interfaces
  /\ kills \in 0..MaxKills

-----------------------------------------------------------------------------
(* The kernel's main table, and what the networks do with a packet. *)

\* ip route add: refused if the destination (with metric 0) has a route or the
\* gateway is not on the network of an interface.
CanAdd(d, g) ==
  /\ kernel[d] = None
  /\ g # None
  /\ lan[g[1]] = g

\* ip route del via g: it fails, and changes nothing, if there is no such route.
\* If it fails otherwise ~Route logs it, and the route stays for good.
Deleted(d, g) ==
  [kernel EXCEPT ![d] = IF kernel[d] = g THEN None ELSE kernel[d]]
Delete(d, g) ==
  \/ kernel' = Deleted(d, g) /\ UNCHANGED undeleted
  \/ /\ CommandsFail
     /\ g # None /\ kernel[d] = g
     /\ undeleted' = undeleted \cup {d}
     /\ UNCHANGED kernel

Reaches(g) == g # None /\ lan[g[1]] = g /\ g[1] \in online

\* A packet to 8.8.8.8 takes the host route, if there is one.
PingVia == IF kernel["ping"] # None THEN kernel["ping"] ELSE kernel["default"]

-----------------------------------------------------------------------------
InitProcess ==
  /\ running \in Garbage         \* the constructor does not set it
  /\ interfaces = <<>>
  /\ current_interface = None
  /\ dns_file = {}
  /\ object = "new"
  /\ run = "none"
  /\ copy = <<>>
  /\ next = 1
  /\ name = None
  /\ ping_route = None
  /\ answered = FALSE
  /\ default_gw = None
  /\ failed = {}

Init ==
  /\ InitProcess
  /\ kernel = [d \in Destinations |-> None]
  /\ leftover = {} /\ undeleted = {}
  /\ masquerade = {} /\ stray = {}
  /\ dns_loaded = {}
  /\ lan \in {l \in [Interfaces -> Gateways \cup {None}] :
                \A i \in Interfaces : l[i] # None => l[i][1] = i}
  /\ gateway = lan
  /\ online \in SUBSET Interfaces
  /\ kills = 0

-----------------------------------------------------------------------------
(* The object's methods. *)

\* configure(): main, and any web client later.
Configure ==
  /\ object \in {"new", "exec"}
  /\ interfaces' \in Lists
  /\ UNCHANGED <<running, current_interface, ruleVars, dns_file, object, threadVars,
                 kernelVars, dns_loaded, networkVars, kills>>

\* Mutant: exec() does not set the flag.
ExecForgetsFlag ==
  /\ object = "new"
  /\ object' = "exec"
  /\ run' = IF running THEN run ELSE "test"
  /\ UNCHANGED <<running, interfaces, current_interface, ruleVars, dns_file, copy, next,
                 name, ping_route, answered, default_gw, failed, kernelVars, dns_loaded,
                 networkVars, kills>>

\* exec(): starts Run() unless the flag says it runs.
Exec ==
  /\ object = "new"
  /\ object' = "exec"
  /\ running' = TRUE
  /\ run' = IF running THEN run ELSE "test"
  /\ UNCHANGED <<interfaces, current_interface, ruleVars, dns_file, copy, next, name,
                 ping_route, answered, default_gw, failed, kernelVars, dns_loaded,
                 networkVars, kills>>

\* The members go: the DNS file is removed, the chain deletes its rules, but for
\* those that iptables -D fails on, which is logged.
MembersDestroyed ==
  /\ object' = "destroyed"
  /\ dns_file' = {}
  /\ \E failing \in SUBSET masquerade :
       /\ failing # {} => CommandsFail
       /\ stray' = stray \cup failing
  /\ masquerade' = stray'

\* The destructor, when running is not set,
DestroyIdle ==
  /\ object \in {"new", "exec"}
  /\ ~running
  /\ MembersDestroyed
  /\ UNCHANGED <<running, interfaces, current_interface, threadVars, kernelVars, dns_loaded,
                 networkVars, kills>>

\* Mutant: the thread is detached.
DestroyDetaches ==
  /\ object \in {"new", "exec"}
  /\ running
  /\ running' = FALSE
  /\ MembersDestroyed
  /\ UNCHANGED <<interfaces, current_interface, threadVars, kernelVars, dns_loaded,
                 networkVars, kills>>

\* and when it is: the flag is cleared and the thread joined.  Joining a thread
\* that was never started throws out of a destructor.
DestroyRunning ==
  /\ object \in {"new", "exec"}
  /\ running
  /\ running' = FALSE
  /\ object' = IF run = "none" THEN "terminated" ELSE "joining"
  /\ UNCHANGED <<interfaces, current_interface, ruleVars, dns_file, threadVars, kernelVars,
                 dns_loaded, networkVars, kills>>

Join ==
  /\ object = "joining"
  /\ run = "ended"
  /\ MembersDestroyed
  /\ run' = "none"
  /\ UNCHANGED <<running, interfaces, current_interface, copy, next, name, ping_route,
                 answered, default_gw, failed, kernelVars, dns_loaded, networkVars, kills>>

-----------------------------------------------------------------------------
(* Run() *)

Continue(l) == run' = l

\* Mutant: default_gw does not outlive the loop, but its route does.
TestKeepsRoute ==
  /\ run = "test"
  /\ IF running
       THEN Continue("copy") /\ UNCHANGED default_gw
       ELSE Continue("ended") /\ default_gw' = None
  /\ UNCHANGED <<objectVars, ruleVars, copy, next, name, ping_route, answered, failed,
                 kernelVars, dns_loaded, networkVars, kills>>

\* Mutant: the loop never looks at the flag.
TestIgnoresFlag ==
  /\ run = "test"
  /\ Continue("copy")
  /\ UNCHANGED <<objectVars, ruleVars, copy, next, name, ping_route, answered, default_gw,
                 failed, kernelVars, dns_loaded, networkVars, kills>>

\* while(this->running); default_gw is a local variable of Run.
TestRunning ==
  /\ run = "test"
  /\ IF running
       THEN Continue("copy") /\ UNCHANGED <<default_gw, kernel, undeleted>>
       ELSE /\ Continue("ended")
            /\ default_gw' = None
            /\ Delete("default", default_gw)
  /\ UNCHANGED <<objectVars, ruleVars, copy, next, name, ping_route, answered, failed,
                 leftover, dns_loaded, networkVars, kills>>

CopyInterfaces ==
  /\ run = "copy"
  /\ copy' = interfaces
  /\ next' = 1
  /\ failed' = {}
  /\ Continue("pick")
  /\ UNCHANGED <<objectVars, ruleVars, name, ping_route, answered, default_gw, kernelVars,
                 dns_loaded, networkVars, kills>>

\* Mutant: the list is walked from its end.
PickBackwards ==
  /\ run = "pick"
  /\ IF next > Len(copy)
       THEN Continue("sleep") /\ UNCHANGED <<name, next, failed>>
       ELSE /\ name' = copy[Len(copy) + 1 - next]
            /\ next' = next + 1
            /\ IF name' \in Interfaces
                 THEN Continue("probe") /\ UNCHANGED failed
                 ELSE failed' = failed \cup {name'} /\ UNCHANGED run
  /\ UNCHANGED <<objectVars, ruleVars, copy, ping_route, answered, default_gw, kernelVars,
                 dns_loaded, networkVars, kills>>

\* for(auto interface_name: interfaces_copy); getInterface throws if it is
\* unknown.
Pick ==
  /\ run = "pick"
  /\ IF next > Len(copy)
       THEN Continue("sleep") /\ UNCHANGED <<name, next, failed>>
       ELSE /\ name' = copy[next]
            /\ next' = next + 1
            /\ IF copy[next] \in Interfaces
                 THEN Continue("probe") /\ UNCHANGED failed
                 ELSE failed' = failed \cup {copy[next]} /\ UNCHANGED run
  /\ UNCHANGED <<objectVars, ruleVars, copy, ping_route, answered, default_gw, kernelVars,
                 dns_loaded, networkVars, kills>>

\* ping_route = addRoute("8.8.8.8/32", interface->getGW())
AddPingRoute ==
  /\ run = "probe"
  /\ \/ /\ CanAdd("ping", gateway[name])
        /\ ping_route' = gateway[name]
        /\ kernel' = [kernel EXCEPT !["ping"] = gateway[name]]
        /\ Continue("ping")
        /\ UNCHANGED failed
     \/ /\ ~CanAdd("ping", gateway[name]) \/ CommandsFail
        /\ failed' = failed \cup {name}
        /\ Continue("pick")
        /\ UNCHANGED <<ping_route, kernel>>
  /\ UNCHANGED <<objectVars, ruleVars, copy, next, name, answered, default_gw, leftover,
                 undeleted, dns_loaded, networkVars, kills>>

Ping ==
  /\ run = "ping"
  /\ answered' = Reaches(PingVia)
  /\ Continue("pinged")
  /\ UNCHANGED <<objectVars, ruleVars, copy, next, name, ping_route, default_gw, failed,
                 kernelVars, dns_loaded, networkVars, kills>>

\* Mutant: an interface once chosen is kept while any interface answers.
NeverSwitchesAgain ==
  /\ run = "pinged"
  /\ ping_route' = None
  /\ Delete("ping", ping_route)
  /\ IF answered
       THEN /\ Continue(IF current_interface # None THEN "sleep" ELSE "dropDefault")
            /\ UNCHANGED failed
       ELSE Continue("pick") /\ failed' = failed \cup {name}
  /\ UNCHANGED <<objectVars, ruleVars, copy, next, name, answered, default_gw, leftover,
                 dns_loaded, networkVars, kills>>

\* ping_route = nullptr, and what follows from the answer.
DropPingRoute ==
  /\ run = "pinged"
  /\ ping_route' = None
  /\ Delete("ping", ping_route)
  /\ IF answered
       THEN /\ Continue(IF name = current_interface THEN "sleep" ELSE "dropDefault")
            /\ UNCHANGED failed
       ELSE Continue("pick") /\ failed' = failed \cup {name}
  /\ UNCHANGED <<objectVars, ruleVars, copy, next, name, answered, default_gw, leftover,
                 dns_loaded, networkVars, kills>>

DropDefault ==
  /\ run = "dropDefault"
  /\ default_gw' = None
  /\ Delete("default", default_gw)
  /\ Continue("addDefault")
  /\ UNCHANGED <<objectVars, ruleVars, copy, next, name, ping_route, answered, failed,
                 leftover, dns_loaded, networkVars, kills>>

\* addRoute("0.0.0.0/0", interface->getGW()).  An exception here and below ends
\* the set-up, and with it the pass.
AddDefault ==
  /\ run = "addDefault"
  /\ \/ /\ CanAdd("default", gateway[name])
        /\ default_gw' = gateway[name]
        /\ kernel' = [kernel EXCEPT !["default"] = gateway[name]]
        /\ current_interface' = name
        /\ Continue("masquerade")
     \/ /\ ~CanAdd("default", gateway[name]) \/ CommandsFail
        /\ Continue("sleep")
        /\ UNCHANGED <<default_gw, kernel, current_interface>>
  /\ UNCHANGED <<running, interfaces, ruleVars, dns_file, object, copy, next, name,
                 ping_route, answered, failed, leftover, undeleted, dns_loaded, networkVars,
                 kills>>

\* The rule is added and never removed before the chain goes.
AddMasquerade ==
  /\ run = "masquerade"
  /\ \/ Continue("dns") /\ masquerade' = masquerade \cup {name}
     \/ CommandsFail /\ Continue("sleep") /\ UNCHANGED masquerade
  /\ UNCHANGED stray
  /\ UNCHANGED <<running, interfaces, current_interface, dns_file, object, copy, next, name,
                 ping_route, answered, default_gw, failed, kernelVars, dns_loaded,
                 networkVars, kills>>

\* addConfiguration("resolvconf", ...): the first call writes the file, later
\* ones append to it, because dns_configaration keeps the configuration alive.
AddDNS ==
  /\ run = "dns"
  /\ dns_file' = dns_file \cup {name}
  /\ Continue("reload")
  /\ UNCHANGED <<running, interfaces, current_interface, ruleVars, object, copy, next, name,
                 ping_route, answered, default_gw, failed, kernelVars, dns_loaded,
                 networkVars, kills>>

\* Mutant: dnsmasq is not told to read the file again.
NeverReloads ==
  /\ run = "reload"
  /\ Continue("sleep")
  /\ UNCHANGED <<objectVars, ruleVars, copy, next, name, ping_route, answered, default_gw,
                 failed, kernelVars, dns_loaded, networkVars, kills>>

ReloadDNS ==
  /\ run = "reload"
  /\ dns_loaded' = dns_file
  /\ Continue("sleep")
  /\ UNCHANGED <<objectVars, ruleVars, copy, next, name, ping_route, answered, default_gw,
                 failed, kernelVars, networkVars, kills>>

\* thread_block.wait_for(1 s): it ends by itself or is notified.
Sleep ==
  /\ run = "sleep"
  /\ Continue("test")
  /\ UNCHANGED <<objectVars, ruleVars, copy, next, name, ping_route, answered, default_gw,
                 failed, kernelVars, dns_loaded, networkVars, kills>>

RunThread ==
  \/ TestRunning
  \/ CopyInterfaces
  \/ Pick
  \/ AddPingRoute
  \/ Ping
  \/ DropPingRoute
  \/ DropDefault
  \/ AddDefault
  \/ AddMasquerade
  \/ AddDNS
  \/ ReloadDNS
  \/ Sleep

-----------------------------------------------------------------------------
(* Outside. *)

\* A router gains or loses its way to the Internet.
Uplink(i) ==
  /\ online' = IF i \in online THEN online \ {i} ELSE online \cup {i}
  /\ UNCHANGED <<objectVars, ruleVars, threadVars, kernelVars, dns_loaded, gateway, lan,
                 kills>>

\* Interface::setIP: the interface moves to another network.  The kernel drops
\* the routes over the old router, or keeps them if the address was kept.
Readdress(i) ==
  /\ i \in Readdressing
  /\ \E g \in {i} \X Versions :
       /\ g # lan[i]
       /\ lan' = [lan EXCEPT ![i] = g]
  /\ \/ UNCHANGED kernel
     \/ kernel' = [d \in Destinations |->
                     IF kernel[d] = lan[i] THEN None ELSE kernel[d]]
  /\ leftover' = {d \in leftover : kernel'[d] # None}
  /\ undeleted' = {d \in undeleted : kernel'[d] # None}
  /\ UNCHANGED <<objectVars, ruleVars, threadVars, dns_loaded, gateway, online, kills>>

\* Interface::setGW, some time later.
SetGW(i) ==
  /\ gateway[i] # lan[i]
  /\ gateway' = [gateway EXCEPT ![i] = lan[i]]
  /\ UNCHANGED <<objectVars, ruleVars, threadVars, kernelVars, dns_loaded, lan, online,
                 kills>>

\* The process dies without running a destructor and is started again.  What it
\* had in the kernel stays, and is nobody's.
Kill ==
  /\ kills < MaxKills
  /\ kills' = kills + 1
  /\ leftover' = {d \in Destinations : kernel[d] # None}
  /\ undeleted' = {}
  /\ stray' = masquerade
  /\ running' \in Garbage
  /\ interfaces' = <<>> /\ current_interface' = None
  /\ dns_file' = {} /\ object' = "new"
  /\ run' = "none" /\ copy' = <<>> /\ next' = 1 /\ name' = None
  /\ ping_route' = None /\ answered' = FALSE /\ default_gw' = None /\ failed' = {}
  /\ UNCHANGED <<kernel, masquerade, dns_loaded, networkVars>>

Methods == Configure \/ Exec \/ DestroyIdle \/ DestroyRunning \/ Join
Outside == \/ \E i \in Interfaces : Uplink(i) \/ Readdress(i) \/ SetGW(i)
           \/ Kill

Next == RunThread \/ Methods \/ Outside
Spec == Init /\ [][Next]_vars

\* Main calls exec() once the plugin is configured, the thread runs whenever it
\* can (its ping and its wait are bounded to one second), the destructor joins,
\* and a thread that is reconfiguring an interface goes on to setGW.
Fairness ==
  /\ WF_vars(RunThread)
  /\ WF_vars(Exec)
  /\ WF_vars(Join)
  /\ \A i \in Interfaces : WF_vars(SetGW(i))
FairSpec == Spec /\ Fairness

-----------------------------------------------------------------------------
(* Properties. *)

\* A route of the program in the kernel has its owner: the default route is the
\* one default_gw holds, the route to 8.8.8.8 the one ping_route holds, however
\* interfaces are readdressed under them; what else there is was left by a
\* killed process, or by an ip route del that failed (Route.cpp 5-21, lines
\* 81-83 and 93-94).
Ownerless == leftover \cup undeleted
RouteOwned ==
  /\ kernel["default"] # None => kernel["default"] = default_gw \/ "default" \in Ownerless
  /\ kernel["ping"]    # None => kernel["ping"] = ping_route    \/ "ping" \in Ownerless

\* So the destructor leaves no file behind, no route but one that ip failed to
\* delete or that a killed process left, and no rule but such ones; and there
\* is no thread that could add any.
CleanAfterDestructor ==
  object = "destroyed" => /\ \A d \in Destinations : kernel[d] # None => d \in Ownerless
                          /\ masquerade \subseteq stray
                          /\ dns_file = {}
                          /\ run = "none"

\* The host route exists only while its ping is under way: other traffic to
\* 8.8.8.8 follows the default route between two probes.
ProbeIsTransient ==
  ping_route # None => run \in {"ping", "pinged"}

\* The inductive invariant behind the two properties above: which steps of the
\* thread hold a route, and what each stage of the object's life leaves.
LifeInv ==
  /\ object = "new" => run = "none"
  /\ object = "exec" => running
  /\ object \in {"destroyed", "terminated"} => run = "none"
  /\ object = "destroyed" => masquerade = stray /\ dns_file = {}
  /\ run \in {"none", "ended"} => default_gw = None
  /\ run = "probe" => name \in Interfaces
  /\ run \in {"ping", "pinged"} \cup SettingUp => name \in Interfaces
RouteInv == TypeOK /\ RouteOwned /\ ProbeIsTransient /\ LifeInv

\* Priority: an interface becomes the source only after every name before it in
\* the list failed in the same pass, although configure() replaces the list at
\* any moment (lines 68-72, 74, 85, 115).
HigherPrioritiesFailed ==
  [][ current_interface' \notin {current_interface, None}
        => /\ current_interface' = copy[next - 1]
           /\ \A k \in 1..(next - 2) : copy[k] \in failed ]_vars

\* The invariant behind it: what the loop has been through.
PassInv ==
  /\ run = "pick" => \A k \in 1..(next - 1) : copy[k] \in failed
  /\ run \in {"probe", "ping", "pinged", "dropDefault", "addDefault"} =>
       /\ name = copy[next - 1]
       /\ \A k \in 1..(next - 2) : copy[k] \in failed

\* The default route never leads over an interface other than the one that
\* current_interface names, unless a killed process or a failing ip route del
\* left it, however interfaces are readdressed and whichever set-up fails half
\* way (lines 93-95).
SourceIsCurrent ==
  kernel["default"] # None => \/ kernel["default"][1] = current_interface
                              \/ "default" \in Ownerless

\* The invariant behind it: gateways are their interfaces' own.
SourceInv ==
  /\ \A i \in Interfaces : /\ lan[i] # None => lan[i][1] = i
                           /\ gateway[i] # None => gateway[i][1] = i
  /\ default_gw # None => default_gw[1] = current_interface

\* A route that a killed process left keeps the next one from choosing a source:
\* ip route add is refused as long as it is there (Route.cpp:5-12), and nobody
\* has the Route that would delete it (Route.cpp:15-21).
LeftoverBlocks ==
  leftover # {} => /\ current_interface = None /\ default_gw = None
                   /\ masquerade = stray /\ dns_file = {}

\* The invariant behind it: where the thread gets to with such a route.
LeftoverInv ==
  /\ \A d \in leftover : kernel[d] # None
  /\ leftover # {} => run \notin {"masquerade", "dns", "reload"}
  /\ "ping" \in leftover => ping_route = None /\ run \notin {"ping", "pinged"} \cup SettingUp
  /\ LeftoverBlocks
SwitcherInv == RouteInv /\ PassInv /\ SourceInv /\ LeftoverInv

\* Where addresses stay and commands succeed, current_interface tells the truth
\* outside the set-up: the default route, the MASQUERADE rule and the loaded DNS
\* servers are those of the interface it names.
SetupMatchesCurrent ==
  (current_interface # None /\ run \notin SettingUp \cup {"none", "ended"})
    => /\ kernel["default"] = gateway[current_interface]
       /\ current_interface \in masquerade
       /\ current_interface \in dns_loaded

\* The invariant behind it: what each step of the set-up finds and leaves.
SetupInv ==
  /\ gateway = lan
  /\ \A i \in Interfaces : lan[i] # None => lan[i][1] = i
  /\ default_gw = kernel["default"]
  /\ object = "new" => ~running /\ current_interface = None
  /\ run = "none" => object = "new" \/ object = "destroyed"
  /\ run \in {"ping", "pinged"} \cup SettingUp => gateway[name] # None
  /\ run = "addDefault" => kernel["default"] = None
  /\ run \in {"masquerade", "dns", "reload"} =>
       current_interface = name /\ kernel["default"] = gateway[name]
  /\ run \in {"dns", "reload"} => name \in masquerade
  /\ run = "reload" => name \in dns_file
  /\ SetupMatchesCurrent

\* The source that the list and the networks call for.
Best(i) ==
  /\ object = "exec"
  /\ gateway[i] = lan[i]
  /\ Reaches(lan[i])
  /\ \E k \in 1..Len(interfaces) :
       /\ interfaces[k] = i
       /\ \A j \in 1..(k - 1) : interfaces[j] \in Interfaces => ~Reaches(lan[interfaces[j]])

\* Once the list and the networks stay as they are, the default route leads to
\* the best source for good.
Stable == <>[][FALSE]_<<interfaces, object, networkVars>>
Switches ==
  \A i \in Interfaces :
    Stable /\ <>[]Best(i) => <>[](kernel["default"] # None /\ kernel["default"] = lan[i])

\* The destructor returns.
DestructorReturns == object = "joining" ~> object # "joining"
=============================================================================
