-------------------------- MODULE RoutingSpecializer ---------------------------
(***************************************************************************)
(* RoutingSpecializer (src/src/RoutingSpecializer/src): configure() maps   *)
(* interfaces to destination addresses whose packets must leave over them. *)
(* Each entry is a TrafficSpecialization, which owns a routing rule, an    *)
(* ipset, a route in a table of its own and, through two chains of the     *)
(* mangle table that all of them share, two marking rules.  Modelled with  *)
(* them: IPSet, RouteRule, Route, XTables::Table::getChain, Chain and      *)
(* ChainRule, as far as they are used here.                                *)
(*                                                                         *)
(* A TrafficSpecialization is known by the value that its constructor      *)
(* counted, which numbers its routing table: 0 stands for a null or        *)
(* missing pointer.  The counter is static and read again for the marking  *)
(* rules, after three system commands: a constructor has two steps, and    *)
(* between them other threads create, fail and destroy.  An ipset is       *)
(* flushed, filled and recorded in steps of their own, since the threads   *)
(* that configure an interface share its IPSet, which has no lock.  The    *)
(* increment of the counter is taken to be atomic, and constructors and    *)
(* destructors to run the commands of one step together.  The kernel's     *)
(* tables are external.                                                    *)
(***************************************************************************)
EXTENDS Naturals, FiniteSets

CONSTANTS
  Clients,       \* threads that call configure(): main, then web clients
  Interfaces,    \* the interfaces of NetworkFactory
  Unknown,       \* other names a configuration may hold
  Addresses,     \* destinations
  Gateways,      \* values of Interface::gateway that a route can be added over
  None,          \* no name; the gateway of an interface not configured yet
  Rank,          \* the place of each name in the order of a std::map
  Requests,      \* configurations: functions from names to sets of addresses
  MaxMark,       \* bound on the TrafficSpecializations ever constructed
  Readdressing,  \* the interfaces whose gateway and address may change
  MaxFailures    \* bound on the steps in which something fails: commands, for
                 \* reasons of their own, the counting of addRule's ids, or a
                 \* route whose interface is readdressed

Names  == Interfaces \cup Unknown
Marks  == 1..MaxMark
Chains == {"PREROUTING", "OUTPUT"}

ASSUME RequestsAssumption ==
  \A q \in Requests : DOMAIN q \subseteq Names
                      /\ \A n \in DOMAIN q : q[n] \subseteq Addresses
ASSUME ParametersAssumption ==
  /\ Interfaces \cap Unknown = {}
  /\ None \notin Gateways \cup Names
  /\ Rank \in [Names -> Nat]
  /\ MaxMark \in Nat
  /\ Readdressing \subseteq Interfaces
  /\ MaxFailures \in Nat

VARIABLES
  (* RoutingSpecializer and TrafficSpecialization *)
  specializations,  \* traffic_specializations: the mark of each name, or 0
  mark,             \* the static counter of the constructor
  alive,            \* the TrafficSpecializations that exist
  owner, ips,       \* its interface, of each constructed; and IPSet::ips
  chains_seen,      \* does Table::chains have entries for the two chains?
  (* configure(), in each client *)
  pc, request, pending, name, result,
  todo,             \* the destinations that it has yet to add
  adding,           \* what ipset add has added and IPSet::ips does not have yet
  dropping,         \* objects whose last reference is being released
  building,         \* routing_table_id of the constructor it is in, or 0
  overtaken,        \* (history) constructors in which others counted on
  (* outside *)
  gateway,          \* Interface::gateway
  iprules,          \* marks that have an ip rule
  tables,           \* marks whose table has a default route
  ipsets, members,  \* the ipsets, by interface, and what they contain
  rules,            \* marking rules: chain, mark and ipset
  crash,            \* has undefined behaviour ended the process?
  failures,         \* the steps in which something has failed
  (* history *)
  disowned,         \* rules that were given up: no ChainRule deletes them any more
  left,             \* what destructors have failed to delete
  moved,            \* marks whose route went as their interface was readdressed
  torn              \* objects whose ipset one thread filled as another cleared it

buildVars  == <<building, overtaken>>
pluginVars == <<specializations, mark, alive, owner, ips, chains_seen>>
fillVars   == <<todo, adding, torn>>
clientVars == <<pc, request, pending, name, result, dropping, fillVars, buildVars>>
lostVars   == <<failures, disowned, left>>
kernelVars == <<iprules, tables, ipsets, members, rules, lostVars, moved>>
vars == <<pluginVars, clientVars, kernelVars, gateway, crash>>

Rule == [chain : Chains, mark : Marks, set : Interfaces]
Parts == {"rule", "set", "table"}
PCs  == {"idle", "next", "create", "build", "clear", "flushed", "add", "push", "drop"}
NoRequest == [n \in {} |-> {}]
Nothing   == [n \in Names |-> 0]

TypeOK ==
  /\ specializations \in [Names -> 0..MaxMark]
  /\ mark \in 0..MaxMark
  /\ alive \subseteq Marks
  /\ owner \in [Marks -> Interfaces \cup {None}]
  /\ ips \in [Marks -> SUBSET Addresses]
  /\ chains_seen \in BOOLEAN
  /\ pc \in [Clients -> PCs]
  /\ request \in [Clients -> Requests \cup {NoRequest}]
  /\ pending \in [Clients -> SUBSET Names]
  /\ name \in [Clients -> Names \cup {None}]
  /\ result \in [Clients -> [Names -> 0..MaxMark]]
  /\ todo \in [Clients -> SUBSET Addresses]
  /\ adding \in [Clients -> SUBSET Addresses]
  /\ dropping \in [Clients -> SUBSET Marks]
  /\ building \in [Clients -> 0..MaxMark]
  /\ overtaken \subseteq Marks
  /\ gateway \in [Interfaces -> Gateways \cup {None}]
  /\ iprules \subseteq Marks
  /\ tables \subseteq Marks
  /\ ipsets \subseteq Interfaces
  /\ members \in [Interfaces -> SUBSET Addresses]
  /\ rules \subseteq Rule
  /\ crash \in BOOLEAN
  /\ failures \in 0..MaxFailures
  /\ disowned \subseteq Rule
  /\ left \subseteq Parts \X Marks
  /\ moved \subseteq Marks
  /\ torn \subseteq Marks

Init ==
  /\ specializations = Nothing
  /\ mark = 0
  /\ alive = {}
  /\ owner = [m \in Marks |-> None]
  /\ ips = [m \in Marks |-> {}]
  /\ chains_seen = FALSE
  /\ pc = [c \in Clients |-> "idle"]
  /\ request = [c \in Clients |-> NoRequest]
  /\ pending = [c \in Clients |-> {}]
  /\ name = [c \in Clients |-> None]
  /\ result = [c \in Clients |-> Nothing]
  /\ todo = [c \in Clients |-> {}]
  /\ adding = [c \in Clients |-> {}]
  /\ dropping = [c \in Clients |-> {}]
  /\ building = [c \in Clients |-> 0]
  /\ overtaken = {}
  /\ gateway \in [Interfaces -> Gateways \cup {None}]
  /\ iprules = {} /\ tables = {} /\ ipsets = {} /\ rules = {}
  /\ members = [n \in Interfaces |-> {}]
  /\ crash = FALSE
  /\ failures = 0
  /\ disowned = {} /\ left = {} /\ moved = {} /\ torn = {}

\* Where a client is, in a process that has not crashed; where it goes.
At(c, l)   == ~crash /\ pc[c] = l
Goto(c, l) == pc' = [pc EXCEPT ![c] = l]

\* The marks that a map refers to.
Marked(map) == {map[n] : n \in Names} \ {0}
\* The objects that somebody else than client c refers to.
HeldElsewhere(c) ==
  Marked(specializations) \cup UNION {Marked(result[d]) : d \in Clients \ {c}}

\* The object whose ipset client c fills, and the clients at l that fill m's.
Filled(c)    == result[c][name[c]]
Users(l, m)  == {c \in Clients : pc[c] = l /\ Filled(c) = m}

\* Something fails that need not, perhaps several commands of the step.
Failure == failures < MaxFailures /\ failures' = failures + 1

-----------------------------------------------------------------------------
(* configure() *)

Configure(c) ==
  /\ At(c, "idle")
  /\ \E q \in Requests :
       /\ request' = [request EXCEPT ![c] = q]
       /\ pending' = [pending EXCEPT ![c] = DOMAIN q]
  /\ Goto(c, "next")
  /\ UNCHANGED <<pluginVars, name, result, dropping, fillVars, buildVars, kernelVars, gateway, crash>>

\* The next entry of the configuration, a std::map: the object that the plugin has for the
\* interface, or a new one.
Lookup(c) ==
  /\ At(c, "next")
  /\ \E n \in pending[c] :
       /\ \A k \in pending[c] : Rank[n] <= Rank[k]
       /\ name' = [name EXCEPT ![c] = n]
       /\ pending' = [pending EXCEPT ![c] = @ \ {n}]
       /\ IF specializations[n] # 0
            THEN /\ result' = [result EXCEPT ![c][n] = specializations[n]]
                 /\ Goto(c, "clear")
            ELSE Goto(c, "create") /\ UNCHANGED result
  /\ UNCHANGED <<pluginVars, request, dropping, fillVars, buildVars, kernelVars, gateway, crash>>

\* TrafficSpecialization's constructor throws for an unknown interface,
CreateUnknown(c) ==
  /\ At(c, "create")
  /\ name[c] \notin Interfaces
  /\ Goto(c, "next")
  /\ UNCHANGED <<pluginVars, request, pending, name, result, dropping, fillVars, buildVars,
                 kernelVars, gateway, crash>>

\* and counts before anything else may fail.  Whoever is in the middle of a
\* constructor will read the new value.
Counts(c) ==
  /\ At(c, "create")
  /\ name[c] \in Interfaces
  /\ mark < MaxMark
  /\ mark' = mark + 1
  /\ owner' = [owner EXCEPT ![mark'] = name[c]]
  /\ overtaken' = overtaken \cup ({building[d] : d \in Clients} \ {0})

\* Mutant: ipset create -exist.
CanCreateAgain(n) == gateway[n] # None

\* ipset create is refused if there is a set of that name.
CanCreate(n) == n \notin ipsets /\ gateway[n] # None

\* Mutant: what it made so far stays.
PrepareFailsHalfway(c) ==
  LET n == name[c]
  IN /\ Counts(c)
     /\ ~CanCreate(n)
     /\ iprules' = iprules \cup {mark'}
     /\ Goto(c, "next")
     /\ UNCHANGED <<specializations, alive, ips, chains_seen, request, pending, name, result,
                    dropping, fillVars, building, tables, ipsets, members, rules, lostVars, moved,
                    gateway, crash>>

\* It throws with the rule, the set or the route, and the entry is null.  What it
\* made so far goes again, unless the command for that fails as well.
PrepareFails(c) ==
  LET n == name[c]
  IN /\ Counts(c)
     /\ \E rest \in SUBSET {"rule", "set"} :
          /\ \/ Failure
             \/ ~CanCreate(n) /\ rest = {} /\ UNCHANGED failures
          /\ "set" \in rest => n \notin ipsets
          /\ iprules' = IF "rule" \in rest THEN iprules \cup {mark'} ELSE iprules
          /\ ipsets' = IF "set" \in rest THEN ipsets \cup {n} ELSE ipsets
          /\ members' = IF "set" \in rest THEN [members EXCEPT ![n] = {}] ELSE members
          /\ left' = left \cup (rest \X {mark'})
     /\ Goto(c, "next")
     /\ UNCHANGED <<specializations, alive, ips, chains_seen, request, pending, name, result,
                    dropping, fillVars, building, tables, rules, disowned, moved, gateway, crash>>

\* The rule, the ipset and the route of the table that it counted.
Prepare(c) ==
  LET n == name[c]
  IN /\ Counts(c)
     /\ CanCreate(n)
     /\ building' = [building EXCEPT ![c] = mark']
     /\ iprules' = iprules \cup {mark'}
     /\ ipsets' = ipsets \cup {n}
     /\ members' = [members EXCEPT ![n] = {}]
     /\ tables' = tables \cup {mark'}
     /\ Goto(c, "build")
     /\ UNCHANGED <<specializations, alive, ips, chains_seen, request, pending, name, result,
                    dropping, fillVars, rules, lostVars, moved, gateway, crash>>

\* Table::getChain returns a null pointer for a chain it has seen and that has
\* died since; addRule is called on it.
ChainExpired == chains_seen /\ alive = {}

CreateMeetsExpiredChain(c) ==
  /\ At(c, "build")
  /\ ChainExpired
  /\ crash' = TRUE
  /\ UNCHANGED <<pluginVars, clientVars, kernelVars, gateway>>

\* The marking rule of a constructor, as the counter stands when it is built.
Marking(c, chain) == [chain |-> chain, mark |-> mark, set |-> name[c]]

\* What addRule may push out of these chains: a rule under whose id, of which an
\* increment was lost, it puts the new one.
PushedOut(chains) ==
  {out \in SUBSET (rules \ disowned) :
     \A r, q \in out : r.chain \in chains /\ (r.chain = q.chain => r = q)}

\* Mutant: the ipset goes even if a rule refers to it.
ReleasesByForce(m, known, stale, holders, failing, rest) ==
  /\ failing \subseteq known \ stale /\ (holders = {} \/ failing = {})
  /\ "table" \in rest => m \in tables
  /\ disowned' = {r \in stale \cup failing : r \in known \/ r.set # owner[m]}
  /\ rules' = IF holders = {} THEN known \cap disowned' ELSE known
  /\ ipsets' = IF "set" \in rest THEN ipsets ELSE ipsets \ {owner[m]}
  /\ tables' = IF "table" \in rest THEN tables ELSE tables \ {m}
  /\ iprules' = IF "rule" \in rest THEN iprules ELSE iprules \ {m}
  /\ left' = left \cup (rest \X {m})
  /\ members' = [n \in Interfaces |-> IF n \in ipsets' THEN members[n] ELSE {}]
  /\ overtaken' = overtaken \ {m} /\ moved' = moved \ {m} /\ torn' = torn \ {m}

\* The members of m are destroyed, with known the rules in the kernel and stale
\* those that no chain knows: the chains, which delete their rules unless other
\* objects hold them (holders); the ipset, whose destruction the kernel refuses
\* while a rule refers to it; the route and the ip rule.  No destructor minds that a
\* command fails: failing and rest are the rules and what else then stays.  The
\* histories forget the object.
Releases(m, known, stale, holders, failing, rest) ==
  /\ failing \subseteq known \ stale /\ (holders = {} \/ failing = {})
  /\ "table" \in rest => m \in tables
  /\ disowned' = {r \in stale \cup failing : r \in known \/ r.set # owner[m]}
  /\ rules' = IF holders = {} THEN known \cap disowned' ELSE known
  /\ (\E r \in rules' : r.set = owner[m]) => "set" \in rest
  /\ ipsets' = IF "set" \in rest THEN ipsets ELSE ipsets \ {owner[m]}
  /\ tables' = IF "table" \in rest THEN tables ELSE tables \ {m}
  /\ iprules' = IF "rule" \in rest THEN iprules ELSE iprules \ {m}
  /\ left' = left \cup (rest \X {m})
  /\ members' = [n \in Interfaces |-> IF n \in ipsets' THEN members[n] ELSE {}]
  /\ overtaken' = overtaken \ {m} /\ moved' = moved \ {m} /\ torn' = torn \ {m}

\* It throws with a marking rule.  While other objects hold the chains, the rule
\* added first stays, and so does the ipset it refers to.
RuleFails(c, chain) ==
  LET new == IF chain = "OUTPUT" THEN {Marking(c, "PREROUTING")} ELSE {}
  IN /\ At(c, "build")
     /\ Failure
     /\ ~ChainExpired
     /\ chains_seen' = TRUE
     /\ \E out \in PushedOut({r.chain : r \in new}) :
          \E undeleted \in SUBSET out, failing \in SUBSET (rules \cup new), rest \in SUBSET Parts :
            Releases(building[c], (rules \ (out \ undeleted)) \cup new, disowned \cup out,
                     alive, failing, rest)
     /\ building' = [building EXCEPT ![c] = 0]
     /\ Goto(c, "next")
     /\ UNCHANGED <<specializations, mark, alive, owner, ips, request, pending, name, result,
                    dropping, todo, adding, gateway, crash>>

\* The marking rules, and the object is complete.  What they push out is deleted
\* by its ChainRule, if iptables does not fail.
Create(c) ==
  LET n == name[c]
      m == building[c]
  IN /\ At(c, "build")
     /\ ~ChainExpired
     /\ chains_seen' = TRUE
     /\ \E out \in PushedOut(Chains) : \E undeleted \in SUBSET out :
          /\ IF out = {} THEN UNCHANGED failures ELSE Failure
          /\ rules' = (rules \ (out \ undeleted)) \cup {Marking(c, ch) : ch \in Chains}
          /\ disowned' = disowned \cup out
     /\ alive' = alive \cup {m}
     /\ ips' = [ips EXCEPT ![m] = {}]
     /\ result' = [result EXCEPT ![c][n] = m]
     /\ building' = [building EXCEPT ![c] = 0]
     /\ Goto(c, "clear")
     /\ UNCHANGED <<specializations, mark, owner, request, pending, name, dropping, fillVars,
                    overtaken, iprules, tables, ipsets, members, left, moved, gateway, crash>>

-----------------------------------------------------------------------------
(* clearIPs(), and addIP() for each destination *)

\* ipset flush.  What another thread has added and not recorded yet will be in
\* the list only.
Flush(c) ==
  LET m == Filled(c)
  IN /\ At(c, "clear")
     /\ members' = [members EXCEPT ![owner[m]] = {}]
     /\ torn' = IF Users("push", m) = {} THEN torn \ {m} ELSE torn \cup {m}
     /\ Goto(c, "flushed")
     /\ UNCHANGED <<pluginVars, request, pending, name, result, dropping, todo, adding,
                    buildVars, iprules, tables, ipsets, rules, lostVars, moved, gateway, crash>>

\* Its exception leaves configure() and takes the new map with it.
ClearFails(c) ==
  /\ At(c, "clear")
  /\ Failure
  /\ dropping' = [dropping EXCEPT ![c] = Marked(result[c]) \ HeldElsewhere(c)]
  /\ result' = [result EXCEPT ![c] = Nothing]
  /\ Goto(c, "drop")
  /\ UNCHANGED <<pluginVars, request, pending, name, fillVars, buildVars, iprules, tables,
                 ipsets, members, rules, disowned, left, moved, gateway, crash>>

\* ips.clear()
Clear(c) ==
  /\ At(c, "flushed")
  /\ ips' = [ips EXCEPT ![Filled(c)] = {}]
  /\ todo' = [todo EXCEPT ![c] = request[c][name[c]]]
  /\ Goto(c, "add")
  /\ UNCHANGED <<specializations, mark, alive, owner, chains_seen, request, pending, name,
                 result, dropping, adding, torn, buildVars, kernelVars, gateway, crash>>

\* ipset add of an address that the list does not have.  A set that has it
\* refuses it, so that the command and the find before it are one step.  What
\* another thread is about to clear will be in the ipset only.
AddIP(c, x) ==
  LET m == Filled(c)
  IN /\ At(c, "add")
     /\ x \in todo[c] \ (ips[m] \cup members[owner[m]])
     /\ todo' = [todo EXCEPT ![c] = @ \ {x}]
     /\ adding' = [adding EXCEPT ![c] = {x}]
     /\ members' = [members EXCEPT ![owner[m]] = @ \cup {x}]
     /\ torn' = IF Users("flushed", m) = {} THEN torn ELSE torn \cup {m}
     /\ Goto(c, "push")
     /\ UNCHANGED <<pluginVars, request, pending, name, result, dropping, buildVars, iprules,
                    tables, ipsets, rules, lostVars, moved, gateway, crash>>

\* Mutant: addIP does not look at what ipset add returns.
SkipRecords(c, x) ==
  LET m == Filled(c)
  IN /\ At(c, "add")
     /\ x \in todo[c]
     /\ \/ x \in ips[m] \cup members[owner[m]] /\ UNCHANGED failures
        \/ x \notin ips[m] /\ Failure
     /\ todo' = [todo EXCEPT ![c] = @ \ {x}]
     /\ ips' = [ips EXCEPT ![m] = @ \cup {x}]
     /\ UNCHANGED <<specializations, mark, alive, owner, chains_seen, pc, request, pending, name,
                    result, dropping, adding, torn, buildVars, iprules, tables, ipsets, members,
                    rules, disowned, left, moved, gateway, crash>>

\* Nothing is done for an address that the list has; the exception of a command
\* that fails is logged.
SkipIP(c, x) ==
  LET m == Filled(c)
  IN /\ At(c, "add")
     /\ x \in todo[c]
     /\ \/ x \in ips[m] \cup members[owner[m]] /\ UNCHANGED failures
        \/ x \notin ips[m] /\ Failure
     /\ todo' = [todo EXCEPT ![c] = @ \ {x}]
     /\ UNCHANGED <<pluginVars, pc, request, pending, name, result, dropping, adding, torn,
                    buildVars, iprules, tables, ipsets, members, rules, disowned, left, moved,
                    gateway, crash>>

\* ips.push_back
Push(c) ==
  /\ At(c, "push")
  /\ ips' = [ips EXCEPT ![Filled(c)] = @ \cup adding[c]]
  /\ adding' = [adding EXCEPT ![c] = {}]
  /\ Goto(c, "add")
  /\ UNCHANGED <<specializations, mark, alive, owner, chains_seen, request, pending, name,
                 result, dropping, todo, torn, buildVars, kernelVars, gateway, crash>>

\* No destination is left.
EntryDone(c) ==
  /\ At(c, "add")
  /\ todo[c] = {}
  /\ Goto(c, "next")
  /\ UNCHANGED <<pluginVars, request, pending, name, result, dropping, fillVars, buildVars,
                 kernelVars, gateway, crash>>

\* One thread writes a std::vector that another one reads or writes, undefined:
\* the process may die.
ListRace(c, d) ==
  /\ c # d
  /\ At(c, "flushed") \/ At(c, "push")
  /\ pc[d] \in {"flushed", "add", "push"}
  /\ Filled(c) = Filled(d)
  /\ crash' = TRUE
  /\ UNCHANGED <<pluginVars, clientVars, kernelVars, gateway>>

-----------------------------------------------------------------------------
(* The end of configure() *)

\* Mutant: what the new map does not hold is deleted, as if nobody else held it.
AssignDeletes(c) ==
  /\ At(c, "next")
  /\ pending[c] = {}
  /\ specializations' = result[c]
  /\ result' = [result EXCEPT ![c] = Nothing]
  /\ dropping' = [dropping EXCEPT ![c] = Marked(specializations) \ Marked(result[c])]
  /\ Goto(c, "drop")
  /\ UNCHANGED <<mark, alive, owner, ips, chains_seen, request, pending, name,
                 fillVars, buildVars, kernelVars, gateway, crash>>

\* traffic_specializations = traffic_specializations_result
Assign(c) ==
  /\ At(c, "next")
  /\ pending[c] = {}
  /\ specializations' = result[c]
  /\ result' = [result EXCEPT ![c] = Nothing]
  /\ dropping' = [dropping EXCEPT ![c] =
       Marked(specializations) \ (Marked(result[c])
         \cup UNION {Marked(result[d]) : d \in Clients \ {c}})]
  /\ Goto(c, "drop")
  /\ UNCHANGED <<mark, alive, owner, ips, chains_seen, request, pending, name,
                 fillVars, buildVars, kernelVars, gateway, crash>>

\* The destructor of an object that lost its last reference.  Without a failure
\* of its own only the ipset may stay, for a rule that refers to it.  Which
\* object of the old map goes first is the library's choice.
Destroy(c, m) ==
  /\ At(c, "drop")
  /\ m \in dropping[c]
  /\ dropping' = [dropping EXCEPT ![c] = @ \ {m}]
  /\ alive' = alive \ {m}
  /\ \E failing \in SUBSET rules, rest \in SUBSET Parts :
       /\ Releases(m, rules, disowned, alive', failing, rest)
       /\ \/ /\ failing = {} /\ rest \subseteq {"set"}
             /\ "set" \in rest => \E r \in rules' : r.set = owner[m]
             /\ UNCHANGED failures
          \/ Failure
  /\ ips' = [ips EXCEPT ![m] = {}]
  /\ UNCHANGED <<specializations, mark, owner, chains_seen, pc, request, pending, name, result,
                 todo, adding, building, gateway, crash>>

Return(c) ==
  /\ At(c, "drop")
  /\ dropping[c] = {}
  /\ Goto(c, "idle")
  /\ request' = [request EXCEPT ![c] = NoRequest]
  /\ pending' = [pending EXCEPT ![c] = {}]
  /\ name' = [name EXCEPT ![c] = None]
  /\ UNCHANGED <<pluginVars, result, dropping, fillVars, buildVars, kernelVars,
                 gateway, crash>>

\* An interface gets another address: the kernel drops the routes over it.
SetIP(i) ==
  LET gone == {m \in tables : owner[m] = i}
  IN /\ ~crash
     /\ i \in Readdressing
     /\ gone # {}
     /\ Failure
     /\ tables' = tables \ gone
     /\ moved' = moved \cup gone
     /\ UNCHANGED <<pluginVars, clientVars, iprules, ipsets, members, rules, disowned, left,
                    gateway, crash>>

\* An interface is configured, or configured anew.
SetGW(i) ==
  /\ ~crash
  /\ i \in Readdressing
  /\ \E g \in Gateways : gateway' = [gateway EXCEPT ![i] = g]
  /\ UNCHANGED <<pluginVars, clientVars, kernelVars, crash>>

Client(c) ==
  \/ Configure(c)
  \/ Lookup(c)
  \/ CreateUnknown(c)
  \/ PrepareFails(c)
  \/ Prepare(c)
  \/ CreateMeetsExpiredChain(c)
  \/ \E chain \in Chains : RuleFails(c, chain)
  \/ Create(c)
  \/ Flush(c)
  \/ ClearFails(c)
  \/ Clear(c)
  \/ \E x \in Addresses : AddIP(c, x) \/ SkipIP(c, x)
  \/ Push(c)
  \/ EntryDone(c)
  \/ \E d \in Clients : ListRace(c, d)
  \/ Assign(c)
  \/ \E m \in Marks : Destroy(c, m)
  \/ Return(c)

Next ==
  \/ \E c \in Clients : Client(c)
  \/ \E i \in Interfaces : SetIP(i) \/ SetGW(i)

Spec == Init /\ [][Next]_vars

-----------------------------------------------------------------------------
(* Properties. *)

\* What a TrafficSpecialization owns is in the kernel for as long as it lives,
\* whatever other clients create, fill and destroy meanwhile and whichever command
\* fails (TrafficSpecialization.cpp 16-30).  Its route goes only as its interface is
\* readdressed.  Its ipset has the addresses that getConfiguration reports and
\* those that are about to be recorded (none while somebody is about to clear the
\* list), unless one thread filled the set as another one cleared it (IPSet.cpp
\* 25-32 and 38-43).  Its marking rules lead to its own table, unless they were
\* pushed out under a lost id (Chain.cpp 20-21) or another constructor counted in
\* the middle of its own: then to a later one's.
InKernel(m) ==
  /\ m \in iprules /\ m \in tables \cup moved
  /\ owner[m] \in ipsets
  /\ \E k \in m..mark :
       /\ \A ch \in Chains :
            [chain |-> ch, mark |-> k, set |-> owner[m]] \in rules \cup disowned
       /\ k = m \/ m \in overtaken
MembersRecorded(m) ==
  members[owner[m]] =
    IF Users("flushed", m) # {} THEN {}
    ELSE ips[m] \cup UNION {adding[c] : c \in Users("push", m)}
LiveIsComplete ==
  \A m \in alive : InKernel(m) /\ (m \notin torn => MembersRecorded(m))

\* Nobody holds a pointer to a destroyed object, and an interface is never
\* specialized twice, although configure() takes no lock: the kernel refuses
\* the second ipset of a name.
ReferencesLive ==
  /\ Marked(specializations) \subseteq alive
  /\ \A c \in Clients : Marked(result[c]) \subseteq alive
OnePerInterface == \A m, k \in alive : owner[m] = owner[k] => m = k

\* A packet has one mark: two rules of a chain that match the same ipset never
\* set different marks, even the ones that outlive their object.
MarksAgree ==
  \A r, q \in rules : r.chain = q.chain /\ r.set = q.set => r.mark = q.mark

\* The inductive invariant behind the properties above: marks are never used
\* again, every rule's ipset exists, a client drops only what nobody else
\* refers to or drops, and a constructor has its table and its ipset for itself
\* long before its object exists.
Filling == {"clear", "flushed", "add", "push"}
KernelInv ==
  /\ alive \subseteq 1..mark
  /\ \A m \in alive : owner[m] \in Interfaces
  /\ \A r \in rules : r.set \in ipsets
  /\ alive = {} => rules \subseteq disowned
  /\ left \subseteq Parts \X (1..mark)
ClientInv ==
  \A c \in Clients :
    /\ pc[c] \in {"create", "build"} \cup Filling => name[c] \in Names \cap DOMAIN request[c]
    /\ pc[c] \in Filling => Filled(c) # 0
    /\ request[c] \in Requests \/ pc[c] = "idle"
    /\ pending[c] \subseteq DOMAIN request[c]
DropInv ==
  \A c \in Clients :
    /\ dropping[c] \subseteq alive
    /\ dropping[c] \cap Marked(specializations) = {}
    /\ \A d \in Clients : /\ dropping[c] \cap Marked(result[d]) = {}
                          /\ d # c => dropping[c] \cap dropping[d] = {}
BuildInv ==
  \A c \in Clients :
    /\ pc[c] = "build" <=> building[c] # 0
    /\ pc[c] = "build" =>
         /\ name[c] \in ipsets
         /\ members[name[c]] = {}
         /\ building[c] \in (iprules \cap (tables \cup moved) \cap 1..mark) \ alive
         /\ owner[building[c]] = name[c]
         /\ building[c] = mark \/ building[c] \in overtaken
         /\ \A m \in alive : owner[m] # name[c]
         /\ \A r \in rules : r.set # name[c]
         /\ \A d \in Clients \ {c} :
              pc[d] = "build" => building[d] # building[c] /\ name[d] # name[c]
\* Of an object that is not torn, nobody is about to clear the list while somebody
\* is about to add to it.
FillInv ==
  \A m \in alive \ torn : Users("flushed", m) = {} \/ Users("push", m) = {}
OwnedInv == /\ TypeOK /\ KernelInv /\ ClientInv /\ DropInv /\ BuildInv /\ FillInv
            /\ LiveIsComplete /\ ReferencesLive /\ OnePerInterface /\ MarksAgree

\* Nothing is lost either: an object that the plugin and the clients no longer
\* refer to is in the hands of the client that destroys it, and an ip rule, a
\* table's route or an ipset in the kernel is that of an object or of a constructor
\* that runs, or one that a destructor tried to delete in vain (RouteRule.cpp 28,
\* Route.cpp 11-21, IPSet.cpp 53).
InUse(m) == m \in alive \/ \E c \in Clients : building[c] = m
NothingLeaks ==
  /\ \A m \in alive : \/ m \in Marked(specializations)
                      \/ \E c \in Clients : m \in Marked(result[c]) \cup dropping[c]
  /\ \A m \in iprules : InUse(m) \/ <<"rule", m>> \in left
  /\ \A m \in tables : InUse(m) \/ <<"table", m>> \in left
  /\ \A n \in ipsets : \E m \in Marks : owner[m] = n /\ (InUse(m) \/ <<"set", m>> \in left)

\* It needs that configure() overwrites no pointer of its own map: an entry is
\* empty until its name is done.
EntryInv ==
  \A c \in Clients :
    /\ dropping[c] # {} => pc[c] = "drop"
    /\ pc[c] \in {"idle", "drop"} => result[c] = Nothing
    /\ pc[c] \in {"create", "build"} => result[c][name[c]] = 0
    /\ pc[c] \in {"create", "build"} => name[c] \notin pending[c]
    /\ \A n \in pending[c] : result[c][n] = 0
RoutingInv == OwnedInv /\ NothingLeaks /\ EntryInv

\* What the two steps of a constructor cost: if no thread enters one while
\* another is in one, the marking rules of every object lead to its own table.
ConstructorsAlone ==
  \A c, d \in Clients : pc[c] = "build" => pc[d] # "create"
OwnTable ==
  \A m \in alive, ch \in Chains :
    [chain |-> ch, mark |-> m, set |-> owner[m]] \in rules \cup disowned

\* What the unlocked IPSet costs: if no thread flushes the ipset of an object to
\* which another one is adding, getConfiguration reports what an ipset has as soon
\* as nobody is in the middle of changing it.
FillsAlone == \A m \in alive : Users("flushed", m) = {} \/ Users("push", m) = {}
ReportedIsReal ==
  \A m \in alive :
    Users("flushed", m) \cup Users("push", m) = {} => members[owner[m]] = ips[m]

\* Counting marks, the two steps of a constructor, the three kinds of maps and
\* the lists of what is to be destroyed implement what a shared_ptr promises.
Pointers == INSTANCE SharedObjects WITH
  Objects <- Marks,
  made    <- (1..mark) \ {building[c] : c \in Clients},
  held    <- Marked(specializations) \cup UNION {Marked(result[c]) : c \in Clients},
  dying   <- UNION {dropping[c] : c \in Clients}
ImplementsPointers == Pointers!Spec

\* When configure() returns, every known and configured interface it was asked
\* for has its specialization.
Splits ==
  \A c \in Clients :
    pc[c] = "drop" => \A n \in DOMAIN request[c] \cap Interfaces :
                        gateway[n] # None => specializations[n] # 0
=============================================================================
