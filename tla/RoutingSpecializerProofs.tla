------------------------ MODULE RoutingSpecializerProofs -----------------------
(***************************************************************************)
(* Proofs about RoutingSpecializer: the inductive invariant RoutingInv and *)
(* the safety properties that follow from it, for any set of clients, of   *)
(* interfaces and of configurations, and any number of failures.           *)
(***************************************************************************)
EXTENDS RoutingSpecializer, TLAPS

\* What a map of objects refers to.
LEMMA MarkedDef ==
  ASSUME NEW map, NEW m
  PROVE  m \in Marked(map) <=> m # 0 /\ \E n \in Names : map[n] = m
BY DEF Marked

\* A map without entries refers to nothing.
LEMMA NothingMarked == Marked(Nothing) = {}
BY DEF Marked, Nothing

\* The plugin's constructor establishes the invariant.
LEMMA InitOwned == Init => OwnedInv
<1> SUFFICES ASSUME Init PROVE OwnedInv
  OBVIOUS
<1>1. TypeOK
  <2>1. mark \in 0..MaxMark /\ Nothing \in [Names -> 0..MaxMark] /\ failures \in 0..MaxFailures
    BY ParametersAssumption DEF Init, Nothing
  <2> QED BY <2>1 DEF Init, TypeOK, PCs
<1>2. KernelInv /\ LiveIsComplete /\ OnePerInterface /\ MarksAgree /\ FillInv
  BY DEF Init, KernelInv, LiveIsComplete, OnePerInterface, MarksAgree, FillInv
<1>3. ClientInv /\ DropInv /\ BuildInv
  BY DEF Init, ClientInv, DropInv, BuildInv, Filling
<1>4. ReferencesLive
  BY NothingMarked DEF Init, ReferencesLive
<1> QED BY <1>1, <1>2, <1>3, <1>4 DEF OwnedInv

-----------------------------------------------------------------------------
(* The parts of the invariant, and what they depend on. *)

\* What they say of objects and kernel, and of lists of addresses.
ObjectsInv == /\ KernelInv /\ OnePerInterface /\ MarksAgree
              /\ \A m \in alive : InKernel(m)
ListsInv   == \A m \in alive \ torn : /\ MembersRecorded(m)
                                      /\ Users("flushed", m) = {} \/ Users("push", m) = {}

\* Together with the rest they are the invariant.
LEMMA OwnedParts ==
  /\ OwnedInv => ObjectsInv /\ ListsInv
  /\ TypeOK /\ ObjectsInv /\ ListsInv /\ ClientInv /\ DropInv /\ BuildInv /\ ReferencesLive
       => OwnedInv
BY DEF OwnedInv, ObjectsInv, ListsInv, LiveIsComplete, FillInv

\* The same of the next state.
LEMMA OwnedNext ==
  ASSUME TypeOK', ObjectsInv', ListsInv', ClientInv', DropInv', BuildInv', ReferencesLive'
  PROVE  OwnedInv'
<1>1. LiveIsComplete' /\ FillInv'
  BY DEF ObjectsInv, ListsInv, LiveIsComplete, FillInv
<1> QED BY <1>1 DEF OwnedInv, ObjectsInv

\* A client's steps leave alone what the others are doing.
LEMMA OthersKeep ==
  ASSUME TypeOK, NEW c \in Clients, Client(c), NEW d \in Clients \ {c}
  PROVE  /\ pc'[d] = pc[d] /\ name'[d] = name[d] /\ pending'[d] = pending[d]
         /\ result'[d] = result[d] /\ dropping'[d] = dropping[d]
         /\ building'[d] = building[d] /\ adding'[d] = adding[d] /\ request'[d] = request[d]
<1> USE DEF At, Goto, pluginVars, clientVars, buildVars, fillVars
<1>1. CASE Configure(c) \/ Return(c) \/ CreateUnknown(c) \/ CreateMeetsExpiredChain(c)
           \/ EntryDone(c) \/ \E e \in Clients : ListRace(c, e)
  BY <1>1 DEF Configure, Return, CreateUnknown, CreateMeetsExpiredChain, EntryDone, ListRace, TypeOK
<1>2. CASE Lookup(c)
  <2>1. /\ pc' = [pc EXCEPT ![c] = "clear"] \/ pc' = [pc EXCEPT ![c] = "create"]
        /\ \E n \in pending[c] : /\ name' = [name EXCEPT ![c] = n]
                                /\ pending' = [pending EXCEPT ![c] = @ \ {n}]
                                /\ \/ result' = [result EXCEPT ![c][n] = specializations[n]]
                                   \/ result' = result
        /\ UNCHANGED <<dropping, building, adding, request>>
    BY <1>2 DEF Lookup
  <2> QED BY <2>1 DEF TypeOK
<1>3. CASE Prepare(c) \/ PrepareFails(c)
  BY <1>3 DEF Prepare, PrepareFails, TypeOK
<1>4. CASE Create(c) \/ \E chain \in Chains : RuleFails(c, chain)
  BY <1>4 DEF Create, RuleFails, TypeOK
<1>5. CASE Flush(c) \/ Clear(c) \/ Push(c) \/ \E x \in Addresses : AddIP(c, x) \/ SkipIP(c, x)
  BY <1>5 DEF Flush, Clear, Push, AddIP, SkipIP, TypeOK
<1>6. CASE ClearFails(c) \/ Assign(c) \/ \E m \in Marks : Destroy(c, m)
  BY <1>6 DEF ClearFails, Assign, Destroy, TypeOK
<1> QED BY <1>1, <1>2, <1>3, <1>4, <1>5, <1>6 DEF Client

\* The object that a client fills is alive.
LEMMA FilledIsAlive ==
  ASSUME OwnedInv, NEW c \in Clients, pc[c] \in Filling
  PROVE  /\ name[c] \in Names \cap DOMAIN request[c]
         /\ Filled(c) \in alive
         /\ request[c] \in Requests
<1>1. name[c] \in Names \cap DOMAIN request[c] /\ Filled(c) # 0 /\ pc[c] # "idle"
  BY DEF OwnedInv, ClientInv, Filling
<1>2. Filled(c) \in Marked(result[c])
  BY <1>1 DEF Marked, Filled
<1> QED BY <1>1, <1>2 DEF OwnedInv, ClientInv, ReferencesLive

\* The parts about objects and kernel read nothing else.
LEMMA ObjectsUnchanged ==
  ASSUME ObjectsInv,
         UNCHANGED <<mark, alive, owner, overtaken, iprules, tables, moved, ipsets, rules, disowned, left>>
  PROVE  ObjectsInv'
BY DEF ObjectsInv, KernelInv, InKernel, OnePerInterface, MarksAgree

\* The lists read nothing else.
LEMMA ListUnchanged ==
  ASSUME OwnedInv, UNCHANGED <<pc, name, result, adding, owner, ips, members>>,
         NEW m \in alive \ torn
  PROVE  MembersRecorded(m)' /\ (Users("flushed", m)' = {} \/ Users("push", m)' = {})
<1>1. Users("flushed", m)' = Users("flushed", m) /\ Users("push", m)' = Users("push", m)
  BY DEF Users, Filled
<1>2. UNION {adding'[d] : d \in Users("push", m)'} = UNION {adding[d] : d \in Users("push", m)}
  BY <1>1
<1>3. MembersRecorded(m) /\ (Users("flushed", m) = {} \/ Users("push", m) = {})
  BY DEF OwnedInv, LiveIsComplete, FillInv
<1> QED BY <1>1, <1>2, <1>3 DEF MembersRecorded

\* The lists agree with the ipsets after a step of a client that is not between a
\* command and its record, if the step keeps what old objects have and gives a new
\* one nothing.
LEMMA ListsKept ==
  ASSUME OwnedInv, NEW c \in Clients, Client(c),
         pc[c] \notin {"flushed", "push"}, pc'[c] \notin {"flushed", "push"},
         \A m \in alive' : \/ /\ m \in alive /\ owner'[m] = owner[m] /\ ips'[m] = ips[m]
                              /\ members'[owner[m]] = members[owner[m]]
                              /\ m \in torn => m \in torn'
                           \/ m \notin alive /\ ips'[m] = {} /\ members'[owner'[m]] = {}
  PROVE  ListsInv'
<1>1. \A d \in Clients \ {c} :
        pc'[d] = pc[d] /\ name'[d] = name[d] /\ result'[d] = result[d] /\ adding'[d] = adding[d]
  BY OthersKeep DEF OwnedInv
<1>2. \A l \in {"flushed", "push"}, m \in alive' : Users(l, m)' = Users(l, m)
  BY <1>1 DEF Users, Filled
<1>3. \A m \in alive' : UNION {adding'[d] : d \in Users("push", m)}
                          = UNION {adding[d] : d \in Users("push", m)}
  BY <1>1 DEF Users
<1> SUFFICES ASSUME NEW m \in alive', m \notin torn'
             PROVE  /\ MembersRecorded(m)'
                    /\ Users("flushed", m)' = {} \/ Users("push", m)' = {}
  BY DEF ListsInv
<1>4. Users("flushed", m)' = Users("flushed", m) /\ Users("push", m)' = Users("push", m)
  BY <1>2
<1>5. CASE m \in alive
  <2>1. owner'[m] = owner[m] /\ ips'[m] = ips[m] /\ members'[owner[m]] = members[owner[m]]
        /\ m \notin torn
    BY <1>5
  <2>2. MembersRecorded(m) /\ (Users("flushed", m) = {} \/ Users("push", m) = {})
    BY <1>5, <2>1, OwnedParts DEF ListsInv
  <2> QED BY <1>3, <1>4, <2>1, <2>2 DEF MembersRecorded
<1>6. CASE m \notin alive
  <2>1. Users("flushed", m) = {} /\ Users("push", m) = {}
    BY <1>6, FilledIsAlive DEF Users, Filling
  <2>2. UNION {adding'[d] : d \in Users("push", m)'} = {}
    BY <1>4, <2>1
  <2> QED BY <1>4, <1>6, <2>1, <2>2 DEF MembersRecorded
<1> QED BY <1>5, <1>6

\* A client that is in no constructor leaves the others' alone.
LEMMA BuildUnchanged ==
  ASSUME BuildInv, TypeOK, NEW c \in Clients, NEW l, pc[c] # "build", l # "build",
         pc' = [pc EXCEPT ![c] = l],
         \A d \in Clients \ {c} : name'[d] = name[d],
         UNCHANGED <<mark, alive, owner, buildVars, iprules, tables, moved, ipsets, members, rules>>
  PROVE  BuildInv'
<1>1. pc'[c] # "build" /\ \A d \in Clients \ {c} : pc'[d] = pc[d]
  BY DEF TypeOK
<1> QED
  BY <1>1 DEF BuildInv, buildVars

\* Constructors are unharmed by a step that keeps what they have made.
LEMMA BuildKept ==
  ASSUME OwnedInv, NEW c \in Clients, Client(c), pc'[c] # "build", building'[c] = 0,
         1..mark \subseteq 1..mark',
         \A d \in Clients \ {c} : pc[d] = "build" =>
           /\ name[d] \in ipsets' /\ members'[name[d]] = {}
           /\ building[d] \in (iprules' \cap (tables' \cup moved')) \ alive'
           /\ owner'[building[d]] = name[d]
           /\ building[d] = mark' \/ building[d] \in overtaken'
           /\ \A m \in alive' : owner'[m] # name[d]
           /\ \A r \in rules' : r.set # name[d]
  PROVE  BuildInv'
<1>1. \A d \in Clients \ {c} : pc'[d] = pc[d] /\ name'[d] = name[d] /\ building'[d] = building[d]
  BY OthersKeep DEF OwnedInv
<1> SUFFICES ASSUME NEW d \in Clients
             PROVE  /\ pc'[d] = "build" <=> building'[d] # 0
                    /\ pc'[d] = "build" =>
                         /\ name'[d] \in ipsets'
                         /\ members'[name'[d]] = {}
                         /\ building'[d] \in (iprules' \cap (tables' \cup moved') \cap 1..mark') \ alive'
                         /\ owner'[building'[d]] = name'[d]
                         /\ building'[d] = mark' \/ building'[d] \in overtaken'
                         /\ \A m \in alive' : owner'[m] # name'[d]
                         /\ \A r \in rules' : r.set # name'[d]
                         /\ \A e \in Clients \ {d} : pc'[e] = "build" =>
                              building'[e] # building'[d] /\ name'[e] # name'[d]
  BY DEF BuildInv
<1>2. CASE d = c
  BY <1>2
<1>3. CASE d # c
  <2>1. pc[d] = "build" <=> building[d] # 0
    BY DEF OwnedInv, BuildInv
  <2>2. pc[d] = "build" => building[d] \in 1..mark
                           /\ \A e \in Clients \ {d} : pc[e] = "build" =>
                                building[e] # building[d] /\ name[e] # name[d]
    BY DEF OwnedInv, BuildInv
  <2> QED BY <1>1, <1>3, <2>1, <2>2
<1> QED BY <1>2, <1>3

-----------------------------------------------------------------------------
(* The steps that change neither an object nor the kernel. *)

\* Configure, the lookup of an entry and the ends of configure() keep the
\* invariant.
LEMMA LookupInv ==
  ASSUME OwnedInv, NEW c \in Clients,
         Configure(c) \/ Lookup(c) \/ Return(c)
  PROVE  OwnedInv'
<1> USE DEF OwnedInv
<1>1. ObjectsInv' /\ ListsInv'
  <2>1. /\ UNCHANGED <<mark, alive, owner, ips, members, torn, kernelVars, buildVars>>
        /\ pc[c] \notin {"flushed", "push"} /\ pc'[c] \notin {"flushed", "push"}
    BY DEF Configure, Lookup, Return, pluginVars, kernelVars, fillVars, At, Goto, TypeOK
  <2> QED BY <2>1, ObjectsUnchanged, ListsKept, OwnedParts DEF Client, kernelVars, buildVars, lostVars
<1>2. CASE Configure(c)
  <2> USE <1>2 DEF Configure, pluginVars, clientVars, fillVars, buildVars, kernelVars, lostVars, At, Goto
  <2>1. TypeOK'
    BY RequestsAssumption DEF TypeOK, PCs
  <2>2. ClientInv'
    BY DEF ClientInv, TypeOK, Filled, Filling
  <2>3. DropInv' /\ ReferencesLive'
    BY DEF DropInv, ReferencesLive
  <2>4. BuildInv'
    BY BuildUnchanged
  <2> QED BY <1>1, <2>1, <2>2, <2>3, <2>4, OwnedNext
<1>3. CASE Lookup(c)
  <2> USE <1>3 DEF Lookup, pluginVars, clientVars, fillVars, buildVars, kernelVars, lostVars, At, Goto
  <2>1. PICK n \in pending[c] :
          /\ name' = [name EXCEPT ![c] = n]
          /\ pending' = [pending EXCEPT ![c] = @ \ {n}]
          /\ IF specializations[n] # 0
               THEN /\ result' = [result EXCEPT ![c][n] = specializations[n]]
                    /\ pc' = [pc EXCEPT ![c] = "clear"]
               ELSE pc' = [pc EXCEPT ![c] = "create"] /\ UNCHANGED result
    OBVIOUS
  <2>2. n \in Names
    BY DEF TypeOK
  <2>3. TypeOK'
    <3>1. result' \in [Clients -> [Names -> 0..MaxMark]]
      <4>1. result[c] \in [Names -> 0..MaxMark] /\ specializations[n] \in 0..MaxMark
        BY <2>2 DEF TypeOK
      <4>2. [result[c] EXCEPT ![n] = specializations[n]] \in [Names -> 0..MaxMark]
        BY <4>1
      <4> QED BY <2>1, <4>2 DEF TypeOK
    <3>2. name' \in [Clients -> Names \cup {None}]
      BY <2>1, <2>2 DEF TypeOK
    <3>4. pc' \in [Clients -> PCs]
      <4>1. pc' = [pc EXCEPT ![c] = "clear"] \/ pc' = [pc EXCEPT ![c] = "create"]
        BY <2>1
      <4>2. pc \in [Clients -> PCs] /\ {"clear", "create"} \subseteq PCs
        BY DEF TypeOK, PCs
      <4> QED BY <4>1, <4>2
    <3>3. pending' \in [Clients -> SUBSET Names]
      BY <2>1, <2>2 DEF TypeOK
    <3> QED BY <3>1, <3>2, <3>3, <3>4 DEF TypeOK
  <2>4. ClientInv'
    BY <2>1, <2>2 DEF ClientInv, TypeOK, Filled, Filling
  <2>5. \A d \in Clients : Marked(result'[d]) \subseteq Marked(result[d]) \cup Marked(specializations)
    <3>1. CASE specializations[n] # 0
      <4>1. \A d \in Clients, k \in Names :
              result'[d][k] = result[d][k] \/ result'[d][k] = specializations[n]
        <5>1. result' = [result EXCEPT ![c][n] = specializations[n]]
          BY <2>1, <3>1
        <5>2. /\ result'[c] = [result[c] EXCEPT ![n] = specializations[n]]
              /\ \A d \in Clients \ {c} : result'[d] = result[d]
          BY <5>1 DEF TypeOK
        <5>3. \A d \in Clients \ {c}, k \in Names : result'[d][k] = result[d][k]
          BY <5>2
        <5>4. \A k \in Names : result'[c][k] = result[c][k] \/ result'[c][k] = specializations[n]
          BY <2>2, <5>2 DEF TypeOK
        <5> QED BY <5>3, <5>4
      <4> QED BY <2>2, <4>1 DEF Marked
    <3>2. CASE specializations[n] = 0
      BY <2>1, <3>2 DEF Marked
    <3> QED BY <3>1, <3>2
  <2>6. DropInv' /\ ReferencesLive'
    BY <2>5 DEF DropInv, ReferencesLive
  <2>7. BuildInv'
    <3>1. \A d \in Clients \ {c} : name'[d] = name[d]
      BY <2>1 DEF TypeOK
    <3>2. pc' = [pc EXCEPT ![c] = "clear"] \/ pc' = [pc EXCEPT ![c] = "create"]
      BY <2>1
    <3> QED BY <3>1, <3>2, BuildUnchanged
  <2> QED BY <1>1, <2>3, <2>4, <2>6, <2>7, OwnedNext
<1>4. CASE Return(c)
  <2> USE <1>4 DEF Return, pluginVars, clientVars, fillVars, buildVars, kernelVars, lostVars, At, Goto
  <2>1. TypeOK'
    BY DEF TypeOK, PCs
  <2>2. ClientInv'
    BY DEF ClientInv, TypeOK, Filled, Filling
  <2>3. DropInv' /\ ReferencesLive'
    BY DEF DropInv, ReferencesLive
  <2>4. BuildInv'
    BY BuildUnchanged DEF TypeOK
  <2> QED BY <1>1, <2>1, <2>2, <2>3, <2>4, OwnedNext
<1> QED BY <1>2, <1>3, <1>4

\* An unknown interface and the last destination change nothing but the client's
\* place; a null chain and a race over a list end the process.
LEMMA EndsInv ==
  ASSUME OwnedInv, NEW c \in Clients,
         \/ CreateUnknown(c) \/ EntryDone(c)
         \/ CreateMeetsExpiredChain(c) \/ \E d \in Clients : ListRace(c, d)
  PROVE  OwnedInv'
<1> USE DEF OwnedInv, CreateUnknown, EntryDone, CreateMeetsExpiredChain, ListRace, At, Goto,
            pluginVars, clientVars, fillVars, buildVars, kernelVars, lostVars
<1>1. TypeOK'
  BY DEF TypeOK, PCs
<1>2. ObjectsInv'
  BY ObjectsUnchanged, OwnedParts
<1>3. ClientInv'
  BY DEF ClientInv, TypeOK, Filled, Filling
<1>4. DropInv' /\ ReferencesLive'
  BY DEF DropInv, ReferencesLive
<1>5. CASE CreateUnknown(c) \/ EntryDone(c)
  <2>1. /\ pc[c] \notin {"build", "flushed", "push"} /\ pc' = [pc EXCEPT ![c] = "next"]
        /\ pc'[c] = "next"
        /\ UNCHANGED <<name, mark, alive, owner, ips, torn, buildVars, kernelVars>>
    BY <1>5 DEF TypeOK
  <2>2. BuildInv'
    BY <2>1, BuildUnchanged
  <2>3. ListsInv'
    BY <1>5, <2>1, ListsKept DEF Client
  <2> QED BY <1>1, <1>2, <1>3, <1>4, <2>2, <2>3, OwnedNext
<1>6. CASE CreateMeetsExpiredChain(c) \/ \E d \in Clients : ListRace(c, d)
  <2>1. UNCHANGED <<pluginVars, clientVars, kernelVars>>
    BY <1>6
  <2>2. BuildInv'
    BY <2>1 DEF BuildInv
  <2>3. ListsInv'
    BY <2>1, ListUnchanged DEF ListsInv, pluginVars, clientVars, kernelVars
  <2> QED BY <1>1, <1>2, <1>3, <1>4, <2>2, <2>3, OwnedNext
<1> QED BY <1>5, <1>6

\* Who counts overtakes those that are in the middle of a constructor.
LEMMA CountsInv ==
  ASSUME OwnedInv, NEW c \in Clients, Counts(c)
  PROVE  /\ mark \in Nat /\ mark' \in 0..MaxMark /\ mark' \in Marks /\ mark < mark'
         /\ mark' \notin alive /\ 1..mark \subseteq 1..mark' /\ mark' \in 1..mark'
         /\ overtaken \subseteq overtaken' /\ overtaken' \subseteq Marks
         /\ owner' \in [Marks -> Interfaces \cup {None}] /\ owner'[mark'] = name[c]
         /\ \A m \in Marks : m # mark' => owner'[m] = owner[m]
         /\ \A m \in alive : m \in Marks /\ owner'[m] = owner[m] /\ m..mark \subseteq m..mark'
         /\ \A d \in Clients : pc[d] = "build" =>
              /\ building[d] \in overtaken' /\ building[d] # mark'
              /\ building[d] \in Marks /\ owner'[building[d]] = owner[building[d]]
<1>1. /\ mark \in Nat /\ mark' \in 0..MaxMark /\ mark' \in Marks /\ mark < mark'
      /\ 1..mark \subseteq 1..mark' /\ mark' \in 1..mark'
  BY ParametersAssumption DEF Counts, OwnedInv, TypeOK, Marks
<1>2. mark' \notin 1..mark
  BY <1>1
<1>3. mark' \notin alive
  BY <1>2 DEF OwnedInv, KernelInv
<1>4. /\ overtaken' = overtaken \cup ({building[d] : d \in Clients} \ {0})
      /\ owner' = [owner EXCEPT ![mark'] = name[c]] /\ name[c] \in Interfaces
  BY DEF Counts
<1>5. \A d \in Clients : building[d] # 0 => building[d] \in Marks
  BY ParametersAssumption DEF OwnedInv, TypeOK, Marks
<1>6. overtaken \subseteq overtaken' /\ overtaken' \subseteq Marks
  BY <1>4, <1>5 DEF OwnedInv, TypeOK
<1>7. \A d \in Clients : pc[d] = "build" => building[d] # 0 /\ building[d] \in 1..mark
  BY DEF OwnedInv, BuildInv
<1>8. /\ owner' \in [Marks -> Interfaces \cup {None}] /\ owner'[mark'] = name[c]
      /\ \A m \in Marks : m # mark' => owner'[m] = owner[m]
  BY <1>1, <1>4 DEF OwnedInv, TypeOK
<1>9. \A m \in alive : m \in Marks /\ owner'[m] = owner[m]
  BY <1>3, <1>8 DEF OwnedInv, TypeOK
<1>10. \A m \in Marks : m..mark \subseteq m..mark'
  BY <1>1 DEF Marks
<1>11. \A d \in Clients : pc[d] = "build" =>
         /\ building[d] \in overtaken' /\ building[d] # mark'
         /\ building[d] \in Marks /\ owner'[building[d]] = owner[building[d]]
  BY <1>2, <1>4, <1>5, <1>7, <1>8
<1> QED BY <1>1, <1>3, <1>6, <1>8, <1>9, <1>10, <1>11

\* A constructor that throws before it reaches the chains uses up a mark, and may
\* leave a rule for it and a new set.
LEMMA PrepareFailsInv ==
  ASSUME OwnedInv, NEW c \in Clients, PrepareFails(c)
  PROVE  OwnedInv'
<1> DEFINE n == name[c]
<1>1. /\ Counts(c) /\ n \in Interfaces /\ pc[c] = "create" /\ pc' = [pc EXCEPT ![c] = "next"]
      /\ UNCHANGED <<specializations, alive, ips, chains_seen, request, pending, name, result,
                     dropping, fillVars, building, tables, rules, disowned, moved, gateway, crash>>
  BY DEF PrepareFails, Counts, At, Goto
<1>2. PICK rest \in SUBSET {"rule", "set"} :
        /\ Failure \/ UNCHANGED failures
        /\ "set" \in rest => n \notin ipsets
        /\ iprules' = IF "rule" \in rest THEN iprules \cup {mark'} ELSE iprules
        /\ ipsets' = IF "set" \in rest THEN ipsets \cup {n} ELSE ipsets
        /\ members' = IF "set" \in rest THEN [members EXCEPT ![n] = {}] ELSE members
        /\ left' = left \cup (rest \X {mark'})
  BY DEF PrepareFails
<1>3. /\ mark \in Nat /\ mark' \in 0..MaxMark /\ mark' \in Marks /\ mark < mark'
      /\ mark' \notin alive /\ 1..mark \subseteq 1..mark'
      /\ overtaken \subseteq overtaken' /\ overtaken' \subseteq Marks
      /\ owner' \in [Marks -> Interfaces \cup {None}]
      /\ \A m \in alive : m \in Marks /\ owner'[m] = owner[m] /\ m..mark \subseteq m..mark'
      /\ \A d \in Clients : pc[d] = "build" =>
           building[d] \in overtaken' /\ owner'[building[d]] = owner[building[d]]
  BY <1>1, CountsInv
<1>4. /\ iprules \subseteq iprules' /\ ipsets \subseteq ipsets'
      /\ \A i \in ipsets : members'[i] = members[i]
  BY <1>1, <1>2 DEF OwnedInv, TypeOK
<1> HIDE DEF n
<1>5. TypeOK'
  <2>1. failures' \in 0..MaxFailures
    BY <1>2, ParametersAssumption DEF OwnedInv, TypeOK, Failure
  <2>2. left' \subseteq Parts \X Marks
    BY <1>2, <1>3 DEF OwnedInv, TypeOK, Parts
  <2>3. iprules' \subseteq Marks /\ ipsets' \subseteq Interfaces
        /\ members' \in [Interfaces -> SUBSET Addresses]
    BY <1>1, <1>2, <1>3 DEF OwnedInv, TypeOK
  <2>4. pc' \in [Clients -> PCs]
    BY <1>1 DEF OwnedInv, TypeOK, PCs
  <2> QED BY <1>1, <1>3, <2>1, <2>2, <2>3, <2>4 DEF OwnedInv, TypeOK, fillVars
<1>6. ObjectsInv'
  <2>0. left' \subseteq Parts \X (1..mark')
    <3>1. left \subseteq Parts \X (1..mark) /\ mark' \in 1..mark'
      BY <1>3 DEF OwnedInv, KernelInv
    <3> QED BY <1>2, <1>3, <3>1 DEF Parts
  <2>1. KernelInv' /\ OnePerInterface' /\ MarksAgree'
    BY <1>1, <1>3, <1>4, <2>0 DEF OwnedInv, KernelInv, OnePerInterface, MarksAgree
  <2>2. ASSUME NEW m \in alive PROVE InKernel(m)'
    BY <1>1, <1>3, <1>4, OwnedParts DEF ObjectsInv, InKernel
  <2> QED BY <1>1, <2>1, <2>2 DEF ObjectsInv
<1>7. ListsInv'
  <2>1. \A m \in alive : owner[m] \in ipsets
    BY OwnedParts DEF ObjectsInv, InKernel
  <2>2. pc[c] = "create" /\ pc'[c] = "next"
    BY <1>1 DEF OwnedInv, TypeOK
  <2> QED BY <1>1, <1>3, <1>4, <2>1, <2>2, ListsKept DEF Client, fillVars
<1>8. ClientInv'
  BY <1>1 DEF OwnedInv, ClientInv, TypeOK, Filled, Filling
<1>9. DropInv' /\ ReferencesLive'
  BY <1>1 DEF OwnedInv, DropInv, ReferencesLive
<1>10. BuildInv'
  <2>1. pc'[c] = "next" /\ building'[c] = 0
    BY <1>1 DEF OwnedInv, TypeOK, BuildInv
  <2>2. ASSUME NEW d \in Clients \ {c}, pc[d] = "build"
        PROVE  /\ name[d] \in ipsets' /\ members'[name[d]] = {}
               /\ building[d] \in (iprules' \cap (tables' \cup moved')) \ alive'
               /\ owner'[building[d]] = name[d]
               /\ building[d] \in overtaken'
               /\ \A m \in alive' : owner'[m] # name[d]
               /\ \A r \in rules' : r.set # name[d]
    BY <1>1, <1>3, <1>4, <2>2 DEF OwnedInv, BuildInv
  <2> QED BY <1>3, <2>1, <2>2, BuildKept DEF Client
<1> QED BY <1>5, <1>6, <1>7, <1>8, <1>9, <1>10, OwnedNext

-----------------------------------------------------------------------------
(* The steps that create, fill and destroy objects. *)

\* No object lives and no rule exists for an interface whose ipset the kernel
\* would create.
LEMMA FreshSet ==
  ASSUME OwnedInv, NEW n, CanCreate(n)
  PROVE  /\ \A m \in alive : owner[m] # n
         /\ \A r \in rules : r.set # n
BY OwnedParts DEF ObjectsInv, KernelInv, InKernel, CanCreate

\* A constructor gets a table and an ipset that nobody else has.
LEMMA PrepareInv ==
  ASSUME OwnedInv, NEW c \in Clients, Prepare(c)
  PROVE  OwnedInv'
<1> DEFINE n == name[c]
<1>1. /\ Counts(c) /\ CanCreate(n) /\ n \in Interfaces
      /\ pc[c] = "create" /\ pc' = [pc EXCEPT ![c] = "build"]
      /\ building' = [building EXCEPT ![c] = mark']
      /\ iprules' = iprules \cup {mark'}
      /\ tables' = tables \cup {mark'}
      /\ ipsets' = ipsets \cup {n}
      /\ members' = [members EXCEPT ![n] = {}]
      /\ UNCHANGED <<specializations, alive, ips, chains_seen, request, pending, name, result,
                     dropping, fillVars, rules, lostVars, moved, gateway, crash>>
  BY DEF Prepare, Counts, At, Goto
<1>2. /\ \A m \in alive : owner[m] # n
      /\ \A r \in rules : r.set # n
      /\ n \notin ipsets
  BY <1>1, FreshSet DEF CanCreate
<1>3. /\ mark \in Nat /\ mark' \in 0..MaxMark /\ mark' \in Marks /\ mark < mark'
      /\ mark' \notin alive /\ 1..mark \subseteq 1..mark' /\ mark' \in 1..mark'
      /\ overtaken \subseteq overtaken' /\ overtaken' \subseteq Marks
      /\ owner' \in [Marks -> Interfaces \cup {None}] /\ owner'[mark'] = n
      /\ \A m \in alive : m \in Marks /\ owner'[m] = owner[m] /\ m..mark \subseteq m..mark'
      /\ \A d \in Clients : pc[d] = "build" =>
           /\ building[d] \in overtaken' /\ building[d] # mark'
           /\ owner'[building[d]] = owner[building[d]]
  BY <1>1, CountsInv
<1>4. mark' # 0
  BY <1>3
<1>5. /\ pc'[c] = "build" /\ building'[c] = mark'
      /\ \A d \in Clients \ {c} : pc'[d] = pc[d] /\ building'[d] = building[d]
  BY <1>1 DEF OwnedInv, TypeOK
<1>6. members'[n] = {} /\ \A i \in Interfaces \ {n} : members'[i] = members[i]
  BY <1>1 DEF OwnedInv, TypeOK
<1> HIDE DEF n
<1>7. TypeOK'
  <2>1. pc' \in [Clients -> PCs] /\ building' \in [Clients -> 0..MaxMark]
    BY <1>1, <1>3 DEF OwnedInv, TypeOK, PCs
  <2>2. ipsets' \subseteq Interfaces /\ members' \in [Interfaces -> SUBSET Addresses]
    BY <1>1 DEF OwnedInv, TypeOK
  <2>3. iprules' \subseteq Marks /\ tables' \subseteq Marks
    BY <1>1, <1>3 DEF OwnedInv, TypeOK
  <2> QED BY <1>1, <1>3, <2>1, <2>2, <2>3 DEF OwnedInv, TypeOK, fillVars, lostVars
<1>8. ObjectsInv'
  <2>1. KernelInv' /\ OnePerInterface' /\ MarksAgree'
    BY <1>1, <1>3 DEF OwnedInv, KernelInv, OnePerInterface, MarksAgree, lostVars
  <2>2. ASSUME NEW m \in alive PROVE InKernel(m)'
    BY <1>1, <1>3, OwnedParts DEF ObjectsInv, InKernel, lostVars
  <2> QED BY <1>1, <2>1, <2>2 DEF ObjectsInv
<1>9. ListsInv'
  <2>1. \A m \in alive : owner[m] \in Interfaces \ {n}
    BY <1>2, OwnedParts DEF ObjectsInv, KernelInv
  <2> QED BY <1>1, <1>3, <1>5, <1>6, <2>1, ListsKept DEF Client, fillVars
<1>10. ClientInv'
  BY <1>1, <1>5 DEF OwnedInv, ClientInv, Filled, Filling
<1>11. DropInv' /\ ReferencesLive'
  BY <1>1 DEF OwnedInv, DropInv, ReferencesLive
<1>12. BuildInv'
  <2> SUFFICES ASSUME NEW d \in Clients
               PROVE  /\ pc'[d] = "build" <=> building'[d] # 0
                      /\ pc'[d] = "build" =>
                           /\ name[d] \in ipsets'
                           /\ members'[name[d]] = {}
                           /\ building'[d] \in (iprules' \cap (tables' \cup moved') \cap 1..mark') \ alive
                           /\ owner'[building'[d]] = name[d]
                           /\ building'[d] = mark' \/ building'[d] \in overtaken'
                           /\ \A m \in alive : owner'[m] # name[d]
                           /\ \A r \in rules : r.set # name[d]
                           /\ \A e \in Clients \ {d} : pc'[e] = "build" =>
                                building'[e] # building'[d] /\ name[e] # name[d]
    BY <1>1 DEF BuildInv
  <2>1. \A e \in Clients \ {c} : pc[e] = "build" => name[e] # n
    BY <1>2 DEF OwnedInv, BuildInv
  <2>2. CASE d = c
    BY <1>1, <1>2, <1>3, <1>4, <1>5, <1>6, <2>1, <2>2 DEF n
  <2>3. CASE d # c
    <3>1. pc'[d] = "build" => name[d] \in Interfaces \ {n}
      BY <1>5, <2>1, <2>3 DEF OwnedInv, TypeOK, BuildInv
    <3> QED BY <1>1, <1>3, <1>4, <1>5, <1>6, <2>1, <2>3, <3>1 DEF OwnedInv, BuildInv, n
  <2> QED BY <2>2, <2>3
<1> QED BY <1>7, <1>8, <1>9, <1>10, <1>11, <1>12, OwnedNext

\* The counter is a mark once somebody builds.
LEMMA BuilderHasTable ==
  ASSUME OwnedInv, NEW c \in Clients, pc[c] = "build"
  PROVE  /\ mark \in Marks /\ building[c] \in Marks /\ mark \in building[c]..mark
         /\ building[c] # 0 /\ building[c] \notin alive /\ building[c] \in 1..mark
         /\ name[c] \in Interfaces
<1>1. building[c] \in 1..mark /\ building[c] \in 0..MaxMark /\ mark \in 0..MaxMark
      /\ name[c] \in Interfaces /\ building[c] \notin alive
  BY DEF OwnedInv, TypeOK, BuildInv
<1> QED BY <1>1, ParametersAssumption DEF Marks

\* What the destruction of the members of m takes away is m's own.
TakesOwn(m, known, stale, holders, rest) ==
  /\ rules' \subseteq known /\ (holders # {} => rules' = known)
  /\ holders = {} => rules' \subseteq disowned'
  /\ \A r \in rules' : r.set \in ipsets'
  /\ disowned' \subseteq Rule
  /\ \A r \in stale : r \in disowned' \/ r.set = owner[m]
  /\ ipsets' \subseteq ipsets /\ \A i \in ipsets : i # owner[m] => i \in ipsets'
  /\ \A i \in ipsets' : members'[i] = members[i]
  /\ members' \in [Interfaces -> SUBSET Addresses]
  /\ tables' \subseteq tables /\ tables \ {m} \subseteq tables'
  /\ iprules' \subseteq iprules /\ iprules \ {m} \subseteq iprules'
  /\ left' \subseteq Parts \X Marks
  /\ left' = left \cup (rest \X {m})
  /\ m \in iprules' => "rule" \in rest
  /\ m \in tables' => "table" \in rest
  /\ owner[m] \in ipsets' => owner[m] \notin ipsets \/ "set" \in rest
  /\ overtaken' = overtaken \ {m} /\ moved' = moved \ {m} /\ torn' = torn \ {m}

LEMMA ReleasesOwn ==
  ASSUME TypeOK, NEW m \in Marks, NEW known \in SUBSET Rule, NEW stale \in SUBSET Rule,
         NEW holders, NEW failing, NEW rest \in SUBSET Parts,
         Releases(m, known, stale, holders, failing, rest),
         \A r \in known : r.set \in ipsets
  PROVE  TakesOwn(m, known, stale, holders, rest)
<1> USE DEF Releases
<1>1. /\ rules' \subseteq known /\ (holders # {} => rules' = known)
      /\ holders = {} => rules' \subseteq disowned'
      /\ disowned' \subseteq Rule
      /\ \A r \in stale : r \in disowned' \/ r.set = owner[m]
  OBVIOUS
<1>2. /\ ipsets' \subseteq ipsets /\ \A i \in ipsets : i # owner[m] => i \in ipsets'
      /\ owner[m] \in ipsets' => owner[m] \notin ipsets \/ "set" \in rest
  OBVIOUS
<1>3. \A r \in rules' : r.set \in ipsets'
  BY <1>1
<1>4. /\ \A i \in ipsets' : members'[i] = members[i]
      /\ members' \in [Interfaces -> SUBSET Addresses]
  BY <1>2 DEF TypeOK
<1>5. /\ left' \subseteq Parts \X Marks
      /\ left' = left \cup (rest \X {m})
  BY DEF TypeOK
<1>6. /\ tables' \subseteq tables /\ tables \ {m} \subseteq tables'
      /\ iprules' \subseteq iprules /\ iprules \ {m} \subseteq iprules'
      /\ m \in iprules' => "rule" \in rest
      /\ m \in tables' => "table" \in rest
  OBVIOUS
<1> QED BY <1>1, <1>2, <1>3, <1>4, <1>5, <1>6 DEF TakesOwn

\* A constructor that fails with a marking rule gives up its own, whatever else
\* that rule has pushed out.
LEMMA RuleTakesOwn ==
  ASSUME OwnedInv, NEW c \in Clients, NEW chain \in Chains, RuleFails(c, chain)
  PROVE  \E out \in SUBSET Rule, known \in SUBSET Rule, rest \in SUBSET Parts :
           /\ \A r \in rules \ out : r \in known
           /\ \A r \in known : r \in rules \/ r = Marking(c, "PREROUTING")
           /\ TakesOwn(building[c], known, disowned \cup out, alive, rest)
<1> DEFINE k    == building[c]
           mine == Marking(c, "PREROUTING")
           new  == IF chain = "OUTPUT" THEN {mine} ELSE {}
<1>1. \E out \in PushedOut({r.chain : r \in new}) : \E undeleted \in SUBSET out :
        \E failing \in SUBSET (rules \cup new), rest \in SUBSET Parts :
          Releases(k, (rules \ (out \ undeleted)) \cup new, disowned \cup out, alive,
                   failing, rest)
  BY DEF RuleFails
<1>2. PICK out \in PushedOut({r.chain : r \in new}) : \E undeleted \in SUBSET out :
        \E failing \in SUBSET (rules \cup new), rest \in SUBSET Parts :
          Releases(k, (rules \ (out \ undeleted)) \cup new, disowned \cup out, alive,
                   failing, rest)
  BY <1>1
<1>3. PICK undeleted \in SUBSET out : \E failing \in SUBSET (rules \cup new), rest \in SUBSET Parts :
        Releases(k, (rules \ (out \ undeleted)) \cup new, disowned \cup out, alive, failing, rest)
  BY <1>2
<1>4. PICK failing \in SUBSET (rules \cup new), rest \in SUBSET Parts :
        Releases(k, (rules \ (out \ undeleted)) \cup new, disowned \cup out, alive, failing, rest)
  BY <1>3
<1> DEFINE known == (rules \ (out \ undeleted)) \cup new
<1>5. pc[c] = "build"
  BY DEF RuleFails, At
<1>6. k \in Marks /\ mine \in Rule /\ mine.set = name[c] /\ name[c] \in ipsets
  BY <1>5, BuilderHasTable DEF OwnedInv, BuildInv, Rule, Chains, Marking
<1>7. /\ new \subseteq {mine} /\ out \subseteq rules /\ TypeOK
      /\ rules \subseteq Rule /\ disowned \subseteq Rule
  BY DEF PushedOut, OwnedInv, TypeOK
<1>8. /\ known \in SUBSET Rule /\ out \in SUBSET Rule /\ disowned \cup out \in SUBSET Rule
      /\ \A r \in known : r.set \in ipsets /\ (r \in rules \/ r = mine)
      /\ \A r \in rules \ out : r \in known
  BY <1>6, <1>7 DEF OwnedInv, KernelInv
<1>9. TakesOwn(k, known, disowned \cup out, alive, rest)
  BY <1>4, <1>6, <1>7, <1>8, ReleasesOwn
<1> HIDE DEF known
<1> QED BY <1>8, <1>9

\* A marking rule that cannot be added leaves the other objects whole.
LEMMA RuleFailsInv ==
  ASSUME OwnedInv, NEW c \in Clients, NEW chain \in Chains, RuleFails(c, chain)
  PROVE  OwnedInv'
<1> DEFINE n    == name[c]
           k    == building[c]
           mine == Marking(c, "PREROUTING")
<1>1. /\ pc[c] = "build"
      /\ Failure
      /\ building' = [building EXCEPT ![c] = 0]
      /\ pc' = [pc EXCEPT ![c] = "next"]
      /\ chains_seen' = TRUE
      /\ UNCHANGED <<specializations, mark, alive, owner, ips, request, pending, name, result,
                     dropping, todo, adding, gateway, crash>>
  BY DEF RuleFails, At, Goto
<1>2. PICK out \in SUBSET Rule, known \in SUBSET Rule, rest \in SUBSET Parts :
        /\ \A r \in rules \ out : r \in known
        /\ \A r \in known : r \in rules \/ r = mine
        /\ TakesOwn(k, known, disowned \cup out, alive, rest)
  BY RuleTakesOwn
<1>3. /\ \A m \in alive : owner[m] # n /\ m # k
      /\ \A r \in rules : r.set # n
      /\ n \in ipsets /\ owner[k] = n
  BY <1>1 DEF OwnedInv, BuildInv
<1>4. k \in Marks /\ mine \in Rule /\ n \in Interfaces /\ mine.set = n
  BY <1>1, BuilderHasTable DEF Rule, Chains, Marking
<1> HIDE DEF n, k, mine
<1>7. /\ rules' \subseteq known /\ (alive # {} => rules' = known)
      /\ alive = {} => rules' \subseteq disowned'
      /\ \A r \in rules' : r.set \in ipsets'
      /\ disowned' \subseteq Rule
      /\ \A r \in disowned \cup out : r \in disowned' \/ r.set = n
      /\ ipsets' \subseteq ipsets /\ \A i \in ipsets : i # n => i \in ipsets'
      /\ \A i \in ipsets' : members'[i] = members[i]
      /\ members' \in [Interfaces -> SUBSET Addresses]
      /\ tables' \subseteq tables /\ tables \ {k} \subseteq tables'
      /\ iprules' \subseteq iprules /\ iprules \ {k} \subseteq iprules'
      /\ left' \subseteq Parts \X Marks /\ left' = left \cup (rest \X {k})
      /\ overtaken' = overtaken \ {k} /\ moved' = moved \ {k} /\ torn' = torn \ {k}
  BY <1>2, <1>3 DEF TakesOwn
<1>8. TypeOK'
  <2>1. rules' \subseteq Rule
    BY <1>2, <1>7
  <2>2. failures' \in 0..MaxFailures
    BY <1>1, ParametersAssumption DEF OwnedInv, TypeOK, Failure
  <2>3. pc' \in [Clients -> PCs]
    BY <1>1 DEF OwnedInv, TypeOK, PCs
  <2>4. building' \in [Clients -> 0..MaxMark]
    BY <1>1, ParametersAssumption DEF OwnedInv, TypeOK
  <2>5. /\ ipsets' \subseteq Interfaces /\ tables' \subseteq Marks /\ iprules' \subseteq Marks
        /\ overtaken' \subseteq Marks /\ moved' \subseteq Marks /\ torn' \subseteq Marks
    BY <1>7 DEF OwnedInv, TypeOK
  <2> QED BY <1>1, <1>7, <2>1, <2>2, <2>3, <2>4, <2>5 DEF OwnedInv, TypeOK
<1>9. ObjectsInv'
  <2>0. left' \subseteq Parts \X (1..mark)
    <3>1. left \subseteq Parts \X (1..mark) /\ k \in 1..mark
      BY <1>1, BuilderHasTable DEF OwnedInv, KernelInv, k
    <3> QED BY <1>7, <3>1
  <2>1. KernelInv'
    BY <1>1, <1>7, <2>0 DEF OwnedInv, KernelInv
  <2>2. \A r \in rules' : r \in rules \/ r = mine
    BY <1>2, <1>7
  <2>3. OnePerInterface' /\ MarksAgree'
    BY <1>1, <1>3, <1>4, <2>2 DEF OwnedInv, OnePerInterface, MarksAgree
  <2>4. ASSUME NEW m \in alive PROVE InKernel(m)'
    <3>1. m # k /\ owner[m] # n /\ alive # {} /\ InKernel(m)
      BY <1>3, OwnedParts DEF ObjectsInv
    <3>2. ASSUME NEW r \in rules \cup disowned, r.set = owner[m] PROVE r \in rules' \cup disowned'
      <4>1. r \in disowned \cup out => r \in disowned'
        BY <1>7, <3>1, <3>2
      <4>2. r \notin disowned \cup out => r \in rules'
        BY <1>2, <1>7, <3>1
      <4> QED BY <4>1, <4>2
    <3>3. \A ch \in Chains, l \in m..mark :
            [chain |-> ch, mark |-> l, set |-> owner[m]] \in rules \cup disowned
              => [chain |-> ch, mark |-> l, set |-> owner[m]] \in rules' \cup disowned'
      BY <3>2
    <3> QED BY <1>1, <1>7, <3>1, <3>3 DEF InKernel
  <2> QED BY <1>1, <2>1, <2>3, <2>4 DEF ObjectsInv
<1>10. ListsInv'
  <2>1. \A m \in alive : owner[m] \in ipsets /\ owner[m] # n /\ m # k
    BY <1>3, OwnedParts DEF ObjectsInv, InKernel
  <2>2. pc[c] = "build" /\ pc'[c] = "next"
    BY <1>1 DEF OwnedInv, TypeOK
  <2> QED BY <1>1, <1>7, <2>1, <2>2, ListsKept DEF Client
<1>11. ClientInv'
  BY <1>1 DEF OwnedInv, TypeOK, ClientInv, Filled, Filling
<1>12. DropInv' /\ ReferencesLive'
  BY <1>1 DEF OwnedInv, DropInv, ReferencesLive
<1>13. BuildInv'
  <2>1. pc'[c] = "next" /\ building'[c] = 0
    BY <1>1 DEF OwnedInv, TypeOK
  <2>2. ASSUME NEW d \in Clients \ {c}, pc[d] = "build"
        PROVE  /\ name[d] \in ipsets' /\ members'[name[d]] = {}
               /\ building[d] \in (iprules' \cap (tables' \cup moved')) \ alive'
               /\ owner'[building[d]] = name[d]
               /\ building[d] = mark' \/ building[d] \in overtaken'
               /\ \A m \in alive' : owner'[m] # name[d]
               /\ \A r \in rules' : r.set # name[d]
    <3>1. building[d] # k /\ name[d] # n
      BY <1>1, <2>2 DEF OwnedInv, BuildInv, n, k
    <3>2. \A r \in rules' : r \in rules \/ r.set = n
      BY <1>2, <1>4, <1>7
    <3> QED BY <1>1, <1>7, <2>2, <3>1, <3>2 DEF OwnedInv, BuildInv
  <2> QED BY <1>1, <2>1, <2>2, BuildKept DEF Client
<1> QED BY <1>8, <1>9, <1>10, <1>11, <1>12, <1>13, OwnedNext

\* A new object is complete, the only one for its interface, and referred to
\* by its client alone; what it pushes out of the chains is disowned.
LEMMA CreateInv ==
  ASSUME OwnedInv, NEW c \in Clients, Create(c)
  PROVE  OwnedInv'
<1> DEFINE n   == name[c]
           k   == building[c]
           new == {Marking(c, ch) : ch \in Chains}
<1>1. /\ pc[c] = "build"
      /\ alive' = alive \cup {k}
      /\ ips' = [ips EXCEPT ![k] = {}]
      /\ result' = [result EXCEPT ![c][n] = k]
      /\ building' = [building EXCEPT ![c] = 0]
      /\ pc' = [pc EXCEPT ![c] = "clear"]
      /\ chains_seen' = TRUE
      /\ UNCHANGED <<specializations, mark, owner, request, pending, name, dropping, fillVars,
                     overtaken, iprules, tables, ipsets, members, left, moved, gateway, crash>>
  BY DEF Create, At, Goto
<1>2. PICK out \in PushedOut(Chains) :
        /\ Failure \/ UNCHANGED failures
        /\ \E undeleted \in SUBSET out : rules' = (rules \ (out \ undeleted)) \cup new
        /\ disowned' = disowned \cup out
  BY DEF Create
<1>3. /\ \A m \in alive : owner[m] # n /\ m # k
      /\ \A r \in rules : r.set # n
      /\ n \in ipsets /\ members[n] = {} /\ k \in iprules /\ k \in tables \cup moved
      /\ owner[k] = n
      /\ k = mark \/ k \in overtaken
  BY <1>1 DEF OwnedInv, BuildInv
<1>4. mark \in Marks /\ k \in Marks /\ k \in 0..MaxMark /\ k # 0 /\ k \notin alive
      /\ k \in 1..mark /\ mark \in k..mark /\ n \in Interfaces
  BY <1>1, BuilderHasTable DEF Marks
<1>5. /\ new \subseteq Rule
      /\ \A r \in new : r.set = n /\ r.mark = mark /\ r.chain \in Chains
      /\ \A ch \in Chains : [chain |-> ch, mark |-> mark, set |-> n] \in new
  BY <1>4 DEF Rule, Marking
<1>6. n \in Names /\ out \subseteq rules /\ rules \subseteq Rule
  BY <1>4 DEF Names, PushedOut, OwnedInv, TypeOK
<1> HIDE DEF n, k, new
<1>7. rules \subseteq rules' \cup disowned' /\ disowned \subseteq disowned' /\ new \subseteq rules'
      /\ \A r \in rules' : r \in rules \/ r \in new
  BY <1>2
<1>8. TypeOK'
  <2>1. result' \in [Clients -> [Names -> 0..MaxMark]]
    <3>1. [result[c] EXCEPT ![n] = k] \in [Names -> 0..MaxMark]
      BY <1>4, <1>6 DEF OwnedInv, TypeOK
    <3> QED BY <1>1, <3>1 DEF OwnedInv, TypeOK
  <2>2. alive' \subseteq Marks
    BY <1>1, <1>4 DEF OwnedInv, TypeOK
  <2>3. ips' \in [Marks -> SUBSET Addresses]
    BY <1>1, <1>4 DEF OwnedInv, TypeOK
  <2>4. rules' \subseteq Rule /\ disowned' \subseteq Rule
    BY <1>2, <1>5, <1>6, <1>7 DEF OwnedInv, TypeOK
  <2>5. pc' \in [Clients -> PCs] /\ building' \in [Clients -> 0..MaxMark]
    BY <1>1, ParametersAssumption DEF OwnedInv, TypeOK, PCs
  <2>6. failures' \in 0..MaxFailures
    BY <1>2, ParametersAssumption DEF OwnedInv, TypeOK, Failure
  <2> QED BY <1>1, <2>1, <2>2, <2>3, <2>4, <2>5, <2>6 DEF OwnedInv, TypeOK, fillVars
<1>9. ObjectsInv'
  <2>1. KernelInv'
    <3>1. \A m \in alive' : owner[m] \in Interfaces
      BY <1>1, <1>3, <1>4 DEF OwnedInv, KernelInv
    <3>2. \A r \in rules' : r.set \in ipsets
      BY <1>3, <1>5, <1>7 DEF OwnedInv, KernelInv
    <3> QED BY <1>1, <1>4, <3>1, <3>2 DEF OwnedInv, KernelInv
  <2>2. OnePerInterface' /\ MarksAgree'
    BY <1>1, <1>3, <1>4, <1>5, <1>7 DEF OwnedInv, OnePerInterface, MarksAgree
  <2>3. ASSUME NEW m \in alive' PROVE InKernel(m)'
    <3>1. CASE m = k
      <4>1. /\ \A ch \in Chains : [chain |-> ch, mark |-> mark, set |-> n] \in rules' \cup disowned'
            /\ mark = m \/ m \in overtaken
        BY <1>3, <1>5, <1>7, <3>1
      <4>2. mark \in m..mark
        BY <1>4, <3>1
      <4> QED BY <1>1, <1>3, <3>1, <4>1, <4>2 DEF InKernel
    <3>2. CASE m # k
      <4>1. InKernel(m)
        BY <1>1, <3>2, OwnedParts DEF ObjectsInv
      <4> QED BY <1>1, <1>7, <4>1 DEF InKernel
    <3> QED BY <3>1, <3>2
  <2> QED BY <2>1, <2>2, <2>3 DEF ObjectsInv
<1>10. ListsInv'
  <2>1. pc[c] = "build" /\ pc'[c] = "clear"
    BY <1>1 DEF OwnedInv, TypeOK
  <2>2. ASSUME NEW m \in alive'
        PROVE  \/ m \in alive /\ ips'[m] = ips[m]
               \/ m \notin alive /\ ips'[m] = {} /\ members[owner[m]] = {}
    BY <1>1, <1>3, <1>4 DEF OwnedInv, TypeOK
  <2> QED BY <1>1, <2>1, <2>2, ListsKept DEF Client, fillVars
<1>11. \A d \in Clients : Marked(result'[d]) \subseteq Marked(result[d]) \cup {k}
  BY <1>1, <1>6 DEF OwnedInv, TypeOK, Marked
<1>12. ClientInv'
  <2>1. result'[c][n] = k
    BY <1>1, <1>6 DEF OwnedInv, TypeOK
  <2>2. \A d \in Clients \ {c} : result'[d] = result[d] /\ pc'[d] = pc[d]
    BY <1>1 DEF OwnedInv, TypeOK
  <2>3. n \in DOMAIN request[c]
    BY <1>1 DEF OwnedInv, ClientInv, n
  <2> QED BY <1>1, <1>4, <1>6, <2>1, <2>2, <2>3 DEF OwnedInv, TypeOK, ClientInv, n, Filled, Filling
<1>13. DropInv'
  <2>1. \A d \in Clients : k \notin dropping[d]
    BY <1>4 DEF OwnedInv, DropInv
  <2> QED BY <1>1, <1>11, <2>1 DEF OwnedInv, DropInv
<1>14. ReferencesLive'
  BY <1>1, <1>11 DEF OwnedInv, ReferencesLive
<1>15. BuildInv'
  <2>1. pc'[c] = "clear" /\ building'[c] = 0
    BY <1>1 DEF OwnedInv, TypeOK
  <2>2. ASSUME NEW d \in Clients \ {c}, pc[d] = "build"
        PROVE  /\ name[d] \in ipsets' /\ members'[name[d]] = {}
               /\ building[d] \in (iprules' \cap (tables' \cup moved')) \ alive'
               /\ owner'[building[d]] = name[d]
               /\ building[d] = mark' \/ building[d] \in overtaken'
               /\ \A m \in alive' : owner'[m] # name[d]
               /\ \A r \in rules' : r.set # name[d]
    <3>1. building[d] # k /\ name[d] # n
      BY <1>1, <2>2 DEF OwnedInv, BuildInv, n, k
    <3> QED BY <1>1, <1>3, <1>5, <1>7, <2>2, <3>1 DEF OwnedInv, BuildInv
  <2> QED BY <1>1, <2>1, <2>2, BuildKept DEF Client
<1> QED BY <1>8, <1>9, <1>10, <1>12, <1>13, <1>14, <1>15, OwnedNext

\* The steps that flush, clear and fill.
Fills(c) ==
  Flush(c) \/ Clear(c) \/ Push(c) \/ \E x \in Addresses : AddIP(c, x) \/ SkipIP(c, x)

\* What other objects than m have stays the same.
KeepsOthers(m) ==
  \A k \in alive \ {m} : /\ ips'[k] = ips[k] /\ members'[owner[k]] = members[owner[k]]
                         /\ k \in torn' <=> k \in torn

\* What the steps between ipset and list have in common: they change the members
\* and the list of the object that is filled, which is nobody else's.
LEMMA FillStep ==
  ASSUME OwnedInv, NEW c \in Clients,
         Fills(c)
  PROVE  /\ Filled(c) \in alive /\ UNCHANGED <<alive, owner>> /\ KeepsOthers(Filled(c))
         /\ \A d \in Clients \ {c} : pc'[d] = pc[d] /\ adding'[d] = adding[d]
         /\ UNCHANGED <<name, result>>
         /\ TypeOK' /\ ObjectsInv' /\ ClientInv' /\ DropInv' /\ BuildInv' /\ ReferencesLive'
<1> DEFINE m == Filled(c)
           Local == /\ \E A \in SUBSET Addresses : members' = [members EXCEPT ![owner[m]] = A]
                    /\ \E A \in SUBSET Addresses : ips' = [ips EXCEPT ![m] = A]
                    /\ \E A \in SUBSET Addresses : todo' = [todo EXCEPT ![c] = A]
                    /\ \E A \in SUBSET Addresses : adding' = [adding EXCEPT ![c] = A]
                    /\ torn' \in {torn, torn \cup {m}, torn \ {m}}
<1> USE DEF At, Goto
<1>1. /\ pc[c] \in Filling /\ pc[c] # "build"
      /\ UNCHANGED <<specializations, mark, alive, owner, chains_seen, request, pending, name,
                     result, dropping, buildVars, iprules, tables, ipsets, rules, disowned, left,
                     moved, gateway, crash>>
      /\ pc' \in [Clients -> PCs] /\ pc'[c] \in Filling
      /\ Failure \/ UNCHANGED failures
  BY DEF Fills, Flush, Clear, Push, AddIP, SkipIP, Filling, OwnedInv, TypeOK, PCs, pluginVars, kernelVars,
     lostVars
<1>2. m \in alive /\ m \in Marks /\ owner[m] \in Interfaces /\ name[c] \in DOMAIN request[c]
      /\ request[c] \in Requests
  BY <1>1, FilledIsAlive DEF OwnedInv, TypeOK, KernelInv
<1>3. Local
  <2>1. /\ ips[m] \in SUBSET Addresses /\ members[owner[m]] \in SUBSET Addresses
        /\ adding[c] \in SUBSET Addresses /\ todo[c] \in SUBSET Addresses
        /\ request[c][name[c]] \in SUBSET Addresses
    BY <1>2, RequestsAssumption DEF OwnedInv, TypeOK
  <2>2. /\ members = [members EXCEPT ![owner[m]] = members[owner[m]]] /\ ips = [ips EXCEPT ![m] = ips[m]]
        /\ todo = [todo EXCEPT ![c] = todo[c]] /\ adding = [adding EXCEPT ![c] = adding[c]]
    BY <1>2 DEF OwnedInv, TypeOK
  <2>3. CASE Flush(c)
    BY <2>1, <2>2, <2>3 DEF Flush, pluginVars
  <2>4. CASE Clear(c)
    BY <2>1, <2>2, <2>4 DEF Clear, kernelVars
  <2>5. CASE Push(c)
    <3>1. ips[m] \cup adding[c] \in SUBSET Addresses
      BY <2>1
    <3>2. ips' = [ips EXCEPT ![m] = ips[m] \cup adding[c]] /\ adding' = [adding EXCEPT ![c] = {}]
      BY <1>2, <2>5 DEF Push, OwnedInv, TypeOK
    <3>3. UNCHANGED <<members, todo, torn>>
      BY <2>5 DEF Push, kernelVars
    <3> QED BY <2>1, <2>2, <3>1, <3>2, <3>3
  <2>6. ASSUME NEW x \in Addresses, AddIP(c, x) \/ SkipIP(c, x) PROVE Local
    <3>1. todo[c] \ {x} \in SUBSET Addresses /\ members[owner[m]] \cup {x} \in SUBSET Addresses
          /\ {x} \in SUBSET Addresses
      BY <2>1
    <3>2. todo' = [todo EXCEPT ![c] = todo[c] \ {x}]
      BY <2>6 DEF AddIP, SkipIP, OwnedInv, TypeOK
    <3>3. \/ UNCHANGED <<members, adding>>
          \/ /\ members' = [members EXCEPT ![owner[m]] = members[owner[m]] \cup {x}]
             /\ adding' = [adding EXCEPT ![c] = {x}]
      BY <1>2, <2>6 DEF AddIP, SkipIP, OwnedInv, TypeOK
    <3>4. ips' = ips /\ torn' \in {torn, torn \cup {m}}
      BY <2>6 DEF AddIP, SkipIP, pluginVars
    <3> QED BY <2>1, <2>2, <3>1, <3>2, <3>3, <3>4
  <2> QED BY <2>3, <2>4, <2>5, <2>6 DEF Fills
<1> HIDE DEF m
<1>4. TypeOK'
  <2>1. failures' \in 0..MaxFailures
    BY <1>1, ParametersAssumption DEF OwnedInv, TypeOK, Failure
  <2>2. members' \in [Interfaces -> SUBSET Addresses] /\ ips' \in [Marks -> SUBSET Addresses]
        /\ todo' \in [Clients -> SUBSET Addresses] /\ adding' \in [Clients -> SUBSET Addresses]
        /\ torn' \subseteq Marks
    BY <1>2, <1>3 DEF OwnedInv, TypeOK
  <2> QED BY <1>1, <2>1, <2>2 DEF OwnedInv, TypeOK, buildVars
<1>5. ObjectsInv' /\ DropInv' /\ ReferencesLive'
  BY <1>1, ObjectsUnchanged, OwnedParts DEF OwnedInv, DropInv, ReferencesLive, buildVars
<1>6. \A d \in Clients \ {c} : pc'[d] = pc[d] /\ adding'[d] = adding[d]
  BY OthersKeep DEF OwnedInv, Client, Fills
<1>8. ClientInv'
  BY <1>1, <1>6, FilledIsAlive DEF OwnedInv, ClientInv, Filled
<1>9. \A k \in alive : k # m => ips'[k] = ips[k] /\ members'[owner[k]] = members[owner[k]]
  <2>1. ASSUME NEW k \in alive, k # m PROVE ips'[k] = ips[k] /\ members'[owner[k]] = members[owner[k]]
    <3>1. k \in Marks /\ owner[k] \in Interfaces /\ owner[k] # owner[m]
      BY <1>2, <2>1 DEF OwnedInv, TypeOK, KernelInv, OnePerInterface
    <3> QED BY <1>2, <1>3, <2>1, <3>1 DEF OwnedInv, TypeOK
  <2> QED BY <2>1
<1>10. BuildInv'
  <2>1. pc'[c] # "build" /\ building'[c] = 0
    BY <1>1 DEF OwnedInv, BuildInv, Filling, buildVars
  <2>2. ASSUME NEW d \in Clients \ {c}, pc[d] = "build"
        PROVE  members'[name[d]] = {}
    <3>1. name[d] # owner[m] /\ name[d] \in Interfaces /\ members[name[d]] = {}
      BY <1>2, <2>2 DEF OwnedInv, BuildInv, TypeOK
    <3> QED BY <1>2, <1>3, <3>1 DEF OwnedInv, TypeOK
  <2>3. Client(c)
    BY DEF Client, Fills
  <2> QED BY <1>1, <2>1, <2>2, <2>3, BuildKept DEF OwnedInv, BuildInv, buildVars
<1>11. KeepsOthers(m)
  BY <1>3, <1>9 DEF KeepsOthers
<1> HIDE DEF Local
<1> QED BY <1>1, <1>2, <1>4, <1>5, <1>6, <1>8, <1>9, <1>10, <1>11 DEF m

\* The ipset of an object and the list of its addresses change in steps of their
\* own, and agree unless the object is torn.
LEMMA FillStepInv ==
  ASSUME OwnedInv, NEW c \in Clients,
         Fills(c)
  PROVE  OwnedInv'
<1> SUFFICES ASSUME NEW m, m = Filled(c) PROVE OwnedInv'
  OBVIOUS
<1> DEFINE others == Users("push", m) \ {c}
<1>10. /\ m \in alive /\ UNCHANGED <<alive, owner>> /\ KeepsOthers(m)
       /\ \A d \in Clients \ {c} : pc'[d] = pc[d] /\ adding'[d] = adding[d]
       /\ UNCHANGED <<name, result>>
  BY FillStep
<1>1. /\ m \in alive /\ UNCHANGED <<alive, owner>>
      /\ \A k \in alive \ {m} : /\ ips'[k] = ips[k] /\ members'[owner[k]] = members[owner[k]]
                                /\ k \in torn' <=> k \in torn
      /\ \A d \in Clients \ {c} : pc'[d] = pc[d] /\ adding'[d] = adding[d]
      /\ UNCHANGED <<name, result>>
  BY <1>10 DEF KeepsOthers
<1>2. \A k \in alive \ {m} : /\ Users("flushed", k)' = Users("flushed", k)
                            /\ Users("push", k)' = Users("push", k)
  BY <1>1 DEF Users, Filled
<1>3. /\ Users("flushed", m) \ {c} = Users("flushed", m)' \ {c}
      /\ others = Users("push", m)' \ {c}
      /\ c \in Users("flushed", m)' <=> pc'[c] = "flushed"
      /\ c \in Users("push", m)' <=> pc'[c] = "push"
      /\ c \in Users("flushed", m) <=> pc[c] = "flushed"
      /\ c \in Users("push", m) <=> pc[c] = "push"
  BY <1>1 DEF Users, Filled
<1>4. others \subseteq Clients \ {c} /\ UNION {adding'[d] : d \in others} = UNION {adding[d] : d \in others}
  BY <1>1 DEF Users
<1>5. m \notin torn => MembersRecorded(m) /\ (Users("flushed", m) = {} \/ Users("push", m) = {})
  BY <1>1, OwnedParts DEF ListsInv
<1>6. m \in Marks /\ owner[m] \in Interfaces
  BY <1>1 DEF OwnedInv, TypeOK, KernelInv
<1>7. ASSUME m \notin torn'
      PROVE  MembersRecorded(m)' /\ (Users("flushed", m)' = {} \/ Users("push", m)' = {})
  <2>1. CASE Flush(c)
    <3>1. /\ Users("push", m) = {} /\ pc'[c] = "flushed" /\ members'[owner[m]] = {}
      BY <1>6, <1>7, <2>1 DEF Flush, Goto, OwnedInv, TypeOK
    <3>2. c \in Users("flushed", m)' /\ Users("push", m)' = {}
      BY <1>3, <3>1
    <3> QED BY <1>1, <3>1, <3>2 DEF MembersRecorded
  <2>2. CASE Clear(c)
    <3>1. /\ pc[c] = "flushed" /\ pc'[c] = "add" /\ m \notin torn
          /\ ips'[m] = {} /\ members'[owner[m]] = members[owner[m]]
      BY <1>6, <1>7, <2>2 DEF Clear, At, Goto, kernelVars, OwnedInv, TypeOK
    <3>2. Users("push", m)' = {} /\ members[owner[m]] = {}
      BY <1>3, <1>5, <3>1 DEF MembersRecorded
    <3>3. UNION {adding'[d] : d \in Users("push", m)'} = {}
      BY <3>2
    <3> QED BY <1>1, <3>1, <3>2, <3>3 DEF MembersRecorded
  <2>3. CASE Push(c)
    <3>1. /\ pc[c] = "push" /\ pc'[c] = "add" /\ m \notin torn
          /\ ips'[m] = ips[m] \cup adding[c] /\ members'[owner[m]] = members[owner[m]]
      BY <1>6, <1>7, <2>3 DEF Push, At, Goto, kernelVars, OwnedInv, TypeOK
    <3>2. Users("flushed", m) = {} /\ Users("flushed", m)' = {}
      BY <1>3, <1>5, <3>1
    <3>3. Users("push", m) = others \cup {c} /\ Users("push", m)' = others
      BY <1>3, <3>1
    <3>4. UNION {adding[d] : d \in others \cup {c}} = adding[c] \cup UNION {adding[d] : d \in others}
      OBVIOUS
    <3> HIDE DEF others
    <3>5. members[owner[m]] = ips[m] \cup (adding[c] \cup UNION {adding[d] : d \in others})
      BY <1>5, <3>1, <3>2, <3>3, <3>4 DEF MembersRecorded
    <3> QED BY <1>1, <1>4, <3>1, <3>2, <3>3, <3>5 DEF MembersRecorded
  <2>4. ASSUME NEW x \in Addresses, AddIP(c, x)
        PROVE  MembersRecorded(m)' /\ (Users("flushed", m)' = {} \/ Users("push", m)' = {})
    <3>1. /\ pc[c] = "add" /\ pc'[c] = "push" /\ m \notin torn /\ Users("flushed", m) = {}
          /\ adding'[c] = {x} /\ ips' = ips
          /\ members'[owner[m]] = members[owner[m]] \cup {x}
      BY <1>6, <1>7, <2>4 DEF AddIP, At, Goto, pluginVars, OwnedInv, TypeOK
    <3>2. Users("flushed", m)' = {}
      BY <1>3, <3>1
    <3>3. Users("push", m) = others /\ Users("push", m)' = others \cup {c}
      BY <1>3, <3>1
    <3>4. UNION {adding'[d] : d \in others \cup {c}} = {x} \cup UNION {adding'[d] : d \in others}
      BY <3>1
    <3> HIDE DEF others
    <3>5. members[owner[m]] = ips[m] \cup UNION {adding[d] : d \in others}
      BY <1>5, <3>1, <3>3 DEF MembersRecorded
    <3>6. members'[owner[m]] = ips'[m] \cup UNION {adding'[d] : d \in Users("push", m)'}
      BY <1>4, <3>1, <3>3, <3>4, <3>5
    <3> QED BY <1>1, <3>2, <3>6 DEF MembersRecorded
  <2>5. ASSUME NEW x \in Addresses, SkipIP(c, x)
        PROVE  MembersRecorded(m)' /\ (Users("flushed", m)' = {} \/ Users("push", m)' = {})
    <3>1. UNCHANGED <<pc, ips, members, adding, torn>>
      BY <2>5 DEF SkipIP, pluginVars
    <3>2. Users("flushed", m)' = Users("flushed", m) /\ Users("push", m)' = Users("push", m)
      BY <1>1, <3>1 DEF Users, Filled
    <3>3. MembersRecorded(m) /\ (Users("flushed", m) = {} \/ Users("push", m) = {})
      BY <1>5, <1>7, <3>1
    <3>4. UNION {adding'[d] : d \in Users("push", m)'} = UNION {adding[d] : d \in Users("push", m)}
      BY <3>1, <3>2
    <3> QED BY <1>1, <3>1, <3>2, <3>3, <3>4 DEF MembersRecorded
  <2> QED BY <2>1, <2>2, <2>3, <2>4, <2>5 DEF Fills
<1>8. ASSUME NEW k \in alive \ {m}, k \notin torn'
      PROVE  MembersRecorded(k)' /\ (Users("flushed", k)' = {} \/ Users("push", k)' = {})
  <2>1. MembersRecorded(k) /\ (Users("flushed", k) = {} \/ Users("push", k) = {})
    BY <1>1, <1>8, OwnedParts DEF ListsInv
  <2>2. UNION {adding'[d] : d \in Users("push", k)} = UNION {adding[d] : d \in Users("push", k)}
    <3>1. c \in Users("push", k) => FALSE
      BY DEF Users
    <3> QED BY <1>1, <3>1 DEF Users
  <2> QED BY <1>1, <1>2, <2>1, <2>2 DEF MembersRecorded
<1>9. ListsInv'
  BY <1>1, <1>7, <1>8 DEF ListsInv
<1> QED BY <1>9, FillStep, OwnedNext

\* What a client starts to drop is referred to by nobody.
LEMMA ReleaseInv ==
  ASSUME OwnedInv, NEW c \in Clients, ClearFails(c) \/ Assign(c)
  PROVE  OwnedInv'
<1> DEFINE others  == UNION {Marked(result[d]) : d \in Clients \ {c}}
           dropped == dropping'[c]
<1>1. /\ UNCHANGED <<mark, alive, owner, ips, chains_seen, request, pending, name, fillVars,
                     buildVars, iprules, tables, ipsets, members, rules, disowned, left, moved,
                     gateway, crash>>
      /\ result' = [result EXCEPT ![c] = Nothing]
      /\ pc' = [pc EXCEPT ![c] = "drop"]
      /\ pc[c] \in {"clear", "next"}
      /\ Failure \/ UNCHANGED failures
      /\ \E set : dropping' = [dropping EXCEPT ![c] = set]
  BY DEF ClearFails, Assign, Goto, At, pluginVars, kernelVars, lostVars
<1>2. /\ dropped \subseteq Marked(specializations) \cup Marked(result[c])
      /\ dropped \cap others = {}
      /\ dropped \cap Marked(specializations') = {}
      /\ Marked(specializations') \subseteq Marked(specializations) \cup Marked(result[c])
      /\ specializations' \in [Names -> 0..MaxMark]
  <2>1. CASE ClearFails(c)
    BY <2>1 DEF ClearFails, HeldElsewhere, pluginVars, OwnedInv, TypeOK
  <2>2. CASE Assign(c)
    BY <2>2 DEF Assign, OwnedInv, TypeOK
  <2> QED BY <2>1, <2>2
<1>3. \A d \in Clients \ {c} : Marked(result[d]) \subseteq others
  OBVIOUS
<1>4. /\ \A d \in Clients \ {c} : dropping'[d] = dropping[d] /\ result'[d] = result[d]
      /\ Marked(result'[c]) = {}
      /\ result'[c] = Nothing
  BY <1>1, NothingMarked DEF OwnedInv, TypeOK
<1> HIDE DEF others, dropped
<1>5. dropped \subseteq alive /\ dropped \subseteq Marks
  BY <1>2 DEF OwnedInv, TypeOK, ReferencesLive
<1>6. TypeOK'
  <2>1. Nothing \in [Names -> 0..MaxMark]
    BY ParametersAssumption DEF Nothing
  <2>2. result' \in [Clients -> [Names -> 0..MaxMark]]
    BY <1>1, <2>1 DEF OwnedInv, TypeOK
  <2>3. dropping' \in [Clients -> SUBSET Marks]
    BY <1>1, <1>5 DEF OwnedInv, TypeOK, dropped
  <2>4. pc' \in [Clients -> PCs]
    BY <1>1 DEF OwnedInv, TypeOK, PCs
  <2>5. failures' \in 0..MaxFailures
    BY <1>1, ParametersAssumption DEF OwnedInv, TypeOK, Failure
  <2> QED BY <1>1, <1>2, <2>2, <2>3, <2>4, <2>5 DEF OwnedInv, TypeOK, buildVars, fillVars
<1>7. ObjectsInv'
  BY <1>1, ObjectsUnchanged, OwnedParts DEF buildVars
<1>8. ListsInv'
  <2>1. pc[c] \notin {"flushed", "push"} /\ pc'[c] = "drop"
    BY <1>1 DEF OwnedInv, TypeOK
  <2> QED BY <1>1, <2>1, ListsKept DEF Client, fillVars
<1>9. ClientInv'
  BY <1>1, <1>4 DEF OwnedInv, TypeOK, ClientInv, Filled, Filling
<1>10. DropInv'
  <2> SUFFICES ASSUME NEW e \in Clients
               PROVE  /\ dropping'[e] \subseteq alive
                      /\ dropping'[e] \cap Marked(specializations') = {}
                      /\ \A d \in Clients : /\ dropping'[e] \cap Marked(result'[d]) = {}
                                            /\ d # e => dropping'[e] \cap dropping'[d] = {}
    BY <1>1 DEF DropInv
  <2>1. \A d \in Clients \ {c} : dropped \cap dropping[d] = {}
    BY <1>2 DEF OwnedInv, DropInv
  <2>2. CASE e = c
    BY <1>2, <1>3, <1>4, <1>5, <2>1, <2>2 DEF dropped
  <2>3. CASE e # c
    BY <1>2, <1>4, <2>1, <2>3 DEF OwnedInv, DropInv, dropped
  <2> QED BY <2>2, <2>3
<1>11. ReferencesLive'
  BY <1>1, <1>2, <1>4 DEF OwnedInv, ReferencesLive
<1>12. BuildInv'
  BY <1>1, BuildUnchanged DEF OwnedInv
<1> QED BY <1>6, <1>7, <1>8, <1>9, <1>10, <1>11, <1>12, OwnedNext

\* A destructor takes away what is its object's own.
LEMMA DestroyTakesOwn ==
  ASSUME OwnedInv, NEW c \in Clients, NEW m \in Marks, Destroy(c, m)
  PROVE  \E rest \in SUBSET Parts : TakesOwn(m, rules, disowned, alive', rest)
<1>1. PICK failing \in SUBSET rules, rest \in SUBSET Parts :
        Releases(m, rules, disowned, alive', failing, rest)
  BY DEF Destroy
<1>2. rules \in SUBSET Rule /\ disowned \in SUBSET Rule /\ \A r \in rules : r.set \in ipsets
  BY DEF OwnedInv, TypeOK, KernelInv
<1>3. TakesOwn(m, rules, disowned, alive', rest)
  BY <1>1, <1>2, ReleasesOwn DEF OwnedInv
<1> QED BY <1>3

\* A destroyed object takes with it nothing that another one owns.
LEMMA DestroyInv ==
  ASSUME OwnedInv, NEW c \in Clients, NEW m \in Marks, Destroy(c, m)
  PROVE  OwnedInv'
<1> DEFINE n == owner[m]
<1>1. /\ m \in dropping[c] /\ pc[c] = "drop"
      /\ dropping' = [dropping EXCEPT ![c] = @ \ {m}]
      /\ alive' = alive \ {m}
      /\ ips' = [ips EXCEPT ![m] = {}]
      /\ UNCHANGED <<specializations, mark, owner, chains_seen, pc, request, pending, name, result,
                     todo, adding, building, gateway, crash>>
  BY DEF Destroy, At
<1>2. PICK rest \in SUBSET Parts : TakesOwn(m, rules, disowned, alive', rest)
  BY DestroyTakesOwn
<1>12. Failure \/ UNCHANGED failures
  BY DEF Destroy
<1>3. /\ m \in alive
      /\ \A k \in alive' : k # m /\ k \in alive /\ owner[k] # n
  BY <1>1 DEF OwnedInv, DropInv, OnePerInterface
<1>4. /\ rules' \subseteq rules /\ (alive' # {} => rules' = rules)
      /\ alive' = {} => rules' \subseteq disowned'
      /\ \A r \in rules' : r.set \in ipsets'
      /\ disowned' \subseteq Rule
      /\ \A r \in disowned : r \in disowned' \/ r.set = n
      /\ ipsets' \subseteq ipsets /\ \A i \in ipsets : i # n => i \in ipsets'
      /\ \A i \in ipsets' : members'[i] = members[i]
      /\ members' \in [Interfaces -> SUBSET Addresses]
      /\ tables' \subseteq tables /\ tables \ {m} \subseteq tables'
      /\ iprules' \subseteq iprules /\ iprules \ {m} \subseteq iprules'
      /\ left' \subseteq Parts \X Marks /\ left' = left \cup (rest \X {m})
      /\ overtaken' = overtaken \ {m} /\ moved' = moved \ {m} /\ torn' = torn \ {m}
  BY <1>2 DEF TakesOwn
<1> HIDE DEF n
<1>5. TypeOK'
  <2>1. dropping' \in [Clients -> SUBSET Marks]
    BY <1>1 DEF OwnedInv, TypeOK
  <2>2. /\ ipsets' \subseteq Interfaces /\ tables' \subseteq Marks /\ iprules' \subseteq Marks
        /\ overtaken' \subseteq Marks /\ moved' \subseteq Marks /\ torn' \subseteq Marks
        /\ alive' \subseteq Marks /\ rules' \subseteq Rule
    BY <1>1, <1>4 DEF OwnedInv, TypeOK
  <2>3. failures' \in 0..MaxFailures
    BY <1>12, ParametersAssumption DEF OwnedInv, TypeOK, Failure
  <2>4. ips' \in [Marks -> SUBSET Addresses]
    BY <1>1 DEF OwnedInv, TypeOK
  <2> QED BY <1>1, <1>4, <2>1, <2>2, <2>3, <2>4 DEF OwnedInv, TypeOK
<1>6. ObjectsInv'
  <2>0. left' \subseteq Parts \X (1..mark)
    <3>1. left \subseteq Parts \X (1..mark) /\ m \in 1..mark
      BY <1>3 DEF OwnedInv, KernelInv
    <3> QED BY <1>4, <3>1
  <2>1. KernelInv'
    BY <1>1, <1>4, <2>0 DEF OwnedInv, KernelInv
  <2>2. OnePerInterface' /\ MarksAgree'
    BY <1>1, <1>3, <1>4 DEF OwnedInv, OnePerInterface, MarksAgree
  <2>3. ASSUME NEW k \in alive' PROVE InKernel(k)'
    <3>1. k # m /\ owner[k] # n /\ rules' = rules /\ InKernel(k)
      BY <1>3, <1>4, OwnedParts DEF ObjectsInv
    <3>2. \A ch \in Chains, l \in k..mark :
            [chain |-> ch, mark |-> l, set |-> owner[k]] \in rules \cup disowned
              => [chain |-> ch, mark |-> l, set |-> owner[k]] \in rules' \cup disowned'
      BY <1>4, <3>1
    <3> QED BY <1>1, <1>4, <3>1, <3>2 DEF InKernel
  <2> QED BY <2>1, <2>2, <2>3 DEF ObjectsInv
<1>7. ListsInv'
  <2>1. \A k \in alive' : owner[k] \in ipsets /\ k \in Marks
    BY <1>3, OwnedParts DEF ObjectsInv, InKernel, OwnedInv, TypeOK
  <2>2. \A k \in alive' : ips'[k] = ips[k]
    BY <1>1, <1>3, <2>1 DEF OwnedInv, TypeOK
  <2> QED BY <1>1, <1>3, <1>4, <2>1, <2>2, ListsKept DEF Client
<1>8. ClientInv'
  BY <1>1 DEF OwnedInv, ClientInv, Filled
<1>9. DropInv'
  <2>1. \A d \in Clients : dropping'[d] \subseteq dropping[d] /\ m \notin dropping'[d]
    BY <1>1 DEF OwnedInv, TypeOK, DropInv
  <2> QED BY <1>1, <2>1 DEF OwnedInv, DropInv
<1>10. ReferencesLive'
  BY <1>1 DEF OwnedInv, DropInv, ReferencesLive
<1>11. BuildInv'
  <2>1. ASSUME NEW d \in Clients \ {c}, pc[d] = "build"
        PROVE  /\ name[d] \in ipsets' /\ members'[name[d]] = {}
               /\ building[d] \in (iprules' \cap (tables' \cup moved')) \ alive'
               /\ owner'[building[d]] = name[d]
               /\ building[d] = mark' \/ building[d] \in overtaken'
               /\ \A k \in alive' : owner'[k] # name[d]
               /\ \A r \in rules' : r.set # name[d]
    <3>1. building[d] # m /\ name[d] # n
      BY <1>3, <2>1 DEF OwnedInv, BuildInv, n
    <3> QED BY <1>1, <1>4, <2>1, <3>1 DEF OwnedInv, BuildInv
  <2>2. pc'[c] # "build" /\ building'[c] = 0
    BY <1>1 DEF OwnedInv, BuildInv
  <2> QED BY <1>1, <2>1, <2>2, BuildKept DEF Client
<1> QED BY <1>5, <1>6, <1>7, <1>8, <1>9, <1>10, <1>11, OwnedNext

\* A new gateway concerns no object that exists, and a route that goes with an
\* address is not forgotten.
LEMMA OutsideInv ==
  ASSUME OwnedInv, NEW i \in Interfaces, SetIP(i) \/ SetGW(i)
  PROVE  OwnedInv'
<1> USE DEF OwnedInv, SetIP, SetGW, pluginVars, clientVars, fillVars, buildVars, kernelVars, lostVars
<1>1. TypeOK'
  <2>1. failures' \in 0..MaxFailures
    BY ParametersAssumption DEF TypeOK, Failure
  <2> QED BY <2>1 DEF TypeOK
<1>2. /\ UNCHANGED <<pluginVars, clientVars, iprules, ipsets, members, rules, disowned, left>>
      /\ tables' \cup moved' = tables \cup moved
  OBVIOUS
<1>3. KernelInv' /\ ClientInv' /\ DropInv' /\ BuildInv' /\ ReferencesLive'
  BY <1>2 DEF KernelInv, ClientInv, DropInv, BuildInv, ReferencesLive, Filled
<1>4. ObjectsInv' /\ ListsInv'
  <2>1. OnePerInterface' /\ MarksAgree' /\ \A m \in alive : InKernel(m)'
    BY <1>2, OwnedParts DEF ObjectsInv, InKernel, OnePerInterface, MarksAgree
  <2>2. ASSUME NEW m \in alive \ torn
        PROVE  MembersRecorded(m)' /\ (Users("flushed", m)' = {} \/ Users("push", m)' = {})
    BY ListUnchanged
  <2> QED BY <1>2, <1>3, <2>1, <2>2 DEF ObjectsInv, ListsInv
<1> QED BY <1>1, <1>3, <1>4, OwnedNext

-----------------------------------------------------------------------------
\* Every step keeps the invariant.
LEMMA StepOwned == OwnedInv /\ [Next]_vars => OwnedInv'
<1> SUFFICES ASSUME OwnedInv, [Next]_vars PROVE OwnedInv'
  OBVIOUS
<1>1. CASE UNCHANGED vars
  <2> USE <1>1 DEF OwnedInv, vars, pluginVars, clientVars, fillVars, buildVars, kernelVars, lostVars
  <2>1. TypeOK' /\ KernelInv' /\ ClientInv' /\ DropInv' /\ BuildInv'
    BY DEF TypeOK, KernelInv, ClientInv, DropInv, BuildInv, Filled
  <2>2. ReferencesLive' /\ OnePerInterface' /\ MarksAgree' /\ \A m \in alive : InKernel(m)'
    BY DEF LiveIsComplete, InKernel, ReferencesLive, OnePerInterface, MarksAgree
  <2>3. ASSUME NEW m \in alive \ torn
        PROVE  MembersRecorded(m)' /\ (Users("flushed", m)' = {} \/ Users("push", m)' = {})
    BY ListUnchanged
  <2>4. LiveIsComplete' /\ FillInv'
    BY <2>2, <2>3 DEF LiveIsComplete, FillInv
  <2> QED BY <2>1, <2>2, <2>4
<1>2. CASE \E c \in Clients : Client(c)
  BY <1>2, LookupInv, EndsInv, PrepareFailsInv, PrepareInv, RuleFailsInv,
     CreateInv, FillStepInv, ReleaseInv, DestroyInv DEF Client, Fills
<1>3. CASE \E i \in Interfaces : SetIP(i) \/ SetGW(i)
  BY <1>3, OutsideInv
<1> QED BY <1>1, <1>2, <1>3 DEF Next

-----------------------------------------------------------------------------
(* Nothing leaks. *)

\* At first there is nothing to lose.
LEMMA InitLeak == Init => NothingLeaks /\ EntryInv
BY DEF Init, NothingLeaks, EntryInv, Nothing, Names

\* configure() fills the entries of its map one after the other, each once.
LEMMA StepEntry ==
  ASSUME OwnedInv, EntryInv, NEW c \in Clients, Client(c)
  PROVE  EntryInv'
<1> DEFINE Entry == /\ dropping[c] # {} => pc[c] = "drop"
                    /\ pc[c] \in {"idle", "drop"} => result[c] = Nothing
                    /\ pc[c] \in {"create", "build"} => result[c][name[c]] = 0
                    /\ pc[c] \in {"create", "build"} => name[c] \notin pending[c]
                    /\ \A n \in pending[c] : result[c][n] = 0
<1>1. Entry /\ TypeOK /\ ClientInv
  BY DEF EntryInv, OwnedInv
<1>2. SUFFICES Entry'
  BY OthersKeep DEF EntryInv, OwnedInv
<1> USE <1>1 DEF At, Goto, pluginVars, clientVars, buildVars
<1>3. CASE Configure(c)
  <2>1. pending'[c] \subseteq Names /\ pc'[c] = "next" /\ result'[c] = Nothing /\ dropping'[c] = {}
    BY <1>3, RequestsAssumption DEF Configure, TypeOK
  <2> QED BY <2>1 DEF Nothing
<1>4. CASE Lookup(c)
  <2>1. PICK n \in pending[c] :
          /\ name' = [name EXCEPT ![c] = n]
          /\ pending' = [pending EXCEPT ![c] = @ \ {n}]
          /\ \/ /\ result' = [result EXCEPT ![c][n] = specializations[n]]
                /\ pc' = [pc EXCEPT ![c] = "clear"]
             \/ (result' = result /\ pc' = [pc EXCEPT ![c] = "create"])
    BY <1>4 DEF Lookup
  <2>2. /\ pending'[c] = pending[c] \ {n} /\ name'[c] = n /\ dropping'[c] = {}
        /\ pc'[c] \in {"clear", "create"} /\ (pc'[c] = "create" => result' = result)
    BY <1>4, <2>1 DEF Lookup, TypeOK
  <2>3. \A k \in pending'[c] : result'[c][k] = result[c][k]
    BY <2>1, <2>2 DEF TypeOK
  <2> QED BY <2>2, <2>3
<1>5. CASE CreateUnknown(c) \/ CreateMeetsExpiredChain(c) \/ PrepareFails(c) \/ Prepare(c)
           \/ EntryDone(c) \/ \E chain \in Chains : RuleFails(c, chain)
  <2>1. UNCHANGED <<name, pending, result, dropping>>
    BY <1>5 DEF CreateUnknown, CreateMeetsExpiredChain, PrepareFails, Prepare, EntryDone, RuleFails
  <2>2. /\ pc[c] \in {"create", "build", "add"}
        /\ pc'[c] \in {"build", "next"} \cup {pc[c]}
        /\ pc'[c] = "build" => pc[c] \in {"create", "build"}
    BY <1>5 DEF CreateUnknown, CreateMeetsExpiredChain, PrepareFails, Prepare, EntryDone, RuleFails,
       Counts, TypeOK
  <2> QED BY <2>1, <2>2
<1>6. CASE Create(c)
  <2>1. /\ pc'[c] = "clear" /\ dropping'[c] = {} /\ pending'[c] = pending[c]
        /\ result' = [result EXCEPT ![c][name[c]] = building[c]]
        /\ name[c] \notin pending[c]
    BY <1>6 DEF Create, TypeOK
  <2>2. \A k \in pending[c] : result'[c][k] = result[c][k]
    BY <2>1 DEF TypeOK
  <2> QED BY <2>1, <2>2
<1>7. CASE Fills(c) \/ \E d \in Clients : ListRace(c, d)
  <2>1. UNCHANGED <<name, pending, result, dropping>>
    BY <1>7 DEF Fills, Flush, Clear, Push, AddIP, SkipIP, ListRace
  <2>2. pc[c] \in Filling /\ pc'[c] \in Filling
    BY <1>7 DEF Fills, Flush, Clear, Push, AddIP, SkipIP, ListRace, Filling, TypeOK
  <2> QED BY <2>1, <2>2 DEF Filling
<1>8. CASE ClearFails(c) \/ Assign(c)
  <2>1. pc'[c] = "drop" /\ result'[c] = Nothing /\ pending'[c] \subseteq Names
    BY <1>8 DEF ClearFails, Assign, TypeOK
  <2> QED BY <2>1 DEF Nothing
<1>9. CASE Return(c)
  <2>1. /\ UNCHANGED <<result, dropping>> /\ pc[c] = "drop" /\ pc'[c] = "idle"
        /\ dropping[c] = {} /\ pending'[c] = {}
    BY <1>9 DEF Return, TypeOK
  <2> QED BY <2>1
<1>10. ASSUME NEW m \in Marks, Destroy(c, m) PROVE Entry'
  <2>1. UNCHANGED <<pc, name, pending, result>> /\ pc[c] = "drop"
    BY <1>10 DEF Destroy
  <2> QED BY <2>1
<1> QED BY <1>3, <1>4, <1>5, <1>6, <1>7, <1>8, <1>9, <1>10 DEF Client, Fills

\* What is referred to before a step is referred to, or being dropped, after it.
LEMMA StepKept ==
  ASSUME OwnedInv, EntryInv, NothingLeaks, NEW c \in Clients, Client(c),
         NEW m \in alive', m \in alive
  PROVE  \/ m \in Marked(specializations')
         \/ \E d \in Clients : m \in Marked(result'[d]) \cup dropping'[d]
<1>1. SUFFICES ASSUME m \in Marked(specializations) \cup Marked(result[c]) \cup dropping[c]
               PROVE  \/ m \in Marked(specializations') \cup dropping'[c]
                      \/ \E d \in Clients : m \in Marked(result'[d])
  BY OthersKeep DEF NothingLeaks, OwnedInv
<1> USE DEF At, Goto, pluginVars, clientVars, buildVars
<1>2. CASE Configure(c) \/ Return(c) \/ CreateUnknown(c) \/ CreateMeetsExpiredChain(c)
           \/ PrepareFails(c) \/ Prepare(c) \/ EntryDone(c) \/ Fills(c)
           \/ (\E chain \in Chains : RuleFails(c, chain)) \/ \E d \in Clients : ListRace(c, d)
  <2>1. UNCHANGED <<specializations, result, dropping>>
    BY <1>2 DEF Configure, Return, CreateUnknown, CreateMeetsExpiredChain, PrepareFails, Prepare,
       EntryDone, RuleFails, Fills, Flush, Clear, Push, AddIP, SkipIP, ListRace
  <2> QED BY <1>1, <2>1
<1>3. CASE Lookup(c) \/ Create(c)
  <2>1. UNCHANGED <<specializations, dropping>>
    BY <1>3 DEF Lookup, Create
  <2>2. \A n \in Names : result[c][n] # 0 => result'[c][n] = result[c][n]
    <3>1. CASE Lookup(c)
      <4>1. PICK n \in pending[c] : \/ result' = [result EXCEPT ![c][n] = specializations[n]]
                                    \/ result' = result
        BY <3>1 DEF Lookup
      <4> QED BY <4>1 DEF EntryInv, OwnedInv, TypeOK
    <3>2. CASE Create(c)
      BY <3>2 DEF Create, EntryInv, OwnedInv, TypeOK
    <3> QED BY <1>3, <3>1, <3>2
  <2> QED BY <1>1, <2>1, <2>2 DEF Marked
<1>4. CASE ClearFails(c)
  <2>1. /\ dropping[c] = {} /\ UNCHANGED specializations
        /\ dropping'[c] = Marked(result[c]) \ HeldElsewhere(c)
    BY <1>4 DEF ClearFails, EntryInv, OwnedInv, TypeOK
  <2> QED BY <1>1, <2>1, OthersKeep DEF HeldElsewhere, OwnedInv
<1>5. CASE Assign(c)
  <2>1. /\ dropping[c] = {} /\ specializations' = result[c]
        /\ dropping'[c] = Marked(specializations) \ (Marked(result[c])
                            \cup UNION {Marked(result[d]) : d \in Clients \ {c}})
    BY <1>5 DEF Assign, EntryInv, OwnedInv, TypeOK
  <2> QED BY <1>1, <2>1, OthersKeep DEF OwnedInv
<1>6. ASSUME NEW k \in Marks, Destroy(c, k)
      PROVE  \/ m \in Marked(specializations') \cup dropping'[c]
             \/ \E d \in Clients : m \in Marked(result'[d])
  <2>1. /\ UNCHANGED <<specializations, result>> /\ m # k
        /\ dropping'[c] = dropping[c] \ {k}
    BY <1>6 DEF Destroy, OwnedInv, TypeOK
  <2> QED BY <1>1, <2>1
<1> QED BY <1>2, <1>3, <1>4, <1>5, <1>6 DEF Client, Fills

\* What the kernel has is in use, or a destructor tried to delete it.
KernelAccounted ==
  /\ \A m \in iprules : InUse(m) \/ <<"rule", m>> \in left
  /\ \A m \in tables : InUse(m) \/ <<"table", m>> \in left
  /\ \A n \in ipsets : \E m \in Marks : owner[m] = n /\ (InUse(m) \/ <<"set", m>> \in left)

\* A destructor, or the undoing of a constructor, reports what it leaves.
LEMMA ReleaseAccounted ==
  ASSUME TypeOK, KernelAccounted, NEW m, NEW known, NEW stale, NEW holders, NEW rest,
         TakesOwn(m, known, stale, holders, rest), m \in Marks, owner' = owner,
         \A k \in Marks \ {m} : InUse(k) => InUse(k)'
  PROVE  KernelAccounted'
<1>1. /\ ipsets' \subseteq ipsets /\ tables' \subseteq tables /\ iprules' \subseteq iprules
      /\ left' = left \cup (rest \X {m})
      /\ m \in iprules' => "rule" \in rest
      /\ m \in tables' => "table" \in rest
      /\ owner[m] \in ipsets' => owner[m] \notin ipsets \/ "set" \in rest
  BY DEF TakesOwn
<1>2. ASSUME NEW k \in iprules' PROVE InUse(k)' \/ <<"rule", k>> \in left'
  BY <1>1, <1>2 DEF KernelAccounted, TypeOK
<1>3. ASSUME NEW k \in tables' PROVE InUse(k)' \/ <<"table", k>> \in left'
  BY <1>1, <1>3 DEF KernelAccounted, TypeOK
<1>4. ASSUME NEW n \in ipsets'
      PROVE  \E k \in Marks : owner[k] = n /\ (InUse(k)' \/ <<"set", k>> \in left')
  <2>1. PICK k \in Marks : owner[k] = n /\ (InUse(k) \/ <<"set", k>> \in left)
    BY <1>1, <1>4 DEF KernelAccounted
  <2>2. k = m => <<"set", m>> \in left'
    BY <1>1, <1>4, <2>1
  <2> QED BY <1>1, <2>1, <2>2
<1> QED BY <1>2, <1>3, <1>4 DEF KernelAccounted

\* An ip rule, a table and an ipset come with a constructor and go with its object.
LEMMA StepAccounted ==
  ASSUME OwnedInv, KernelAccounted, NEW c \in Clients, Client(c)
  PROVE  KernelAccounted'
<1> USE DEF At, Goto, pluginVars, clientVars, buildVars, kernelVars, lostVars
<1>1. \A d \in Clients \ {c} : building'[d] = building[d]
  BY OthersKeep DEF OwnedInv
<1>2. CASE Configure(c) \/ Return(c) \/ CreateUnknown(c) \/ CreateMeetsExpiredChain(c)
           \/ EntryDone(c) \/ Fills(c) \/ Lookup(c) \/ ClearFails(c) \/ Assign(c)
           \/ \E d \in Clients : ListRace(c, d)
  <2>1. UNCHANGED <<alive, building, owner, iprules, tables, ipsets, left>>
    BY <1>2 DEF Configure, Return, CreateUnknown, CreateMeetsExpiredChain, EntryDone, Lookup,
       ClearFails, Assign, ListRace, Fills, Flush, Clear, Push, AddIP, SkipIP
  <2> QED BY <2>1 DEF KernelAccounted, InUse
<1>3. CASE PrepareFails(c) \/ Prepare(c)
  <2>1. /\ Counts(c) /\ alive' = alive /\ pc[c] = "create" /\ building[c] = 0
        /\ \/ building' = building
           \/ building' = [building EXCEPT ![c] = mark']
    BY <1>3 DEF PrepareFails, Prepare, Counts, OwnedInv, BuildInv
  <2>2. /\ mark' \in Marks /\ mark' \notin 1..mark /\ owner'[mark'] = name[c]
        /\ \A m \in Marks : m # mark' => owner'[m] = owner[m]
    BY <2>1, CountsInv
  <2>3. \A m \in Marks : InUse(m) => InUse(m)'
    BY <1>1, <2>1, ParametersAssumption DEF InUse, OwnedInv, TypeOK, Marks
  <2>4. \A m \in Marks : InUse(m) \/ m \in 1..mark => owner'[m] = owner[m]
    BY <2>2, <2>3, CountsInv, <2>1, BuilderHasTable DEF InUse, OwnedInv, KernelInv, BuildInv, TypeOK, Marks
  <2>5. left \subseteq Parts \X (1..mark)
    BY DEF OwnedInv, KernelInv
  <2>6. left \subseteq left' /\ \A x \in ipsets : \E m \in Marks :
          owner'[m] = x /\ (InUse(m)' \/ <<"set", m>> \in left')
    <3>1. left \subseteq left'
      BY <1>3 DEF PrepareFails, Prepare
    <3>2. ASSUME NEW x \in ipsets
          PROVE  \E m \in Marks : owner'[m] = x /\ (InUse(m)' \/ <<"set", m>> \in left')
      <4>1. PICK m \in Marks : owner[m] = x /\ (InUse(m) \/ <<"set", m>> \in left)
        BY DEF KernelAccounted
      <4>2. owner'[m] = owner[m]
        BY <2>4, <2>5, <4>1
      <4> QED BY <2>3, <3>1, <4>1, <4>2
    <3> QED BY <3>1, <3>2
  <2>7. CASE PrepareFails(c)
    <3>1. PICK rest \in SUBSET {"rule", "set"} :
            /\ iprules' = IF "rule" \in rest THEN iprules \cup {mark'} ELSE iprules
            /\ ipsets' = IF "set" \in rest THEN ipsets \cup {name[c]} ELSE ipsets
            /\ left' = left \cup (rest \X {mark'})
            /\ tables' = tables
      BY <2>7 DEF PrepareFails
    <3>2. \A m \in iprules' : InUse(m)' \/ <<"rule", m>> \in left'
      BY <2>3, <3>1 DEF KernelAccounted, OwnedInv, TypeOK
    <3>3. \A m \in tables' : InUse(m)' \/ <<"table", m>> \in left'
      BY <2>3, <3>1 DEF KernelAccounted, OwnedInv, TypeOK
    <3>4. \A n \in ipsets' : \E m \in Marks : owner'[m] = n /\ (InUse(m)' \/ <<"set", m>> \in left')
      BY <2>2, <2>6, <3>1
    <3> QED BY <3>2, <3>3, <3>4 DEF KernelAccounted
  <2>8. CASE Prepare(c)
    <3>1. /\ building'[c] = mark' /\ left' = left /\ ipsets' = ipsets \cup {name[c]}
          /\ tables' = tables \cup {mark'} /\ iprules' = iprules \cup {mark'}
      BY <2>8 DEF Prepare, OwnedInv, TypeOK
    <3>2. \A m \in Marks : m = mark' => InUse(m)'
      BY <3>1 DEF InUse
    <3>3. /\ \A m \in iprules : m \in Marks /\ (InUse(m) \/ <<"rule", m>> \in left)
          /\ \A m \in tables : m \in Marks /\ (InUse(m) \/ <<"table", m>> \in left)
      BY DEF KernelAccounted, OwnedInv, TypeOK
    <3>4. \A m \in iprules' : InUse(m)' \/ <<"rule", m>> \in left'
      BY <2>2, <2>3, <3>1, <3>2, <3>3
    <3>5. \A m \in tables' : InUse(m)' \/ <<"table", m>> \in left'
      BY <2>2, <2>3, <3>1, <3>2, <3>3
    <3>6. \A n \in ipsets' : \E m \in Marks : owner'[m] = n /\ (InUse(m)' \/ <<"set", m>> \in left')
      BY <2>2, <2>6, <3>1, <3>2
    <3> QED BY <3>4, <3>5, <3>6 DEF KernelAccounted
  <2> QED BY <1>3, <2>7, <2>8
<1>4. CASE Create(c)
  <2>1. /\ alive' = alive \cup {building[c]}
        /\ UNCHANGED <<owner, iprules, tables, ipsets, left>>
    BY <1>4 DEF Create
  <2>2. \A m : InUse(m) => InUse(m)'
    BY <1>1, <2>1 DEF InUse
  <2> QED BY <2>1, <2>2 DEF KernelAccounted
<1>5. ASSUME NEW chain \in Chains, RuleFails(c, chain) PROVE KernelAccounted'
  <2> DEFINE k == building[c]
  <2>1. k \in Marks /\ alive' = alive /\ owner' = owner
    BY <1>5, BuilderHasTable DEF RuleFails
  <2>2. \E known, stale, holders, rest : TakesOwn(k, known, stale, holders, rest)
    BY <1>5, RuleTakesOwn
  <2>3. \A m \in Marks \ {k} : InUse(m) => InUse(m)'
    BY <1>1, <2>1 DEF InUse
  <2> HIDE DEF k
  <2> QED BY <2>1, <2>2, <2>3, ReleaseAccounted DEF OwnedInv
<1>6. ASSUME NEW m \in Marks, Destroy(c, m) PROVE KernelAccounted'
  <2>1. \E known, stale, holders, rest : TakesOwn(m, known, stale, holders, rest)
    BY <1>6, DestroyTakesOwn
  <2>2. owner' = owner /\ \A k \in Marks \ {m} : InUse(k) => InUse(k)'
    BY <1>6 DEF Destroy, InUse
  <2> QED BY <2>1, <2>2, ReleaseAccounted DEF OwnedInv
<1> QED BY <1>2, <1>3, <1>4, <1>5, <1>6 DEF Client, Fills

\* Nothing is lost in a step of a client.
LEMMA StepLeak ==
  ASSUME OwnedInv, EntryInv, NothingLeaks, NEW c \in Clients, Client(c)
  PROVE  NothingLeaks'
<1>1. KernelAccounted'
  BY StepAccounted DEF NothingLeaks, KernelAccounted
<1>2. ASSUME NEW m \in alive'
      PROVE  \/ m \in Marked(specializations')
             \/ \E d \in Clients : m \in Marked(result'[d]) \cup dropping'[d]
  <2>1. CASE m \in alive
    BY <2>1, StepKept
  <2>2. CASE m \notin alive
    <3> USE DEF At, Goto, pluginVars, clientVars, buildVars
    <3>1. Create(c)
      BY <2>2 DEF Client, Configure, Return, CreateUnknown, CreateMeetsExpiredChain, PrepareFails,
         Prepare, Flush, Clear, AddIP, SkipIP, Push, EntryDone, ListRace, RuleFails, Lookup,
         ClearFails, Assign, Destroy
    <3>2. m = building[c] /\ m # 0 /\ name[c] \in Names /\ result'[c][name[c]] = m
      BY <2>2, <3>1, BuilderHasTable DEF Create, OwnedInv, TypeOK, Names
    <3> QED BY <3>2 DEF Marked
  <2> QED BY <2>1, <2>2
<1> QED BY <1>1, <1>2 DEF NothingLeaks, KernelAccounted

\* The whole invariant is established and kept.
LEMMA InitInv == Init => RoutingInv
BY InitOwned, InitLeak DEF RoutingInv

LEMMA StepInv == RoutingInv /\ [Next]_vars => RoutingInv'
<1> SUFFICES ASSUME RoutingInv, [Next]_vars PROVE RoutingInv'
  OBVIOUS
<1>1. OwnedInv'
  BY StepOwned DEF RoutingInv
<1>2. CASE \E c \in Clients : Client(c)
  BY <1>1, <1>2, StepEntry, StepLeak DEF RoutingInv
<1>3. CASE UNCHANGED vars \/ \E i \in Interfaces : SetIP(i) \/ SetGW(i)
  <2>1. /\ UNCHANGED <<pluginVars, clientVars, iprules, ipsets, left>>
        /\ tables' \subseteq tables
    BY <1>3 DEF SetIP, SetGW, vars, kernelVars, lostVars
  <2> QED BY <1>1, <2>1 DEF RoutingInv, EntryInv, NothingLeaks, InUse, pluginVars, clientVars, buildVars
<1> QED BY <1>2, <1>3 DEF Next

\* RoutingInv holds in every reachable state of the plugin: what lives is complete,
\* what is complete is known, and what is in the kernel without an owner is what a
\* destructor's command failed to delete.
THEOREM RoutingInvariant == Spec => []RoutingInv
BY InitInv, StepInv, PTL DEF Spec

\* Every reachable state is type correct.
THEOREM RoutingTypeCorrect == Spec => []TypeOK
<1>1. RoutingInv => TypeOK
  BY DEF RoutingInv, OwnedInv
<1> QED BY <1>1, RoutingInvariant, PTL

\* Whatever several clients create, fail to create, fill and destroy, and whichever
\* command fails, a live TrafficSpecialization keeps its ip rule, its ipset, its
\* marking rules but those that a lost id pushes out, and its table until its
\* interface is readdressed; and its list and its ipset differ by what is about to be
\* recorded or cleared only, unless two threads filled and cleared it at once.
THEOREM LiveObjectsComplete == Spec => []LiveIsComplete
<1>1. RoutingInv => LiveIsComplete
  BY DEF RoutingInv, OwnedInv
<1> QED BY <1>1, RoutingInvariant, PTL

\* No pointer of the plugin or of a client dangles.
THEOREM NoDanglingReference == Spec => []ReferencesLive
<1>1. RoutingInv => ReferencesLive
  BY DEF RoutingInv, OwnedInv
<1> QED BY <1>1, RoutingInvariant, PTL

\* An interface is never specialized twice.
THEOREM OneObjectPerInterface == Spec => []OnePerInterface
<1>1. RoutingInv => OnePerInterface
  BY DEF RoutingInv, OwnedInv
<1> QED BY <1>1, RoutingInvariant, PTL

\* No packet is given two marks.
THEOREM MarksNeverConflict == Spec => []MarksAgree
<1>1. RoutingInv => MarksAgree
  BY DEF RoutingInv, OwnedInv
<1> QED BY <1>1, RoutingInvariant, PTL

\* No object is lost, and no ip rule, ipset or routing table but those that a
\* destructor's own command failed to delete, whatever constructors and clearIPs throw.
THEOREM NothingIsLost == Spec => []NothingLeaks
<1>1. RoutingInv => NothingLeaks
  BY DEF RoutingInv
<1> QED BY <1>1, RoutingInvariant, PTL

\* No other constructor counted in the middle of one.
NoneOvertaken == overtaken = {}

\* A lock around the constructor would be enough: nobody is overtaken then, and
\* the marking rules of every object lead to its own table.
THEOREM AloneLeadsToOwnTable == Spec /\ []ConstructorsAlone => []OwnTable
<1>1. Init => NoneOvertaken
  BY DEF Init, NoneOvertaken
<1>2. RoutingInv /\ ConstructorsAlone /\ NoneOvertaken /\ [Next]_vars => NoneOvertaken'
  <2> SUFFICES ASSUME RoutingInv, ConstructorsAlone, NoneOvertaken, [Next]_vars
               PROVE  NoneOvertaken'
    OBVIOUS
  <2> USE DEF NoneOvertaken
  <2>1. ASSUME NEW c \in Clients, Counts(c) PROVE NoneOvertaken'
    <3>1. \A d \in Clients : building[d] = 0
      BY <2>1 DEF Counts, At, ConstructorsAlone, RoutingInv, OwnedInv, BuildInv
    <3> QED BY <2>1, <3>1 DEF Counts
  <2>2. ASSUME NEW c \in Clients, Client(c) PROVE NoneOvertaken'
    <3>1. CASE PrepareFails(c) \/ Prepare(c)
      BY <2>1, <3>1 DEF PrepareFails, Prepare
    <3>2. CASE Configure(c) \/ Lookup(c) \/ CreateUnknown(c) \/ CreateMeetsExpiredChain(c)
               \/ Create(c) \/ EntryDone(c) \/ \E d \in Clients : ListRace(c, d)
      BY <3>2 DEF Configure, Lookup, CreateUnknown, CreateMeetsExpiredChain, Create, EntryDone,
         ListRace, clientVars, buildVars
    <3>3. CASE Fills(c) \/ ClearFails(c) \/ Assign(c) \/ Return(c)
      BY <3>3 DEF Fills, Flush, Clear, Push, AddIP, SkipIP, ClearFails, Assign, Return, buildVars
    <3>4. CASE (\E chain \in Chains : RuleFails(c, chain)) \/ \E m \in Marks : Destroy(c, m)
      BY <3>4, RuleTakesOwn, DestroyTakesOwn DEF RoutingInv, TakesOwn
    <3> QED BY <2>2, <3>1, <3>2, <3>3, <3>4 DEF Client, Fills
  <2>3. CASE UNCHANGED vars \/ \E i \in Interfaces : SetIP(i) \/ SetGW(i)
    BY <2>3 DEF SetIP, SetGW, vars, clientVars, buildVars
  <2> QED BY <2>2, <2>3 DEF Next
<1>3. RoutingInv /\ NoneOvertaken => OwnTable
  BY DEF RoutingInv, OwnedInv, LiveIsComplete, InKernel, OwnTable, NoneOvertaken
<1> QED BY <1>1, <1>2, <1>3, RoutingInvariant, PTL DEF Spec

\* No object's ipset was filled by one thread as another one cleared it.
NoneTorn == torn = {}

\* A lock around clearIPs and addIP would be enough too: getConfiguration reports
\* what an ipset has whenever no thread is between a command and its record.
THEOREM AloneIsReported == Spec /\ []FillsAlone => []ReportedIsReal
<1>1. Init => NoneTorn
  BY DEF Init, NoneTorn
<1>2. RoutingInv /\ FillsAlone' /\ NoneTorn /\ [Next]_vars => NoneTorn'
  <2> SUFFICES ASSUME RoutingInv, FillsAlone', NoneTorn, [Next]_vars PROVE NoneTorn'
    OBVIOUS
  <2> USE DEF NoneTorn
  <2>1. ASSUME NEW c \in Clients, Fills(c) PROVE NoneTorn'
    <3>1. SUFFICES ASSUME NEW m, m = Filled(c) PROVE NoneTorn'
      OBVIOUS
    <3>2. m \in alive /\ UNCHANGED <<alive, name, result>>
          /\ \A d \in Clients \ {c} : pc'[d] = pc[d]
      BY <2>1, <3>1, FillStep DEF RoutingInv
    <3>3. CASE Flush(c)
      <4>1. pc[c] = "clear" /\ pc'[c] = "flushed"
        BY <3>3 DEF Flush, At, Goto, RoutingInv, OwnedInv, TypeOK
      <4>2. c \in Users("flushed", m)' /\ Users("push", m) = Users("push", m)'
        BY <3>1, <3>2, <4>1 DEF Users, Filled
      <4> QED BY <3>1, <3>2, <3>3, <4>2 DEF Flush, FillsAlone
    <3>4. ASSUME NEW x \in Addresses, AddIP(c, x) PROVE NoneTorn'
      <4>1. pc[c] = "add" /\ pc'[c] = "push"
        BY <3>4 DEF AddIP, At, Goto, RoutingInv, OwnedInv, TypeOK
      <4>2. c \in Users("push", m)' /\ Users("flushed", m) = Users("flushed", m)'
        BY <3>1, <3>2, <4>1 DEF Users, Filled
      <4> QED BY <3>1, <3>2, <3>4, <4>2 DEF AddIP, FillsAlone
    <3>5. CASE Clear(c) \/ Push(c) \/ \E x \in Addresses : SkipIP(c, x)
      BY <3>5 DEF Clear, Push, SkipIP
    <3> QED BY <2>1, <3>3, <3>4, <3>5 DEF Fills
  <2>2. ASSUME NEW c \in Clients, Client(c) PROVE NoneTorn'
    <3>1. CASE Configure(c) \/ Lookup(c) \/ CreateUnknown(c) \/ CreateMeetsExpiredChain(c)
               \/ PrepareFails(c) \/ Prepare(c) \/ Create(c) \/ EntryDone(c)
               \/ ClearFails(c) \/ Assign(c) \/ Return(c) \/ \E d \in Clients : ListRace(c, d)
      BY <3>1 DEF Configure, Lookup, CreateUnknown, CreateMeetsExpiredChain, PrepareFails, Prepare,
         Create, EntryDone, ClearFails, Assign, Return, ListRace, clientVars, fillVars
    <3>2. CASE (\E chain \in Chains : RuleFails(c, chain)) \/ \E m \in Marks : Destroy(c, m)
      BY <3>2, RuleTakesOwn, DestroyTakesOwn DEF RoutingInv, TakesOwn
    <3> QED BY <2>1, <2>2, <3>1, <3>2 DEF Client, Fills
  <2>3. CASE UNCHANGED vars \/ \E i \in Interfaces : SetIP(i) \/ SetGW(i)
    BY <2>3 DEF SetIP, SetGW, vars, clientVars, fillVars
  <2> QED BY <2>2, <2>3 DEF Next
<1>3. RoutingInv /\ NoneTorn => ReportedIsReal
  <2> SUFFICES ASSUME RoutingInv, NoneTorn, NEW m \in alive,
                      Users("flushed", m) = {}, Users("push", m) = {}
               PROVE  members[owner[m]] = ips[m]
    BY DEF ReportedIsReal
  <2>1. MembersRecorded(m)
    BY DEF NoneTorn, RoutingInv, OwnedInv, LiveIsComplete
  <2> QED BY <2>1 DEF MembersRecorded
<1> QED BY <1>1, <1>2, <1>3, RoutingInvariant, PTL DEF Spec

-----------------------------------------------------------------------------
(* RoutingSpecializer implements SharedObjects. *)

\* The three sets of the abstract specification.
Counted  == (1..mark) \ {building[c] : c \in Clients}
Referred == Marked(specializations) \cup UNION {Marked(result[c]) : c \in Clients}
Dropped  == UNION {dropping[c] : c \in Clients}

\* A step that touches none of what the mapping reads maps to a stutter.
LEMMA PointersUnchanged ==
  ASSUME UNCHANGED <<mark, building, specializations, result, dropping>>
  PROVE  UNCHANGED Pointers!vars
BY DEF Pointers!vars, Marked

\* The marks that a client's new map refers to, and what all refer to.
LEMMA ReferredParts ==
  ASSUME TypeOK, NEW c \in Clients, Client(c)
  PROVE  Referred' = Marked(specializations') \cup Marked(result'[c])
                       \cup UNION {Marked(result[d]) : d \in Clients \ {c}}
<1>1. \A d \in Clients \ {c} : Marked(result'[d]) = Marked(result[d])
  BY OthersKeep
<1> QED BY <1>1 DEF Referred

\* A constructor counts and either fails at once, which is a throw, or has yet to
\* add its rules, which is a stutter.
LEMMA CountsPointers ==
  ASSUME OwnedInv, NEW c \in Clients, PrepareFails(c) \/ Prepare(c)
  PROVE  Pointers!Next \/ UNCHANGED Pointers!vars
<1>1. /\ Counts(c) /\ pc[c] = "create" /\ building[c] = 0 /\ mark' = mark + 1
      /\ UNCHANGED <<specializations, result, dropping>>
  BY DEF PrepareFails, Prepare, Counts, At, OwnedInv, BuildInv
<1>2. /\ mark \in Nat /\ mark' \in Marks /\ 1..mark' = (1..mark) \cup {mark'}
      /\ mark' \notin 1..mark
  BY <1>1, CountsInv
<1>3. \A d \in Clients : building[d] # mark'
  BY <1>1, <1>2, CountsInv DEF OwnedInv, BuildInv, Marks
<1>4. CASE PrepareFails(c)
  <2>1. building' = building
    BY <1>4 DEF PrepareFails
  <2>2. Counted' = Counted \cup {mark'} /\ mark' \notin Counted
    BY <1>2, <1>3, <2>1 DEF Counted
  <2>3. Pointers!Throw(mark')
    BY <1>1, <2>2 DEF Pointers!Throw, Counted, Marked
  <2> QED BY <1>2, <2>3 DEF Pointers!Next, Pointers!Throw
<1>5. CASE Prepare(c)
  <2>1. building'[c] = mark' /\ \A d \in Clients \ {c} : building'[d] = building[d]
    BY <1>5 DEF Prepare, OwnedInv, TypeOK
  <2>2. {building'[d] : d \in Clients} \ {0} = ({building[d] : d \in Clients} \ {0}) \cup {mark'}
    BY <1>1, <1>2, <2>1 DEF Marks
  <2>3. Counted' = Counted
    BY <1>2, <2>2 DEF Counted
  <2> QED BY <1>1, <2>3 DEF Pointers!vars, Counted, Marked
<1> QED BY <1>4, <1>5

\* A constructor ends.
LEMMA BuiltPointers ==
  ASSUME OwnedInv, EntryInv, NEW c \in Clients,
         Create(c) \/ \E chain \in Chains : RuleFails(c, chain)
  PROVE  Pointers!Next
<1> DEFINE k == building[c]
<1>1. /\ pc[c] = "build" /\ building' = [building EXCEPT ![c] = 0]
      /\ UNCHANGED <<mark, specializations, dropping>>
  BY DEF Create, RuleFails, At
<1>2. k \in Marks /\ k \in 1..mark /\ k # 0 /\ name[c] \in Names
  BY <1>1, BuilderHasTable DEF OwnedInv, TypeOK, Names
<1>3. /\ building'[c] = 0 /\ \A d \in Clients \ {c} : building'[d] = building[d]
      /\ \A d \in Clients \ {c} : building[d] # k
  BY <1>1, <1>2 DEF OwnedInv, TypeOK, BuildInv
<1>4. Counted' = Counted \cup {k} /\ k \notin Counted
  <2>1. {building'[d] : d \in Clients} \ {0} = ({building[d] : d \in Clients} \ {0}) \ {k}
    BY <1>2, <1>3
  <2>2. 0 \notin 1..mark
    BY DEF OwnedInv, TypeOK
  <2> QED BY <1>1, <1>2, <2>1, <2>2 DEF Counted
<1>5. CASE \E chain \in Chains : RuleFails(c, chain)
  <2>1. result' = result
    BY <1>5 DEF RuleFails
  <2>2. Pointers!Throw(k)
    BY <1>1, <1>4, <2>1 DEF Pointers!Throw, Counted, Marked
  <2> QED BY <1>2, <2>2 DEF Pointers!Next, Pointers!Throw
<1>6. CASE Create(c)
  <2>1. Marked(result'[c]) = Marked(result[c]) \cup {k}
    <3>1. result'[c] = [result[c] EXCEPT ![name[c]] = k] /\ result[c][name[c]] = 0
      BY <1>1, <1>6 DEF Create, EntryInv, OwnedInv, TypeOK
    <3> QED BY <1>2, <3>1 DEF Marked, OwnedInv, TypeOK
  <2>2. Referred' = Referred \cup {k}
    BY <1>1, <1>6, <2>1, ReferredParts DEF Referred, Client, OwnedInv
  <2>3. Pointers!Make(k)
    BY <1>1, <1>4, <2>2 DEF Pointers!Make, Counted, Referred
  <2> QED BY <1>2, <2>3 DEF Pointers!Next, Pointers!Make
<1> QED BY <1>5, <1>6

\* Another reference to an object that has one.
LEMMA LookupPointers ==
  ASSUME OwnedInv, EntryInv, NEW c \in Clients, Lookup(c)
  PROVE  UNCHANGED Pointers!vars
<1>1. UNCHANGED <<mark, building, specializations, dropping>>
  BY DEF Lookup, pluginVars, buildVars
<1>2. PICK n \in pending[c] :
        \/ result' = result
        \/ result' = [result EXCEPT ![c][n] = specializations[n]]
  BY DEF Lookup
<1>3. CASE result' = result
  BY <1>1, <1>3, PointersUnchanged
<1>4. CASE result' = [result EXCEPT ![c][n] = specializations[n]]
  <2>1. n \in Names /\ result[c][n] = 0
    BY DEF OwnedInv, TypeOK, EntryInv
  <2>2. result'[c] = [result[c] EXCEPT ![n] = specializations[n]]
    BY <1>4 DEF OwnedInv, TypeOK
  <2>3. /\ Marked(result'[c]) \subseteq Marked(result[c]) \cup Marked(specializations)
        /\ Marked(result[c]) \subseteq Marked(result'[c])
    BY <2>1, <2>2 DEF Marked, OwnedInv, TypeOK
  <2>4. Referred' = Referred
    BY <1>1, <2>3, ReferredParts DEF Referred, Client, OwnedInv
  <2> QED BY <1>1, <2>4 DEF Pointers!vars, Referred
<1> QED BY <1>2, <1>3, <1>4

\* The last references to some objects go: to those of the old map, or of the
\* new one that an exception gives up.
LEMMA ReleasePointers ==
  ASSUME OwnedInv, EntryInv, NEW c \in Clients, ClearFails(c) \/ Assign(c)
  PROVE  Pointers!Next
<1> DEFINE X == dropping'[c]
<1>1. UNCHANGED <<mark, building>> /\ dropping[c] = {} /\ Marked(result'[c]) = {}
  <2>1. pc[c] # "drop" /\ result'[c] = Nothing /\ UNCHANGED <<mark, building>>
    BY DEF ClearFails, Assign, At, pluginVars, buildVars, OwnedInv, TypeOK
  <2> QED BY <2>1, NothingMarked DEF EntryInv
<1>2. /\ X \subseteq Referred
      /\ Referred' = Referred \ X
  <2>1. Referred = Marked(specializations) \cup Marked(result[c])
                     \cup UNION {Marked(result[d]) : d \in Clients \ {c}}
    BY DEF Referred
  <2>2. Referred' = Marked(specializations') \cup UNION {Marked(result[d]) : d \in Clients \ {c}}
    BY <1>1, ReferredParts DEF Client, OwnedInv
  <2>3. CASE ClearFails(c)
    <3>1. specializations' = specializations /\ X = Marked(result[c]) \ HeldElsewhere(c)
      BY <2>3 DEF ClearFails, pluginVars, OwnedInv, TypeOK
    <3> QED BY <2>1, <2>2, <3>1 DEF HeldElsewhere
  <2>4. CASE Assign(c)
    <3>1. /\ specializations' = result[c]
          /\ X = Marked(specializations) \ (Marked(result[c])
                   \cup UNION {Marked(result[d]) : d \in Clients \ {c}})
      BY <2>4 DEF Assign, OwnedInv, TypeOK
    <3> QED BY <2>1, <2>2, <3>1
  <2> QED BY <2>3, <2>4
<1>3. Dropped' = Dropped \cup X
  BY <1>1, OthersKeep DEF Dropped, Client, OwnedInv
<1>4. X \subseteq Marks
  BY <1>2 DEF Referred, OwnedInv, ReferencesLive, TypeOK
<1> HIDE DEF X
<1>5. Pointers!LetGo(X)
  <2>1. X \in SUBSET X
    OBVIOUS
  <2>2. Counted' = Counted
    BY <1>1 DEF Counted
  <2> QED BY <1>2, <1>3, <2>1, <2>2 DEF Pointers!LetGo, Referred, Dropped, Counted
<1> QED BY <1>4, <1>5 DEF Pointers!Next, Pointers!LetGo

\* A destructor.
LEMMA DestroyPointers ==
  ASSUME OwnedInv, NEW c \in Clients, NEW m \in Marks, Destroy(c, m)
  PROVE  Pointers!Next
<1>1. /\ UNCHANGED <<mark, building, specializations, result>>
      /\ m \in dropping[c] /\ dropping'[c] = dropping[c] \ {m}
      /\ \A d \in Clients \ {c} : dropping'[d] = dropping[d] /\ m \notin dropping[d]
  BY DEF Destroy, buildVars, OwnedInv, TypeOK, DropInv
<1>2. Dropped' = Dropped \ {m} /\ m \in Dropped
  BY <1>1 DEF Dropped
<1>3. Pointers!Destroy(m)
  BY <1>1, <1>2 DEF Pointers!Destroy, Dropped, Marked
<1> QED BY <1>3 DEF Pointers!Next

\* Every step of the plugin is a step of what it promises, or a stutter.
LEMMA StepPointers == RoutingInv /\ [Next]_vars => [Pointers!Next]_(Pointers!vars)
<1> SUFFICES ASSUME RoutingInv, [Next]_vars PROVE Pointers!Next \/ UNCHANGED Pointers!vars
  OBVIOUS
<1> USE DEF RoutingInv
<1>1. ASSUME NEW c \in Clients, Client(c) PROVE Pointers!Next \/ UNCHANGED Pointers!vars
  <2>1. CASE Configure(c) \/ CreateUnknown(c) \/ CreateMeetsExpiredChain(c) \/ Fills(c)
             \/ EntryDone(c) \/ Return(c) \/ \E d \in Clients : ListRace(c, d)
    BY <2>1, PointersUnchanged DEF Configure, CreateUnknown, CreateMeetsExpiredChain, EntryDone,
       Return, ListRace, Fills, Flush, Clear, Push, AddIP, SkipIP, pluginVars, clientVars, buildVars
  <2> QED BY <1>1, <2>1, CountsPointers, BuiltPointers, LookupPointers, ReleasePointers,
             DestroyPointers DEF Client, Fills
<1>2. CASE UNCHANGED vars \/ \E i \in Interfaces : SetIP(i) \/ SetGW(i)
  BY <1>2, PointersUnchanged DEF SetIP, SetGW, vars, pluginVars, clientVars, buildVars
<1> QED BY <1>1, <1>2 DEF Next

\* The plugin implements what shared_ptr promises, whoever configures it and
\* whatever throws: every object is made once, destroyed once, after its last
\* reference went, and never referred to again.
THEOREM RoutingImplementsSharedObjects == Spec => ImplementsPointers
<1>1. Init => Pointers!Init
  BY NothingMarked DEF Init, Pointers!Init
<1> QED BY <1>1, StepPointers, RoutingInvariant, PTL DEF Spec, ImplementsPointers, Pointers!Spec
=============================================================================
