------------------------ MODULE INIFileConfiguratorProofs ----------------------
(***************************************************************************)
(* Proofs about DHCPServer, for its own specification Spec, and on top of  *)
(* them about INIFileConfigurator.                                         *)
(***************************************************************************)
EXTENDS INIFileConfigurator, TLAPS

-----------------------------------------------------------------------------
(* The server.  Leases: *)

\* The lease that dnsmasq is told for one the constructor accepts is at least
\* two minutes, never longer than the one asked for, and more than half of it.
THEOREM LeaseKept ==
  ASSUME NEW L \in Nat, L >= 120
  PROVE  120 <= Served(L) /\ Served(L) <= L /\ L < 2 * Served(L)
BY SMT DEF Served

\* An accepted range has a name,
LEMMA RangeFacts ==
  ASSUME NEW r \in Ranges, Accepted(r)
  PROVE  r.start \in Names
BY DEF Names, Accepted

\* and lines.
LEMMA LineFacts ==
  ASSUME NEW i \in Interfaces, NEW r \in Ranges
  PROVE  i \in Lines /\ RangeLine(i, r) \in Lines
BY DEF Lines

-----------------------------------------------------------------------------
(* The inductive invariant. *)

\* There is nothing at first.
LEMMA InitServerInv == Init => ServerInv
<1> SUFFICES ASSUME Init PROVE ServerInv
  OBVIOUS
<1> USE DEF Init, Lineless, Ownerless, Idle, Nothing, First
<1>1. TypeOK
  BY StartsAssumption DEF TypeOK, PCs
<1>2. Live = {}
  BY DEF Live
<1>3. FilesOwned
  BY <1>2 DEF FilesOwned
<1>4. HoldInv
  BY <1>2 DEF HoldInv, Constructing, PCs
<1>5. TextInv
  BY <1>2 DEF TextInv
<1>6. PushedInv
  BY DEF PushedInv
<1> QED BY <1>1, <1>3, <1>4, <1>5, <1>6 DEF ServerInv

\* When the process ends nothing is held, whatever becomes of the files.
LEMMA EndsInv ==
  ASSUME ServerInv, Ends, present' \subseteq Names, text' \in [Names -> SUBSET Lines],
         loaded' \in [Names -> SUBSET Lines], serving' \in BOOLEAN,
         leftover' = present'
  PROVE  ServerInv'
<1> USE DEF Ends, Lineless, Ownerless, Idle, Nothing, First
<1>1. TypeOK'
  BY DEF ServerInv, TypeOK, PCs
<1>2. Live' = {}
  BY DEF Live
<1>3. FilesOwned'
  BY <1>2 DEF FilesOwned
<1>4. HoldInv'
  BY <1>2 DEF HoldInv, Constructing, PCs
<1>5. TextInv'
  BY <1>2 DEF TextInv
<1>6. PushedInv'
  BY DEF PushedInv
<1> QED BY <1>1, <1>3, <1>4, <1>5, <1>6 DEF ServerInv

\* A process that dies keeps its files for the next,
LEMMA DiesInv == ServerInv /\ Dies => ServerInv'
BY EndsInv DEF ServerInv, TypeOK, Dies, dnsmasqVars

\* and one that stops removes those of its objects.
LEMMA StopInv == ServerInv /\ Stop => ServerInv'
<1> SUFFICES ASSUME ServerInv, Stop PROVE ServerInv'
  OBVIOUS
<1>1. present' = leftover
  BY DEF Stop, ServerInv, FilesOwned
<1>2. text' \in [Names -> SUBSET Lines]
  BY DEF Stop, ServerInv, TypeOK
<1> QED
  BY <1>1, <1>2, EndsInv DEF Stop, ServerInv, TypeOK, Lineless

\* The next process finds them as they were left, and no object.
LEMMA StartInv == ServerInv /\ Start => ServerInv'
<1> SUFFICES ASSUME ServerInv, Start PROVE ServerInv'
  OBVIOUS
<1> USE DEF ServerInv, Start, objectVars, threadVars
<1>1. TypeOK'
  BY StartsAssumption DEF TypeOK
<1>2. Live = {} /\ Live' = {}
  BY DEF HoldInv, Live
<1>3. FilesOwned' /\ HoldInv'
  BY <1>2 DEF FilesOwned, HoldInv
<1>4. TextInv'
  BY <1>2 DEF TextInv
<1>5. PushedInv'
  BY DEF PushedInv
<1> QED BY <1>1, <1>3, <1>4, <1>5

\* A call holds nothing yet.
LEMMA CallInv ==
  ASSUME ServerInv, NEW c \in Clients, NEW i \in Interfaces, NEW r \in Ranges, Call(c, i, r)
  PROVE  ServerInv'
<1> USE DEF ServerInv, Call, At, Goto, objectVars, dnsmasqVars
<1>1. TypeOK'
  BY DEF TypeOK, PCs
<1>2. Live' = Live
  BY DEF Live
<1>3. conf[c] = None
  BY DEF HoldInv, Constructing
<1>4. \A n \in Names : Busy(n)' <=> Busy(n)
  BY <1>3 DEF Busy, TypeOK, Names
<1>5. FilesOwned'
  BY <1>2 DEF FilesOwned
<1>6. HoldInv'
  BY <1>2, <1>3 DEF HoldInv, TypeOK, Constructing, PCs
<1>7. TextInv'
  BY <1>2, <1>4, <1>3 DEF TextInv, TypeOK
<1>8. PushedInv'
  BY <1>3 DEF PushedInv, TypeOK
<1> QED BY <1>1, <1>5, <1>6, <1>7, <1>8

\* A new object has a file of its own, empty as the object is.
LEMMA CreateInv ==
  ASSUME ServerInv, NEW c \in Clients, Create(c)
  PROVE  ServerInv'
<1> DEFINE n == range[c].start
<1> USE DEF ServerInv, Create, Obtains, At, Goto
<1>1. n \in Names /\ conf[c] = None
  BY RangeFacts DEF HoldInv, Constructing
<1>2. TypeOK'
  BY <1>1 DEF TypeOK, PCs
<1>3. Live' = Live \cup {n} /\ n \notin Live
  BY <1>1 DEF Live, TypeOK, HoldInv, Names
<1>4. FilesOwned'
  BY <1>3 DEF FilesOwned
<1>5. HoldInv'
  BY <1>1, <1>3 DEF HoldInv, TypeOK, Constructing, PCs, Names
<1>6. TextInv'
  BY <1>1, <1>3 DEF TextInv, TypeOK, Busy
<1>7. PushedInv'
  BY <1>1 DEF PushedInv, TypeOK
<1> QED BY <1>2, <1>4, <1>5, <1>6, <1>7

\* One that is shared has its file written as it is.
LEMMA ShareInv ==
  ASSUME ServerInv, NEW c \in Clients, Share(c)
  PROVE  ServerInv'
<1> DEFINE n == range[c].start
<1> USE DEF ServerInv, Share, Obtains, At, Goto, objectVars
<1>1. n \in Names /\ conf[c] = None
  BY RangeFacts DEF HoldInv, Constructing
<1>2. TypeOK'
  BY <1>1 DEF TypeOK, PCs
<1>3. Live' = Live /\ n \in Live
  BY <1>1 DEF Live, TypeOK, Names
<1>4. FilesOwned'
  BY <1>3 DEF FilesOwned
<1>5. HoldInv'
  BY <1>1, <1>3 DEF HoldInv, TypeOK, Constructing, PCs, Names
<1>6. TextInv'
  BY <1>1, <1>3 DEF TextInv, TypeOK, Busy
<1>7. PushedInv'
  BY <1>1 DEF PushedInv, TypeOK
<1> QED BY <1>2, <1>4, <1>5, <1>6, <1>7

\* What a thread in an object knows of it.
LEMMA Inside ==
  ASSUME ServerInv, NEW c \in Clients, pc[c] \in Constructing
  PROVE  /\ conf[c] \in Names \cap Live /\ conf[c] = range[c].start
         /\ iface[c] \in Interfaces /\ range[c] \in Ranges
         /\ Line(c) \in Lines
BY LineFacts DEF ServerInv, HoldInv, TypeOK, Constructing, Live, Line

\* A line more, in the object before it is in the file,
LEMMA PushInv ==
  ASSUME ServerInv, NEW c \in Clients, Push(c)
  PROVE  ServerInv'
<1> USE DEF ServerInv, Push, At, Goto, dnsmasqVars
<1>1. conf[c] \in Names \cap Live /\ Line(c) \in Lines /\ iface[c] \in Interfaces
  BY Inside DEF Constructing, PCs
<1>2. TypeOK'
  BY <1>1 DEF TypeOK, PCs
<1>3. Live' = Live
  BY DEF Live
<1>4. FilesOwned'
  BY <1>3 DEF FilesOwned
<1>5. HoldInv'
  BY <1>3 DEF HoldInv, TypeOK, Constructing, PCs
<1>6. TextInv'
  BY <1>1, <1>3 DEF TextInv, TypeOK, Busy
<1>7. PushedInv'
  BY <1>1 DEF PushedInv, TypeOK, Line, Live
<1> QED BY <1>2, <1>4, <1>5, <1>6, <1>7

\* or lost, which is remembered.
LEMMA PushLostInv ==
  ASSUME ServerInv, NEW c \in Clients, PushLost(c)
  PROVE  ServerInv'
<1> USE DEF ServerInv, PushLost, At, Goto, objectVars, dnsmasqVars
<1>1. conf[c] \in Names \cap Live
  BY Inside DEF Constructing, PCs
<1>2. TypeOK'
  BY <1>1 DEF TypeOK, PCs
<1>3. Live' = Live
  BY DEF Live
<1>4. FilesOwned'
  BY <1>3 DEF FilesOwned
<1>5. HoldInv'
  BY <1>3 DEF HoldInv, TypeOK, Constructing, PCs
<1>6. TextInv'
  BY <1>1, <1>3 DEF TextInv, TypeOK, Busy
<1>7. PushedInv'
  BY <1>1 DEF PushedInv, TypeOK
<1> QED BY <1>2, <1>4, <1>5, <1>6, <1>7

\* While a file is empty its writer is known,
LEMMA TruncateInv ==
  ASSUME ServerInv, NEW c \in Clients, Truncate(c)
  PROVE  ServerInv'
<1> USE DEF ServerInv, Truncate, At, Goto, objectVars
<1>1. conf[c] \in Names \cap Live
  BY Inside DEF Constructing, PCs
<1>2. TypeOK'
  BY <1>1 DEF TypeOK, PCs
<1>3. Live' = Live
  BY DEF Live
<1>4. FilesOwned'
  BY <1>3 DEF FilesOwned
<1>5. HoldInv'
  BY <1>3 DEF HoldInv, TypeOK, Constructing, PCs
<1>6. TextInv'
  BY <1>1, <1>3 DEF TextInv, TypeOK, Busy
<1>7. PushedInv'
  BY <1>1 DEF PushedInv, TypeOK
<1> QED BY <1>2, <1>4, <1>5, <1>6, <1>7

\* and when it is filled it has all lines there are.
LEMMA FillInv ==
  ASSUME ServerInv, NEW c \in Clients, Fill(c)
  PROVE  ServerInv'
<1> USE DEF ServerInv, Fill, At, Goto, objectVars
<1>1. conf[c] \in Names \cap Live
  BY Inside DEF Constructing, PCs
<1>2. TypeOK'
  BY <1>1 DEF TypeOK, PCs
<1>3. Live' = Live
  BY DEF Live
<1>4. FilesOwned'
  BY <1>3 DEF FilesOwned
<1>5. HoldInv'
  BY <1>3 DEF HoldInv, TypeOK, Constructing, PCs
<1>6. TextInv'
  BY <1>1, <1>3 DEF TextInv, TypeOK, Busy
<1>7. PushedInv'
  BY <1>1 DEF PushedInv, TypeOK
<1> QED BY <1>2, <1>4, <1>5, <1>6, <1>7

\* A reload brings dnsmasq up to date but for the files that are being written,
LEMMA ReloadInv ==
  ASSUME ServerInv, NEW c \in Clients, Reload(c)
  PROVE  ServerInv'
<1> USE DEF ServerInv, Reload, Loads, At, Goto, objectVars
<1>1. conf[c] \in Names \cap Live
  BY Inside DEF Constructing, PCs
<1>2. TypeOK'
  BY <1>1 DEF TypeOK, PCs
<1>3. Live' = Live
  BY DEF Live
<1>4. FilesOwned'
  BY <1>3 DEF FilesOwned
<1>5. HoldInv'
  BY <1>3 DEF HoldInv, TypeOK, Constructing, PCs
<1>6. TextInv'
  BY <1>1, <1>3 DEF TextInv, TypeOK, Busy
<1>7. PushedInv'
  BY <1>1 DEF PushedInv, TypeOK
<1> QED BY <1>2, <1>4, <1>5, <1>6, <1>7

\* whoever asks for it.
LEMMA ReloadElsewhereInv ==
  ASSUME ServerInv, ReloadElsewhere
  PROVE  ServerInv'
<1> USE DEF ServerInv, ReloadElsewhere, Loads, objectVars, threadVars
<1>1. TypeOK'
  BY DEF TypeOK
<1>2. Live' = Live
  BY DEF Live
<1>3. FilesOwned' /\ HoldInv'
  BY <1>2 DEF FilesOwned, HoldInv
<1>4. TextInv'
  BY <1>2 DEF TextInv, Busy
<1>5. PushedInv'
  BY DEF PushedInv
<1> QED BY <1>1, <1>3, <1>4, <1>5

\* The object that goes with an assignment takes its lines and its file along;
\* every other one stays as it is.
LEMMA AssignFacts ==
  ASSUME ServerInv, NEW c \in Clients, Assign(c)
  PROVE  /\ Live' \subseteq Live
         /\ \A m \in Live \ Live' : lines'[m] = {}
         /\ \A m \in Names : /\ m \in Live' => lines'[m] = lines[m] /\ text'[m] = text[m]
                             /\ lines[m] = {} => lines'[m] = {}
         /\ present' \cap Names = present \ (Live \ Live')
<1> DEFINE i == iface[c]
           dead == {owner[i]} \ Live'
<1>1. /\ conf[c] \in Names \cap Live /\ i \in Interfaces
  BY Inside DEF Assign, At, Constructing, PCs
<1>2. /\ owner' = [owner EXCEPT ![i] = conf[c]]
      /\ conf' = [conf EXCEPT ![c] = None]
      /\ present' = present \ dead
      /\ text' = [n \in Names |-> IF n \in dead THEN {} ELSE text[n]]
      /\ lines' = [n \in Names |-> IF n \in dead THEN {} ELSE lines[n]]
  BY DEF Assign
<1>3. Live \subseteq Names /\ Live' \subseteq Live /\ \A m \in Live : m \in Live' \/ m = owner[i]
  BY <1>1, <1>2 DEF Live, ServerInv, TypeOK
<1>4. present \subseteq Names /\ \A m \in Names : m \in dead => m \in Live
  BY <1>1 DEF ServerInv, TypeOK, Live, Names
<1> QED BY <1>1, <1>2, <1>3, <1>4

\* An assignment preserves the invariant.
LEMMA AssignInv ==
  ASSUME ServerInv, NEW c \in Clients, Assign(c)
  PROVE  ServerInv'
<1> DEFINE i == iface[c]
           dead == {owner[i]} \ Live'
<1> USE DEF ServerInv
<1>1. /\ conf[c] \in Names \cap Live /\ pc[c] = "assign" /\ process = "up"
      /\ i \in Interfaces /\ range[c] \in Ranges
  BY Inside DEF Assign, At, Constructing, PCs
<1>2. /\ owner' = [owner EXCEPT ![i] = conf[c]]
      /\ granted' = [granted EXCEPT ![i] = range[c]]
      /\ conf' = [conf EXCEPT ![c] = None]
      /\ iface' = [iface EXCEPT ![c] = None]
      /\ range' = [range EXCEPT ![c] = None]
      /\ kind' = [kind EXCEPT ![c] = "interface"]
      /\ pc' = [pc EXCEPT ![c] = "idle"]
      /\ present' = present \ dead
      /\ text' = [n \in Names |-> IF n \in dead THEN {} ELSE text[n]]
      /\ lines' = [n \in Names |-> IF n \in dead THEN {} ELSE lines[n]]
      /\ UNCHANGED <<process, starts, registry, serving, loaded, leftover, raced>>
  BY DEF Assign, Goto
<1> HIDE DEF dead
<1>3. TypeOK'
  BY <1>1, <1>2 DEF TypeOK, PCs
<1>4. FilesOwned'
  BY <1>2, <1>3, AssignFacts DEF FilesOwned, TypeOK
<1>5. HoldInv'
  BY <1>1, <1>2, AssignFacts DEF HoldInv, TypeOK, Constructing, PCs
<1>6. TextInv'
  <2> SUFFICES ASSUME NEW m \in Names
               PROVE  /\ m \notin Live' => lines'[m] = {}
                      /\ m \in Live' /\ ~(\E d \in Clients : conf'[d] = m /\ pc'[d] \in {"write", "fill"})
                           => text'[m] = lines'[m]
                      /\ m \in Live' /\ ~Busy(m)' => loaded'[m] = lines'[m]
    BY DEF TextInv
  <2>1. m \notin Live' => lines'[m] = {}
    BY AssignFacts DEF TextInv
  <2>2. ASSUME m \in Live'
        PROVE  /\ m \in Live /\ lines'[m] = lines[m] /\ text'[m] = text[m]
               /\ loaded'[m] = loaded[m]
    BY <1>2, <2>2, AssignFacts
  <2>3. \A d \in Clients : conf[d] = m /\ pc[d] # "assign" => conf'[d] = m /\ pc'[d] = pc[d]
    BY <1>1, <1>2 DEF TypeOK
  <2>4. Busy(m) => Busy(m)'
    BY <2>3 DEF Busy
  <2> QED BY <2>1, <2>2, <2>3, <2>4 DEF TextInv
<1>7. PushedInv'
  <2>1. /\ conf'[c] = None /\ owner'[i] = conf[c] /\ granted'[i] = range[c]
        /\ \A d \in Clients \ {c} : /\ conf'[d] = conf[d] /\ kind'[d] = kind[d]
                                   /\ pc'[d] = pc[d] /\ iface'[d] = iface[d]
                                   /\ range'[d] = range[d]
        /\ \A j \in Interfaces \ {i} : owner'[j] = owner[j] /\ granted'[j] = granted[j]
        /\ raced' = raced
    BY <1>1, <1>2 DEF TypeOK
  <2>2. \A m \in Live' : lines'[m] = lines[m]
    <3>1. Live' \subseteq Live /\ Live \subseteq Names
      <4>1. Live \subseteq Names
        BY DEF TypeOK, Live
      <4> QED BY <4>1, AssignFacts
    <3> QED BY <3>1, AssignFacts
  <2>3. /\ \A d \in Clients : conf'[d] # None => conf'[d] \in Live'
        /\ \A j \in Interfaces : owner'[j] # None => owner'[j] \in Live'
    BY DEF Live
  <2>4. ASSUME NEW d \in Clients, conf'[d] # None, conf'[d] \notin raced'
        PROVE  /\ (kind'[d] = "dhcp-range" \/ pc'[d] \in {"write", "fill"})
                     => iface'[d] \in lines'[conf'[d]]
               /\ (kind'[d] = "dhcp-range" /\ pc'[d] # "push")
                     => RangeLine(iface'[d], range'[d]) \in lines'[conf'[d]]
    <3>1. d # c
      BY <2>1, <2>4
    <3>2. lines'[conf[d]] = lines[conf[d]]
      BY <2>1, <2>2, <2>3, <2>4, <3>1
    <3> QED BY <2>1, <2>4, <3>1, <3>2 DEF PushedInv
  <2>5. ASSUME NEW j \in Interfaces, owner'[j] # None, owner'[j] \notin raced'
        PROVE  /\ granted'[j] \in Ranges
               /\ {j, RangeLine(j, granted'[j])} \subseteq lines'[owner'[j]]
    <3>1. lines'[owner'[j]] = lines[owner'[j]]
      BY <2>2, <2>3, <2>5
    <3>2. CASE j = i
      <4>1. conf[c] # None /\ kind[c] = "dhcp-range"
        BY <1>1 DEF HoldInv, Constructing, PCs
      <4> QED BY <1>1, <2>1, <2>5, <3>1, <3>2, <4>1 DEF PushedInv
    <3>3. CASE j # i
      BY <2>1, <2>5, <3>1, <3>3 DEF PushedInv
    <3> QED BY <3>2, <3>3
  <2> QED BY <2>4, <2>5 DEF PushedInv
<1> QED BY <1>3, <1>4, <1>5, <1>6, <1>7

\* Every step preserves the invariant.
LEMMA StepServerInv == ServerInv /\ [Next]_serverVars => ServerInv'
<1> SUFFICES ASSUME ServerInv, [Next]_serverVars PROVE ServerInv'
  OBVIOUS
<1>1. CASE UNCHANGED serverVars
  <2> USE <1>1 DEF serverVars, objectVars, threadVars, dnsmasqVars
  <2>1. Live' = Live /\ \A n \in Names : Busy(n)' <=> Busy(n)
    BY DEF Live, Busy
  <2> QED
    BY <2>1 DEF ServerInv, TypeOK, FilesOwned, HoldInv, TextInv, PushedInv
<1>2. CASE \E c \in Clients : Step(c)
  BY <1>2, CreateInv, ShareInv, PushInv, PushLostInv, TruncateInv, FillInv, ReloadInv, AssignInv
     DEF Step
<1>3. CASE \E c \in Clients, i \in Interfaces, r \in Ranges : Call(c, i, r)
  BY <1>3, CallInv
<1>4. CASE Kill \/ Crash
  BY <1>4, DiesInv DEF Kill, Crash, Expired, Race
<1> QED BY <1>1, <1>2, <1>3, <1>4, ReloadElsewhereInv, StartInv, StopInv DEF Next

\* Files, objects, their lines and what dnsmasq has read of them agree in every
\* reachable state, for any number of threads, interfaces and ranges.
THEOREM ServerInvariant == Spec => []ServerInv
BY InitServerInv, StepServerInv, PTL DEF Spec

\* Every file has its object or was left by a process that died.
THEOREM FilesAlwaysOwned == Spec => []FilesOwned
<1>1. ServerInv => FilesOwned
  BY DEF ServerInv
<1> QED BY <1>1, ServerInvariant, PTL

\* A range that was granted is in the file of its object, and dnsmasq has read it.
LEMMA GrantedFollows == ServerInv => GrantedServed
<1> SUFFICES ASSUME ServerInv, NEW i \in Interfaces,
                    owner[i] # None, ~Busy(owner[i]), owner[i] \notin raced
             PROVE  {i, RangeLine(i, granted[i])} \subseteq loaded[owner[i]]
  BY DEF GrantedServed
<1>1. owner[i] \in Names \cap Live
  BY DEF ServerInv, TypeOK, Live
<1>2. loaded[owner[i]] = lines[owner[i]]
  BY <1>1 DEF ServerInv, TextInv
<1> QED BY <1>2 DEF ServerInv, PushedInv

\* What an interface was granted last is what dnsmasq serves on it.
THEOREM GrantedAlwaysServed == Spec => []GrantedServed
BY ServerInvariant, GrantedFollows, PTL

\* With one thread in setDHCPServer() at a time no line is lost, every grant is
\* served, and no step is undefined: a lock around it would be enough.
THEOREM SerialServes == Spec /\ []OneAtATime => []EveryGrantServed /\ NothingUndefined
<1> DEFINE Unraced == raced = {}
<1>1. Init => Unraced
  BY DEF Init
<1>2. OneAtATime /\ Unraced /\ [Next]_serverVars => Unraced'
  <2> SUFFICES ASSUME OneAtATime, Unraced, [Next]_serverVars PROVE Unraced'
    OBVIOUS
  <2>1. ASSUME NEW c \in Clients, Step(c) PROVE Unraced'
    <3>1. ~PushLost(c)
      BY DEF PushLost, At, OneAtATime
    <3> QED
      BY <2>1, <3>1 DEF Step, Create, Share, Push, Truncate, Fill, Reload, Assign
  <2>2. CASE Stop \/ Kill \/ Crash
    BY <2>2 DEF Stop, Kill, Crash, Expired, Race, Dies, Ends
  <2>3. CASE ReloadElsewhere \/ Start \/ UNCHANGED serverVars
             \/ \E c \in Clients, i \in Interfaces, r \in Ranges : Call(c, i, r)
    BY <2>3 DEF ReloadElsewhere, Start, Call, serverVars
  <2> QED BY <2>1, <2>2, <2>3 DEF Next
<1>3. GrantedServed /\ Unraced => EveryGrantServed
  BY DEF GrantedServed, EveryGrantServed
<1>4. OneAtATime => [~Undefined]_serverVars
  <2> SUFFICES ASSUME OneAtATime, NEW c \in Clients, NEW d \in Clients, Race(c, d) PROVE FALSE
    BY DEF Undefined
  <2>1. c # d /\ pc[c] \in {"push", "assign"} /\ pc[d] \in {"push", "fill", "add", "assign"}
    BY DEF Race, Using, At
  <2> QED BY <2>1 DEF OneAtATime
<1> QED BY <1>1, <1>2, <1>3, <1>4, GrantedAlwaysServed, PTL DEF Spec, NothingUndefined

-----------------------------------------------------------------------------
(* The server implements SharedObjects. *)

\* A step that makes no object and gives up no reference.
LEMMA SharesUnchanged ==
  ASSUME registry' = registry, Live' = Live
  PROVE  UNCHANGED Pointers!vars
BY DEF Pointers!vars

\* The process's memory goes with all objects.
LEMMA EndsShares == ASSUME Ends PROVE Pointers!Next
<1>1. Live' = {} /\ registry' = {}
  BY DEF Ends, Live, Ownerless, Nothing
<1> QED BY <1>1 DEF Pointers!Next, Pointers!Exit

\* A new object, for a name that had none,
LEMMA CreateShares == ASSUME ServerInv, NEW c \in Clients, Create(c) PROVE Pointers!Next
<1> DEFINE n == range[c].start
<1>1. n \in Names /\ conf[c] = None
  BY RangeFacts DEF Create, At, ServerInv, HoldInv, Constructing
<1>2. Live' = Live \cup {n} /\ registry' = registry \cup {n} /\ n \notin registry
  BY <1>1 DEF Create, Obtains, Live, ServerInv, TypeOK, HoldInv, Names
<1> QED BY <1>1, <1>2 DEF Pointers!Next, Pointers!Make

\* another reference to one that lives,
LEMMA ShareShares ==
  ASSUME ServerInv, NEW c \in Clients, Share(c) PROVE UNCHANGED Pointers!vars
<1>1. range[c].start \in Names /\ conf[c] = None
  BY RangeFacts DEF Share, At, ServerInv, HoldInv, Constructing
<1>2. Live' = Live /\ registry' = registry
  BY <1>1 DEF Share, Obtains, objectVars, Live, ServerInv, TypeOK, Names
<1> QED BY <1>2, SharesUnchanged

\* and the last one to the object that an assignment replaces.
LEMMA AssignShares == ASSUME ServerInv, NEW c \in Clients, Assign(c) PROVE Pointers!Next
<1> DEFINE X == Live \ Live'
<1>1. Live' \subseteq Live /\ registry' = registry
  BY AssignFacts DEF Assign
<1>2. X \in SUBSET Names /\ X \subseteq Live /\ Live' = Live \ X
  BY <1>1 DEF ServerInv, TypeOK, HoldInv
<1>3. {} \in SUBSET X /\ {} = {} \cup {}
  OBVIOUS
<1> HIDE DEF X
<1> QED BY <1>1, <1>2, <1>3 DEF Pointers!Next, Pointers!LetGo

\* Every step of the server is a step of what it promises, or a stutter.
LEMMA StepShares == ServerInv /\ [Next]_serverVars => [Pointers!Next]_(Pointers!vars)
<1> SUFFICES ASSUME ServerInv, [Next]_serverVars PROVE Pointers!Next \/ UNCHANGED Pointers!vars
  OBVIOUS
<1>1. ASSUME NEW c \in Clients, Step(c) PROVE Pointers!Next \/ UNCHANGED Pointers!vars
  <2>1. CASE Push(c) \/ PushLost(c) \/ Truncate(c) \/ Fill(c) \/ Reload(c)
    <3>1. UNCHANGED <<registry, owner, conf>>
      BY <2>1 DEF Push, PushLost, Truncate, Fill, Reload, objectVars
    <3> QED BY <3>1, SharesUnchanged DEF Live
  <2> QED BY <1>1, <2>1, CreateShares, ShareShares, AssignShares DEF Step
<1>2. CASE ReloadElsewhere \/ Start \/ UNCHANGED serverVars
           \/ \E c \in Clients, i \in Interfaces, r \in Ranges : Call(c, i, r)
  <2>1. UNCHANGED <<registry, owner, conf>>
    BY <1>2 DEF ReloadElsewhere, Start, Call, objectVars, threadVars, serverVars
  <2> QED BY <2>1, SharesUnchanged DEF Live
<1>3. CASE Stop \/ Kill \/ Crash
  BY <1>3, EndsShares DEF Stop, Kill, Crash, Expired, Race, Dies
<1> QED BY <1>1, <1>2, <1>3 DEF Next

\* One object at most is made for a name in the life of a process; when its last
\* reference is gone the name is dead, which is why a range that comes back after
\* another took its place ends the process.
THEOREM ConfigurationsShared == Spec => SharesConfigurations
<1>1. Init => Pointers!Init
  BY DEF Init, Pointers!Init, Live, Ownerless, Nothing
<1> QED BY <1>1, StepShares, ServerInvariant, PTL DEF Spec, SharesConfigurations, Pointers!Spec

\* A first address that was given up is not served again before the process ends.
THEOREM SpentForGood == Spec => SpentStaysSpent
<1> DEFINE Spent == \A n \in registry \ Live : n \in registry' => n \notin Live'
<1>1. ServerInv /\ [Next]_serverVars => [Spent]_serverVars
  <2> SUFFICES ASSUME ServerInv, [Next]_serverVars PROVE Spent
    OBVIOUS
  <2>1. Pointers!Next \/ UNCHANGED Pointers!vars
    BY StepShares
  <2> QED
    BY <2>1 DEF Pointers!Next, Pointers!Make, Pointers!Throw, Pointers!LetGo,
                Pointers!Destroy, Pointers!Exit, Pointers!vars
<1> QED BY <1>1, ServerInvariant, PTL DEF Spec, SpentStaysSpent

-----------------------------------------------------------------------------
(* The configurator. *)

\* A thread that is at a section is at one of its file.
LEMMA EntryFacts ==
  ASSUME ConfiguratorTypeOK, ReadingInv, NEW c \in Clients,
         Loops(c) \/ at[c] \in {"range", "server"}
  PROVE  /\ reading[c] \in Files
         /\ section[c] \in 1..Len(Content[reading[c]])
         /\ Entry(c) \in Sections
         /\ Entry(c).range # None => Asked(Entry(c)) \in Ranges
<1>1. reading[c] \in Files /\ section[c] <= Len(Content[reading[c]])
  BY DEF ReadingInv, Loops, In
<1>2. Len(Content[reading[c]]) \in Nat
  BY <1>1, ContentAssumption
<1>3. section[c] \in 1..Len(Content[reading[c]])
  BY <1>1, <1>2 DEF ConfiguratorTypeOK
<1>4. Entry(c) \in Sections
  BY <1>1, <1>3 DEF Entry, Sections
<1> QED BY <1>1, <1>3, <1>4, ContentAssumption

\* Who is not in setDHCPServer holds nothing of it.
LEMMA OutsideHoldsNothing ==
  ASSUME ServerInv, ReadingInv, NEW c \in Clients, at[c] # "server"
  PROVE  pc[c] = "idle" /\ conf[c] = None
BY DEF ServerInv, HoldInv, ReadingInv, Constructing

-----------------------------------------------------------------------------
(* Every step of the configurator is one of the server it fills, or none. *)

\* One step of the configurator, in a state that the invariant allows.
LEMMA StepImplements ==
  ConfiguratorTypeOK /\ ReadingInv /\ [ConfiguratorNext]_vars => [Next]_serverVars
<1> SUFFICES ASSUME ConfiguratorTypeOK, ReadingInv, [ConfiguratorNext]_vars
             PROVE  [Next]_serverVars
  OBVIOUS
<1>1. CASE UNCHANGED vars
  BY <1>1 DEF vars
<1>2. ASSUME NEW c \in Clients, ConfigureStep(c) \/ \E f \in Files : Configure(c, f)
      PROVE  [Next]_serverVars
  <2>1. CASE SetDHCPServer(c)
    <3>1. Entry(c).name \in Interfaces /\ Asked(Entry(c)) \in Ranges
      BY <2>1, EntryFacts DEF SetDHCPServer, In, ReadingInv, ConfiguratorTypeOK
    <3> QED BY <2>1, <3>1 DEF SetDHCPServer, Next
  <2>2. CASE InServer(c)
    BY <2>2 DEF InServer, Next
  <2>3. CASE ~SetDHCPServer(c) /\ ~InServer(c)
    BY <1>2, <2>3 DEF ConfigureStep, Configure, Open, OpenFails, Skip, SetStatic, UseDHCP,
                      CallFails, Refused, Return
  <2> QED BY <2>1, <2>2, <2>3
<1>3. CASE ReloadBySwitcher \/ Boot \/ Down
  BY <1>3 DEF ReloadBySwitcher, Boot, Down, NameRace, Kill, Next
<1> QED BY <1>1, <1>2, <1>3 DEF ConfiguratorNext

-----------------------------------------------------------------------------
(* The inductive invariant. *)

\* Nobody reads a file at first.
LEMMA InitConfiguratorInv == ConfiguratorInit => ConfiguratorInv
<1> SUFFICES ASSUME ConfiguratorInit PROVE ConfiguratorInv
  OBVIOUS
<1> USE DEF ConfiguratorInit, Idle, Nothing, Unread, Modeless
<1>1. ServerInv
  BY InitServerInv
<1>2. ConfiguratorTypeOK
  <2>1. alone \in BOOLEAN
    OBVIOUS
  <2> QED BY <2>1 DEF ConfiguratorTypeOK
<1>3. ReadingInv
  BY DEF ReadingInv, Init
<1>4. AloneInv
  BY DEF AloneInv
<1> QED BY <1>1, <1>2, <1>3, <1>4 DEF ConfiguratorInv

\* Types: a section is counted up, or starts again.
LEMMA StepConfiguratorTypeOK ==
  ASSUME ConfiguratorTypeOK, ReadingInv, [ConfiguratorNext]_vars
  PROVE  ConfiguratorTypeOK'
<1> USE DEF ConfiguratorTypeOK, Go
<1>1. CASE UNCHANGED vars
  BY <1>1 DEF vars, configuratorVars
<1>2. ASSUME NEW c \in Clients, NEW f \in Files, Configure(c, f)
      PROVE  ConfiguratorTypeOK'
  BY <1>2 DEF Configure
<1>3. ASSUME NEW c \in Clients, ConfigureStep(c)
      PROVE  ConfiguratorTypeOK'
  <2> USE DEF NextSection, Leaves, Throws
  <2>1. CASE Open(c) \/ OpenFails(c) \/ Refused(c) \/ Return(c)
    <3>1. alone' \in BOOLEAN
      BY <2>1 DEF Open, OpenFails, Refused, Return
    <3>2. at' \in [Clients -> {"idle", "open", "next", "range", "server"}]
      BY <2>1 DEF Open, OpenFails, Refused, Return
    <3>3. reading' \in [Clients -> Files \cup {None}]
      BY <2>1 DEF Open, OpenFails, Refused, Return
    <3>4. section' \in [Clients -> Nat \ {0}]
      BY <2>1 DEF Open, OpenFails, Refused, Return
    <3>5. UNCHANGED <<known, file_name, mode>>
      BY <2>1 DEF Open, OpenFails, Refused, Return
    <3> QED BY <3>1, <3>2, <3>3, <3>4, <3>5
  <2>2. CASE Skip(c) \/ SetStatic(c) \/ UseDHCP(c)
    BY <2>2 DEF Skip, SetStatic, UseDHCP
  <2>3. CASE CallFails(c)
    <3>1. alone' \in BOOLEAN
      BY <2>3 DEF CallFails
    <3>2. at' \in [Clients -> {"idle", "open", "next", "range", "server"}]
      BY <2>3 DEF CallFails
    <3>3. reading' \in [Clients -> Files \cup {None}] /\ section' \in [Clients -> Nat \ {0}]
      BY <2>3 DEF CallFails
    <3>4. mode' \in [Interfaces -> {"none", "static", "dhcp"}]
      BY <2>3 DEF CallFails
    <3>5. UNCHANGED <<known, file_name>>
      BY <2>3 DEF CallFails
    <3> QED BY <3>1, <3>2, <3>3, <3>4, <3>5
  <2>4. CASE SetDHCPServer(c) \/ InServer(c)
    BY <2>4 DEF SetDHCPServer, InServer
  <2> QED BY <1>3, <2>1, <2>2, <2>3, <2>4 DEF ConfigureStep
<1>4. CASE ReloadBySwitcher \/ Boot
  BY <1>4, PluggedAssumption DEF ReloadBySwitcher, Boot, configuratorVars
<1>5. CASE Down
  <2>1. alone' \in BOOLEAN
    BY <1>5 DEF Down
  <2> QED BY <1>5, <2>1 DEF Down, Idle, Nothing, Unread, Modeless
<1> QED BY <1>1, <1>2, <1>3, <1>4, <1>5 DEF ConfiguratorNext

\* What one thread does keeps what the others are at.
LEMMA OthersReading ==
  ASSUME ReadingInv, NEW c \in Clients, process = "up",
         UNCHANGED <<process, known, file_name>>,
         \A d \in Clients \ {c} : /\ at'[d] = at[d] /\ reading'[d] = reading[d]
                                 /\ section'[d] = section[d] /\ pc'[d] = pc[d]
                                 /\ iface'[d] = iface[d] /\ range'[d] = range[d],
         at'[c] = "server" <=> pc'[c] # "idle",
         at'[c] = "open" => file_name \in Files,
         at'[c] \in {"next", "range", "server"} => reading'[c] \in Files,
         at'[c] \in {"range", "server"} =>
           /\ section'[c] <= Len(Content[reading'[c]])
           /\ Entry(c)'.name \in known /\ Entry(c)'.kind = "static" /\ Entry(c)'.range # None,
         at'[c] = "server" => iface'[c] = Entry(c)'.name /\ range'[c] = Asked(Entry(c))'
  PROVE  ReadingInv'
<1>1. ASSUME NEW d \in Clients \ {c} PROVE Entry(d)' = Entry(d) /\ Asked(Entry(d))' = Asked(Entry(d))
  BY DEF Entry, Asked
<1> QED BY <1>1 DEF ReadingInv

\* Where the threads are: only c moves, and only in setDHCPServer does it move in
\* the server.
LEMMA StepReadingInv ==
  ASSUME ServerInv, ConfiguratorTypeOK, ReadingInv, AloneInv, [ConfiguratorNext]_vars
  PROVE  ReadingInv'
<1> USE DEF ConfiguratorTypeOK, Go, In, Entry
<1>1. CASE UNCHANGED vars
  BY <1>1 DEF vars, configuratorVars, serverVars, objectVars, threadVars, ReadingInv
<1>2. ASSUME NEW c \in Clients, NEW f \in Files, Configure(c, f)
      PROVE  ReadingInv'
  BY <1>2 DEF Configure, ReadingInv, serverVars, threadVars
<1>3. ASSUME NEW c \in Clients, ConfigureStep(c)
      PROVE  ReadingInv'
  <2> USE DEF NextSection, Leaves, Throws, serverVars, threadVars
  <2> HIDE DEF Entry
  <2>1. CASE Open(c)
    <3>1. /\ process = "up" /\ pc[c] = "idle" /\ file_name \in Files
          /\ at' = [at EXCEPT ![c] = "next"] /\ section' = [section EXCEPT ![c] = 1]
          /\ reading' = [reading EXCEPT ![c] = file_name]
          /\ UNCHANGED <<process, known, file_name, pc, iface, range>>
      BY <2>1 DEF Open, ReadingInv
    <3> HIDE DEF serverVars, threadVars
    <3> QED BY <3>1, OthersReading
  <2>2. CASE OpenFails(c) \/ Refused(c) \/ Return(c) \/ CallFails(c)
    <3>1. /\ process = "up" /\ pc[c] = "idle" /\ at' = [at EXCEPT ![c] = "idle"]
          /\ reading' = [reading EXCEPT ![c] = None] /\ section' = [section EXCEPT ![c] = 1]
          /\ UNCHANGED <<process, known, file_name, pc, iface, range>>
      BY <2>2 DEF OpenFails, Refused, Return, CallFails, Loops, ReadingInv
    <3> HIDE DEF Leaves, Throws, serverVars, threadVars
    <3> QED BY <3>1, OthersReading
  <2>3. CASE Skip(c) \/ UseDHCP(c)
    <3>1. /\ process = "up" /\ pc[c] = "idle" /\ reading[c] \in Files
          /\ at' = [at EXCEPT ![c] = "next"] /\ section' = [section EXCEPT ![c] = @ + 1]
          /\ UNCHANGED <<process, known, file_name, reading, pc, iface, range>>
      BY <2>3 DEF Skip, UseDHCP, Loops, ReadingInv
    <3> QED BY <3>1, OthersReading
  <2>4. CASE SetStatic(c)
    <3>1. /\ process = "up" /\ pc[c] = "idle" /\ reading[c] \in Files
          /\ UNCHANGED <<process, known, file_name, reading, pc, iface, range>>
      BY <2>4 DEF SetStatic, Loops, ReadingInv
    <3>2. CASE Entry(c).range = None
      BY <2>4, <3>1, <3>2, OthersReading DEF SetStatic
    <3>3. CASE Entry(c).range # None
      <4>1. at' = [at EXCEPT ![c] = "range"] /\ section' = section
        BY <2>4, <3>3 DEF SetStatic
      <4>2. Entry(c)' = Entry(c)
        BY <3>1, <4>1 DEF Entry
      <4>3. section[c] <= Len(Content[reading[c]])
            /\ Entry(c).name \in known /\ Entry(c).kind = "static"
        BY <2>4 DEF SetStatic, Loops, Skipped
      <4> QED BY <3>1, <3>3, <4>1, <4>2, <4>3, OthersReading
    <3> QED BY <3>2, <3>3
  <2>5. CASE SetDHCPServer(c)
    <3>1. /\ process = "up" /\ at[c] = "range"
          /\ at' = [at EXCEPT ![c] = "server"] /\ pc' = [pc EXCEPT ![c] = "add"]
          /\ iface' = [iface EXCEPT ![c] = Entry(c).name]
          /\ range' = [range EXCEPT ![c] = Asked(Entry(c))]
          /\ UNCHANGED <<process, known, file_name, reading, section>>
      BY <2>5 DEF SetDHCPServer, Call, Goto
    <3>2. Entry(c)' = Entry(c) /\ Asked(Entry(c))' = Asked(Entry(c))
      BY <3>1 DEF Entry, Asked
    <3>3. /\ pc'[c] = "add" /\ iface'[c] = Entry(c).name /\ range'[c] = Asked(Entry(c))
          /\ \A d \in Clients \ {c} : pc'[d] = pc[d] /\ iface'[d] = iface[d] /\ range'[d] = range[d]
      BY <3>1 DEF ServerInv, TypeOK
    <3>4. /\ reading[c] \in Files /\ section[c] <= Len(Content[reading[c]])
          /\ Entry(c).name \in known /\ Entry(c).kind = "static" /\ Entry(c).range # None
      BY <3>1 DEF ReadingInv
    <3>5. /\ at'[c] = "server" /\ reading' = reading /\ section' = section
          /\ \A d \in Clients \ {c} : at'[d] = at[d]
      BY <3>1
    <3> HIDE DEF serverVars, threadVars, ConfiguratorTypeOK
    <3> QED BY <3>1, <3>2, <3>3, <3>4, <3>5, OthersReading
  <2>6. CASE InServer(c)
    <3>1. /\ process = "up" /\ at[c] = "server" /\ Step(c)
          /\ IF pc'[c] = "idle" THEN NextSection(c) ELSE UNCHANGED <<at, section>>
          /\ UNCHANGED <<known, file_name, reading>>
      BY <2>6 DEF InServer
    <3>2. \/ /\ pc'[c] = "idle" /\ \A d \in Clients \ {c} : iface'[d] = iface[d] /\ range'[d] = range[d]
          \/ pc'[c] # "idle" /\ UNCHANGED <<iface, range>>
      <4>1. CASE Assign(c)
        BY <4>1 DEF Assign, Goto, ServerInv, TypeOK
      <4>2. CASE ~Assign(c)
        BY <3>1, <4>2 DEF Step, Create, Share, Push, PushLost, Truncate, Fill, Reload, Obtains,
                          Goto, ServerInv, TypeOK
      <4> QED BY <4>1, <4>2
    <3>3. process' = process /\ \A d \in Clients \ {c} : pc'[d] = pc[d]
      BY <3>1 DEF Step, Create, Share, Push, PushLost, Truncate, Fill, Reload, Assign, Obtains,
                  Goto, ServerInv, TypeOK
    <3>4. /\ reading[c] \in Files /\ section[c] <= Len(Content[reading[c]])
          /\ Entry(c).name \in known /\ Entry(c).kind = "static" /\ Entry(c).range # None
          /\ iface[c] = Entry(c).name /\ range[c] = Asked(Entry(c))
      BY <3>1 DEF ReadingInv
    <3>5. CASE pc'[c] = "idle"
      BY <3>1, <3>2, <3>3, <3>4, <3>5, OthersReading
    <3>6. CASE pc'[c] # "idle"
      <4>1. Entry(c)' = Entry(c) /\ Asked(Entry(c))' = Asked(Entry(c))
        BY <3>1, <3>6 DEF Entry, Asked
      <4> QED BY <3>1, <3>2, <3>3, <3>4, <3>6, <4>1, OthersReading
    <3> QED BY <3>5, <3>6
  <2> QED BY <1>3, <2>1, <2>2, <2>3, <2>4, <2>5, <2>6 DEF ConfigureStep
<1>4. CASE ReloadBySwitcher \/ Boot
  BY <1>4 DEF ReloadBySwitcher, Boot, configuratorVars, ReloadElsewhere, Start, threadVars,
              ReadingInv
<1>5. CASE Down
  BY <1>5 DEF Down, Stop, Kill, Crash, NameRace, Expired, Race, Dies, Ends, Idle, Nothing,
              Unread, ReadingInv
<1> QED BY <1>1, <1>2, <1>3, <1>4, <1>5 DEF ConfiguratorNext

-----------------------------------------------------------------------------
(* A configure() that is alone. *)

\* The section that a thread is at, where it is alone.
LEMMA AloneFacts ==
  ASSUME ConfiguratorTypeOK, ReadingInv, AloneInv, alone, NEW c \in Clients,
         Loops(c) \/ at[c] \in {"range", "server"}
  PROVE  /\ reading[c] = file_name /\ Content[file_name][section[c]] = Entry(c)
         /\ section[c] \in 1..Len(Content[file_name])
         /\ \A d \in Clients \ {c} : at[d] = "idle"
         /\ \A k \in 1..Len(Content[file_name]) :
              k # section[c] => Content[file_name][k].name # Entry(c).name
         /\ \A k \in 1..Len(Content[file_name]) :
              k < section[c] => Applied(Content[file_name][k])
<1>1. reading[c] = file_name /\ at[c] \in {"next", "range", "server"}
  BY DEF AloneInv, Loops, In
<1>2. section[c] \in 1..Len(Content[file_name]) /\ file_name \in Files
  BY <1>1, EntryFacts
<1>3. \A d \in Clients \ {c} : at[d] = "idle"
  BY <1>1 DEF AloneInv
<1>4. \A k \in 1..Len(Content[file_name]) : k < section[c] => Applied(Content[file_name][k])
  BY <1>1, <1>3 DEF AloneInv
<1>5. \A k \in 1..Len(Content[file_name]) :
        k # section[c] => Content[file_name][k].name # Entry(c).name
  BY <1>1, <1>2, ContentAssumption DEF Entry
<1> QED BY <1>1, <1>2, <1>3, <1>4, <1>5 DEF Entry

\* What there is to show of a thread that is alone after a step of its own.
LEMMA AloneAt ==
  ASSUME NEW c \in Clients, process' = "up", file_name' \in Files,
         \A d \in Clients \ {c} : at'[d] = "idle" /\ conf'[d] = None,
         at'[c] \in {"next", "range", "server"}, reading'[c] = file_name',
         at'[c] \in {"range", "server"} => mode'[Entry(c)'.name] = "static",
         conf'[c] # None =>
           /\ (kind'[c] = "dhcp-range" \/ pc'[c] \in {"write", "fill"})
                => iface'[c] \in lines'[conf'[c]]
           /\ (kind'[c] = "dhcp-range" /\ pc'[c] # "push")
                => RangeLine(iface'[c], range'[c]) \in lines'[conf'[c]],
         \A k \in 1..Len(Content[file_name']) :
           k < section'[c] => AppliedBy(Content[file_name'][k], known', mode', owner', lines')
  PROVE  AloneInv'
<1>1. \A d \in Clients : d # c => at'[d] = "idle" /\ conf'[d] = None
  OBVIOUS
<1>2. \A d \in Clients : at'[d] # "idle" => \A b \in Clients \ {d} : at'[b] = "idle"
  BY <1>1
<1>3. \A d \in Clients : at'[d] \in {"next", "range", "server"} => reading'[d] = file_name'
  BY <1>1
<1>4. \A d \in Clients : at'[d] \in {"range", "server"} => mode'[Entry(d)'.name] = "static"
  <2> SUFFICES ASSUME NEW d \in Clients, at'[d] \in {"range", "server"}
               PROVE  mode'[Entry(d)'.name] = "static"
    OBVIOUS
  <2>1. d = c
    BY <1>1
  <2> QED BY <2>1
<1>5. \A d \in Clients : conf'[d] # None =>
        /\ (kind'[d] = "dhcp-range" \/ pc'[d] \in {"write", "fill"})
             => iface'[d] \in lines'[conf'[d]]
        /\ (kind'[d] = "dhcp-range" /\ pc'[d] # "push")
             => RangeLine(iface'[d], range'[d]) \in lines'[conf'[d]]
  <2> SUFFICES ASSUME NEW d \in Clients, conf'[d] # None
               PROVE  /\ (kind'[d] = "dhcp-range" \/ pc'[d] \in {"write", "fill"})
                           => iface'[d] \in lines'[conf'[d]]
                      /\ (kind'[d] = "dhcp-range" /\ pc'[d] # "push")
                           => RangeLine(iface'[d], range'[d]) \in lines'[conf'[d]]
    OBVIOUS
  <2>1. d = c
    BY <1>1
  <2> QED BY <2>1
<1>6. \A k \in 1..Len(Content[file_name']) :
        (\A d \in Clients : at'[d] # "idle" => at'[d] # "open" /\ k < section'[d])
          => AppliedBy(Content[file_name'][k], known', mode', owner', lines')
  OBVIOUS
<1> QED BY <1>2, <1>3, <1>4, <1>5, <1>6 DEF AloneInv, Applied

\* One that goes on to the next section has the last one applied.
LEMMA Advances ==
  ASSUME ConfiguratorTypeOK, ReadingInv, AloneInv, alone, NEW c \in Clients,
         Loops(c) \/ at[c] \in {"range", "server"},
         at' = [at EXCEPT ![c] = "next"], section' = [section EXCEPT ![c] = @ + 1],
         UNCHANGED <<process, file_name, reading>>,
         \A d \in Clients : conf'[d] = None,
         \A k \in 1..Len(Content[file_name]) :
           k <= section[c] => AppliedBy(Content[file_name][k], known', mode', owner', lines')
  PROVE  AloneInv'
<1>1. /\ process' = "up" /\ file_name' \in Files
      /\ \A d \in Clients \ {c} : at[d] = "idle" /\ at'[d] = "idle"
      /\ at'[c] = "next" /\ reading'[c] = file_name'
  BY AloneFacts DEF AloneInv, ConfiguratorTypeOK
<1>2. section[c] \in Nat \ {0} /\ section'[c] = section[c] + 1
  BY DEF ConfiguratorTypeOK
<1>3. Len(Content[file_name]) \in Nat
  BY <1>1, ContentAssumption
<1>4. ASSUME NEW k \in 1..Len(Content[file_name]), k < section'[c]
      PROVE  AppliedBy(Content[file_name][k], known', mode', owner', lines')
  <2>1. k <= section[c]
    BY <1>2, <1>3, <1>4
  <2> QED BY <2>1
<1> QED BY <1>1, <1>4, AloneAt

\* The steps that leave the server alone.
LEMMA ReadingAlone ==
  ASSUME ServerInv, ConfiguratorTypeOK, ReadingInv, AloneInv, NEW c \in Clients,
         \/ Open(c) \/ Skip(c) \/ SetStatic(c) \/ UseDHCP(c) \/ Return(c)
  PROVE  AloneInv'
<1> SUFFICES ASSUME alone PROVE AloneInv'
  BY DEF AloneInv, Open, Skip, SetStatic, UseDHCP, Return
<1> USE DEF Go, In, NextSection, Leaves, serverVars, objectVars, threadVars, Loops,
            ConfiguratorTypeOK, Applied
<1>1. CASE Open(c)
  BY <1>1 DEF Open, AloneInv
<1>2. PICK e : e = Entry(c)
  OBVIOUS
<1>3. ASSUME Loops(c), UNCHANGED serverVars
      PROVE  /\ \A d \in Clients : conf'[d] = None
             /\ Content[file_name][section[c]] = e /\ e \in Sections
             /\ reading[c] = file_name /\ section[c] \in Nat
             /\ \A d \in Clients \ {c} : at[d] = "idle"
             /\ \A k \in 1..Len(Content[file_name]) :
                  k < section[c] => /\ Applied(Content[file_name][k])
                                    /\ Content[file_name][k].name # e.name
  <2>1. \A d \in Clients : at[d] # "server"
    BY <1>3, AloneFacts
  <2>2. \A d \in Clients : conf[d] = None
    BY <2>1, OutsideHoldsNothing
  <2> QED BY <1>2, <1>3, <2>2, AloneFacts, EntryFacts
<1>4. ASSUME Loops(c), UNCHANGED <<serverVars, known, file_name, reading>>,
             at' = [at EXCEPT ![c] = "next"], section' = [section EXCEPT ![c] = @ + 1],
             \A i \in known : i # e.name => mode'[i] = mode[i],
             AppliedBy(e, known', mode', owner', lines')
      PROVE  AloneInv'
  <2>1. ASSUME NEW k \in 1..Len(Content[file_name]), k <= section[c]
        PROVE  AppliedBy(Content[file_name][k], known', mode', owner', lines')
    <3>1. CASE k = section[c]
      BY <1>3, <1>4, <3>1
    <3>2. CASE k < section[c]
      BY <1>3, <1>4, <3>2 DEF AppliedBy
    <3> QED BY <1>3, <1>4, <2>1, <3>1, <3>2
  <2> QED BY <1>3, <1>4, <2>1, Advances
<1>5. CASE Skip(c)
  BY <1>2, <1>4, <1>5 DEF Skip, Skipped, AppliedBy
<1>6. CASE UseDHCP(c)
  BY <1>2, <1>4, <1>6 DEF UseDHCP, Skipped, AppliedBy
<1>7. CASE SetStatic(c) /\ e.range = None
  BY <1>2, <1>4, <1>7 DEF SetStatic, Skipped, AppliedBy
<1>8. CASE SetStatic(c) /\ e.range # None
  <2>1. /\ at' = [at EXCEPT ![c] = "range"] /\ Loops(c)
        /\ mode' = [mode EXCEPT ![e.name] = "static"] /\ e.name \in Interfaces
        /\ UNCHANGED <<serverVars, known, file_name, reading, alone, section>>
    BY <1>2, <1>8 DEF SetStatic, Skipped
  <2>2. Entry(c)' = e
    BY <1>2, <2>1 DEF Entry
  <2>3. \A k \in 1..Len(Content[file_name]) :
          k < section[c] => AppliedBy(Content[file_name][k], known', mode', owner', lines')
    BY <1>3, <2>1 DEF AppliedBy
  <2>4. at'[c] = "range" /\ \A d \in Clients \ {c} : at'[d] = "idle"
    BY <1>3, <2>1
  <2>5. mode'[Entry(c)'.name] = "static" /\ \A d \in Clients : conf'[d] = None
    BY <1>3, <2>1, <2>2
  <2>6. process' = "up" /\ file_name' \in Files /\ reading'[c] = file_name'
    BY <1>3, <2>1 DEF AloneInv
  <2>7. \A k \in 1..Len(Content[file_name']) :
          k < section'[c] => AppliedBy(Content[file_name'][k], known', mode', owner', lines')
    BY <2>1, <2>3
  <2> HIDE DEF Go, In, NextSection, Leaves, serverVars, objectVars, threadVars, Loops,
               ConfiguratorTypeOK, Applied
  <2> QED BY <2>4, <2>5, <2>6, <2>7, AloneAt
<1>9. CASE Return(c)
  BY <1>9 DEF Return, AloneInv
<1> QED BY <1>1, <1>5, <1>6, <1>7, <1>8, <1>9

\* A call that setDHCPServer accepts has pushed nothing yet.
LEMMA CallAlone ==
  ASSUME ServerInv, ConfiguratorTypeOK, ReadingInv, AloneInv, NEW c \in Clients,
         SetDHCPServer(c)
  PROVE  AloneInv'
<1> SUFFICES ASSUME alone PROVE AloneInv'
  BY DEF AloneInv, SetDHCPServer
<1> USE DEF ConfiguratorTypeOK
<1>1. /\ at[c] = "range" /\ at' = [at EXCEPT ![c] = "server"]
      /\ UNCHANGED <<process, conf, lines, owner, known, file_name, reading, section, mode, alone>>
  BY DEF SetDHCPServer, In, Go, Call, objectVars
<1>2. \A d \in Clients : conf[d] = None
  BY <1>1, AloneFacts, OutsideHoldsNothing
<1>3. at'[c] = "server" /\ \A d \in Clients \ {c} : at'[d] = "idle"
  BY <1>1, AloneFacts
<1>4. mode'[Entry(c)'.name] = "static" /\ \A d \in Clients : conf'[d] = None
  BY <1>1, <1>2 DEF AloneInv, Entry
<1>5. process' = "up" /\ file_name' \in Files /\ reading'[c] = file_name'
  BY <1>1 DEF AloneInv
<1>6. \A k \in 1..Len(Content[file_name']) :
        k < section'[c] => AppliedBy(Content[file_name'][k], known', mode', owner', lines')
  BY <1>1, AloneFacts DEF Applied
<1> HIDE DEF ConfiguratorTypeOK
<1> QED BY <1>3, <1>4, <1>5, <1>6, AloneAt

\* What it has pushed stays: lines are added, or, by another thread, lost.
LEMMA ServerAlone ==
  ASSUME ServerInv, ConfiguratorTypeOK, ReadingInv, AloneInv, NEW c \in Clients,
         InServer(c)
  PROVE  AloneInv'
<1> SUFFICES ASSUME alone PROVE AloneInv'
  BY DEF AloneInv, InServer
<1> USE DEF ConfiguratorTypeOK
<1>1. /\ at[c] = "server" /\ process = "up"
      /\ UNCHANGED <<known, file_name, reading, mode, alone>>
      /\ \A d \in Clients \ {c} : at[d] = "idle" /\ pc[d] = "idle" /\ conf[d] = None
  BY AloneFacts, OutsideHoldsNothing DEF InServer, In
<1>2. ~PushLost(c)
  BY <1>1 DEF PushLost, At
<1>3. CASE ~Assign(c)
  <2>1. /\ pc'[c] # "idle" /\ UNCHANGED <<process, owner, iface, range>>
        /\ \A d \in Clients \ {c} : conf'[d] = None
        /\ pc[c] # "idle"
    BY <1>1, <1>2, <1>3
       DEF InServer, Step, Create, Share, Push, Truncate, Fill, Reload, Obtains, Goto, At,
           objectVars, ServerInv, TypeOK
  <2>2. UNCHANGED <<at, section>>
    BY <2>1 DEF InServer
  <2>3. \A n \in Names : lines[n] \subseteq lines'[n]
    BY <1>2, <1>3, Inside
       DEF InServer, Step, Create, Share, Push, Truncate, Fill, Reload, objectVars, ServerInv,
           TypeOK
  <2>4. \A x \in Sections : Applied(x) => Applied(x)'
    <3>1. \A i \in known : owner[i] # None => owner[i] \in Names
      BY DEF ServerInv, TypeOK
    <3> QED BY <1>1, <2>1, <2>3, <3>1 DEF Applied, AppliedBy
  <2>5. conf'[c] # None =>
          /\ (kind'[c] = "dhcp-range" \/ pc'[c] \in {"write", "fill"})
               => iface[c] \in lines'[conf'[c]]
          /\ (kind'[c] = "dhcp-range" /\ pc'[c] # "push")
               => RangeLine(iface[c], range[c]) \in lines'[conf'[c]]
    <3> USE DEF AloneInv, ServerInv, TypeOK, Goto, At, objectVars
    <3>1. CASE Create(c) \/ Share(c)
      BY <3>1 DEF Create, Share, Obtains
    <3>2. CASE Push(c)
      BY <3>2, Inside DEF Push, Line, Constructing, PCs
    <3>3. CASE Truncate(c) \/ Fill(c) \/ Reload(c)
      BY <3>3 DEF Truncate, Fill, Reload
    <3> QED BY <1>2, <1>3, <3>1, <3>2, <3>3 DEF InServer, Step
  <2>6. /\ at'[c] = "server" /\ \A d \in Clients \ {c} : at'[d] = "idle"
        /\ process' = "up" /\ file_name' \in Files /\ reading'[c] = file_name'
        /\ mode'[Entry(c)'.name] = "static"
        /\ iface'[c] = iface[c] /\ range'[c] = range[c]
    BY <1>1, <2>1, <2>2 DEF AloneInv, Entry
  <2>7. ASSUME NEW k \in 1..Len(Content[file_name']), k < section'[c]
        PROVE  AppliedBy(Content[file_name'][k], known', mode', owner', lines')
    <3>1. k \in 1..Len(Content[file_name]) /\ k < section[c]
      BY <1>1, <2>2, <2>7
    <3>2. Content[file_name][k] \in Sections /\ Applied(Content[file_name][k])
      BY <1>1, <3>1, AloneFacts DEF AloneInv, Sections
    <3> QED BY <1>1, <2>4, <3>2 DEF Applied
  <2> HIDE DEF ConfiguratorTypeOK
  <2> QED BY <2>1, <2>5, <2>6, <2>7, AloneAt
<1>4. CASE Assign(c)
  <2> DEFINE i == iface[c]
  <2>1. /\ pc[c] = "assign" /\ pc'[c] = "idle" /\ process' = process
        /\ owner' = [owner EXCEPT ![i] = conf[c]] /\ conf' = [conf EXCEPT ![c] = None]
    BY <1>4 DEF Assign, At, Goto, ServerInv, TypeOK
  <2>2. at' = [at EXCEPT ![c] = "next"] /\ section' = [section EXCEPT ![c] = @ + 1]
    BY <2>1 DEF InServer, NextSection, Go
  <2>3. /\ i \in Interfaces /\ i = Entry(c).name /\ range[c] = Asked(Entry(c))
        /\ mode[i] = "static" /\ Entry(c).kind = "static"
        /\ conf[c] \in Names /\ {i, RangeLine(i, range[c])} \subseteq lines[conf[c]]
    <3>1. kind[c] = "dhcp-range"
      BY <2>1, Inside DEF ServerInv, PushedInv, HoldInv, Constructing, PCs, AloneInv
    <3>2. conf[c] \in Names /\ conf[c] # None /\ i \in Interfaces
      BY <2>1, Inside DEF Constructing, PCs, Names
    <3> QED BY <1>1, <2>1, <3>1, <3>2 DEF AloneInv, ReadingInv
  <2>4. \A j \in Interfaces : owner'[j] # None => lines'[owner'[j]] = lines[owner'[j]]
    <3>1. \A j \in Interfaces : owner'[j] # None => owner'[j] \in Live' \cap Names
      BY <2>1, <2>3 DEF Live, ServerInv, TypeOK
    <3> QED BY <1>4, <3>1, AssignFacts
  <2>5. ASSUME NEW k \in 1..Len(Content[file_name]), k <= section[c]
        PROVE  AppliedBy(Content[file_name][k], known', mode', owner', lines')
    <3>1. CASE k = section[c]
      <4>1. Content[file_name][k] = Entry(c)
        BY <1>1, <3>1, AloneFacts
      <4>2. owner'[i] = conf[c] /\ conf[c] # None /\ lines'[conf[c]] = lines[conf[c]]
        BY <2>1, <2>3, <2>4 DEF ServerInv, TypeOK, Names
      <4> QED BY <1>1, <2>3, <4>1, <4>2 DEF AppliedBy
    <3>2. CASE k < section[c]
      <4>1. Applied(Content[file_name][k]) /\ Content[file_name][k].name # i
        BY <1>1, <2>3, <3>2, AloneFacts
      <4> QED BY <1>1, <2>1, <2>3, <2>4, <4>1 DEF AppliedBy, Applied, ServerInv, TypeOK
    <3>3. k = section[c] \/ k < section[c]
      BY <2>5
    <3> QED BY <3>1, <3>2, <3>3
  <2>6. \A d \in Clients : conf'[d] = None
    BY <1>1, <2>1 DEF ServerInv, TypeOK
  <2> QED BY <1>1, <2>1, <2>2, <2>5, <2>6, Advances
<1> QED BY <1>3, <1>4

\* A reload by others is none of its business.
LEMMA Untouched ==
  ASSUME AloneInv,
         UNCHANGED <<process, file_name, at, reading, section, mode, conf, kind, pc, iface>>,
         UNCHANGED <<range, lines, owner, known, alone>>
  PROVE  AloneInv'
<1>1. \A x : Applied(x)' <=> Applied(x)
  BY DEF Applied
<1>2. \A c \in Clients : Entry(c)' = Entry(c)
  BY DEF Entry
<1> QED BY <1>1, <1>2 DEF AloneInv, Applied

\* Every step preserves the invariant.
LEMMA StepConfiguratorInv == ConfiguratorInv /\ [ConfiguratorNext]_vars => ConfiguratorInv'
<1> SUFFICES ASSUME ConfiguratorInv, [ConfiguratorNext]_vars PROVE ConfiguratorInv'
  OBVIOUS
<1> USE DEF ConfiguratorInv
<1>1. ServerInv' /\ ConfiguratorTypeOK' /\ ReadingInv'
  BY StepImplements, StepServerInv, StepConfiguratorTypeOK, StepReadingInv
<1> SUFFICES AloneInv'
  BY <1>1
<1>2. CASE UNCHANGED vars
  <2>1. /\ UNCHANGED <<process, file_name, at, reading, section, mode, conf, kind, pc, iface>>
        /\ UNCHANGED <<range, lines, owner, known, alone>>
    BY <1>2 DEF vars, configuratorVars, serverVars, objectVars, threadVars
  <2> QED BY <2>1, Untouched
<1>3. ASSUME NEW c \in Clients, NEW f \in Files, Configure(c, f)
      PROVE  AloneInv'
  <2> SUFFICES ASSUME alone' PROVE AloneInv'
    BY DEF AloneInv
  <2>1. /\ process = "up" /\ at' = [at EXCEPT ![c] = "open"] /\ file_name' = f
        /\ \A d \in Clients : at[d] = "idle"
        /\ UNCHANGED <<process, conf>>
    BY <1>3 DEF Configure, In, Go, serverVars, threadVars
  <2>2. \A d \in Clients : conf[d] = None
    BY <2>1, OutsideHoldsNothing
  <2> QED BY <2>1, <2>2 DEF AloneInv, ConfiguratorTypeOK
<1>4. ASSUME NEW c \in Clients, ConfigureStep(c)
      PROVE  AloneInv'
  <2>1. CASE OpenFails(c) \/ CallFails(c) \/ Refused(c)
    BY <2>1 DEF OpenFails, CallFails, Refused, Throws, AloneInv
  <2> QED BY <1>4, <2>1, ReadingAlone, CallAlone, ServerAlone DEF ConfigureStep
<1>5. CASE ReloadBySwitcher
  <2>1. /\ UNCHANGED <<process, file_name, at, reading, section, mode, conf, kind, pc, iface>>
        /\ UNCHANGED <<range, lines, owner, known, alone>>
    BY <1>5 DEF ReloadBySwitcher, ReloadElsewhere, configuratorVars, objectVars, threadVars
  <2> QED BY <2>1, Untouched
<1>6. CASE Boot
  <2>1. ~alone
    BY <1>6 DEF Boot, Start, AloneInv
  <2> QED BY <1>6, <2>1 DEF Boot, AloneInv
<1>7. CASE Down
  BY <1>7 DEF Down, AloneInv
<1> QED BY <1>2, <1>3, <1>4, <1>5, <1>6, <1>7 DEF ConfiguratorNext

\* Threads, sections, files and what is behind them agree in every reachable
\* state, for any files, number of threads and failures.
THEOREM ConfiguratorInvariant == ConfiguratorSpec => []ConfiguratorInv
BY InitConfiguratorInv, StepConfiguratorInv, PTL DEF ConfiguratorSpec

\* The configurator fills the server only through the server's own steps, so the
\* server's theorems hold inside it.
THEOREM ConfiguratorImplementsServer == ConfiguratorSpec => Spec
<1>1. ConfiguratorInit => Init
  BY DEF ConfiguratorInit
<1>2. ConfiguratorInv /\ [ConfiguratorNext]_vars => [Next]_serverVars
  BY StepImplements DEF ConfiguratorInv
<1> QED BY <1>1, <1>2, ConfiguratorInvariant, PTL DEF ConfiguratorSpec, Spec

\* What files grant is what dnsmasq serves.
THEOREM ConfiguredGrantsServed == ConfiguratorSpec => []GrantedServed
BY ConfiguratorImplementsServer, GrantedAlwaysServed, PTL

\* A configure() that was alone and returned has its file in force, section by
\* section, whatever earlier ones left half done.
THEOREM FileAlwaysApplied == ConfiguratorSpec => []FileApplied
<1>1. ConfiguratorInv => FileApplied
  <2> SUFFICES ASSUME ConfiguratorInv, alone, \A c \in Clients : at[c] = "idle",
                      NEW k \in 1..Len(Content[file_name])
               PROVE  InForce(Content[file_name][k])
    BY DEF FileApplied
  <2>1. Applied(Content[file_name][k])
    BY DEF ConfiguratorInv, AloneInv
  <2>2. \A c \in Clients : conf[c] = None
    BY OutsideHoldsNothing DEF ConfiguratorInv
  <2>3. ASSUME NEW i \in Interfaces, owner[i] # None
        PROVE  loaded[owner[i]] = lines[owner[i]]
    <3>1. owner[i] \in Names \cap Live
      BY <2>3 DEF ConfiguratorInv, ServerInv, TypeOK, Live
    <3> QED BY <2>2, <3>1 DEF ConfiguratorInv, ServerInv, TextInv, Busy, Names
  <2> QED
    BY <2>1, <2>3 DEF Applied, AppliedBy, InForce, ConfiguratorInv, ConfiguratorTypeOK
<1> QED BY <1>1, ConfiguratorInvariant, PTL
=============================================================================
