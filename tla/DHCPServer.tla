------------------------------- MODULE DHCPServer ------------------------------
(***************************************************************************)
(* EthernetController::setDHCPServer and what is behind it: DHCPServer,    *)
(* DNSMasqDHCPServerConfiguration, DNSMasqController, DNSMasqConfiguration *)
(* (directories of these names under src/src).  A range is served by       *)
(* dnsmasq, which reads a file per first address when it is told to; the   *)
(* file lives as long as the object that wrote it.                         *)
(*                                                                         *)
(* An object is known by its name, the first address of its range: a       *)
(* process makes one at most for each (see Create).  Its lines are a set,  *)
(* since dnsmasq does not mind their order or a repetition.                *)
(***************************************************************************)
EXTENDS Integers

CONSTANTS
  Clients,    \* threads: main and those of web clients
  Interfaces, \* EthernetControllers
  Ranges,     \* [start, end, lease] that setDHCPServer may be given
  None,       \* no object, no address
  MaxStarts   \* how often the process is started

Names == {r.start : r \in Ranges} \ {None}

ASSUME RangesAssumption == \A r \in Ranges : r = [start |-> r.start, end |-> r.end, lease |-> r.lease]
                                             /\ r.lease \in Nat
ASSUME StartsAssumption == MaxStarts \in Nat

VARIABLES
  (* the process *)
  process,     \* is it "up" or "down"
  starts,
  registry,    \* names in DNSMasqController::configurations
  lines,       \* DNSMasqConfiguration::configuration, by name
  owner,       \* the object of dhcp_server_configuration, by interface
  (* setDHCPServer(), in each thread *)
  pc, iface, range, conf,
  kind,        \* of the line that addConfiguration is at
  (* outside *)
  present,     \* the files in /etc/dnsmasq.d
  text,        \* what is in them
  serving,     \* does dnsmasq run?
  loaded,      \* what dnsmasq has read from each
  (* history *)
  leftover,    \* files left by a process that died
  raced,       \* names whose lines two threads wrote at once
  granted      \* the range each interface was given last

objectVars  == <<registry, lines, owner>>
threadVars  == <<pc, iface, range, conf, kind>>
dnsmasqVars == <<present, text, serving, loaded>>
serverVars  == <<process, starts, objectVars, threadVars, dnsmasqVars,
                 leftover, raced, granted>>

\* The time that the constructor writes for a lease: hours above 3600 seconds,
\* else minutes, truncated (lines 20-31).
Served(lease) == IF lease > 3600 THEN 3600 * ((lease \div 60) \div 60) ELSE 60 * (lease \div 60)

\* What it accepts.
Accepted(r) == r.start # None /\ r.end # None /\ r.lease >= 120

\* "interface=..." and "dhcp-range=..."
RangeLine(i, r) == [on |-> i, start |-> r.start, end |-> r.end, lease |-> Served(r.lease)]
Lines == Interfaces \cup {RangeLine(i, r) : i \in Interfaces, r \in Ranges}

PCs == {"idle", "add", "push", "write", "fill", "reload", "assign"}
Constructing == PCs \ {"idle", "add"}

TypeOK ==
  /\ process \in {"up", "down"}
  /\ starts \in 0..MaxStarts
  /\ registry \subseteq Names
  /\ lines \in [Names -> SUBSET Lines]
  /\ owner \in [Interfaces -> Names \cup {None}]
  /\ pc \in [Clients -> PCs]
  /\ iface \in [Clients -> Interfaces \cup {None}]
  /\ range \in [Clients -> Ranges \cup {None}]
  /\ conf \in [Clients -> Names \cup {None}]
  /\ kind \in [Clients -> {"interface", "dhcp-range"}]
  /\ present \subseteq Names
  /\ text \in [Names -> SUBSET Lines]
  /\ serving \in BOOLEAN
  /\ loaded \in [Names -> SUBSET Lines]
  /\ leftover \subseteq Names
  /\ raced \subseteq Names
  /\ granted \in [Interfaces -> Ranges \cup {None}]

Lineless  == [n \in Names |-> {}]
Ownerless == [i \in Interfaces |-> None]
Idle      == [c \in Clients |-> "idle"]
Nothing   == [c \in Clients |-> None]
First     == [c \in Clients |-> "interface"]

Init ==
  /\ process = "down" /\ starts = 0
  /\ registry = {} /\ lines = Lineless /\ owner = Ownerless
  /\ pc = Idle /\ iface = Nothing /\ range = Nothing /\ conf = Nothing /\ kind = First
  /\ present = {} /\ text = Lineless
  /\ serving \in BOOLEAN /\ loaded = Lineless
  /\ leftover = {} /\ raced = {} /\ granted = Ownerless

At(c, l)   == process = "up" /\ pc[c] = l
Goto(c, l) == pc' = [pc EXCEPT ![c] = l]

\* The objects that a shared_ptr refers to.
Live == ({owner[i] : i \in Interfaces} \cup {conf[c] : c \in Clients}) \ {None}

-----------------------------------------------------------------------------
(* setDHCPServer() *)

\* DHCPServer::createConfiguration: the constructor checks its arguments first,
Call(c, i, r) ==
  /\ At(c, "idle")
  /\ Accepted(r)
  /\ Goto(c, "add")
  /\ iface' = [iface EXCEPT ![c] = i]
  /\ range' = [range EXCEPT ![c] = r]
  /\ UNCHANGED <<process, starts, objectVars, conf, kind, dnsmasqVars, leftover, raced, granted>>

\* The constructor has its DNSMasqConfiguration and goes on to the first line.
Obtains(c, n) ==
  /\ conf' = [conf EXCEPT ![c] = n]
  /\ kind' = [kind EXCEPT ![c] = "interface"]
  /\ Goto(c, "push")

\* Mutant: the constructor appends to the file.
CreateKeepsFile(c) ==
  LET n == range[c].start
  IN /\ At(c, "add")
     /\ n \notin registry
     /\ registry' = registry \cup {n}
     /\ Obtains(c, n)
     /\ present' = present \cup {n}
     /\ leftover' = leftover \ {n}
     /\ UNCHANGED <<process, starts, lines, owner, iface, range, text, serving, loaded, raced,
                    granted>>

\* addConfiguration, under dnsmasq_mutex: a name that is not in the map throws,
\* and a new object is made, whose file is truncated.
Create(c) ==
  LET n == range[c].start
  IN /\ At(c, "add")
     /\ n \notin registry
     /\ registry' = registry \cup {n}
     /\ Obtains(c, n)
     /\ present' = present \cup {n}
     /\ text' = [text EXCEPT ![n] = {}]
     /\ leftover' = leftover \ {n}
     /\ UNCHANGED <<process, starts, lines, owner, iface, range, serving, loaded, raced, granted>>

\* file_mutex of an object is held between truncating and filling its file.
FileLocked(n) == \E d \in Clients : At(d, "fill") /\ conf[d] = n

\* A name whose object lives: it is shared, and its file written again.
Share(c) ==
  LET n == range[c].start
  IN /\ At(c, "add")
     /\ n \in registry \cap Live
     /\ ~FileLocked(n)
     /\ Obtains(c, n)
     /\ text' = [text EXCEPT ![n] = lines[n]]
     /\ UNCHANGED <<process, starts, objectVars, iface, range, present, serving, loaded,
                    leftover, raced, granted>>

\* The end of the process's memory.
Ends ==
  /\ process = "up" /\ process' = "down"
  /\ registry' = {} /\ lines' = Lineless /\ owner' = Ownerless
  /\ pc' = Idle /\ iface' = Nothing /\ range' = Nothing /\ conf' = Nothing /\ kind' = First
  /\ raced' = {} /\ granted' = Ownerless
  /\ UNCHANGED starts

\* The process is gone, no destructor has run, the files stay and so does what
\* dnsmasq serves.
Dies ==
  /\ Ends
  /\ leftover' = present
  /\ UNCHANGED dnsmasqVars

\* A name whose object has died: lock() is null, and addConfiguration is called
\* on it.
Expired(c) ==
  /\ At(c, "add")
  /\ range[c].start \in registry \ Live
  /\ Dies

Line(c) == IF kind[c] = "interface" THEN iface[c] ELSE RangeLine(iface[c], range[c])

\* DNSMasqConfiguration::addConfiguration: push_back,
Push(c) ==
  /\ At(c, "push")
  /\ lines' = [lines EXCEPT ![conf[c]] = @ \cup {Line(c)}]
  /\ Goto(c, "write")
  /\ UNCHANGED <<process, starts, registry, owner, iface, range, conf, kind, dnsmasqVars,
                 leftover, raced, granted>>

\* which takes no lock: of two at once one may be lost.
PushLost(c) ==
  /\ At(c, "push")
  /\ \E d \in Clients \ {c} : At(d, "push") /\ conf[d] = conf[c]
  /\ raced' = raced \cup {conf[c]}
  /\ Goto(c, "write")
  /\ UNCHANGED <<process, starts, objectVars, iface, range, conf, kind, dnsmasqVars, leftover,
                 granted>>

\* writeConfiguration: the file is truncated
Truncate(c) ==
  /\ At(c, "write")
  /\ ~FileLocked(conf[c])
  /\ text' = [text EXCEPT ![conf[c]] = {}]
  /\ Goto(c, "fill")
  /\ UNCHANGED <<process, starts, objectVars, iface, range, conf, kind, present, serving,
                 loaded, leftover, raced, granted>>

\* and filled; after the first line comes the second.
Fill(c) ==
  /\ At(c, "fill")
  /\ text' = [text EXCEPT ![conf[c]] = lines[conf[c]]]
  /\ kind' = [kind EXCEPT ![c] = "dhcp-range"]
  /\ Goto(c, IF kind[c] = "interface" THEN "push" ELSE "reload")
  /\ UNCHANGED <<process, starts, objectVars, iface, range, conf, present, serving, loaded,
                 leftover, raced, granted>>

\* systemctl reload dnsmasq, which reads all files as they are: one that is
\* being written is empty, or, for what is of interest here, complete.
Loads == loaded' = text

\* Mutant: the constructor leaves the reload to others.
ReloadForgotten(c) ==
  /\ At(c, "reload")
  /\ Goto(c, "assign")
  /\ UNCHANGED <<process, starts, objectVars, iface, range, conf, kind, dnsmasqVars,
                 leftover, raced, granted>>

\* DNSMasqController::reloadConfiguration, the end of the constructor,
Reload(c) ==
  /\ At(c, "reload")
  /\ Loads
  /\ Goto(c, "assign")
  /\ UNCHANGED <<process, starts, objectVars, iface, range, conf, kind, present, text, serving,
                 leftover, raced, granted>>

\* and by the switcher's thread, at any moment.
ReloadElsewhere ==
  /\ process = "up"
  /\ Loads
  /\ UNCHANGED <<process, starts, objectVars, threadVars, present, text, serving, leftover,
                 raced, granted>>

\* The object behind dhcp_server_configuration is replaced; the old one goes
\* with its last reference, its file with it, and dnsmasq is not told.
Assign(c) ==
  LET i    == iface[c]
      dead == {owner[i]} \ Live'
  IN /\ At(c, "assign")
     /\ owner' = [owner EXCEPT ![i] = conf[c]]
     /\ granted' = [granted EXCEPT ![i] = range[c]]
     /\ conf' = [conf EXCEPT ![c] = None]
     /\ iface' = [iface EXCEPT ![c] = None]
     /\ range' = [range EXCEPT ![c] = None]
     /\ kind' = [kind EXCEPT ![c] = "interface"]
     /\ Goto(c, "idle")
     /\ present' = present \ dead
     /\ text' = [n \in Names |-> IF n \in dead THEN {} ELSE text[n]]
     /\ lines' = [n \in Names |-> IF n \in dead THEN {} ELSE lines[n]]
     /\ UNCHANGED <<process, starts, registry, serving, loaded, leftover, raced>>

\* Undefined behaviour that kills: a push_back while another thread is in the
\* same vector, or two assignments to one shared_ptr.
Using(c, n) == \/ conf[c] = n /\ pc[c] \in {"push", "fill"}
               \/ pc[c] = "add" /\ range[c].start = n
Race(c, d) ==
  /\ c # d
  /\ \/ At(c, "push") /\ Using(d, conf[c])
     \/ At(c, "assign") /\ At(d, "assign") /\ iface[c] = iface[d]
  /\ Dies

Step(c) == \/ Create(c) \/ Share(c) \/ Push(c) \/ PushLost(c)
           \/ Truncate(c) \/ Fill(c) \/ Reload(c) \/ Assign(c)

-----------------------------------------------------------------------------
(* The process *)

\* DNSMasqController's constructor: systemctl start dnsmasq.
Start ==
  /\ process = "down"
  /\ starts < MaxStarts
  /\ process' = "up"
  /\ starts' = starts + 1
  /\ serving' = TRUE
  /\ loaded' = IF serving THEN loaded ELSE text
  /\ UNCHANGED <<objectVars, threadVars, present, text, leftover, raced, granted>>

\* main returns and the NetworkFactory goes: the controllers, with them the
\* files, and last the DNSMasqController, which stops dnsmasq.  A thread in the
\* middle of setDHCPServer keeps the factory, and exit() is then like a kill.
Stop ==
  /\ Ends
  /\ \A c \in Clients : pc[c] = "idle"
  /\ present' = present \ Live
  /\ text' = [n \in Names |-> IF n \in Live THEN {} ELSE text[n]]
  /\ serving' = FALSE
  /\ loaded' = Lineless
  /\ UNCHANGED leftover

Kill == Dies

Crash == \E c, d \in Clients : Expired(c) \/ Race(c, d)

Next ==
  \/ \E c \in Clients : Step(c) \/ \E i \in Interfaces, r \in Ranges : Call(c, i, r)
  \/ ReloadElsewhere \/ Start \/ Stop \/ Kill \/ Crash

Spec == Init /\ [][Next]_serverVars

-----------------------------------------------------------------------------
(* Properties *)

\* A thread is writing into an object, and will tell dnsmasq to read it.
Busy(n) == \E c \in Clients : conf[c] = n /\ pc[c] \in {"push", "write", "fill", "reload"}

\* What setDHCPServer() was last given for an interface dnsmasq serves, whatever
\* else was written, shared, replaced or left over since, and whenever others
\* made it read half-written files: unless somebody is still writing, or two
\* threads wrote into one object at once.
GrantedServed ==
  \A i \in Interfaces : owner[i] # None /\ ~Busy(owner[i]) /\ owner[i] \notin raced =>
    {i, RangeLine(i, granted[i])} \subseteq loaded[owner[i]]

\* What a lock around setDHCPServer() would give: with one thread in it at a time
\* every grant is served once it is written, and nothing undefined happens.
OneAtATime == \A c, d \in Clients : pc[c] # "idle" /\ pc[d] # "idle" => c = d
EveryGrantServed ==
  \A i \in Interfaces : owner[i] # None /\ ~Busy(owner[i]) =>
    {i, RangeLine(i, granted[i])} \subseteq loaded[owner[i]]
Undefined == \E c, d \in Clients : Race(c, d)
NothingUndefined == [][~Undefined]_serverVars

\* Every file has its object, or was left by a process that died, and every
\* object has its file (DNSMasqConfiguration.cpp:52-55).
FilesOwned == present = Live \cup leftover /\ Live \cap leftover = {}

\* The weak pointers of DNSMasqController::configurations and the shared ones of
\* threads and interfaces do as SharedObjects promises: one object is made for a
\* name in the life of a process, and a name whose object is gone names nothing.
Pointers == INSTANCE SharedObjects WITH
  Objects <- Names, made <- registry, held <- Live, dying <- {}
SharesConfigurations == Pointers!Spec

\* So a first address whose object is gone is spent: no range that starts with it
\* is served again for as long as the process lives (addConfiguration finds the
\* null pointer, see Expired).
SpentStaysSpent ==
  [][\A n \in registry \ Live : n \in registry' => n \notin Live']_serverVars

\* Which threads hold an object, and that objects are made by addConfiguration.
HoldInv ==
  /\ \A c \in Clients : /\ pc[c] \in Constructing <=> conf[c] # None
                        /\ pc[c] # "idle" => iface[c] \in Interfaces /\ range[c] \in Ranges
                                             /\ Accepted(range[c])
                        /\ conf[c] # None => conf[c] = range[c].start
                        /\ pc[c] \in {"reload", "assign"} => kind[c] = "dhcp-range"
  /\ Live \subseteq registry
  /\ process = "down" => Live = {} /\ \A c \in Clients : pc[c] = "idle"
\* A file that nobody writes has its object's lines, and dnsmasq has read them
\* if nobody is about to tell it.
TextInv == \A n \in Names :
  /\ n \notin Live => lines[n] = {}
  /\ n \in Live /\ ~(\E c \in Clients : conf[c] = n /\ pc[c] \in {"write", "fill"})
       => text[n] = lines[n]
  /\ n \in Live /\ ~Busy(n) => loaded[n] = lines[n]
\* What was pushed is there.
PushedInv ==
  /\ \A c \in Clients : conf[c] # None /\ conf[c] \notin raced =>
       /\ (kind[c] = "dhcp-range" \/ pc[c] \in {"write", "fill"}) => iface[c] \in lines[conf[c]]
       /\ (kind[c] = "dhcp-range" /\ pc[c] # "push")
            => RangeLine(iface[c], range[c]) \in lines[conf[c]]
  /\ \A i \in Interfaces : owner[i] # None /\ owner[i] \notin raced =>
       granted[i] \in Ranges /\ {i, RangeLine(i, granted[i])} \subseteq lines[owner[i]]

\* The inductive invariant behind the two.
ServerInv == TypeOK /\ FilesOwned /\ HoldInv /\ TextInv /\ PushedInv
=============================================================================
