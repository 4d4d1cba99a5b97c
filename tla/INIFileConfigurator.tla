--------------------------- MODULE INIFileConfigurator --------------------------
(***************************************************************************)
(* INIFileConfigurator (src/src/FileConfigurators): configure() remembers  *)
(* the name of a file, reads it and makes the controllers' calls that its  *)
(* sections ask for, one after the other.  main calls it, and any web      *)
(* client; nothing is locked.  With it NetworkFactory::start, which makes  *)
(* a controller of each interface that is there when the process starts.   *)
(*                                                                         *)
(* setDHCPServer is that of DHCPServer, step by step; setStatic and        *)
(* useDHCP are one step each (EthernetController has their steps).         *)
(***************************************************************************)
EXTENDS DHCPServer, Sequences

CONSTANTS
  Files,        \* INI files
  Content,      \* the sections of each, in the order of their names
  Unknown,      \* names of sections that are no interface
  Plugged,      \* sets of interfaces that there may be when the process starts
  Width,        \* 2^32: the number of values of an unsigned int
  Fallible      \* interfaces whose ifconfig may fail, files that may be missing

Sections == UNION {{Content[f][k] : k \in 1..Len(Content[f])} : f \in Files}

\* reader.GetInteger's long, in the unsigned int of setDHCPServer.
Asked(e) == [e.range EXCEPT !.lease = @ % Width]

ASSUME FilesAssumption == None \notin Files
ASSUME ContentAssumption ==
  /\ \A f \in Files : /\ Content[f] \in Seq(Sections)
                      /\ \A j, k \in 1..Len(Content[f]) :
                           Content[f][j].name = Content[f][k].name => j = k
  /\ \A e \in Sections :
       /\ e.name \in Interfaces \cup Unknown
       /\ e.kind \in {"none", "static", "dhcp"}  \* "none": no type, or an unknown one
       /\ e.range # None => Asked(e) \in Ranges
ASSUME PluggedAssumption == Plugged \subseteq SUBSET Interfaces
ASSUME OptionsAssumption == Width \in Nat \ {0} /\ Fallible \subseteq Interfaces \cup Files

VARIABLES
  known,      \* NetworkFactory::interfaces
  file_name,
  at,         \* where each thread is in configure()
  reading,    \* the file it has opened
  section,    \* the index of its loop
  mode,       \* how each interface is configured
  alone       \* history: has the last configure() overlapped no other, and not thrown?

configuratorVars == <<known, file_name, at, reading, section, mode, alone>>
vars == <<serverVars, configuratorVars>>

ConfiguratorTypeOK ==
  /\ known \subseteq Interfaces
  /\ file_name \in Files \cup {None}
  /\ at \in [Clients -> {"idle", "open", "next", "range", "server"}]
  /\ reading \in [Clients -> Files \cup {None}]
  /\ section \in [Clients -> Nat \ {0}]
  /\ mode \in [Interfaces -> {"none", "static", "dhcp"}]
  /\ alone \in BOOLEAN

Unread   == [c \in Clients |-> 1]
Modeless == [i \in Interfaces |-> "none"]

ConfiguratorInit ==
  /\ Init
  /\ known = {} /\ file_name = None /\ mode = Modeless /\ alone = FALSE
  /\ at = Idle /\ reading = Nothing /\ section = Unread

In(c, l) == process = "up" /\ at[c] = l
Go(c, l) == at' = [at EXCEPT ![c] = l]
Entry(c) == Content[reading[c]][section[c]]
Loops(c) == In(c, "next") /\ section[c] <= Len(Content[reading[c]])
NextSection(c) == Go(c, "next") /\ section' = [section EXCEPT ![c] = @ + 1]
Leaves(c) == /\ Go(c, "idle")
             /\ reading' = [reading EXCEPT ![c] = None]
             /\ section' = [section EXCEPT ![c] = 1]
Throws(c) == Leaves(c) /\ alone' = FALSE

-----------------------------------------------------------------------------

\* FileConfigurator::configure
Configure(c, f) ==
  /\ In(c, "idle")
  /\ file_name' = f
  /\ alone' = \A d \in Clients \ {c} : at[d] = "idle"
  /\ Go(c, "open")
  /\ UNCHANGED <<serverVars, known, reading, section, mode>>

\* The file is the one that file_name names by now,
Open(c) ==
  /\ In(c, "open")
  /\ reading' = [reading EXCEPT ![c] = file_name]
  /\ section' = [section EXCEPT ![c] = 1]
  /\ Go(c, "next")
  /\ UNCHANGED <<serverVars, known, file_name, mode, alone>>

\* and may be missing.
OpenFails(c) ==
  /\ In(c, "open")
  /\ file_name \in Fallible
  /\ Throws(c)
  /\ UNCHANGED <<serverVars, known, file_name, mode>>

Skipped(e) == e.kind = "none" \/ e.name \notin known

\* Mutant: an interface that is not there ends the loop.
SkipReturns(c) ==
  /\ Loops(c)
  /\ Skipped(Entry(c))
  /\ Leaves(c)
  /\ UNCHANGED <<serverVars, known, file_name, mode, alone>>

\* A section without a known type, or of an interface that is not there.
Skip(c) ==
  /\ Loops(c)
  /\ Skipped(Entry(c))
  /\ NextSection(c)
  /\ UNCHANGED <<serverVars, known, file_name, reading, mode, alone>>

\* An address: setStatic, and then the range if there is one.
SetStatic(c) ==
  LET e == Entry(c)
  IN /\ Loops(c)
     /\ ~Skipped(e)
     /\ e.kind = "static"
     /\ mode' = [mode EXCEPT ![e.name] = "static"]
     /\ IF e.range = None THEN NextSection(c) ELSE Go(c, "range") /\ UNCHANGED section
     /\ UNCHANGED <<serverVars, known, file_name, reading, alone>>

\* None: useDHCP.  A DHCP server that the interface has stays.
UseDHCP(c) ==
  LET e == Entry(c)
  IN /\ Loops(c)
     /\ ~Skipped(e)
     /\ e.kind = "dhcp"
     /\ mode' = [mode EXCEPT ![e.name] = "dhcp"]
     /\ NextSection(c)
     /\ UNCHANGED <<serverVars, known, file_name, reading, alone>>

\* ifconfig fails, in setStatic after the DHCP client was stopped; the rest of
\* the file is not looked at.
CallFails(c) ==
  LET e == Entry(c)
  IN /\ Loops(c)
     /\ ~Skipped(e)
     /\ e.name \in Fallible
     /\ Throws(c)
     /\ mode' = IF e.kind = "static" THEN [mode EXCEPT ![e.name] = "none"] ELSE mode
     /\ UNCHANGED <<serverVars, known, file_name>>

\* setDHCPServer, which may refuse its arguments.
SetDHCPServer(c) ==
  LET e == Entry(c)
  IN /\ In(c, "range")
     /\ Call(c, e.name, Asked(e))
     /\ Go(c, "server")
     /\ UNCHANGED <<known, file_name, reading, section, mode, alone>>

Refused(c) ==
  /\ In(c, "range")
  /\ ~Accepted(Asked(Entry(c)))
  /\ Throws(c)
  /\ UNCHANGED <<serverVars, known, file_name, mode>>

InServer(c) ==
  /\ In(c, "server")
  /\ Step(c)
  /\ IF pc'[c] = "idle" THEN NextSection(c) ELSE UNCHANGED <<at, section>>
  /\ UNCHANGED <<known, file_name, reading, mode, alone>>

Return(c) ==
  /\ In(c, "next")
  /\ section[c] > Len(Content[reading[c]])
  /\ Leaves(c)
  /\ UNCHANGED <<serverVars, known, file_name, mode, alone>>

-----------------------------------------------------------------------------
(* The process *)

\* NetworkFactory::start scans /sys/class/net once.
Boot ==
  /\ Start
  /\ known' \in Plugged
  /\ UNCHANGED <<file_name, at, reading, section, mode, alone>>

\* A string that is assigned while another thread assigns or reads it: undefined.
NameRace ==
  /\ \E c, d \in Clients : c # d /\ In(c, "idle") /\ In(d, "open")
  /\ Dies

\* main returns, or exit() or a signal takes the threads in the middle.
Down ==
  /\ \/ Stop /\ \A c \in Clients : at[c] = "idle"
     \/ Kill
     \/ Crash
     \/ NameRace
  /\ known' = {} /\ file_name' = None /\ mode' = Modeless /\ alone' = FALSE
  /\ at' = Idle /\ reading' = Nothing /\ section' = Unread

ReloadBySwitcher == ReloadElsewhere /\ UNCHANGED configuratorVars

ConfigureStep(c) ==
  \/ Open(c) \/ OpenFails(c)
  \/ Skip(c) \/ SetStatic(c) \/ UseDHCP(c) \/ CallFails(c)
  \/ SetDHCPServer(c) \/ Refused(c) \/ InServer(c)
  \/ Return(c)

ConfiguratorNext ==
  \/ \E c \in Clients : ConfigureStep(c) \/ \E f \in Files : Configure(c, f)
  \/ ReloadBySwitcher \/ Boot \/ Down

ConfiguratorSpec == ConfiguratorInit /\ [][ConfiguratorNext]_vars

-----------------------------------------------------------------------------
(* Properties *)

InForce(e) ==
  e.kind # "none" /\ e.name \in known =>
    /\ mode[e.name] = e.kind
    /\ e.kind = "static" /\ e.range # None =>
         /\ owner[e.name] # None
         /\ {e.name, RangeLine(e.name, Asked(e))} \subseteq loaded[owner[e.name]]

\* The file that getConfiguration() reports is in force, section by section and
\* down to what dnsmasq has read, when the last configure() returned without an
\* exception and had no other beside it, whatever earlier ones left half done.
FileApplied ==
  alone /\ (\A c \in Clients : at[c] = "idle") =>
    \A k \in 1..Len(Content[file_name]) : InForce(Content[file_name][k])

\* Where a thread is in its file, and what it has asked of setDHCPServer.
ReadingInv == \A c \in Clients :
  /\ at[c] = "server" <=> pc[c] # "idle"
  /\ at[c] = "open" => file_name \in Files
  /\ at[c] \in {"next", "range", "server"} => reading[c] \in Files
  /\ at[c] \in {"range", "server"} =>
       /\ section[c] <= Len(Content[reading[c]])
       /\ Entry(c).name \in known /\ Entry(c).kind = "static" /\ Entry(c).range # None
  /\ at[c] = "server" => iface[c] = Entry(c).name /\ range[c] = Asked(Entry(c))
  /\ process = "down" => at[c] = "idle"

\* As InForce, up to the file that dnsmasq has yet to read.
AppliedBy(e, there, modes, owners, pushed) ==
  e.kind # "none" /\ e.name \in there =>
    /\ modes[e.name] = e.kind
    /\ e.kind = "static" /\ e.range # None =>
         /\ owners[e.name] # None
         /\ {e.name, RangeLine(e.name, Asked(e))} \subseteq pushed[owners[e.name]]
Applied(e) == AppliedBy(e, known, mode, owner, lines)

\* One that is alone has its file to itself, what it has pushed and every
\* section that it is through with.
AloneInv == alone =>
  /\ process = "up" /\ file_name \in Files
  /\ \A c \in Clients : at[c] # "idle" => \A d \in Clients \ {c} : at[d] = "idle"
  /\ \A c \in Clients : at[c] \in {"next", "range", "server"} => reading[c] = file_name
  /\ \A c \in Clients : at[c] \in {"range", "server"} => mode[Entry(c).name] = "static"
  /\ \A c \in Clients : conf[c] # None =>
       /\ (kind[c] = "dhcp-range" \/ pc[c] \in {"write", "fill"}) => iface[c] \in lines[conf[c]]
       /\ (kind[c] = "dhcp-range" /\ pc[c] # "push")
            => RangeLine(iface[c], range[c]) \in lines[conf[c]]
  /\ \A k \in 1..Len(Content[file_name]) :
       (\A c \in Clients : at[c] # "idle" => at[c] # "open" /\ k < section[c])
         => Applied(Content[file_name][k])

\* The inductive invariant of the configurator and of the server it fills.
ConfiguratorInv == ServerInv /\ ConfiguratorTypeOK /\ ReadingInv /\ AloneInv
=============================================================================
