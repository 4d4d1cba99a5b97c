----------------------------- MODULE NetworkManager ----------------------------
(***************************************************************************)
(* The life of the process: main (src/src/NetworkManager/src/main.cpp),    *)
(* which loads plugins from libraries, hands them to a                     *)
(* WebPluginConfigurator, waits for a signal and destroys its locals, and  *)
(* the configurator's threads: one that accepts, one, detached, for each   *)
(* client.  A plugin stands for its library as well.                       *)
(*                                                                         *)
(* What a plugin's methods do is in the plugins' own modules; here they    *)
(* take time, and may throw.  Where the code uses an object that is gone,  *)
(* which is undefined, the model ends with a crash.                        *)
(***************************************************************************)
EXTENDS FiniteSets

CONSTANTS
  Clients,    \* browsers
  Impatient,  \* those that may hang up before the server has read and answered
  Plugins,    \* sections of nmPluginConfiguration.ini
  None        \* no plugin

ASSUME ClientsAssumption == Impatient \subseteq Clients
ASSUME PluginsAssumption == None \notin Plugins

VARIABLES
  main,                \* where main is
  todo,                \* sections still to load
  plugin,              \* main's local of that name
  loaded_plugins,      \* open libraries
  plugins,             \* PluginConfigurator::plugins
  alive,               \* Plugin objects that exist
  configurator,        \* is the WebPluginConfigurator alive?
  accept_new_clients,
  listening,           \* is server_socket open?
  acceptor,            \* where AccpetingThread is
  client,              \* where each client's connection and its thread are
  held,                \* the shared_ptr<Plugin> of the client's thread
  crash                \* why the process died, or "no"

mainVars == <<main, todo, plugin, loaded_plugins>>
webVars == <<configurator, accept_new_clients, listening, acceptor>>
clientVars == <<client, held>>
vars == <<mainVars, plugins, alive, webVars, clientVars, crash>>

\* Places in a client's thread where it runs the code of the plugin it holds.
InPlugin == {"configure", "getConfiguration"}
\* Places in a client's thread.
Served == {"reading", "spinning", "post", "page", "send"} \cup InPlugin

TypeOK ==
  /\ main \in {"load", "configure", "exec", "add", "sigwait", "close", "clear",
               "join", "free", "unload", "exit"}
  /\ todo \subseteq Plugins
  /\ plugin \in Plugins \cup {None}
  /\ loaded_plugins \subseteq Plugins
  /\ plugins \subseteq Plugins
  /\ alive \subseteq Plugins
  /\ configurator \in {"alive", "destroyed"}
  /\ accept_new_clients \in BOOLEAN
  /\ listening \in BOOLEAN
  /\ acceptor \in {"none", "test", "accept", "blocked", "ended"}
  /\ client \in [Clients -> {"away", "queued"} \cup Served]
  /\ held \in [Clients -> Plugins \cup {None}]
  /\ crash \in {"no", "library", "request", "reset", "destroyed", "unloaded"}

\* After network_factory->start() and the construction of the configurator.
Init ==
  /\ main = "load"
  /\ todo = Plugins
  /\ plugin = None
  /\ loaded_plugins = {} /\ plugins = {} /\ alive = {}
  /\ configurator = "alive"
  /\ accept_new_clients \in BOOLEAN    \* the constructor does not set it
  /\ listening = TRUE
  /\ acceptor = "none"
  /\ client = [c \in Clients |-> "away"]
  /\ held = [c \in Clients |-> None]
  /\ crash = "no"

At(l)          == crash = "no" /\ main = l
\* main's return ends every thread.
Running        == crash = "no" /\ main # "exit"
ClientAt(c, l) == Running /\ client[c] = l
ClientGoes(c, l) == client' = [client EXCEPT ![c] = l]
HeldBy(cs)     == {held[c] : c \in cs}

-----------------------------------------------------------------------------
(* main *)

\* dlopen and the plugin's allocator, in the order of the sections' names.
Load ==
  /\ At("load")
  /\ \E p \in todo :
       /\ todo' = todo \ {p}
       /\ plugin' = p
       /\ loaded_plugins' = loaded_plugins \cup {p}
       /\ alive' = alive \cup {p}
  /\ main' = "configure"
  /\ UNCHANGED <<plugins, webVars, clientVars, crash>>

\* A library that cannot be loaded: nothing catches the exception.
LoadFails ==
  /\ At("load")
  /\ todo # {}
  /\ crash' = "library"
  /\ UNCHANGED <<mainVars, plugins, alive, webVars, clientVars>>

ConfigureAndExec ==
  /\ crash = "no"
  /\ \/ main = "configure" /\ main' = "exec"
     \/ main = "exec" /\ main' = "add"
  /\ UNCHANGED <<todo, plugin, loaded_plugins, plugins, alive, webVars, clientVars, crash>>

\* configure() or exec() throws: the plugin goes, its library stays.
PluginThrows ==
  /\ crash = "no"
  /\ main \in {"configure", "exec"}
  /\ alive' = alive \ {plugin}
  /\ plugin' = None
  /\ main' = "load"
  /\ UNCHANGED <<todo, loaded_plugins, plugins, webVars, clientVars, crash>>

AddPlugin ==
  /\ At("add")
  /\ plugins' = plugins \cup {plugin}
  /\ plugin' = None
  /\ main' = "load"
  /\ UNCHANGED <<todo, loaded_plugins, alive, webVars, clientVars, crash>>

\* plugin_configurator->start()
Start ==
  /\ At("load")
  /\ todo = {}
  /\ accept_new_clients' = TRUE
  /\ acceptor' = "test"
  /\ main' = "sigwait"
  /\ UNCHANGED <<todo, plugin, loaded_plugins, plugins, alive, configurator, listening,
                 clientVars, crash>>

\* sigwait returns.  Both stop() are empty.
Signal ==
  /\ At("sigwait")
  /\ main' = "close"
  /\ UNCHANGED <<todo, plugin, loaded_plugins, plugins, alive, webVars, clientVars, crash>>

\* ~WebPluginConfigurator.  An accept() that is blocked keeps the socket.
CloseSocket ==
  /\ At("close")
  /\ listening' = FALSE
  /\ main' = "clear"
  /\ UNCHANGED <<todo, plugin, loaded_plugins, plugins, alive, configurator,
                 accept_new_clients, acceptor, clientVars, crash>>

\* Mutant: the flag is not cleared before the join.
ForgetFlag ==
  /\ At("clear")
  /\ main' = "join"
  /\ UNCHANGED <<todo, plugin, loaded_plugins, plugins, alive, webVars, clientVars, crash>>

ClearFlag ==
  /\ At("clear")
  /\ accept_new_clients' = FALSE
  /\ main' = "join"
  /\ UNCHANGED <<todo, plugin, loaded_plugins, plugins, alive, configurator,
                 listening, acceptor, clientVars, crash>>

\* Mutant: the accepting thread is detached.
DetachAcceptor ==
  /\ At("join")
  /\ configurator' = "destroyed"
  /\ main' = "free"
  /\ UNCHANGED <<todo, plugin, loaded_plugins, plugins, alive, accept_new_clients,
                 listening, acceptor, clientVars, crash>>

\* The join.  The members are destroyed next.
JoinAcceptor ==
  /\ At("join")
  /\ acceptor = "ended"
  /\ configurator' = "destroyed"
  /\ main' = "free"
  /\ UNCHANGED <<todo, plugin, loaded_plugins, plugins, alive, accept_new_clients,
                 listening, acceptor, clientVars, crash>>

\* Mutant: the plugins are deleted, whoever refers to them.
DeletePlugin ==
  /\ At("free")
  /\ \E p \in plugins :
       /\ plugins' = plugins \ {p}
       /\ alive' = alive \ {p}
  /\ UNCHANGED <<mainVars, webVars, clientVars, crash>>

\* The map drops its plugins one after the other.
FreePlugin ==
  /\ At("free")
  /\ \E p \in plugins :
       /\ plugins' = plugins \ {p}
       /\ alive' = IF p \in HeldBy(Clients) THEN alive ELSE alive \ {p}
  /\ UNCHANGED <<mainVars, webVars, clientVars, crash>>

FreeEnds ==
  /\ At("free")
  /\ plugins = {}
  /\ main' = "unload"
  /\ UNCHANGED <<todo, plugin, loaded_plugins, plugins, alive, webVars, clientVars, crash>>

\* loaded_plugins goes, then the other locals, and main returns.
Unload ==
  /\ At("unload")
  /\ IF loaded_plugins # {}
       THEN /\ \E p \in loaded_plugins : loaded_plugins' = loaded_plugins \ {p}
            /\ UNCHANGED main
       ELSE main' = "exit" /\ UNCHANGED loaded_plugins
  /\ UNCHANGED <<todo, plugin, plugins, alive, webVars, clientVars, crash>>

-----------------------------------------------------------------------------
(* AccpetingThread *)

AcceptorTests ==
  /\ Running
  /\ acceptor = "test"
  /\ acceptor' = IF accept_new_clients THEN "accept" ELSE "ended"
  /\ UNCHANGED <<mainVars, plugins, alive, configurator, accept_new_clients, listening,
                 clientVars, crash>>

\* accept() on the closed socket fails at once; on the open one it blocks.
AcceptorCalls ==
  /\ Running
  /\ acceptor = "accept"
  /\ acceptor' = IF listening THEN "blocked" ELSE "test"
  /\ UNCHANGED <<mainVars, plugins, alive, configurator, accept_new_clients, listening,
                 clientVars, crash>>

\* When accept() returns on a socket closed meanwhile, the socket goes, and the
\* connections that wait on it are reset.
Waiting(d) == IF client[d] = "queued" /\ ~listening THEN "away" ELSE client[d]

\* Mutant: the accepting thread ends with the first failure.
AcceptGivesUp ==
  /\ Running
  /\ acceptor = "blocked"
  /\ client' = [d \in Clients |-> Waiting(d)]
  /\ acceptor' = "ended"
  /\ UNCHANGED <<mainVars, plugins, alive, configurator, accept_new_clients, listening,
                 held, crash>>

AcceptFails ==
  /\ Running
  /\ acceptor = "blocked"
  /\ client' = [d \in Clients |-> Waiting(d)]
  /\ acceptor' = "test"
  /\ UNCHANGED <<mainVars, plugins, alive, configurator, accept_new_clients, listening,
                 held, crash>>

\* accept() returns a connection, whose thread is started and detached.
Accept(c) ==
  /\ ClientAt(c, "queued")
  /\ acceptor = "blocked"
  /\ client' = [d \in Clients |-> IF d = c THEN "reading" ELSE Waiting(d)]
  /\ acceptor' = "test"
  /\ UNCHANGED <<mainVars, plugins, alive, configurator, accept_new_clients, listening,
                 held, crash>>

Acceptor == AcceptorTests \/ AcceptorCalls \/ AcceptFails \/ \E c \in Clients : Accept(c)

-----------------------------------------------------------------------------
(* ClientThread *)

\* The kernel takes a connection while the socket exists.
Connect(c) ==
  /\ ClientAt(c, "away")
  /\ listening \/ acceptor = "blocked"
  /\ ClientGoes(c, "queued")
  /\ UNCHANGED <<mainVars, plugins, alive, webVars, held, crash>>

\* readRequest: a POST or anything else,
Read(c) ==
  /\ ClientAt(c, "reading")
  /\ ClientGoes(c, "post") \/ ClientGoes(c, "page")
  /\ UNCHANGED <<mainVars, plugins, alive, webVars, held, crash>>

\* one that parseHeader, outside of the handlers, does not take,
ReadMalformed(c) ==
  /\ ClientAt(c, "reading")
  /\ crash' = "request"
  /\ UNCHANGED <<mainVars, plugins, alive, webVars, clientVars>>

\* or the end of the stream before the end of the header: read() returns 0 for
\* ever, and the loop goes on.
HangUp(c) ==
  /\ c \in Impatient
  /\ ClientAt(c, "reading")
  /\ ClientGoes(c, "spinning")
  /\ UNCHANGED <<mainVars, plugins, alive, webVars, held, crash>>

\* A use of this->plugins after the destructor.
UseDestroyed(c) ==
  /\ Running
  /\ client[c] \in {"post", "page"}
  /\ configurator = "destroyed"
  /\ crash' = "destroyed"
  /\ UNCHANGED <<mainVars, plugins, alive, webVars, clientVars>>

\* processRequest of a POST: the plugin's shared_ptr is copied, unless there is
\* no plugin of that number.
Post(c) ==
  /\ ClientAt(c, "post")
  /\ configurator = "alive"
  /\ \/ \E p \in plugins : /\ held' = [held EXCEPT ![c] = p]
                           /\ ClientGoes(c, "configure")
     \/ ClientGoes(c, "page") /\ UNCHANGED held
  /\ UNCHANGED <<mainVars, plugins, alive, webVars, crash>>

\* generateHTMLMessage
Page(c) ==
  /\ ClientAt(c, "page")
  /\ configurator = "alive"
  /\ \/ \E p \in plugins : /\ held' = [held EXCEPT ![c] = p]
                           /\ ClientGoes(c, "getConfiguration")
     \/ ClientGoes(c, "send") /\ UNCHANGED held
  /\ UNCHANGED <<mainVars, plugins, alive, webVars, crash>>

\* std::stoi on the plugin's number throws what generateHTMLMessage does not catch.
PageThrows(c) ==
  /\ ClientAt(c, "page")
  /\ configurator = "alive"
  /\ crash' = "request"
  /\ UNCHANGED <<mainVars, plugins, alive, webVars, clientVars>>

\* The code of a plugin whose library was closed.
UseUnloaded(c) ==
  /\ Running
  /\ client[c] \in InPlugin
  /\ held[c] \notin loaded_plugins
  /\ crash' = "unloaded"
  /\ UNCHANGED <<mainVars, plugins, alive, webVars, clientVars>>

\* Mutant: the thread deletes the plugin when it is done with it.
PluginReturnsDeletes(c) ==
  /\ Running
  /\ client[c] \in InPlugin
  /\ held[c] \in loaded_plugins
  /\ held' = [held EXCEPT ![c] = None]
  /\ alive' = alive \ {held[c]}
  /\ ClientGoes(c, IF client[c] = "configure" THEN "page" ELSE "send")
  /\ UNCHANGED <<mainVars, plugins, webVars, crash>>

\* configure() or getConfiguration() returns, or throws what is caught (anything
\* out of configure(); getConfiguration() of the plugins throws nothing), and the
\* copy of the shared_ptr goes.
PluginReturns(c) ==
  /\ Running
  /\ client[c] \in InPlugin
  /\ held[c] \in loaded_plugins
  /\ held' = [held EXCEPT ![c] = None]
  /\ alive' = IF held[c] \in plugins \cup HeldBy(Clients \ {c}) THEN alive
              ELSE alive \ {held[c]}
  /\ ClientGoes(c, IF client[c] = "configure" THEN "page" ELSE "send")
  /\ UNCHANGED <<mainVars, plugins, webVars, crash>>

Send(c) ==
  /\ ClientAt(c, "send")
  /\ ClientGoes(c, "away")
  /\ UNCHANGED <<mainVars, plugins, alive, webVars, held, crash>>

\* write() to a connection that its client reset: SIGPIPE is not handled.
SendFails(c) ==
  /\ c \in Impatient
  /\ ClientAt(c, "send")
  /\ crash' = "reset"
  /\ UNCHANGED <<mainVars, plugins, alive, webVars, clientVars>>

ClientThread(c) ==
  \/ Read(c)
  \/ ReadMalformed(c)
  \/ HangUp(c)
  \/ UseDestroyed(c)
  \/ Post(c)
  \/ Page(c)
  \/ PageThrows(c)
  \/ UseUnloaded(c)
  \/ PluginReturns(c)
  \/ Send(c)
  \/ SendFails(c)

Main ==
  \/ Load
  \/ LoadFails
  \/ ConfigureAndExec
  \/ PluginThrows
  \/ AddPlugin
  \/ Start
  \/ CloseSocket
  \/ ClearFlag
  \/ JoinAcceptor
  \/ FreePlugin
  \/ FreeEnds
  \/ Unload

Next ==
  \/ Main
  \/ Signal
  \/ Acceptor
  \/ \E c \in Clients : Connect(c) \/ ClientThread(c)

Spec == Init /\ [][Next]_vars

\* Every thread goes on; accept() does not fail for ever and takes connections
\* in the order in which they came; the patient clients come back.  No signal
\* is promised.
Fairness ==
  /\ WF_vars(Main)
  /\ WF_vars(AcceptorTests \/ AcceptorCalls)
  /\ \A c \in Clients : SF_vars(Accept(c))
  /\ \A c \in Clients : WF_vars(ClientThread(c))
  /\ \A c \in Clients \ Impatient : WF_vars(Connect(c))
FairSpec == Spec /\ Fairness

-----------------------------------------------------------------------------
(* Properties. *)

\* A client's thread runs a plugin's method on an object that exists, although
\* main may drop the plugin at that moment: it holds a copy of the shared_ptr
\* (WebPluginConfigurator.cpp 248 and 285).
PluginInUseAlive ==
  \A c \in Clients : client[c] \in InPlugin => held[c] \in alive

\* A plugin object outlives its library only in the hands of a client's thread
\* that main did not wait for: main itself destroys plugin_configurator before
\* loaded_plugins (main.cpp 75 and 78).
PluginsBeforeLibraries ==
  \A p \in alive : p \in loaded_plugins \/ p \in HeldBy(Clients)

\* Once the destructor has joined the accepting thread no client is served that
\* was not before, so that what may still touch a destroyed object was accepted
\* before the end (WebPluginConfigurator.cpp 326-333).
NoClientBehindDestructor ==
  [][ configurator = "destroyed" =>
        \A c \in Clients : client'[c] \in Served => client[c] \in Served ]_vars

\* No client's thread uses the configurator, or a library's code, once it is gone.
\* It may (line 80 detaches it), unless the destructor waited for all of them
\* as it waits for the accepting thread.
NothingGoneIsUsed == crash \notin {"destroyed", "unloaded"}
ClientsAwaited == JoinAcceptor => \A c \in Clients : client[c] \notin Served
DestructorWaits == [][ClientsAwaited]_vars
NobodyBehind == configurator = "destroyed" => \A c \in Clients : client[c] \notin Served

\* The inductive invariant behind them: plugins are loaded before anybody
\* is served, an object exists exactly as long as the map, main or a client's
\* thread refers to it, and the order in which main takes things down.
LoadInv ==
  /\ main \in {"configure", "exec", "add"} <=> plugin # None
  /\ plugin # None => plugin \in alive /\ plugin \in loaded_plugins
  /\ plugin \notin plugins \cup todo
  /\ plugins \cap todo = {}
  /\ main \in {"load", "configure", "exec", "add"} =>
       acceptor = "none" /\ \A c \in Clients : client[c] \notin Served
HeldInv ==
  /\ \A c \in Clients : client[c] \in InPlugin <=> held[c] # None
  /\ \A c \in Clients : held[c] # None => held[c] \in alive
  /\ plugins \subseteq alive
  /\ alive \subseteq plugins \cup HeldBy(Clients) \cup {plugin}
ShutdownInv ==
  /\ main \notin {"unload", "exit"} => alive \subseteq loaded_plugins
  /\ main \in {"unload", "exit"} => plugins = {}
  /\ configurator = "destroyed" <=> main \in {"free", "unload", "exit"}
  /\ configurator = "destroyed" => acceptor = "ended"
ManagerInv == TypeOK /\ LoadInv /\ HeldInv /\ ShutdownInv

\* The plugins are shared as SharedObjects promises: main's local, the map and
\* the copies of the clients' threads together keep a plugin, the step that takes
\* the last of them destroys it, and it exists exactly that long.
Holders == (plugins \cup HeldBy(Clients) \cup {plugin}) \ {None}
Pointers == INSTANCE SharedObjects WITH
  Objects <- Plugins, made <- Plugins \ todo, held <- Holders, dying <- {}
SharesPlugins == Pointers!Spec /\ [](alive = Holders)

\* Who sends a whole request and waits is answered, unless the process is told
\* to stop or dies.
RequestsAnswered ==
  \A c \in Clients \ Impatient :
    client[c] = "queued" ~> (client[c] = "away" \/ main # "sigwait" \/ crash # "no")

\* After the signal main returns, if clients keep connecting: an accept() that
\* is blocked is woken by nothing else.
Terminates == main = "close" ~> (main = "exit" \/ crash # "no")
=============================================================================
