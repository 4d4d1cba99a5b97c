-------------------------- MODULE NetworkManagerProofs -------------------------
(***************************************************************************)
(* Proofs about NetworkManager: the inductive invariant ManagerInv, and    *)
(* what follows from it about plugins in use, their libraries and clients  *)
(* behind the destructor.                                                  *)
(***************************************************************************)
EXTENDS NetworkManager, TLAPS

\* Nothing is loaded at first.
LEMMA InitManager == ASSUME Init PROVE ManagerInv
  BY PluginsAssumption DEF Init, ManagerInv, TypeOK, LoadInv, HeldInv, ShutdownInv,
     HeldBy, InPlugin, Served

\* The steps of main.
LEMMA MainManager ==
  ASSUME ManagerInv, Main \/ Signal PROVE ManagerInv'
<1> USE PluginsAssumption DEF ManagerInv
<1>1. CASE Load
  BY <1>1 DEF Load, At, TypeOK, LoadInv, HeldInv, ShutdownInv, HeldBy, webVars, clientVars
<1>2. CASE LoadFails
  BY <1>2 DEF LoadFails, At, mainVars, TypeOK, LoadInv, HeldInv, ShutdownInv, HeldBy,
     webVars, clientVars
<1>3. CASE ConfigureAndExec
  BY <1>3 DEF ConfigureAndExec, TypeOK, LoadInv, HeldInv, ShutdownInv, HeldBy, webVars, clientVars
<1>4. CASE PluginThrows
  BY <1>4 DEF PluginThrows, TypeOK, LoadInv, HeldInv, ShutdownInv, HeldBy, InPlugin, Served,
     webVars, clientVars
<1>5. CASE AddPlugin
  BY <1>5 DEF AddPlugin, At, TypeOK, LoadInv, HeldInv, ShutdownInv, HeldBy, webVars, clientVars
<1>6. CASE Start
  BY <1>6 DEF Start, At, TypeOK, LoadInv, HeldInv, ShutdownInv, HeldBy, clientVars
<1>7. CASE Signal
  BY <1>7 DEF Signal, At, TypeOK, LoadInv, HeldInv, ShutdownInv, HeldBy, webVars, clientVars
<1>8. CASE CloseSocket
  BY <1>8 DEF CloseSocket, At, TypeOK, LoadInv, HeldInv, ShutdownInv, HeldBy, clientVars
<1>9. CASE ClearFlag
  BY <1>9 DEF ClearFlag, At, TypeOK, LoadInv, HeldInv, ShutdownInv, HeldBy, clientVars
<1>10. CASE JoinAcceptor
  BY <1>10 DEF JoinAcceptor, At, TypeOK, LoadInv, HeldInv, ShutdownInv, HeldBy, clientVars
<1>11. CASE FreePlugin
  BY <1>11 DEF FreePlugin, At, mainVars, TypeOK, LoadInv, HeldInv, ShutdownInv, HeldBy,
     webVars, clientVars
<1>12. CASE FreeEnds
  BY <1>12 DEF FreeEnds, At, TypeOK, LoadInv, HeldInv, ShutdownInv, HeldBy, webVars, clientVars
<1>13. CASE Unload
  BY <1>13 DEF Unload, At, TypeOK, LoadInv, HeldInv, ShutdownInv, HeldBy, webVars, clientVars
<1> QED
  BY <1>1, <1>2, <1>3, <1>4, <1>5, <1>6, <1>7, <1>8, <1>9, <1>10, <1>11, <1>12, <1>13 DEF Main

\* The steps of the accepting thread, and connections that arrive.
LEMMA AcceptorManager ==
  ASSUME ManagerInv, Acceptor \/ \E c \in Clients : Connect(c) PROVE ManagerInv'
<1> USE PluginsAssumption DEF ManagerInv
<1>1. CASE AcceptorTests
  BY <1>1 DEF AcceptorTests, Running, mainVars, clientVars, TypeOK, LoadInv, HeldInv,
     ShutdownInv, HeldBy
<1>2. CASE AcceptorCalls
  BY <1>2 DEF AcceptorCalls, Running, mainVars, clientVars, TypeOK, LoadInv, HeldInv,
     ShutdownInv, HeldBy
<1>3. CASE AcceptFails
  BY <1>3 DEF AcceptFails, Waiting, Running, mainVars, TypeOK, LoadInv, HeldInv, ShutdownInv,
     HeldBy, Served, InPlugin
<1>4. ASSUME NEW c \in Clients, Accept(c) PROVE ManagerInv'
  BY <1>4 DEF Accept, Waiting, ClientAt, Running, mainVars, TypeOK, LoadInv, HeldInv,
     ShutdownInv, HeldBy, Served, InPlugin
<1>5. ASSUME NEW c \in Clients, Connect(c) PROVE ManagerInv'
  BY <1>5 DEF Connect, ClientAt, ClientGoes, Running, mainVars, webVars, TypeOK, LoadInv,
     HeldInv, ShutdownInv, HeldBy, Served, InPlugin
<1> QED BY <1>1, <1>2, <1>3, <1>4, <1>5 DEF Acceptor

\* The steps of a client's thread.
LEMMA ClientManager ==
  ASSUME ManagerInv, NEW c \in Clients, ClientThread(c) PROVE ManagerInv'
<1> USE PluginsAssumption DEF ManagerInv
<1>1. CASE Read(c)
  BY <1>1 DEF Read, ClientAt, ClientGoes, Running, mainVars, webVars, TypeOK, LoadInv,
     HeldInv, ShutdownInv, HeldBy, Served, InPlugin
<1>2. CASE ReadMalformed(c) \/ PageThrows(c) \/ UseDestroyed(c) \/ UseUnloaded(c) \/ SendFails(c)
  BY <1>2 DEF ReadMalformed, PageThrows, UseDestroyed, UseUnloaded, SendFails, mainVars, webVars,
     clientVars, TypeOK, LoadInv, HeldInv, ShutdownInv, HeldBy
<1>3. CASE HangUp(c)
  BY <1>3 DEF HangUp, ClientAt, ClientGoes, Running, mainVars, webVars, TypeOK, LoadInv,
     HeldInv, ShutdownInv, HeldBy, Served, InPlugin
<1>4. CASE Post(c) \/ Page(c)
  BY <1>4 DEF Post, Page, ClientAt, ClientGoes, Running, mainVars, webVars, TypeOK, LoadInv,
     HeldInv, ShutdownInv, HeldBy, Served, InPlugin
<1>5. CASE PluginReturns(c)
  BY <1>5 DEF PluginReturns, ClientGoes, Running, mainVars, webVars, TypeOK, LoadInv,
     HeldInv, ShutdownInv, HeldBy, Served, InPlugin
<1>6. CASE Send(c)
  BY <1>6 DEF Send, ClientAt, ClientGoes, Running, mainVars, webVars, TypeOK, LoadInv,
     HeldInv, ShutdownInv, HeldBy, Served, InPlugin
<1> QED BY <1>1, <1>2, <1>3, <1>4, <1>5, <1>6 DEF ClientThread

\* Every step preserves the invariant.
LEMMA NextManager == ASSUME ManagerInv, [Next]_vars PROVE ManagerInv'
<1>1. CASE UNCHANGED vars
  BY <1>1 DEF vars, mainVars, webVars, clientVars, ManagerInv, TypeOK, LoadInv, HeldInv,
     ShutdownInv, HeldBy
<1> QED BY <1>1, MainManager, AcceptorManager, ClientManager DEF Next

\* The process's parts agree about who refers to what, at every moment.
THEOREM ManagerInvariant == Spec => []ManagerInv
<1>1. Init => ManagerInv BY InitManager
<1>2. ManagerInv /\ [Next]_vars => ManagerInv' BY NextManager
<1> QED BY <1>1, <1>2, PTL DEF Spec

\* No plugin is destroyed under a client's thread that runs it.
THEOREM PluginsInUseAlive == Spec => []PluginInUseAlive
<1>1. ManagerInv => PluginInUseAlive
  BY DEF ManagerInv, HeldInv, PluginInUseAlive
<1> QED BY <1>1, ManagerInvariant, PTL

\* main destroys no library before the plugins in its own hands.
THEOREM LibrariesOutlivePlugins == Spec => []PluginsBeforeLibraries
<1>1. ManagerInv => PluginsBeforeLibraries
  BY PluginsAssumption DEF ManagerInv, TypeOK, LoadInv, HeldInv, ShutdownInv, PluginsBeforeLibraries
<1> QED BY <1>1, ManagerInvariant, PTL

\* The join shuts the door: nobody is served who was not before.
THEOREM DoorShut == Spec => NoClientBehindDestructor
<1> DEFINE Shut == configurator = "destroyed" =>
             \A c \in Clients : client'[c] \in Served => client[c] \in Served
<1>1. ASSUME ManagerInv, [Next]_vars PROVE [Shut]_vars
  <2>1. SUFFICES ASSUME configurator = "destroyed", Next,
                        NEW c \in Clients, client'[c] \in Served
                 PROVE client[c] \in Served
    BY <1>1
  <2>2. acceptor = "ended" /\ main \in {"free", "unload", "exit"}
    BY <1>1, <2>1 DEF ManagerInv, ShutdownInv
  <2>3. CASE Main \/ Signal
    BY <2>1, <2>3 DEF Main, Signal, Load, LoadFails, ConfigureAndExec, PluginThrows, AddPlugin,
       Start, CloseSocket, ClearFlag, JoinAcceptor, FreePlugin, FreeEnds, Unload, clientVars
  <2>4. CASE Acceptor
    BY <2>1, <2>2, <2>4 DEF Acceptor, AcceptorTests, AcceptorCalls, AcceptFails, Accept, clientVars
  <2>5. ASSUME NEW d \in Clients, Connect(d) PROVE client[c] \in Served
    BY <1>1, <2>1, <2>5 DEF Connect, ClientAt, ClientGoes, ManagerInv, TypeOK, Served, InPlugin
  <2>6. ASSUME NEW d \in Clients, ClientThread(d) PROVE client[c] \in Served
    BY <1>1, <2>1, <2>6 DEF ClientThread, Read, ReadMalformed, HangUp, UseDestroyed, Post, Page,
       PageThrows, UseUnloaded, PluginReturns, Send, SendFails, ClientAt, ClientGoes, clientVars,
       ManagerInv, TypeOK, Served, InPlugin
  <2> QED BY <2>1, <2>3, <2>4, <2>5, <2>6 DEF Next
<1> QED BY <1>1, ManagerInvariant, PTL DEF Spec, NoClientBehindDestructor

\* Where nobody is served behind the destructor, no step uses what is gone: the
\* configurator goes before the libraries, and a plugin that a thread runs is one
\* that was loaded.
LEMMA UsesWhatIsThere ==
  ASSUME ManagerInv, NobodyBehind, NothingGoneIsUsed, [Next]_vars
  PROVE  NothingGoneIsUsed'
<1>1. ASSUME NEW c \in Clients, client[c] \in Served
      PROVE  configurator = "alive" /\ (client[c] \in InPlugin => held[c] \in loaded_plugins)
  BY <1>1, PluginsAssumption
     DEF NobodyBehind, ManagerInv, TypeOK, LoadInv, HeldInv, ShutdownInv
<1>2. ASSUME NEW c \in Clients, UseDestroyed(c) \/ UseUnloaded(c)
      PROVE  FALSE
  BY <1>1, <1>2 DEF UseDestroyed, UseUnloaded, Served
<1>3. ASSUME NEW c \in Clients, ReadMalformed(c) \/ PageThrows(c) \/ SendFails(c)
      PROVE  NothingGoneIsUsed'
  BY <1>3 DEF ReadMalformed, PageThrows, SendFails, NothingGoneIsUsed
<1>4. ASSUME NEW c \in Clients, \/ Connect(c) \/ Read(c) \/ HangUp(c) \/ Post(c) \/ Page(c)
                                \/ PluginReturns(c) \/ Send(c)
      PROVE  UNCHANGED crash
  BY <1>4 DEF Connect, Read, HangUp, Post, Page, PluginReturns, Send
<1>5. CASE Main \/ Signal \/ Acceptor \/ UNCHANGED vars
  BY <1>5 DEF Main, Signal, Load, LoadFails, ConfigureAndExec, PluginThrows, AddPlugin, Start,
     CloseSocket, ClearFlag, JoinAcceptor, FreePlugin, FreeEnds, Unload, Acceptor, AcceptorTests,
     AcceptorCalls, AcceptFails, Accept, vars, NothingGoneIsUsed
<1> QED BY <1>2, <1>3, <1>4, <1>5 DEF Next, ClientThread, NothingGoneIsUsed

\* Only the join destroys the configurator.
LEMMA JoinDestroys ==
  ASSUME ManagerInv, [Next]_vars
  PROVE  configurator' = configurator \/ JoinAcceptor
BY DEF Next, Main, Signal, Load, LoadFails, ConfigureAndExec, PluginThrows, AddPlugin, Start,
   CloseSocket, ClearFlag, FreePlugin, FreeEnds, Unload, Acceptor, AcceptorTests,
   AcceptorCalls, AcceptFails, Accept, Connect, ClientThread, Read, ReadMalformed, HangUp,
   UseDestroyed, Post, Page, PageThrows, UseUnloaded, PluginReturns, Send, SendFails, vars, webVars

\* If ~WebPluginConfigurator waited for its clients' threads, none of them would
\* use the configurator or a plugin's code after its end.
THEOREM WaitingIsEnough == Spec /\ DestructorWaits => []NothingGoneIsUsed
<1> DEFINE Shut == configurator = "destroyed" =>
             \A c \in Clients : client'[c] \in Served => client[c] \in Served
<1>1. Init => NobodyBehind /\ NothingGoneIsUsed
  BY DEF Init, NobodyBehind, NothingGoneIsUsed
<1>2. ManagerInv /\ NobodyBehind /\ [Next]_vars /\ [ClientsAwaited]_vars /\ [Shut]_vars
        => NobodyBehind'
  <2> SUFFICES ASSUME ManagerInv, NobodyBehind, Next, ClientsAwaited, Shut
               PROVE  NobodyBehind'
    BY DEF vars, webVars, clientVars, NobodyBehind
  <2>1. CASE JoinAcceptor
    BY <2>1 DEF ClientsAwaited, JoinAcceptor, clientVars, NobodyBehind
  <2>2. CASE configurator' = configurator
    BY <2>2 DEF NobodyBehind
  <2> QED BY <2>1, <2>2, JoinDestroys
<1>3. ManagerInv /\ NobodyBehind /\ NothingGoneIsUsed /\ [Next]_vars => NothingGoneIsUsed'
  BY UsesWhatIsThere
<1>4. NoClientBehindDestructor => [][Shut]_vars
  BY PTL DEF NoClientBehindDestructor
<1> QED BY <1>1, <1>2, <1>3, <1>4, ManagerInvariant, DoorShut, PTL DEF Spec, DestructorWaits

-----------------------------------------------------------------------------
(* NetworkManager implements SharedObjects. *)

\* An object exists as long as the map, main or a client's thread holds it.
LEMMA AliveIsHeld == ManagerInv => alive = Holders
BY PluginsAssumption DEF ManagerInv, TypeOK, LoadInv, HeldInv, Holders, HeldBy

\* A step that lets go of a set of plugins.
LEMMA LetsGo ==
  ASSUME ManagerInv, NEW X \in SUBSET Plugins, X \subseteq Holders, Holders' = Holders \ X,
         todo' = todo
  PROVE  Pointers!Next
<1>1. {} \in SUBSET X /\ {} = {} \cup {}
  OBVIOUS
<1> QED BY <1>1 DEF Pointers!Next, Pointers!LetGo

\* The steps of main: a plugin is made when it is loaded; it goes when it throws,
\* or when the map drops it after the last client's thread.
LEMMA MainPointers ==
  ASSUME ManagerInv, Main \/ Signal
  PROVE  Pointers!Next \/ UNCHANGED Pointers!vars
<1> USE PluginsAssumption
<1>1. CASE Load
  <2>1. PICK p \in todo : /\ todo' = todo \ {p}
                         /\ plugin' = p
    BY <1>1 DEF Load
  <2>2. plugin = None /\ p \in Plugins /\ UNCHANGED <<plugins, held>>
    BY <1>1, <2>1 DEF Load, At, clientVars, ManagerInv, LoadInv, TypeOK
  <2>3. Holders' = Holders \cup {p}
    BY <2>1, <2>2 DEF Holders, HeldBy
  <2>4. (Plugins \ todo)' = (Plugins \ todo) \cup {p} /\ p \notin Plugins \ todo
    BY <2>1, <2>2
  <2> QED BY <2>2, <2>3, <2>4 DEF Pointers!Next, Pointers!Make
<1>2. CASE PluginThrows
  <2>1. /\ plugin # None /\ plugin' = None /\ UNCHANGED <<todo, plugins, held>>
        /\ plugin \in Plugins /\ plugin \notin plugins /\ plugin \notin HeldBy(Clients)
    BY <1>2 DEF PluginThrows, clientVars, ManagerInv, LoadInv, HeldInv, TypeOK, HeldBy, Served
  <2>2. /\ Holders' = Holders \ {plugin} /\ {plugin} \subseteq Holders
        /\ {plugin} \in SUBSET Plugins
    BY <2>1 DEF Holders, HeldBy
  <2> QED BY <2>1, <2>2, LetsGo
<1>3. CASE AddPlugin
  <2>1. plugins' = plugins \cup {plugin} /\ plugin' = None /\ UNCHANGED <<todo, held>>
    BY <1>3 DEF AddPlugin, clientVars
  <2>2. Holders' = Holders
    BY <2>1 DEF Holders, HeldBy
  <2> QED BY <2>1, <2>2 DEF Pointers!vars
<1>4. CASE FreePlugin
  <2>1. PICK p \in plugins : plugins' = plugins \ {p}
    BY <1>4 DEF FreePlugin
  <2>2. plugin = None /\ UNCHANGED <<todo, plugin, held>> /\ p \in Plugins
    BY <1>4, <2>1 DEF FreePlugin, At, mainVars, clientVars, ManagerInv, LoadInv, TypeOK
  <2>3. CASE p \in HeldBy(Clients)
    <3>1. Holders' = Holders
      BY <2>1, <2>2, <2>3 DEF Holders, HeldBy
    <3> QED BY <2>2, <3>1 DEF Pointers!vars
  <2>4. CASE p \notin HeldBy(Clients)
    <3>1. /\ Holders' = Holders \ {p} /\ {p} \subseteq Holders
          /\ {p} \in SUBSET Plugins
      BY <2>1, <2>2, <2>4 DEF Holders, HeldBy
    <3> QED BY <2>2, <3>1, LetsGo
  <2> QED BY <2>3, <2>4
<1>5. CASE LoadFails \/ ConfigureAndExec \/ Start \/ CloseSocket \/ ClearFlag \/ JoinAcceptor
           \/ FreeEnds \/ Unload \/ Signal
  <2>1. UNCHANGED <<todo, plugin, plugins, held>>
    BY <1>5 DEF LoadFails, ConfigureAndExec, Start, CloseSocket, ClearFlag, JoinAcceptor, FreeEnds,
       Unload, Signal, mainVars, clientVars
  <2> QED BY <2>1 DEF Pointers!vars, Holders, HeldBy
<1> QED BY <1>1, <1>2, <1>3, <1>4, <1>5 DEF Main

\* A client's thread takes a copy of what the map holds, and lets go of it.
LEMMA ClientPointers ==
  ASSUME ManagerInv, NEW c \in Clients, ClientThread(c)
  PROVE  Pointers!Next \/ UNCHANGED Pointers!vars
<1> USE PluginsAssumption
<1>1. CASE Post(c) \/ Page(c)
  <2>1. UNCHANGED <<todo, plugin, plugins>> /\ held[c] = None
        /\ \/ held' = held
           \/ \E p \in plugins : held' = [held EXCEPT ![c] = p]
    BY <1>1 DEF Post, Page, ClientAt, mainVars, ManagerInv, HeldInv, InPlugin
  <2>2. HeldBy(Clients)' \ {None} \subseteq HeldBy(Clients) \cup plugins
        /\ HeldBy(Clients) \ {None} \subseteq HeldBy(Clients)'
    BY <2>1 DEF HeldBy, ManagerInv, TypeOK
  <2>3. Holders' = Holders
    BY <2>1, <2>2 DEF Holders
  <2> QED BY <2>1, <2>3 DEF Pointers!vars
<1>2. CASE PluginReturns(c)
  <2> DEFINE others == plugins \cup HeldBy(Clients \ {c})
  <2>1. UNCHANGED <<todo, plugin, plugins>> /\ held' = [held EXCEPT ![c] = None]
        /\ held[c] # None /\ held[c] \in Plugins
    BY <1>2 DEF PluginReturns, mainVars, ManagerInv, HeldInv, TypeOK
  <2>2. plugin = None
    BY <1>2 DEF PluginReturns, ManagerInv, LoadInv, Served
  <2>3. HeldBy(Clients) = HeldBy(Clients \ {c}) \cup {held[c]}
        /\ HeldBy(Clients)' = HeldBy(Clients \ {c}) \cup {None}
    BY <2>1 DEF HeldBy, ManagerInv, TypeOK
  <2>4. Holders = (others \cup {held[c]}) \ {None} /\ Holders' = others \ {None}
    BY <2>1, <2>2, <2>3 DEF Holders
  <2>5. /\ {held[c]} \ others \subseteq Holders
        /\ Holders' = Holders \ ({held[c]} \ others)
        /\ ({held[c]} \ others) \in SUBSET Plugins
    BY <2>1, <2>4
  <2> QED BY <2>1, <2>5, LetsGo
<1>3. CASE Read(c) \/ ReadMalformed(c) \/ HangUp(c) \/ UseDestroyed(c) \/ PageThrows(c)
           \/ UseUnloaded(c) \/ Send(c) \/ SendFails(c)
  <2>1. UNCHANGED <<todo, plugin, plugins, held>>
    BY <1>3 DEF Read, ReadMalformed, HangUp, UseDestroyed, PageThrows, UseUnloaded, Send, SendFails,
       mainVars, clientVars
  <2> QED BY <2>1 DEF Pointers!vars, Holders, HeldBy
<1> QED BY <1>1, <1>2, <1>3 DEF ClientThread

\* Every step of the process is a step of what it promises, or a stutter.
LEMMA StepPointers == ManagerInv /\ [Next]_vars => [Pointers!Next]_(Pointers!vars)
<1> SUFFICES ASSUME ManagerInv, [Next]_vars PROVE Pointers!Next \/ UNCHANGED Pointers!vars
  OBVIOUS
<1>1. CASE Acceptor \/ (\E c \in Clients : Connect(c)) \/ UNCHANGED vars
  <2>1. UNCHANGED <<todo, plugin, plugins, held>>
    BY <1>1 DEF Acceptor, AcceptorTests, AcceptorCalls, AcceptFails, Accept, Connect, mainVars,
       clientVars, vars
  <2> QED BY <2>1 DEF Pointers!vars, Holders, HeldBy
<1> QED BY <1>1, MainPointers, ClientPointers DEF Next

\* A plugin is made once, exists exactly as long as main, the map or a client's
\* thread refers to it, and is never referred to again, whoever comes last.
THEOREM PluginsShared == Spec => SharesPlugins
<1>1. Init => Pointers!Init
  BY PluginsAssumption DEF Init, Pointers!Init, Holders, HeldBy
<1> QED BY <1>1, StepPointers, AliveIsHeld, ManagerInvariant, PTL
        DEF Spec, SharesPlugins, Pointers!Spec
=============================================================================
