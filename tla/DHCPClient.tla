------------------------------ MODULE DHCPClient ------------------------------
(***************************************************************************)
(* DHCPClient (src/src/DHCPClient/src/DHCPClient.cpp): a thread that runs  *)
(* the external dhcpresolver, hands every offer to a registered callback   *)
(* and sleeps for nine tenths of the lease, and the methods start, stop    *)
(* and the destructor, which any thread of the program may call.           *)
(*                                                                         *)
(* Time is abstracted: a timed wait may end at any moment, because it was  *)
(* notified, because it timed out or spuriously.  An offer is a model      *)
(* value; dns_servers is the set of offers whose servers the vector holds. *)
(***************************************************************************)
EXTENDS Naturals, FiniteSets

CONSTANTS
  Callers,     \* threads that may call start, stop or the destructor
  Offers,      \* what dhcpresolver may print
  BadOffers,   \* offers whose lease std::stoi rejects (more than 2^31 - 1 s)
  None         \* no caller, no offer

ASSUME OffersAssumption == BadOffers \subseteq Offers /\ None \notin Offers
ASSUME CallersAssumption == None \notin Callers

VARIABLES
  running,        \* DHCPClient::running
  running_mutex,  \* the caller that holds DHCPClient::running_mutex, or None
  run,            \* where the thread that executes run() is
  answer,         \* dhcp_result of the run thread: an offer, or None if empty
  dns_servers,    \* DHCPClient::dns_servers
  handed,         \* the arguments of the last call of the callback
  pc,             \* where each caller is
  object,         \* lifetime of the DHCPClient
  crash           \* why std::terminate was called, or "no"

clientVars == <<running, running_mutex, run, answer, dns_servers, handed, pc,
                object, crash>>

RunStates == {"none", "test", "resolving", "answered", "callback", "notify",
              "check", "prewait", "waiting", "ended"}
\* A caller between the lock and the unlock of running_mutex, in each method.
InStart == {"startPrewait", "startWait", "startReturn"}
InStop  == {"stopNotify", "stopPrewait", "stopWait", "stopJoin"}
PCs     == {"idle", "start", "stop"} \cup InStart \cup InStop
Handed  == [offer : Offers \cup {None}, dns : SUBSET Offers]

TypeOK ==
  /\ running \in BOOLEAN
  /\ running_mutex \in Callers \cup {None}
  /\ run \in RunStates
  /\ answer \in Offers \cup {None}
  /\ dns_servers \in SUBSET Offers
  /\ handed \in Handed
  /\ pc \in [Callers -> PCs]
  /\ object \in {"alive", "dying", "destroyed"}
  /\ crash \in {"no", "popen", "lease", "callback", "joinable"}

\* The constructor: running(false), no thread.
Init ==
  /\ running = FALSE
  /\ running_mutex = None
  /\ run = "none"
  /\ answer = None
  /\ dns_servers = {}
  /\ handed = [offer |-> None, dns |-> {}]
  /\ pc = [c \in Callers |-> "idle"]
  /\ object = "alive"
  /\ crash = "no"

\* Where a thread is, in a process that was not terminated; where it goes.
RunAt(l)   == crash = "no" /\ run = l
At(c, l)   == crash = "no" /\ pc[c] = l
Goto(c, l) == pc' = [pc EXCEPT ![c] = l]

-----------------------------------------------------------------------------
(* run(): the body of the thread. *)

\* while(this->running)
TestRunning ==
  /\ RunAt("test")
  /\ run' = IF running THEN "resolving" ELSE "ended"
  /\ UNCHANGED <<running, running_mutex, answer, dns_servers, handed, pc, object, crash>>

\* Mutant: the thread gives up when dhcpresolver fails.
EndsOnFailure ==
  /\ RunAt("resolving")
  /\ \E o \in Offers \cup {None} :
       /\ answer' = o
       /\ run' = IF o = None THEN "ended" ELSE "answered"
  /\ UNCHANGED <<running, running_mutex, dns_servers, handed, pc, object, crash>>

\* System::exec returns when dhcpresolver exits: with an offer on its output,
\* or with nothing (it failed, or was killed).
ResolverExits ==
  /\ RunAt("resolving")
  /\ \E o \in Offers \cup {None} :
       /\ answer' = o
       /\ run' = IF o = None THEN "notify" ELSE "answered"
  /\ UNCHANGED <<running, running_mutex, dns_servers, handed, pc, object, crash>>

\* If popen cannot run it, the exception of System::exec leaves the thread
\* function, so the process terminates.
ResolverNotRun ==
  /\ RunAt("resolving")
  /\ crash' = "popen"
  /\ UNCHANGED <<running, running_mutex, run, answer, dns_servers, handed, pc, object>>

\* The parsing.  An exception of std::stoi leaves the thread function, so the
\* process terminates; dns_servers is appended to and never cleared.
Parse ==
  /\ RunAt("answered")
  /\ IF answer \in BadOffers
       THEN /\ crash' = "lease"
            /\ UNCHANGED <<run, dns_servers, handed>>
       ELSE /\ run' = "callback"
            /\ dns_servers' = dns_servers \cup {answer}
            /\ handed' = [offer |-> answer, dns |-> dns_servers']
            /\ UNCHANGED crash
  /\ UNCHANGED <<running, running_mutex, answer, pc, object>>

\* this->callback(...) returns,
CallbackReturns ==
  /\ RunAt("callback")
  /\ run' = "notify"
  /\ UNCHANGED <<running, running_mutex, answer, dns_servers, handed, pc, object, crash>>

\* or throws, through run() and out of the thread.
CallbackThrows ==
  /\ RunAt("callback")
  /\ crash' = "callback"
  /\ UNCHANGED <<running, running_mutex, run, answer, dns_servers, handed, pc, object>>

\* trigger_cond.notify_all() wakes start() and stop() where they wait for it.
NotifyTrigger ==
  /\ RunAt("notify")
  /\ run' = "check"
  /\ pc' = [c \in Callers |->
              CASE pc[c] = "startWait" -> "startReturn"
                [] pc[c] = "stopWait"  -> "stopJoin"
                [] OTHER               -> pc[c]]
  /\ UNCHANGED <<running, running_mutex, answer, dns_servers, handed, object, crash>>

\* if(this->running): the flag is read before the timer's mutex is locked.
CheckRunning ==
  /\ RunAt("check")
  /\ run' = IF running THEN "prewait" ELSE "test"
  /\ UNCHANGED <<running, running_mutex, answer, dns_servers, handed, pc, object, crash>>

EnterWait ==
  /\ RunAt("prewait")
  /\ run' = "waiting"
  /\ UNCHANGED <<running, running_mutex, answer, dns_servers, handed, pc, object, crash>>

\* Mutant: the thread sleeps without a timeout.
TimerNeverExpires == FALSE

TimerExpires ==
  /\ RunAt("waiting")
  /\ run' = "test"
  /\ UNCHANGED <<running, running_mutex, answer, dns_servers, handed, pc, object, crash>>

RunThread ==
  \/ TestRunning
  \/ Parse
  \/ CallbackReturns
  \/ CallbackThrows
  \/ NotifyTrigger
  \/ CheckRunning
  \/ EnterWait
  \/ TimerExpires
  \/ ResolverExits
  \/ ResolverNotRun

-----------------------------------------------------------------------------
(* start() *)

CallStart(c) ==
  /\ At(c, "idle")
  /\ object = "alive"
  /\ Goto(c, "start")
  /\ UNCHANGED <<running, running_mutex, run, answer, dns_servers, handed, object, crash>>

\* start() on a client that runs returns at once.
StartReturnsAtOnce(c) ==
  /\ At(c, "start")
  /\ running_mutex = None
  /\ running
  /\ Goto(c, "idle")
  /\ UNCHANGED <<running, running_mutex, run, answer, dns_servers, handed, object, crash>>

\* Mutant: start() reads and sets the flag without the lock.
StartThreadUnlocked(c) ==
  /\ At(c, "start")
  /\ ~running
  /\ running' = TRUE
  /\ IF run = "none"
       THEN run' = "test" /\ UNCHANGED crash
       ELSE crash' = "joinable" /\ UNCHANGED run
  /\ Goto(c, "startPrewait")
  /\ UNCHANGED <<running_mutex, answer, dns_servers, handed, object>>

\* this->thread = std::thread(...) terminates the process if the thread object
\* still stands for a thread that was not joined.
StartThread(c) ==
  /\ At(c, "start")
  /\ running_mutex = None
  /\ ~running
  /\ running' = TRUE
  /\ running_mutex' = c
  /\ IF run = "none"
       THEN run' = "test" /\ UNCHANGED crash
       ELSE crash' = "joinable" /\ UNCHANGED run
  /\ Goto(c, "startPrewait")
  /\ UNCHANGED <<answer, dns_servers, handed, object>>

StartWaits(c) ==
  /\ At(c, "startPrewait")
  /\ Goto(c, "startWait")
  /\ UNCHANGED <<running, running_mutex, run, answer, dns_servers, handed, object, crash>>

StartTimesOut(c) ==
  /\ At(c, "startWait")
  /\ Goto(c, "startReturn")
  /\ UNCHANGED <<running, running_mutex, run, answer, dns_servers, handed, object, crash>>

StartReturns(c) ==
  /\ At(c, "startReturn")
  /\ running_mutex' = None
  /\ Goto(c, "idle")
  /\ UNCHANGED <<running, run, answer, dns_servers, handed, object, crash>>

-----------------------------------------------------------------------------
(* stop(), which calls triggerIPCheck(), and the destructor, which calls     *)
(* stop().                                                                   *)

CallStop(c) ==
  /\ At(c, "idle")
  /\ object = "alive"
  /\ Goto(c, "stop")
  /\ UNCHANGED <<running, running_mutex, run, answer, dns_servers, handed, object, crash>>

\* Mutant: the destructor does not stop the client.
DestructorForgetsStop(c) ==
  /\ At(c, "idle")
  /\ object = "alive"
  /\ \A d \in Callers : pc[d] = "idle"
  /\ object' = "destroyed"
  /\ UNCHANGED <<running, running_mutex, run, answer, dns_servers, handed, pc, crash>>

\* The destructor: nobody else is inside the object any more, because every
\* caller holds a shared_ptr to its owner.
CallDestructor(c) ==
  /\ At(c, "idle")
  /\ object = "alive"
  /\ \A d \in Callers : pc[d] = "idle"
  /\ object' = "dying"
  /\ Goto(c, "stop")
  /\ UNCHANGED <<running, running_mutex, run, answer, dns_servers, handed, crash>>

\* stop() returns; if the destructor called it, the members are destroyed next.
StopDone(c) ==
  /\ Goto(c, "idle")
  /\ object' = IF object = "dying" THEN "destroyed" ELSE object

\* stop() on a client that does not run returns at once.
StopReturnsAtOnce(c) ==
  /\ At(c, "stop")
  /\ running_mutex = None
  /\ ~running
  /\ StopDone(c)
  /\ UNCHANGED <<running, running_mutex, run, answer, dns_servers, handed, crash>>

\* Mutant: the lock is given up as soon as the flag is cleared.
StopClearsAndUnlocks(c) ==
  /\ At(c, "stop")
  /\ running_mutex = None
  /\ running
  /\ running' = FALSE
  /\ Goto(c, "stopNotify")
  /\ UNCHANGED <<running_mutex, run, answer, dns_servers, handed, object, crash>>

StopClears(c) ==
  /\ At(c, "stop")
  /\ running_mutex = None
  /\ running
  /\ running' = FALSE
  /\ running_mutex' = c
  /\ Goto(c, "stopNotify")
  /\ UNCHANGED <<run, answer, dns_servers, handed, object, crash>>

\* thread_timer_cond.notify_all() wakes the run thread only if it sleeps now.
StopNotifies(c) ==
  /\ At(c, "stopNotify")
  /\ run' = IF run = "waiting" THEN "test" ELSE run
  /\ Goto(c, "stopPrewait")
  /\ UNCHANGED <<running, running_mutex, answer, dns_servers, handed, object, crash>>

StopWaits(c) ==
  /\ At(c, "stopPrewait")
  /\ Goto(c, "stopWait")
  /\ UNCHANGED <<running, running_mutex, run, answer, dns_servers, handed, object, crash>>

\* Mutant: stop() waits for the thread's notification without a timeout.
StopNeverTimesOut(c) == FALSE

\* Mutant: stop() gives up when its wait times out.
StopGivesUp(c) ==
  /\ At(c, "stopWait")
  /\ running_mutex' = None
  /\ StopDone(c)
  /\ UNCHANGED <<running, run, answer, dns_servers, handed, crash>>

StopTimesOut(c) ==
  /\ At(c, "stopWait")
  /\ Goto(c, "stopJoin")
  /\ UNCHANGED <<running, running_mutex, run, answer, dns_servers, handed, object, crash>>

\* Mutant: the thread is detached.
StopDetaches(c) ==
  /\ At(c, "stopJoin")
  /\ running_mutex' = None
  /\ StopDone(c)
  /\ UNCHANGED <<running, run, answer, dns_servers, handed, crash>>

\* this->thread.join(), and the unlock of running_mutex.
StopJoins(c) ==
  /\ At(c, "stopJoin")
  /\ run = "ended"
  /\ run' = "none"
  /\ running_mutex' = None
  /\ StopDone(c)
  /\ UNCHANGED <<running, answer, dns_servers, handed, crash>>

\* The steps inside a method, in order.
MethodStep(c) ==
  \/ StartReturnsAtOnce(c)
  \/ StartThread(c)
  \/ StartWaits(c)
  \/ StartTimesOut(c)
  \/ StartReturns(c)
  \/ StopReturnsAtOnce(c)
  \/ StopClears(c)
  \/ StopNotifies(c)
  \/ StopWaits(c)
  \/ StopTimesOut(c)
  \/ StopJoins(c)

-----------------------------------------------------------------------------
Next ==
  \/ RunThread
  \/ \E c \in Callers :
       CallStart(c) \/ CallStop(c) \/ CallDestructor(c) \/ MethodStep(c)

\* Every thread that can go on does, every timed wait ends, and dhcpresolver
\* exits some time (it does once any DHCP server answers).  Nothing is assumed
\* of the order in which running_mutex is granted.
Holds(c) == pc[c] \in InStart \cup InStop
Fairness ==
  /\ WF_clientVars(RunThread)
  /\ \A c \in Callers : WF_clientVars(Holds(c) /\ MethodStep(c))
  /\ \A c \in Callers : WF_clientVars(object = "dying" /\ MethodStep(c))

Spec     == Init /\ [][Next]_clientVars
FairSpec == Spec /\ Fairness
-----------------------------------------------------------------------------
(* Properties. *)

\* A thread that executes run() has an owner: either running is set, so that a
\* stop() will join it, or a stop() is joining it now.  (running is cleared
\* under running_mutex and the mutex is kept until the join, lines 68-73.)
ThreadOwned ==
  run # "none" => running \/ \E c \in Callers : pc[c] \in InStop

\* Once the destructor has returned no thread uses the destroyed members and
\* nobody waits on the destroyed mutex (lines 42-45).
NoUseAfterDestruction ==
  object = "destroyed" => /\ run = "none"
                          /\ running_mutex = None
                          /\ \A c \in Callers : pc[c] = "idle"

\* start() never assigns to a std::thread that was not joined, which would
\* terminate the process (line 60): not even against a concurrent stop().
NeverOverwritesThread == crash # "joinable"

\* The inductive invariant behind the properties above: what the client's state
\* is while running_mutex is free, in each method that holds it, and in the
\* destructor.
FreeInv ==
  /\ running_mutex = None /\ ~running => run = "none"
  /\ running => run \notin {"none", "ended"}
HeldInv ==
  \A c \in Callers :
    /\ Holds(c) <=> running_mutex = c
    /\ pc[c] \in InStart => running
    /\ pc[c] \in InStop  => ~running /\ run # "none"
ObjectInv ==
  /\ object = "dying" =>
       /\ \E c \in Callers : /\ pc[c] \in InStop \cup {"stop"}
                             /\ \A d \in Callers \ {c} : pc[d] = "idle"
  /\ object = "destroyed" =>
       /\ ~running
       /\ running_mutex = None
       /\ \A c \in Callers : pc[c] = "idle"
OfferInv ==
  /\ run = "answered" => answer \in Offers
  /\ dns_servers = handed.dns
  /\ NeverOverwritesThread

ClientInv == TypeOK /\ FreeInv /\ HeldInv /\ ObjectInv /\ OfferInv

\* Refinement: the client keeps the promise of DHCPService.  It is active while
\* its thread object stands for a thread, so a stop() takes effect at its join,
\* and no offer reaches the callback after stop() returned.
CallAt(l) == IF l = "start" THEN "starting"
             ELSE IF l \in InStart THEN "started"
             ELSE IF l = "idle" THEN "idle"
             ELSE "stopping"
Service == INSTANCE DHCPService WITH
             active    <- run # "none",
             call      <- [c \in Callers |-> CallAt(pc[c])],
             delivered <- handed,
             lifetime  <- object
ImplementsService == Service!Spec

\* Whoever took running_mutex gives it back, although it sleeps and joins while
\* it holds it: no wakeup that start(), stop() or the thread may lose blocks
\* the client for ever (lines 30-31, 49-51, 61-62, 72-73).
MutexReleased ==
  \A c \in Callers : running_mutex = c ~> (running_mutex # c \/ crash # "no")

\* A client that runs asks for its address again and again, whether dhcpresolver
\* answered or not.
LeaseRenewed ==
  [](running => <>(run = "resolving" \/ ~running \/ crash # "no"))

\* The destructor returns.
DestructorReturns == object = "dying" ~> (object = "destroyed" \/ crash # "no")
=============================================================================
