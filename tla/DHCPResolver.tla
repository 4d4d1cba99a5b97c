------------------------------ MODULE DHCPResolver -----------------------------
(***************************************************************************)
(* dhcpresolver, the DHCP client that DHCPClient::run executes             *)
(* (src/src/DHCPClient/src/dhcpclient-snap_20071104): processes for one    *)
(* interface, the pid file they lock, the interface's link, and the DHCP   *)
(* servers.                                                                *)
(*                                                                         *)
(* The original is a daemon; here pt_recvmessage_dhcp prints the first     *)
(* answer and exits, so that of its states only REBOOTING, OPER_DOWN, INIT *)
(* and REQUESTING are ever reached, and DHCPClient reads the first line.   *)
(*                                                                         *)
(* A transaction number is drawn for every message sent.  A frame that     *)
(* waits for a process is the body of an answer to the last one, or        *)
(* Foreign: an answer to an older one, or to another process or host.      *)
(***************************************************************************)
EXTENDS Sequences, Integers

CONSTANTS
  Resolvers,  \* processes
  Offers,     \* DHCPOFFERs that servers make
  Stray,      \* any other answer, such as a BOOTP reply or a DHCPNAK
  Foreign,    \* any frame that answers somebody else
  Inodes,     \* of the pid file
  None,
  MaxNews     \* netlink messages that wait for a process

ASSUME OffersAssumption ==
  {None, Stray, Foreign} \cap Offers = {} /\ None # Stray /\ None # Foreign /\ Stray # Foreign
ASSUME NoneAssumption == None \notin Inodes
ASSUME BoundsAssumption == MaxNews \in Nat

VARIABLES
  pc,       \* where each process is
  state,    \* dif.state
  ostatus,  \* ostatus, the link as the process knows it
  first,    \* the first line printed
  request,  \* the offer in the DHCPREQUEST that was sent
  file,     \* the pid file as opened
  path,     \* the pid file that the path names
  link,     \* the link
  news,     \* netlink messages not yet read
  net,      \* whose DHCPDISCOVER, the last, reached the servers
  rx,       \* frames not yet read
  offered   \* the offers made in answer to the last DHCPDISCOVER

processVars == <<state, first, request>>
linkVars == <<link, news>>
netVars == <<net, rx, offered>>
vars == <<pc, processVars, ostatus, file, path, linkVars, netVars>>

Links == {"up", "down", "shut", "removed"}
Bodies == Offers \cup {Stray}
Frames == Bodies \cup {Foreign}

\* Holding the pid file's lock, as the kernel has it until the process is gone.
Locking == {"locked", "loop", "end", "unlinked"}
Open == {"opened"} \cup Locking
Alive == {"started"} \cup Open
\* exit(0) in pt_recvmessage_dhcp, return from main, exit(1).
Ended == {"exited", "returned", "failed"}

TypeOK ==
  /\ pc \in [Resolvers -> {"none"} \cup Alive \cup Ended]
  /\ state \in [Resolvers -> {"REBOOTING", "OPER_DOWN", "INIT", "REQUESTING"}]
  /\ ostatus \in [Resolvers -> Links]
  /\ first \in [Resolvers -> Bodies \cup {None}]
  /\ request \in [Resolvers -> Offers \cup {None}]
  /\ file \in [Resolvers -> Inodes \cup {None}]
  /\ path \in Inodes \cup {None}
  /\ link \in Links
  /\ news \in [Resolvers -> Seq(Links)]
  /\ net \subseteq Resolvers
  /\ rx \in [Resolvers -> SUBSET Frames]
  /\ offered \in [Resolvers -> SUBSET Offers]

Init ==
  /\ pc = [r \in Resolvers |-> "none"]
  /\ state = [r \in Resolvers |-> "REBOOTING"]
  /\ ostatus = [r \in Resolvers |-> "up"]
  /\ first = [r \in Resolvers |-> None]
  /\ request = [r \in Resolvers |-> None]
  /\ file = [r \in Resolvers |-> None]
  /\ path = None
  /\ link \in Links
  /\ news = [r \in Resolvers |-> <<>>]
  /\ net = {}
  /\ rx = [r \in Resolvers |-> {}]
  /\ offered = [r \in Resolvers |-> {}]

Goes(r, l) == pc' = [pc EXCEPT ![r] = l]

\* The process is gone, and with it its file and its sockets, and what waits in
\* them.
Ends(r, how) ==
  /\ Goes(r, how)
  /\ file' = [file EXCEPT ![r] = None]
  /\ news' = [news EXCEPT ![r] = <<>>]
  /\ rx' = [rx EXCEPT ![r] = {}]
  /\ net' = net \ {r}

Enters(r, s) == state' = [state EXCEPT ![r] = s]

\* Answers to the last message do not answer the next.
Redraw(r) == rx' = [rx EXCEPT ![r] = {Foreign : m \in rx[r]}]

\* pt_sendmessage in INIT
Discover(r) ==
  /\ Redraw(r)
  /\ net' = IF link = "up" THEN net \cup {r} ELSE net \ {r}
  /\ offered' = [offered EXCEPT ![r] = {}]

-----------------------------------------------------------------------------
(* main, up to its loop *)

\* nl_open and nl_getifdata
Start(r) ==
  /\ pc[r] = "none"
  /\ Goes(r, IF link = "removed" THEN "failed" ELSE "started")
  /\ ostatus' = [ostatus EXCEPT ![r] = link]
  /\ UNCHANGED <<processVars, file, path, linkVars, netVars>>

\* open with O_CREAT
OpenPidfile(r) ==
  /\ pc[r] = "started"
  /\ \E i \in Inodes :
       /\ IF path = None THEN \A q \in Resolvers : pc[q] \in Open => file[q] # i
          ELSE i = path
       /\ file' = [file EXCEPT ![r] = i]
       /\ path' = i
  /\ Goes(r, "opened")
  /\ UNCHANGED <<processVars, ostatus, linkVars, netVars>>

\* The pid file's directory is missing or not writable, and exit(1)
OpenFails(r) ==
  /\ pc[r] = "started"
  /\ Ends(r, "failed")
  /\ UNCHANGED <<processVars, ostatus, path, link, offered>>

\* Mutant: the result of flock is ignored.
LockIgnored(r) ==
  /\ pc[r] = "opened"
  /\ Goes(r, "locked")
  /\ UNCHANGED <<processVars, ostatus, file, path, linkVars, netVars>>

Held(i) == \E q \in Resolvers : pc[q] \in Locking /\ file[q] = i

\* flock with LOCK_NB, and exit(1)
Lock(r) ==
  /\ pc[r] = "opened"
  /\ \/ /\ ~Held(file[r])
        /\ Goes(r, "locked")
        /\ UNCHANGED <<file, news, rx, net>>
     \/ /\ Held(file[r])
        /\ Ends(r, "failed")
  /\ UNCHANGED <<processVars, ostatus, path, link, offered>>

\* The first handle_ostatus and pt_handletimeout.
Enter(r) ==
  /\ pc[r] = "locked"
  /\ \/ /\ ostatus[r] \in {"shut", "removed"}
        /\ Goes(r, "end") /\ UNCHANGED state
     \/ /\ ostatus[r] = "down"
        /\ Goes(r, "loop") /\ Enters(r, "OPER_DOWN")
     \/ /\ ostatus[r] = "up"
        /\ Goes(r, "loop") /\ Enters(r, "INIT")
  /\ UNCHANGED <<first, request, ostatus, file, path, linkVars, netVars>>

\* pt_changestate cannot open the raw socket, and exit(1)
EnterFails(r) ==
  /\ pc[r] = "locked"
  /\ ostatus[r] \in {"down", "up"}
  /\ Ends(r, "failed")
  /\ UNCHANGED <<processVars, ostatus, path, link, offered>>

-----------------------------------------------------------------------------
(* The loop.  select returns for whichever is there first. *)

\* Mutant: the status is read, and not acted upon.
NewsForgotten(r) ==
  /\ pc[r] = "loop"
  /\ news[r] # <<>>
  /\ ostatus' = [ostatus EXCEPT ![r] = Head(news[r])]
  /\ news' = [news EXCEPT ![r] = Tail(@)]
  /\ UNCHANGED <<pc, processVars, file, path, link, netVars>>

\* nl_handleifmulticast, and handle_ostatus if the status changed.
News(r) ==
  /\ pc[r] = "loop"
  /\ news[r] # <<>>
  /\ LET s == Head(news[r]) IN
       /\ ostatus' = [ostatus EXCEPT ![r] = s]
       /\ \/ /\ s = ostatus[r]
             /\ UNCHANGED <<pc, state, netVars>>
          \/ /\ s # ostatus[r] /\ s \in {"shut", "removed"}
             /\ Goes(r, "end")
             /\ UNCHANGED <<state, netVars>>
          \/ /\ s # ostatus[r] /\ s = "down"
             /\ Enters(r, "OPER_DOWN")
             /\ UNCHANGED <<pc, netVars>>
          \/ /\ s # ostatus[r] /\ s = "up"
             /\ Enters(r, "INIT") /\ Discover(r)
             /\ UNCHANGED pc
  /\ news' = [news EXCEPT ![r] = Tail(@)]
  /\ UNCHANGED <<first, request, file, path, link>>

\* Mutant: after a timeout nothing is sent.
TimeoutSilent(r) ==
  /\ pc[r] = "loop"
  /\ state[r] = "INIT"
  /\ Redraw(r)
  /\ net' = net \ {r}
  /\ offered' = [offered EXCEPT ![r] = {}]
  /\ UNCHANGED <<pc, processVars, ostatus, file, path, linkVars>>

\* pt_handletimeout; the only state in the loop that has a timeout is INIT.
Timeout(r) ==
  /\ pc[r] = "loop"
  /\ state[r] = "INIT"
  /\ Discover(r)
  /\ UNCHANGED <<pc, processVars, ostatus, file, path, linkVars>>

\* A frame without the last transaction number is not for this process.
ReceiveForeign(r) ==
  /\ pc[r] = "loop"
  /\ Foreign \in rx[r]
  /\ rx' = [rx EXCEPT ![r] = @ \ {Foreign}]
  /\ UNCHANGED <<pc, processVars, ostatus, file, path, linkVars, net, offered>>

Prints(r, body) ==
  first' = [first EXCEPT ![r] = IF first[r] = None THEN body ELSE first[r]]

\* Printed before its type is looked at.
ReceiveStray(r) ==
  /\ pc[r] = "loop"
  /\ Stray \in rx[r]
  /\ state[r] = "INIT"
  /\ Prints(r, Stray)
  /\ rx' = [rx EXCEPT ![r] = @ \ {Stray}]
  /\ UNCHANGED <<pc, state, request, ostatus, file, path, linkVars, net, offered>>

\* Mutant: any frame for this host's hardware address will do.
ReceiveAnyOffer(r, offer) ==
  /\ pc[r] = "loop"
  /\ {offer, Foreign} \cap rx[r] # {}
  /\ state[r] = "INIT"
  /\ Prints(r, offer)
  /\ request' = [request EXCEPT ![r] = offer]
  /\ Enters(r, "REQUESTING")
  /\ Ends(r, "exited")
  /\ UNCHANGED <<ostatus, path, link, offered>>

\* The offer is printed and requested, and the process gone.
ReceiveOffer(r, offer) ==
  /\ pc[r] = "loop"
  /\ offer \in rx[r]
  /\ state[r] = "INIT"
  /\ Prints(r, offer)
  /\ request' = [request EXCEPT ![r] = offer]
  /\ Enters(r, "REQUESTING")
  /\ Ends(r, "exited")
  /\ UNCHANGED <<ostatus, path, link, offered>>

\* An answer that was read after the link had gone down.
ReceiveDown(r, body) ==
  /\ pc[r] = "loop"
  /\ body \in rx[r]
  /\ state[r] = "OPER_DOWN"
  /\ Prints(r, body)
  /\ Ends(r, "exited")
  /\ UNCHANGED <<state, request, ostatus, path, link, offered>>

\* SIGTERM or SIGINT, which systemd and a terminal send to every process.
Signal(r) ==
  /\ pc[r] = "loop"
  /\ Goes(r, "end")
  /\ UNCHANGED <<processVars, ostatus, file, path, linkVars, netVars>>

\* pidfile(dif.ifname, 2): the path goes, whichever file it names.
Unlink(r) ==
  /\ pc[r] = "end"
  /\ path' = None
  /\ Goes(r, "unlinked")
  /\ UNCHANGED <<processVars, ostatus, file, linkVars, netVars>>

Return(r) ==
  /\ pc[r] = "unlinked"
  /\ Ends(r, "returned")
  /\ UNCHANGED <<processVars, ostatus, path, link, offered>>

-----------------------------------------------------------------------------
(* The link and the servers *)

LinkChanges ==
  /\ link # "removed"
  /\ \A r \in Resolvers : Len(news[r]) < MaxNews
  /\ \E s \in Links \ {link} :
       /\ link' = s
       /\ news' = [r \in Resolvers |-> IF pc[r] \in Alive THEN Append(news[r], s) ELSE news[r]]
  /\ UNCHANGED <<pc, processVars, ostatus, file, path, netVars>>

Answer(r, body) ==
  /\ r \in net
  /\ link = "up"
  /\ rx' = [rx EXCEPT ![r] = @ \cup {body}]
  /\ offered' = [offered EXCEPT ![r] = @ \cup ({body} \cap Offers)]
  /\ UNCHANGED <<pc, processVars, ostatus, file, path, linkVars, net>>

\* The raw socket gets every frame on the interface.
Traffic(r) ==
  /\ pc[r] = "loop"
  /\ link = "up"
  /\ rx' = [rx EXCEPT ![r] = @ \cup {Foreign}]
  /\ UNCHANGED <<pc, processVars, ostatus, file, path, linkVars, net, offered>>

Lose(r) ==
  /\ r \in net
  /\ net' = net \ {r}
  /\ UNCHANGED <<pc, processVars, ostatus, file, path, linkVars, rx, offered>>

-----------------------------------------------------------------------------

Receive(r) ==
  \/ ReceiveForeign(r)
  \/ ReceiveStray(r)
  \/ \E offer \in Offers : ReceiveOffer(r, offer)
  \/ \E body \in Bodies : ReceiveDown(r, body)

Step(r) ==
  \/ OpenPidfile(r)
  \/ Lock(r)
  \/ Enter(r)
  \/ News(r)
  \/ Timeout(r)
  \/ Receive(r)
  \/ Unlink(r)
  \/ Return(r)

Network == \E r \in Resolvers : Lose(r) \/ Traffic(r) \/ \E b \in Bodies : Answer(r, b)

Next ==
  \/ \E r \in Resolvers : Start(r) \/ Step(r) \/ OpenFails(r) \/ EnterFails(r) \/ Signal(r)
  \/ LinkChanges
  \/ Network

Spec == Init /\ [][Next]_vars

\* Processes go on, select does not keep a netlink message or a timeout waiting
\* for ever, and one that keeps asking over a link that is up keeps being made
\* offers of which one comes in time.
Fairness ==
  \A r \in Resolvers :
    /\ WF_vars(Step(r)) /\ WF_vars(News(r)) /\ WF_vars(Timeout(r))
    /\ SF_vars(\E o \in Offers : Answer(r, o))
    /\ SF_vars(\E o \in Offers : ReceiveOffer(r, o))
FairSpec == Spec /\ Fairness

-----------------------------------------------------------------------------
(* Properties *)

Unlinked == \E r \in Resolvers : pc[r] \in {"unlinked", "returned"}

\* Until somebody removes it, whoever has a pid file open has the one that the
\* path names, and locks exclude each other: no two hold a lock on one file.
LockInv ==
  /\ \A p, q \in Resolvers : pc[p] \in Locking /\ pc[q] \in Locking /\ p # q => file[p] # file[q]
  /\ \A r \in Resolvers : pc[r] \in Open => file[r] # None /\ (file[r] = path \/ Unlinked)

\* The end of a process's news is the link as it is, and the state follows the
\* part that it has read.
LinkInv == \A r \in Resolvers :
  /\ pc[r] \in Alive => link = IF news[r] = <<>> THEN ostatus[r] ELSE news[r][Len(news[r])]
  /\ pc[r] \notin Alive => news[r] = <<>>
  /\ pc[r] = "loop" => \/ ostatus[r] = "up" /\ state[r] = "INIT"
                       \/ ostatus[r] = "down" /\ state[r] = "OPER_DOWN"

\* What is printed before the offer is stray, and an offer that a process takes
\* for its own was made to it.
OfferInv == \A r \in Resolvers :
  /\ pc[r] # "exited" => request[r] = None
  /\ pc[r] \in {"none", "started", "opened", "locked"} => first[r] = None
  /\ pc[r] = "loop" => first[r] \in {None, Stray}
  /\ rx[r] \cap Offers \subseteq offered[r]

\* main.c:103-115: the daemon is started once per interface as long as no
\* process has removed the pid file (on a signal, or a link that is shut).
StartedOnceUntilUnlink ==
  \A p, q \in Resolvers : pc[p] \in Locking /\ pc[q] \in Locking /\ p # q => Unlinked

\* dhcpprotocol.c:303-337 and 365-369: a process that ends with output has
\* requested, and printed, an offer made to its last DHCPDISCOVER; unless a
\* stray answer was printed first, or the link went down before the answer was
\* read, when it is printed and nothing is requested.
OutputIsRequested == \A r \in Resolvers : pc[r] = "exited" =>
  \/ state[r] = "REQUESTING" /\ request[r] \in offered[r] /\ first[r] \in {request[r], Stray}
  \/ state[r] = "OPER_DOWN" /\ request[r] = None /\ first[r] # None

\* The inductive invariant: what the pid file, the netlink messages and the
\* frames guarantee between the steps of main's loop.
ResolverInv == TypeOK /\ LockInv /\ LinkInv /\ OfferInv /\ OutputIsRequested

\* CHANGES:34-35, "write pidfile, ensuring that daemon is started only once per
\* interface": never two processes in the loop.
StartedOnce == \A p, q \in Resolvers : pc[p] = "loop" /\ pc[q] = "loop" => p = q

\* The one window in which that fails: a process removes the path while another
\* is between its open and its flock (main.c:103-114).
Unlinks == \E r \in Resolvers : Unlink(r)
UnlinksApart == [][Unlinks => \A q \in Resolvers : pc[q] # "opened"]_vars

\* What holds outside that window, inductively: whoever has not removed the path
\* has the file that it names, and one process at most has passed the lock.
PastLock == {"locked", "loop", "end"}
PathInv ==
  /\ \A r \in Resolvers : pc[r] \in {"opened"} \cup PastLock => file[r] = path /\ path # None
  /\ \A p, q \in Resolvers : pc[p] \in PastLock /\ pc[q] \in PastLock => p = q

\* DHCPClient.cpp:8 waits for the process: once the link stays up, those that
\* were started end, whatever is lost and however often the timeout (589-604)
\* fires.
Resolves == <>[](link = "up") => <>[](\A r \in Resolvers : pc[r] \in {"none"} \cup Ended)
=============================================================================
