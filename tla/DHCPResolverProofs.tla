--------------------------- MODULE DHCPResolverProofs --------------------------
(***************************************************************************)
(* Proofs about DHCPResolver: the inductive invariant ResolverInv, and the *)
(* two properties that it implies.                                         *)
(***************************************************************************)
EXTENDS DHCPResolver, TLAPS

\* No process has done anything at first.
LEMMA InitResolver == ASSUME Init PROVE ResolverInv
  BY OffersAssumption DEF Init, ResolverInv, TypeOK, LockInv, LinkInv, OfferInv, OutputIsRequested,
     Alive, Open, Locking, Ended, Frames, Bodies, Links

\* What the end of a sequence is once its head is gone.
LEMMA TailEnds ==
  ASSUME NEW S, NEW s \in Seq(S), s # <<>>
  PROVE  /\ Head(s) \in S
         /\ Tail(s) \in Seq(S)
         /\ Tail(s) = <<>> => s[Len(s)] = Head(s)
         /\ Tail(s) # <<>> => Tail(s)[Len(Tail(s))] = s[Len(s)]
<1>1. Len(s) \in Nat /\ Len(s) > 0 /\ Head(s) = s[1] /\ Tail(s) \in Seq(S)
  OBVIOUS
<1>2. Len(Tail(s)) = Len(s) - 1 /\ \A i \in 1 .. Len(Tail(s)) : Tail(s)[i] = s[i + 1]
  OBVIOUS
<1>3. Tail(s) = <<>> => Len(s) = 1
  BY <1>1, <1>2
<1>4. Tail(s) # <<>> => Len(Tail(s)) > 0
  BY <1>1
<1> QED BY <1>1, <1>2, <1>3, <1>4

\* Only opening the pid file, locking and unlinking it bear on the lock.
LEMMA LockKept ==
  ASSUME TypeOK, LockInv, NEW r \in Resolvers, NEW l, Goes(r, l),
         pc[r] \notin {"unlinked", "returned"}, UNCHANGED <<file, path>>,
         l \in Open => pc[r] \in Open, l \in Locking => pc[r] \in Locking
  PROVE  LockInv'
<1>1. /\ pc'[r] = l /\ \A q \in Resolvers \ {r} : pc'[q] = pc[q]
      /\ file' = file /\ path' = path
  BY DEF Goes, TypeOK
<1>2. Unlinked => Unlinked'
  BY <1>1 DEF Unlinked
<1>3. \A q \in Resolvers : /\ pc'[q] \in Open => pc[q] \in Open
                          /\ pc'[q] \in Locking => pc[q] \in Locking
  BY <1>1
<1> QED BY <1>1, <1>2, <1>3 DEF LockInv

\* A process that is gone leaves the others as they are.
LEMMA EndsKeeps ==
  ASSUME ResolverInv, NEW r \in Resolvers, NEW how \in {"failed", "returned"},
         pc[r] \notin {"none", "exited", "returned"}, how = "failed" => pc[r] # "unlinked",
         Ends(r, how), UNCHANGED <<processVars, ostatus, path, link, offered>>
  PROVE  ResolverInv'
<1> USE DEF ResolverInv, Ends, Goes, processVars, Alive, Open, Locking, Ended
<1>1. TypeOK'
  BY DEF TypeOK
<1>2. LockInv'
  BY DEF TypeOK, LockInv, Unlinked
<1>3. LinkInv'
  BY DEF TypeOK, LinkInv
<1>4. OfferInv' /\ OutputIsRequested'
  BY DEF TypeOK, OfferInv, OutputIsRequested
<1> QED BY <1>1, <1>2, <1>3, <1>4

\* The steps of main up to its loop.
LEMMA StartResolver ==
  ASSUME ResolverInv, NEW r \in Resolvers,
         \/ Start(r) \/ OpenPidfile(r) \/ OpenFails(r) \/ Lock(r) \/ Enter(r) \/ EnterFails(r)
  PROVE  ResolverInv'
<1> USE NoneAssumption DEF ResolverInv, Goes, processVars, linkVars, netVars, Alive, Open, Locking, Ended
<1>1. CASE Start(r)
  <2>1. TypeOK'
    BY <1>1 DEF Start, TypeOK
  <2>2. LockInv'
    <3>1. PICK l \in {"failed", "started"} : Goes(r, l)
      BY <1>1 DEF Start
    <3> QED BY <1>1, <3>1, LockKept DEF Start
  <2>4. OfferInv' /\ OutputIsRequested'
    BY <1>1 DEF Start, TypeOK, OfferInv, OutputIsRequested
  <2>3. LinkInv'
    BY <1>1 DEF Start, TypeOK, LinkInv, OfferInv
  <2> QED BY <2>1, <2>2, <2>3, <2>4
<1>2. CASE OpenPidfile(r)
  <2>1. PICK i \in Inodes :
          /\ IF path = None THEN \A q \in Resolvers : pc[q] \in Open => file[q] # i ELSE i = path
          /\ file' = [file EXCEPT ![r] = i] /\ path' = i
    BY <1>2 DEF OpenPidfile
  <2>2. TypeOK' /\ LinkInv'
    BY <1>2, <2>1 DEF OpenPidfile, TypeOK, LinkInv
  <2>3. OfferInv' /\ OutputIsRequested'
    BY <1>2 DEF OpenPidfile, TypeOK, OfferInv, OutputIsRequested
  <2>4. LockInv'
    <3>1. /\ pc[r] = "started" /\ pc'[r] = "opened" /\ file'[r] = i /\ i # None
          /\ \A q \in Resolvers \ {r} : pc'[q] = pc[q] /\ file'[q] = file[q]
      BY <1>2, <2>1 DEF OpenPidfile, TypeOK
    <3>2. Unlinked => Unlinked'
      BY <3>1 DEF Unlinked
    <3>3. path # None => path' = path
      BY <2>1
    <3>4. path' = i
      BY <2>1
    <3>5. \A p, q \in Resolvers :
            pc'[p] \in Locking /\ pc'[q] \in Locking /\ p # q => file'[p] # file'[q]
      BY <3>1 DEF LockInv
    <3>6. \A q \in Resolvers \ {r} : pc[q] \in Open => file[q] # None
                                   /\ (file[q] = path' \/ Unlinked')
      BY <3>2, <3>3 DEF LockInv
    <3> QED BY <3>1, <3>4, <3>5, <3>6 DEF LockInv
  <2> QED BY <2>2, <2>3, <2>4
<1>3. CASE OpenFails(r)
  BY <1>3, EndsKeeps DEF OpenFails
<1>4. CASE Lock(r) /\ Held(file[r])
  BY <1>4, EndsKeeps DEF Lock, Ends
<1>5. CASE Lock(r) /\ ~Held(file[r])
  <2>1. /\ pc[r] = "opened" /\ Goes(r, "locked")
        /\ UNCHANGED <<processVars, ostatus, file, path, linkVars, netVars>>
    BY <1>5 DEF Lock, Ends
  <2>2. TypeOK' /\ LinkInv'
    BY <2>1 DEF TypeOK, LinkInv
  <2>3. OfferInv' /\ OutputIsRequested'
    BY <2>1 DEF TypeOK, OfferInv, OutputIsRequested
  <2>4. LockInv'
    <3>1. /\ pc'[r] = "locked" /\ file' = file /\ path' = path
          /\ \A q \in Resolvers \ {r} : pc'[q] = pc[q]
      BY <2>1 DEF TypeOK
    <3>2. \A q \in Resolvers : pc[q] \in Locking => file[q] # file[r]
      BY <1>5 DEF Held
    <3>3. Unlinked => Unlinked'
      BY <2>1, <3>1 DEF Unlinked
    <3>4. \A p, q \in Resolvers :
            pc'[p] \in Locking /\ pc'[q] \in Locking /\ p # q => file[p] # file[q]
      BY <3>1, <3>2 DEF LockInv
    <3>5. \A q \in Resolvers : pc'[q] \in Open => pc[q] \in Open
      BY <2>1, <3>1
    <3> QED BY <3>1, <3>3, <3>4, <3>5 DEF LockInv
  <2> QED BY <2>2, <2>3, <2>4
<1>6. CASE Enter(r)
  <2>1. TypeOK'
    BY <1>6 DEF Enter, Enters, TypeOK
  <2>2. LockInv'
    <3>1. PICK l \in {"end", "loop"} : Goes(r, l) /\ pc[r] = "locked"
      BY <1>6 DEF Enter
    <3>2. UNCHANGED <<file, path>>
      BY <1>6 DEF Enter
    <3> QED BY <3>1, <3>2, LockKept
  <2>3. LinkInv'
    BY <1>6 DEF Enter, Enters, TypeOK, LinkInv
  <2>4. OfferInv' /\ OutputIsRequested'
    BY <1>6 DEF Enter, Enters, TypeOK, OfferInv, OutputIsRequested
  <2> QED BY <2>1, <2>2, <2>3, <2>4
<1>7. CASE EnterFails(r)
  BY <1>7, EndsKeeps DEF EnterFails
<1> QED BY <1>1, <1>2, <1>3, <1>4, <1>5, <1>6, <1>7

\* A netlink message: its process goes where the status says.
LEMMA NewsResolver ==
  ASSUME ResolverInv, NEW r \in Resolvers, News(r) PROVE ResolverInv'
<1> USE DEF ResolverInv, Goes, Enters, linkVars, netVars, Alive, Open, Locking, Ended
<1> DEFINE s == Head(news[r])
<1>1. /\ s \in Links /\ Tail(news[r]) \in Seq(Links)
      /\ Tail(news[r]) = <<>> => link = s
      /\ Tail(news[r]) # <<>> => link = Tail(news[r])[Len(Tail(news[r]))]
  <2>1. pc[r] = "loop" /\ news[r] # <<>> /\ news[r] \in Seq(Links)
    BY DEF News, TypeOK
  <2>2. link = news[r][Len(news[r])]
    BY <2>1 DEF LinkInv
  <2> QED BY <2>1, <2>2, TailEnds
<1> HIDE DEF s
<1>2. /\ pc[r] = "loop"
      /\ ostatus' = [ostatus EXCEPT ![r] = s] /\ news' = [news EXCEPT ![r] = Tail(@)]
      /\ UNCHANGED <<first, request, file, path, link>>
  BY DEF News, s
<1>3. \/ UNCHANGED <<pc, state, netVars>> /\ s = ostatus[r]
      \/ Goes(r, "end") /\ UNCHANGED <<state, netVars>>
      \/ Enters(r, "OPER_DOWN") /\ UNCHANGED <<pc, netVars>> /\ s = "down"
      \/ Enters(r, "INIT") /\ Discover(r) /\ UNCHANGED pc /\ s = "up"
  BY DEF News, s
<1>4. \/ rx' = rx /\ net' = net /\ offered' = offered
      \/ Discover(r)
  BY <1>3
<1>5. TypeOK'
  <2>1. pc' \in [Resolvers -> {"none"} \cup Alive \cup Ended]
        /\ state' \in [Resolvers -> {"REBOOTING", "OPER_DOWN", "INIT", "REQUESTING"}]
    BY <1>3 DEF TypeOK
  <2>2. net' \subseteq Resolvers /\ rx' \in [Resolvers -> SUBSET Frames]
        /\ offered' \in [Resolvers -> SUBSET Offers]
    <3>1. {Foreign : m \in rx[r]} \in SUBSET Frames
      BY DEF Frames
    <3>2. CASE Discover(r)
      <4>1. rx' \in [Resolvers -> SUBSET Frames]
        BY <3>1, <3>2 DEF TypeOK, Discover, Redraw
      <4>2. net' \subseteq Resolvers /\ offered' \in [Resolvers -> SUBSET Offers]
        BY <3>2 DEF TypeOK, Discover
      <4> QED BY <4>1, <4>2
    <3> QED BY <1>4, <3>2 DEF TypeOK
  <2>3. ostatus' \in [Resolvers -> Links] /\ news' \in [Resolvers -> Seq(Links)]
    BY <1>1, <1>2 DEF TypeOK
  <2> QED BY <1>2, <2>1, <2>2, <2>3 DEF TypeOK
<1>6. LockInv'
  <2>1. CASE UNCHANGED pc
    BY <1>2, <2>1 DEF LockInv, Unlinked
  <2>2. CASE Goes(r, "end")
    BY <1>2, <2>2, LockKept
  <2> QED BY <1>3, <2>1, <2>2
<1>7. LinkInv'
  BY <1>1, <1>2, <1>3 DEF TypeOK, LinkInv
<1>8. OfferInv'
  BY OffersAssumption, <1>2, <1>3, <1>4 DEF TypeOK, OfferInv, Discover, Redraw
<1>9. OutputIsRequested'
  BY <1>2, <1>3, <1>4 DEF TypeOK, OutputIsRequested, Discover
<1> QED BY <1>5, <1>6, <1>7, <1>8, <1>9

\* The other steps of the loop, and those after it.
LEMMA LoopResolver ==
  ASSUME ResolverInv, NEW r \in Resolvers,
         Timeout(r) \/ Receive(r) \/ Signal(r) \/ Unlink(r) \/ Return(r)
  PROVE  ResolverInv'
<1> USE OffersAssumption, NoneAssumption
    DEF ResolverInv, Goes, processVars, linkVars, netVars, Alive, Open, Locking, Ended
<1>1. CASE Timeout(r)
  <2>1. TypeOK' /\ LockInv' /\ LinkInv'
    BY <1>1 DEF Timeout, Discover, Redraw, TypeOK, LockInv, LinkInv, Unlinked, Frames
  <2>2. OfferInv' /\ OutputIsRequested'
    BY <1>1 DEF Timeout, Discover, Redraw, TypeOK, OfferInv, OutputIsRequested
  <2> QED BY <2>1, <2>2
<1>2. CASE ReceiveForeign(r)
  BY <1>2 DEF ReceiveForeign, TypeOK, LockInv, LinkInv, OfferInv, OutputIsRequested, Unlinked
<1>3. CASE ReceiveStray(r)
  BY <1>3 DEF ReceiveStray, Prints, TypeOK, LockInv, LinkInv, OfferInv, OutputIsRequested,
     Unlinked, Bodies
<1>4. ASSUME NEW o \in Offers, ReceiveOffer(r, o) PROVE ResolverInv'
  <2>1. TypeOK' /\ LinkInv'
    BY <1>4 DEF ReceiveOffer, Prints, Ends, Enters, TypeOK, LinkInv, Bodies
  <2>2. LockInv'
    BY <1>4 DEF ReceiveOffer, Ends, TypeOK, LockInv, Unlinked
  <2>3. OfferInv' /\ OutputIsRequested'
    BY <1>4 DEF ReceiveOffer, Prints, Ends, Enters, TypeOK, OfferInv, OutputIsRequested
  <2> QED BY <2>1, <2>2, <2>3
<1>5. ASSUME NEW b \in Bodies, ReceiveDown(r, b) PROVE ResolverInv'
  <2>1. TypeOK' /\ LinkInv'
    BY <1>5 DEF ReceiveDown, Prints, Ends, TypeOK, LinkInv
  <2>2. LockInv'
    BY <1>5 DEF ReceiveDown, Ends, TypeOK, LockInv, Unlinked
  <2>3. OfferInv' /\ OutputIsRequested'
    BY <1>5 DEF ReceiveDown, Prints, Ends, TypeOK, OfferInv, OutputIsRequested, Bodies
  <2> QED BY <2>1, <2>2, <2>3
<1>6. CASE Signal(r)
  <2>1. TypeOK' /\ LinkInv' /\ OfferInv' /\ OutputIsRequested'
    BY <1>6 DEF Signal, TypeOK, LinkInv, OfferInv, OutputIsRequested
  <2>2. LockInv'
    BY <1>6 DEF Signal, TypeOK, LockInv, Unlinked
  <2> QED BY <2>1, <2>2
<1>7. CASE Unlink(r)
  BY <1>7 DEF Unlink, TypeOK, LockInv, LinkInv, OfferInv, OutputIsRequested, Unlinked
<1>8. CASE Return(r)
  BY <1>8, EndsKeeps DEF Return
<1> QED BY <1>1, <1>2, <1>3, <1>4, <1>5, <1>6, <1>7, <1>8 DEF Receive

\* The link and the servers.
LEMMA NetworkResolver ==
  ASSUME ResolverInv, LinkChanges \/ Network PROVE ResolverInv'
<1> USE DEF ResolverInv, processVars, linkVars, netVars, Alive, Open, Locking, Ended
<1>1. CASE LinkChanges
  <2>1. PICK s \in Links : /\ link' = s
          /\ news' = [r \in Resolvers |-> IF pc[r] \in Alive THEN Append(news[r], s) ELSE news[r]]
    BY <1>1 DEF LinkChanges
  <2>2. \A r \in Resolvers : /\ Append(news[r], s) \in Seq(Links) /\ Append(news[r], s) # <<>>
                             /\ Append(news[r], s)[Len(Append(news[r], s))] = s
    <3> SUFFICES ASSUME NEW n \in Seq(Links)
                 PROVE  /\ Append(n, s) \in Seq(Links) /\ Append(n, s) # <<>>
                        /\ Append(n, s)[Len(Append(n, s))] = s
      BY DEF TypeOK
    <3>1. Append(n, s) \in Seq(Links) /\ Len(Append(n, s)) = Len(n) + 1
      BY <2>1
    <3>2. Append(n, s)[Len(n) + 1] = s
      BY <2>1
    <3> QED BY <3>1, <3>2
  <2>3. TypeOK' /\ LinkInv'
    BY <1>1, <2>1, <2>2 DEF LinkChanges, TypeOK, LinkInv
  <2>4. LockInv' /\ OfferInv' /\ OutputIsRequested'
    BY <1>1 DEF LinkChanges, TypeOK, LockInv, OfferInv, OutputIsRequested, Unlinked
  <2> QED BY <2>3, <2>4
<1>2. ASSUME NEW r \in Resolvers, NEW b \in Bodies, Answer(r, b) PROVE ResolverInv'
  BY <1>2 DEF Answer, TypeOK, LockInv, LinkInv, OfferInv, OutputIsRequested, Unlinked, Frames
<1>3. ASSUME NEW r \in Resolvers, Traffic(r) PROVE ResolverInv'
  BY <1>3, OffersAssumption
     DEF Traffic, TypeOK, LockInv, LinkInv, OfferInv, OutputIsRequested, Unlinked, Frames
<1>4. ASSUME NEW r \in Resolvers, Lose(r) PROVE ResolverInv'
  BY <1>4 DEF Lose, TypeOK, LockInv, LinkInv, OfferInv, OutputIsRequested, Unlinked
<1> QED BY <1>1, <1>2, <1>3, <1>4 DEF Network

\* Every step preserves the invariant.
LEMMA NextResolver == ASSUME ResolverInv, [Next]_vars PROVE ResolverInv'
<1>1. CASE Next
  BY <1>1, StartResolver, NewsResolver, LoopResolver, NetworkResolver DEF Next, Step
<1>2. CASE UNCHANGED vars
  BY <1>2 DEF vars, processVars, linkVars, netVars, ResolverInv, TypeOK, LockInv, LinkInv,
     OfferInv, OutputIsRequested, Unlinked
<1> QED BY <1>1, <1>2

-----------------------------------------------------------------------------

\* main.c:96-118, netlink.c:101-143, dhcpprotocol.c:292-371: the inductive
\* invariant holds for any number of processes and offers, and any bound on the
\* netlink messages that wait.
THEOREM ResolverInvariant == Spec => []ResolverInv
<1>1. Init => ResolverInv
  BY InitResolver
<1>2. ResolverInv /\ [Next]_vars => ResolverInv'
  BY NextResolver
<1> QED BY <1>1, <1>2, PTL DEF Spec

\* main.c:103-115: as long as no process has removed the pid file, at most one
\* has passed the lock.
THEOREM LockExcludes == Spec => []StartedOnceUntilUnlink
<1>1. ResolverInv => StartedOnceUntilUnlink
  BY DEF ResolverInv, LockInv, StartedOnceUntilUnlink, Locking, Open
<1> QED BY <1>1, ResolverInvariant, PTL

\* dhcpprotocol.c:292-371: a process that ends with output has requested an offer
\* made to its last DHCPDISCOVER, or found the link down.
THEOREM RequestedOutput == Spec => []OutputIsRequested
<1>1. ResolverInv => OutputIsRequested
  BY DEF ResolverInv
<1> QED BY <1>1, ResolverInvariant, PTL

-----------------------------------------------------------------------------
\* Where no process removes the path between another's open and its flock, every
\* step keeps PathInv.
LEMMA PathKept ==
  ASSUME TypeOK, PathInv, [Next]_vars,
         Unlinks => \A q \in Resolvers : pc[q] # "opened"
  PROVE  PathInv'
<1> USE NoneAssumption DEF PathInv, PastLock
<1>1. ASSUME NEW r \in Resolvers, OpenPidfile(r) PROVE PathInv'
  <2>1. PICK i \in Inodes : /\ path # None => i = path
                            /\ file' = [file EXCEPT ![r] = i] /\ path' = i
    BY <1>1 DEF OpenPidfile
  <2>2. pc[r] = "started" /\ pc' = [pc EXCEPT ![r] = "opened"]
    BY <1>1 DEF OpenPidfile, Goes
  <2> QED BY <2>1, <2>2 DEF TypeOK
<1>2. ASSUME NEW r \in Resolvers, Lock(r) PROVE PathInv'
  <2>1. CASE Held(file[r])
    <3>1. Ends(r, "failed") /\ path' = path
      BY <1>2, <2>1 DEF Lock
    <3>2. /\ pc'[r] = "failed"
          /\ \A q \in Resolvers \ {r} : pc'[q] = pc[q] /\ file'[q] = file[q]
      BY <3>1 DEF Ends, Goes, TypeOK
    <3> QED BY <3>1, <3>2
  <2>2. CASE ~Held(file[r])
    <3>1. \A q \in Resolvers : pc[q] \notin PastLock
      BY <1>2, <2>2 DEF Lock, Held, Locking
    <3> QED BY <1>2, <2>2, <3>1 DEF Lock, Goes, TypeOK
  <2> QED BY <2>1, <2>2
<1>3. ASSUME NEW r \in Resolvers, Unlink(r) PROVE PathInv'
  <2>1. \A q \in Resolvers \ {r} : pc[q] \notin {"opened"} \cup PastLock
    BY <1>3 DEF Unlink, Unlinks
  <2> QED BY <1>3, <2>1 DEF Unlink, Goes, TypeOK
<1>4. ASSUME NEW r \in Resolvers, Start(r) \/ OpenFails(r) \/ EnterFails(r) \/ Return(r)
      PROVE  PathInv'
  <2>1. /\ pc'[r] \in {"started", "failed", "returned"}
        /\ \A q \in Resolvers \ {r} : pc'[q] = pc[q] /\ file'[q] = file[q]
    BY <1>4 DEF Start, OpenFails, EnterFails, Return, Ends, Goes, TypeOK
  <2>2. path' = path
    BY <1>4 DEF Start, OpenFails, EnterFails, Return
  <2> QED BY <2>1, <2>2
<1>5. ASSUME NEW r \in Resolvers, Enter(r) \/ News(r) \/ Signal(r)
      PROVE  PathInv'
  <2>1. /\ pc[r] \in {"locked", "loop"}
        /\ \/ UNCHANGED pc
           \/ \E l \in {"loop", "end"} : Goes(r, l)
    BY <1>5 DEF Enter, News, Signal
  <2>2. UNCHANGED <<file, path>>
    BY <1>5 DEF Enter, News, Signal
  <2> QED BY <2>1, <2>2 DEF Goes, TypeOK
<1>6. ASSUME NEW r \in Resolvers, Timeout(r) \/ ReceiveForeign(r) \/ ReceiveStray(r)
      PROVE  PathInv'
  BY <1>6 DEF Timeout, ReceiveForeign, ReceiveStray
<1>7. ASSUME NEW r \in Resolvers, NEW b, ReceiveOffer(r, b) \/ ReceiveDown(r, b)
      PROVE  PathInv'
  BY <1>7 DEF ReceiveOffer, ReceiveDown, Ends, Goes, TypeOK
<1>8. CASE LinkChanges \/ Network \/ UNCHANGED vars
  BY <1>8 DEF LinkChanges, Network, Lose, Traffic, Answer, vars
<1> QED BY <1>1, <1>2, <1>3, <1>4, <1>5, <1>6, <1>7, <1>8 DEF Next, Step, Receive

\* CHANGES:34-35: the daemon is started only once per interface, signals and a
\* link that is shut included, unless a process removes the path between
\* another's open and its flock.
THEOREM ApartStartsOnce == Spec /\ UnlinksApart => []StartedOnce
<1>1. Init => PathInv
  BY DEF Init, PathInv, PastLock
<1>2. ResolverInv => TypeOK
  BY DEF ResolverInv
<1>3. PathInv => StartedOnce
  BY DEF PathInv, StartedOnce, PastLock
<1>4. TypeOK /\ PathInv /\ [Next]_vars
        /\ [Unlinks => \A q \in Resolvers : pc[q] # "opened"]_vars => PathInv'
  <2>1. CASE UNCHANGED vars
    BY <2>1 DEF vars, PathInv
  <2> QED BY <2>1, PathKept
<1> QED BY <1>1, <1>2, <1>3, <1>4, ResolverInvariant, PTL DEF Spec, UnlinksApart
=============================================================================
