------------------------------ MODULE XTablesProofs -----------------------------
(***************************************************************************)
(* Rules in the kernel are those of Chains that somebody holds, and stay   *)
(* as long as their owners, for any number of owners, chains and rules.    *)
(***************************************************************************)
EXTENDS XTables, TLAPS

\* There is nothing at first.
LEMMA InitXTables == ASSUME Init PROVE XTablesInv
<1>1. TypeOK
  <2>1. 0 \in 0..MaxRules
    BY RulesAssumption
  <2> QED BY <2>1 DEF Init, TypeOK
<1>2. RulesGo
  BY DEF Init, RulesGo
<1>3. LockInv /\ OwnInv /\ IdInv
  BY DEF Init, LockInv, OwnInv, IdInv, RulesOf
<1> QED BY <1>1, <1>2, <1>3 DEF XTablesInv

\* getChain moves pointers only.
LEMMA GetChain ==
  ASSUME XTablesInv, NEW o \in Owners, Make(o) \/ \E n \in Names : Share(o, n) \/ Miss(o, n)
  PROVE  XTablesInv'
<1> USE DEF XTablesInv, At, Goto, objectVars, threadVars
<1>1. /\ \A p \in Owners : holds[p] \subseteq holds'[p]
      /\ pc[o] \in {"idle", "make"} /\ pc'[o] \in {"idle", "make"}
      /\ \A p \in Owners \ {o} : pc'[p] = pc[p] /\ name'[p] = name[p]
      /\ UNCHANGED <<package_rules, rule_id, kernel, chain, rule, index, loaded, added, mine,
                     stuck, lost>>
  BY DEF TypeOK, Share, Miss, Make
<1>2. TypeOK' /\ (pc'[o] = "make" => name'[o] \in Names)
  <2>1. ASSUME NEW n \in Names, Share(o, n) PROVE TypeOK' /\ pc'[o] # "make"
    BY <2>1 DEF TypeOK, Share
  <2>2. ASSUME NEW n \in Names, Miss(o, n) PROVE TypeOK' /\ name'[o] \in Names
    BY <2>2 DEF TypeOK, Miss
  <2>3. CASE Make(o)
    <3>1. <<o, name[o]>> \in Chains
      BY <2>3 DEF Make, LockInv, Chains
    <3> QED BY <2>3, <3>1 DEF TypeOK, Make
  <2> QED BY <2>1, <2>2, <2>3
<1>3. RulesGo'
  BY <1>1 DEF RulesGo, RulesOf, Live
<1>4. LockInv'
  BY <1>1, <1>2 DEF LockInv
<1>5. OwnInv'
  BY <1>1 DEF OwnInv, RulesOf
<1>6. IdInv'
  BY <1>1 DEF IdInv
<1> QED BY <1>2, <1>3, <1>4, <1>5, <1>6

\* A thread that takes the mutex finds every id of the Chain below rule_id.
LEMMA AddRuleXTables ==
  ASSUME XTablesInv, NEW o \in Owners, NEW x \in Chains, AddRule(o, x) PROVE XTablesInv'
<1> USE NoneAssumption DEF XTablesInv, AddRule, At, Goto, objectVars
<1>1. TypeOK' /\ added + 1 \in Rules
  BY RulesAssumption DEF TypeOK, Rules
<1>2. RulesGo'
  BY DEF RulesGo, RulesOf, Live
<1>3. LockInv'
  BY DEF LockInv, TypeOK, Locked
<1>4. OwnInv'
  BY DEF OwnInv, TypeOK, RulesOf, Rules
<1>5. IdInv'
  BY DEF IdInv, LockInv, TypeOK, Locked
<1> QED BY <1>1, <1>2, <1>3, <1>4, <1>5

\* One that gives it back has a rule fewer on its way, or has counted.
LEMMA UnlocksXTables ==
  ASSUME XTablesInv, NEW o \in Owners, Fails(o) \/ Store(o) PROVE XTablesInv'
<1> USE NoneAssumption DEF XTablesInv, At, Goto, objectVars, Unlocks
<1>1. /\ TypeOK'
      /\ chain' = [chain EXCEPT ![o] = None] /\ pc' = [pc EXCEPT ![o] = "idle"]
      /\ chain[o] # None
      /\ UNCHANGED <<package_rules, kernel, holds, added, mine, stuck, name>>
      /\ \A p \in Owners \ {o} : rule'[p] = rule[p] /\ index'[p] = index[p] /\ loaded'[p] = loaded[p]
      /\ lost => lost'
  <2>1. chain[o] # None /\ 0 \in 0..MaxRules
    BY RulesAssumption DEF Fails, Store, LockInv
  <2>2. CASE Fails(o)
    BY <2>1, <2>2 DEF TypeOK, Fails
  <2>3. CASE Store(o)
    BY <2>1, <2>3 DEF TypeOK, Store
  <2> QED BY <2>2, <2>3
<1>2. RulesGo'
  BY <1>1 DEF RulesGo, RulesOf, Live
<1>3. LockInv'
  BY <1>1 DEF LockInv, TypeOK
<1>4. OwnInv'
  BY <1>1 DEF OwnInv, TypeOK, RulesOf
<1>5. IdInv'
  <2>1. CASE Fails(o)
    BY <1>1, <2>1 DEF IdInv, TypeOK, Fails, LockInv
  <2>2. CASE Store(o)
    <3>1. SUFFICES ASSUME ~lost' PROVE IdInv'
      BY DEF IdInv
    <3>2. ~lost /\ rule_id' = rule_id + 1
      BY <2>2, <3>1 DEF Store
    <3> QED BY <1>1, <2>2, <3>2 DEF IdInv, TypeOK, LockInv
  <2> QED BY <2>1, <2>2
<1> QED BY <1>1, <1>2, <1>3, <1>4, <1>5

\* What it reads is not above rule_id.
LEMMA LoadXTables == ASSUME XTablesInv, NEW o \in Owners, Load(o) PROVE XTablesInv'
<1> USE NoneAssumption DEF XTablesInv, Load, At, Goto, objectVars
<1>1. TypeOK' /\ RulesGo' /\ LockInv'
  BY DEF TypeOK, RulesGo, RulesOf, Live, LockInv
<1>2. OwnInv'
  BY DEF OwnInv, TypeOK, RulesOf
<1>3. IdInv'
  BY DEF IdInv, TypeOK, LockInv
<1> QED BY <1>1, <1>2, <1>3

\* A new rule: as long as no increment was lost its id was free.
LEMMA InsertXTables == ASSUME XTablesInv, NEW o \in Owners, Insert(o) PROVE XTablesInv'
<1> USE NoneAssumption DEF XTablesInv, At, Goto
<1>1. PICK x \in Chains, r \in Rules :
        x = chain[o] /\ r = rule[o] /\ pc[o] = "iptables" /\ x \in holds[o] /\ r \in 1..added
  BY DEF Insert, LockInv, OwnInv, TypeOK, Rules
<1>2. PICK k \in {index[o], rule_id} :
        /\ package_rules' = [package_rules EXCEPT
             ![x] = (@ \ {e \in package_rules[x] : e[1] = k}) \cup {<<k, r>>}]
        /\ Removes({e[2] : e \in {f \in package_rules[x] : f[1] = k}}, kernel \cup {r})
  BY <1>1 DEF Insert
<1> DEFINE old  == {e \in package_rules[x] : e[1] = k}
           gone == {e[2] : e \in old}
<1>3. PICK failed \in SUBSET gone : /\ kernel' = (kernel \cup {r}) \ (gone \ failed)
                                    /\ stuck' = stuck \cup failed
  BY <1>2 DEF Removes
<1>4. /\ k \in Nat /\ gone \subseteq RulesOf(x) /\ gone \subseteq Rules
      /\ package_rules'[x] = (package_rules[x] \ old) \cup {<<k, r>>}
      /\ \A y \in Chains \ {x} : package_rules'[y] = package_rules[y]
      /\ UNCHANGED <<registry, holds, rule_id, name, chain, rule, index, loaded, added, lost,
                     crashed>>
      /\ pc' = [pc EXCEPT ![o] = "count"] /\ mine' = [mine EXCEPT ![o] = @ \cup {r}]
  BY <1>1, <1>2 DEF Insert, TypeOK, RulesOf
<1>5. ~lost => old = {}
  BY <1>1 DEF IdInv, TypeOK
<1>6. TypeOK'
  <2>1. package_rules' \in [Chains -> SUBSET (Nat \X Rules)]
    BY <1>1, <1>2, <1>4 DEF TypeOK
  <2> QED BY <1>1, <1>3, <1>4, <2>1 DEF TypeOK
<1>7. RulesOf(x)' \subseteq RulesOf(x) \cup {r} /\ RulesOf(x) \subseteq RulesOf(x)' \cup gone
      /\ r \in RulesOf(x)' /\ \A y \in Chains \ {x} : RulesOf(y)' = RulesOf(y)
  <2>1. <<k, r>> \in package_rules'[x] /\ <<k, r>>[2] = r
    BY <1>4
  <2>2. \A e \in package_rules'[x] : e \in package_rules[x] \/ e[2] = r
    BY <1>4
  <2>3. \A e \in package_rules[x] : e \in package_rules'[x] \/ e[2] \in gone
    BY <1>4
  <2> QED BY <1>4, <2>1, <2>2, <2>3 DEF RulesOf
<1>8. RulesGo'
  <2>1. \A y \in Chains : Live(y)' <=> Live(y)
    BY <1>4 DEF Live
  <2>2. Live(x)
    BY <1>1 DEF Live
  <2> QED BY <1>1, <1>3, <1>7, <2>1, <2>2 DEF RulesGo
<1>9. LockInv'
  BY <1>1, <1>4 DEF LockInv, TypeOK
<1>10. OwnInv'
  <2>1. \A y, z \in Chains : \A e \in package_rules'[y], f \in package_rules'[z] :
          e[2] = f[2] => y = z /\ e = f
    BY <1>1, <1>4 DEF OwnInv, RulesOf
  <2>2. \A y \in Chains : \A e \in package_rules'[y] : e[2] <= added
    BY <1>1, <1>4 DEF OwnInv, TypeOK
  <2>3. \A p \in Owners : pc'[p] = "iptables" =>
          /\ rule[p] \in 1..added
          /\ \A y \in Chains : rule[p] \notin RulesOf(y)'
          /\ \A q \in Owners \ {p} : pc'[q] = "iptables" => rule[q] # rule[p]
    <3> SUFFICES ASSUME NEW p \in Owners, pc'[p] = "iptables"
                 PROVE  /\ rule[p] \in 1..added
                        /\ \A y \in Chains : rule[p] \notin RulesOf(y)'
                        /\ \A q \in Owners \ {p} : pc'[q] = "iptables" => rule[q] # rule[p]
      OBVIOUS
    <3>1. pc'[o] = "count" /\ \A q \in Owners \ {o} : pc'[q] = pc[q]
      BY <1>4 DEF TypeOK
    <3>2. p # o /\ pc[p] = "iptables"
      BY <3>1
    <3>3. rule[p] # r /\ rule[p] \in 1..added /\ \A y \in Chains : rule[p] \notin RulesOf(y)
      BY <1>1, <3>2 DEF OwnInv
    <3>4. \A y \in Chains : RulesOf(y)' \subseteq RulesOf(y) \cup {r}
      BY <1>7
    <3>5. \A q \in Owners \ {p} : pc'[q] = "iptables" => rule[q] # rule[p]
      BY <3>1, <3>2 DEF OwnInv
    <3> QED BY <3>3, <3>4, <3>5
  <2>4. ~lost => /\ \A p \in Owners : \A s \in mine'[p] : \E y \in holds[p] : s \in RulesOf(y)'
                 /\ \A y \in Chains : RulesOf(y)' \subseteq kernel'
    <3>1. SUFFICES ASSUME ~lost
                   PROVE  /\ \A p \in Owners : \A s \in mine'[p] :
                               \E y \in holds[p] : s \in RulesOf(y)'
                          /\ \A y \in Chains : RulesOf(y)' \subseteq kernel'
      OBVIOUS
    <3>2. gone = {} /\ kernel' = kernel \cup {r}
      BY <1>3, <1>5, <3>1
    <3>3. \A y \in Chains : RulesOf(y) \subseteq RulesOf(y)'
      BY <1>7, <3>2
    <3>4. \A p \in Owners : holds[p] \subseteq Chains
      BY DEF TypeOK
    <3> QED BY <1>1, <1>4, <1>7, <3>1, <3>2, <3>3, <3>4 DEF OwnInv, TypeOK
  <2> QED BY <1>4, <2>1, <2>2, <2>3, <2>4 DEF OwnInv
<1>11. IdInv'
  <2>1. SUFFICES ASSUME ~lost PROVE IdInv'
    BY <1>4 DEF IdInv
  <2>2. k <= rule_id
    BY <1>1, <2>1 DEF IdInv, TypeOK
  <2> QED BY <1>1, <1>4, <2>1, <2>2 DEF IdInv, TypeOK, LockInv
<1> QED BY <1>6, <1>8, <1>9, <1>10, <1>11

\* An owner that goes takes the rules of Chains that nobody else has.
LEMMA DropXTables == ASSUME XTablesInv, NEW o \in Owners, Drop(o) PROVE XTablesInv'
<1> USE NoneAssumption DEF XTablesInv, At
<1> DEFINE dead == {x \in holds[o] : \A p \in Owners \ {o} : x \notin holds[p]}
           gone == UNION {RulesOf(x) : x \in dead}
<1>1. PICK failed \in SUBSET gone : kernel' = kernel \ (gone \ failed) /\ stuck' = stuck \cup failed
  BY DEF Drop, Removes
<1>2. /\ pc[o] = "idle" /\ chain[o] = None
      /\ holds' = [holds EXCEPT ![o] = {}] /\ mine' = [mine EXCEPT ![o] = {}]
      /\ package_rules' = [x \in Chains |-> IF x \in dead THEN {} ELSE package_rules[x]]
      /\ UNCHANGED <<registry, rule_id, threadVars, added, lost, crashed>>
      /\ dead \subseteq Chains
  BY DEF Drop, LockInv, TypeOK
<1>3. /\ \A x \in dead : RulesOf(x)' = {} /\ package_rules'[x] = {}
      /\ \A x \in Chains \ dead : RulesOf(x)' = RulesOf(x) /\ package_rules'[x] = package_rules[x]
  BY <1>2 DEF RulesOf
<1>4. TypeOK'
  <2>1. gone \subseteq Rules
    BY <1>2 DEF RulesOf, TypeOK
  <2>2. package_rules' \in [Chains -> SUBSET (Nat \X Rules)]
    BY <1>2 DEF TypeOK
  <2> QED BY <1>1, <1>2, <2>1, <2>2 DEF TypeOK, threadVars
<1>5. RulesGo'
  <2>1. \A x \in Chains : Live(x) /\ x \notin dead => Live(x)'
    BY <1>2 DEF Live, TypeOK
  <2> QED BY <1>1, <1>2, <1>3, <2>1 DEF RulesGo
<1>6. LockInv'
  BY <1>2 DEF LockInv, TypeOK, threadVars
<1>7. OwnInv'
  <2>1. \A x \in Chains : RulesOf(x)' \subseteq RulesOf(x) /\ package_rules'[x] \subseteq package_rules[x]
    BY <1>3
  <2>2. ~lost => \A p \in Owners : \A s \in mine'[p] : \E x \in holds'[p] : s \in RulesOf(x)'
    <3>1. \A p \in Owners \ {o} : mine'[p] = mine[p] /\ holds'[p] = holds[p]
                                  /\ holds[p] \cap dead = {} /\ holds[p] \subseteq Chains
      BY <1>2 DEF TypeOK
    <3>2. mine'[o] = {}
      BY <1>2 DEF TypeOK
    <3> QED BY <1>3, <3>1, <3>2 DEF OwnInv
  <2>3. ~lost => \A x \in Chains : RulesOf(x)' \subseteq kernel'
    <3>1. \A x \in Chains \ dead : RulesOf(x) \cap gone = {}
      BY <1>2 DEF OwnInv, RulesOf
    <3> QED BY <1>1, <1>3, <3>1 DEF OwnInv
  <2> QED BY <1>2, <2>1, <2>2, <2>3 DEF OwnInv, threadVars
<1>8. IdInv'
  BY <1>2, <1>3 DEF IdInv, LockInv, TypeOK, threadVars
<1> QED BY <1>4, <1>5, <1>6, <1>7, <1>8

\* Every step preserves the invariant.
LEMMA NextXTables == ASSUME XTablesInv, [Next]_vars PROVE XTablesInv'
<1>1. CASE Crash
  BY <1>1 DEF Crash, XTablesInv, TypeOK, RulesGo, RulesOf, Live, LockInv, OwnInv, IdInv,
     objectVars, threadVars
<1>2. ASSUME NEW o \in Owners, Step(o) PROVE XTablesInv'
  BY <1>2, GetChain, AddRuleXTables, UnlocksXTables, LoadXTables, InsertXTables, DropXTables
     DEF Step
<1>3. CASE UNCHANGED vars
  BY <1>3 DEF vars, XTablesInv, TypeOK, RulesGo, RulesOf, Live, LockInv, OwnInv, IdInv,
     objectVars, threadVars
<1> QED BY <1>1, <1>2, <1>3 DEF Next

\* Rules, ids and who holds the Chains agree in every reachable state.
THEOREM XTablesInvariant == Spec => []XTablesInv
BY InitXTables, NextXTables, PTL DEF Spec

\* A rule stays as long as the owner that added it, unless an increment of the
\* ids was lost.
THEOREM RulesAlwaysKept == Spec => []RulesKept
<1>1. XTablesInv => RulesKept
  BY DEF XTablesInv, OwnInv, RulesKept, RulesStay, TypeOK
<1> QED BY <1>1, XTablesInvariant, PTL

\* No rule stays behind the Chains that know it.
THEOREM RulesAlwaysGo == Spec => []RulesGo
<1>1. XTablesInv => RulesGo
  BY DEF XTablesInv
<1> QED BY <1>1, XTablesInvariant, PTL

-----------------------------------------------------------------------------
(* What one mutex would do for the ids. *)

\* Where one addRule() at a time is under way its store finds the id that it
\* has loaded.
LEMMA StepSerial ==
  ASSUME XTablesInv, SerialAdds, SerialInv, [Next]_vars
  PROVE  SerialInv'
<1> USE DEF SerialInv, At, Goto, objectVars, threadVars
<1>1. CASE Crash \/ UNCHANGED vars
  BY <1>1 DEF Crash, vars
<1>2. ASSUME NEW o \in Owners,
             Make(o) \/ Drop(o) \/ \E n \in Names : Share(o, n) \/ Miss(o, n)
      PROVE  SerialInv'
  <2>1. /\ UNCHANGED <<lost, loaded, rule_id>>
        /\ \A p \in Owners : pc'[p] = "store" => pc[p] = "store"
    BY <1>2 DEF Make, Drop, Share, Miss, XTablesInv, TypeOK
  <2> QED BY <2>1
<1>3. ASSUME NEW o \in Owners, Insert(o) \/ \E x \in Chains : AddRule(o, x)
      PROVE  SerialInv'
  <2>1. /\ UNCHANGED <<lost, loaded, rule_id>>
        /\ \A p \in Owners : pc'[p] = "store" => pc[p] = "store"
    BY <1>3 DEF Insert, AddRule, XTablesInv, TypeOK
  <2> QED BY <2>1
<1>4. ASSUME NEW o \in Owners, Load(o)
      PROVE  SerialInv'
  BY <1>4 DEF Load, XTablesInv, TypeOK
<1>5. ASSUME NEW o \in Owners, Fails(o)
      PROVE  SerialInv'
  BY <1>5 DEF Fails, Unlocks, XTablesInv, TypeOK
<1>6. ASSUME NEW o \in Owners, Store(o)
      PROVE  SerialInv'
  <2>1. /\ pc[o] = "store" /\ lost' = (lost \/ rule_id # loaded[o])
        /\ pc' = [pc EXCEPT ![o] = "idle"]
    BY <1>6 DEF Store, Unlocks
  <2>2. \A p \in Owners : pc[p] = "store" => p = o
    BY <2>1 DEF SerialAdds, XTablesInv, LockInv
  <2>3. \A p \in Owners : pc'[p] # "store"
    BY <2>1, <2>2 DEF XTablesInv, TypeOK
  <2> QED BY <2>1, <2>3
<1> QED BY <1>1, <1>2, <1>3, <1>4, <1>5, <1>6 DEF Next, Step

\* With one mutex for all Chains no increment would be lost, and every rule would
\* stay as long as its owner.
THEOREM SerialAddsKeepRules == Spec /\ []SerialAdds => []RulesStay
<1>1. Init => SerialInv
  BY DEF Init, SerialInv
<1>2. XTablesInv /\ SerialAdds /\ SerialInv /\ [Next]_vars => SerialInv'
  BY StepSerial
<1>3. SerialInv /\ RulesKept => RulesStay
  BY DEF SerialInv, RulesKept
<1> QED BY <1>1, <1>2, <1>3, XTablesInvariant, RulesAlwaysKept, PTL DEF Spec

\* A process that never has two Chains, as one with the switcher alone, needs no
\* such mutex.
THEOREM OneChainKeepsRules == Spec /\ []OneChain => []RulesStay
<1>1. XTablesInv /\ OneChain => SerialAdds
  BY DEF XTablesInv, TypeOK, LockInv, OneChain, SerialAdds, Live
<1> QED BY <1>1, XTablesInvariant, SerialAddsKeepRules, PTL
=============================================================================
