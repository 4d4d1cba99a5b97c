--------------------------------- MODULE XTables --------------------------------
(***************************************************************************)
(* XTables (src/src/XTables): Table hands out the Chain objects of a       *)
(* table, Chain adds rules to its chain with iptables and remembers them   *)
(* under ids that all chains draw from one static counter; a ChainRule     *)
(* takes its rule away again when it goes.  The switcher's thread uses     *)
(* one chain of "nat", and the threads that configure the routing          *)
(* specializer share two of "mangle".                                      *)
(*                                                                         *)
(* An owner is a TrafficSpecialization or a switcher, together with the    *)
(* thread that calls for it; where one has gone another may follow.  A     *)
(* rule is known by the number of the addRule that it was for: iptables -D *)
(* removes one of equal rules, and which one makes no difference.  A Chain *)
(* is known by its creator and its name, since a table makes none for a    *)
(* name that it has.                                                       *)
(***************************************************************************)
EXTENDS Integers

CONSTANTS
  Owners,
  Names,     \* of chains, all of them built into the kernel
  Table,     \* the table of each name
  Uses,      \* the names that each owner asks for
  None,      \* no Chain
  MaxRules   \* how many rules are added at most

Chains == Owners \X Names
Rules  == 1..MaxRules

ASSUME NoneAssumption  == None \notin Chains
ASSUME UsesAssumption  == Uses \in [Owners -> SUBSET Names]
ASSUME RulesAssumption == MaxRules \in Nat

VARIABLES
  registry,      \* Table::chains, a weak pointer by name
  holds,         \* the Chains of each owner's shared pointers
  package_rules, \* <<id, rule>>, by Chain
  rule_id,
  kernel,        \* the rules that iptables has, of all chains
  (* each owner's thread *)
  pc,
  name,          \* that it makes a Chain for
  chain,         \* whose mutex it has
  rule, index,   \* the rule that it adds, and rule_id when it began
  loaded,        \* rule_id as rule_id++ has read it
  (* history *)
  added,         \* the number of rules so far
  mine,          \* the rules that each owner has added
  stuck,         \* rules that iptables failed to remove
  lost,          \* has an increment of rule_id been lost?
  crashed

objectVars == <<registry, holds, package_rules>>
threadVars == <<pc, name, chain, rule, index, loaded>>
vars == <<objectVars, rule_id, kernel, threadVars, added, mine, stuck, lost, crashed>>

TypeOK ==
  /\ registry \in [Names -> Chains \cup {None}]
  /\ holds \in [Owners -> SUBSET Chains]
  /\ package_rules \in [Chains -> SUBSET (Nat \X Rules)]
  /\ rule_id \in Nat
  /\ kernel \subseteq Rules
  /\ pc \in [Owners -> {"idle", "make", "iptables", "count", "store"}]
  /\ name \in [Owners -> Names \cup {None}]
  /\ chain \in [Owners -> Chains \cup {None}]
  /\ rule \in [Owners -> 0..MaxRules]
  /\ index \in [Owners -> Nat]
  /\ loaded \in [Owners -> Nat]
  /\ added \in 0..MaxRules
  /\ mine \in [Owners -> SUBSET Rules]
  /\ stuck \subseteq Rules
  /\ lost \in BOOLEAN
  /\ crashed \in BOOLEAN

Init ==
  /\ registry = [n \in Names |-> None]
  /\ holds = [o \in Owners |-> {}]
  /\ package_rules = [x \in Chains |-> {}]
  /\ rule_id = 0 /\ kernel = {}
  /\ pc = [o \in Owners |-> "idle"]
  /\ name = [o \in Owners |-> None] /\ chain = [o \in Owners |-> None]
  /\ rule = [o \in Owners |-> 0] /\ index = [o \in Owners |-> 0]
  /\ loaded = [o \in Owners |-> 0]
  /\ added = 0 /\ mine = [o \in Owners |-> {}] /\ stuck = {}
  /\ lost = FALSE /\ crashed = FALSE

At(o, l)   == ~crashed /\ pc[o] = l
Goto(o, l) == pc' = [pc EXCEPT ![o] = l]

RulesOf(x) == {e[2] : e \in package_rules[x]}
Live(x)   == \E o \in Owners : x \in holds[o]
Locked(x) == \E o \in Owners : chain[o] = x

-----------------------------------------------------------------------------
(* Table::getChain *)

\* A Chain that lives is shared,
Share(o, n) ==
  /\ At(o, "idle") /\ n \in Uses[o]
  /\ registry[n] # None /\ Live(registry[n])
  /\ holds' = [holds EXCEPT ![o] = @ \cup {registry[n]}]
  /\ UNCHANGED <<registry, package_rules, rule_id, kernel, threadVars, added, mine, stuck,
                 lost, crashed>>

\* of one that has died the null pointer is used,
Expired(o, n) ==
  /\ At(o, "idle") /\ n \in Uses[o]
  /\ registry[n] # None /\ ~Live(registry[n])

\* and a name that is not in the map throws out_of_range.
Miss(o, n) ==
  /\ At(o, "idle") /\ n \in Uses[o]
  /\ registry[n] = None
  /\ Goto(o, "make")
  /\ name' = [name EXCEPT ![o] = n]
  /\ UNCHANGED <<objectVars, rule_id, kernel, chain, rule, index, loaded, added, mine, stuck,
                 lost, crashed>>

\* The handler puts a new Chain there, also where another thread was faster.
Make(o) ==
  /\ At(o, "make")
  /\ registry' = [registry EXCEPT ![name[o]] = <<o, name[o]>>]
  /\ holds' = [holds EXCEPT ![o] = @ \cup {<<o, name[o]>>}]
  /\ Goto(o, "idle")
  /\ name' = [name EXCEPT ![o] = None]
  /\ UNCHANGED <<package_rules, rule_id, kernel, chain, rule, index, loaded, added, mine,
                 stuck, lost, crashed>>

\* Two insertions into one std::map, undefined: the process may die.
Race(o, p) ==
  /\ o # p /\ At(o, "make") /\ At(p, "make")
  /\ Table[name[o]] = Table[name[p]]

Crash ==
  /\ \E o, p \in Owners, n \in Names : Expired(o, n) \/ Race(o, p)
  /\ crashed' = TRUE
  /\ UNCHANGED <<objectVars, rule_id, kernel, threadVars, added, mine, stuck, lost>>

-----------------------------------------------------------------------------
(* Chain::addRule *)

\* package_rules_mutex, of this Chain only.
AddRule(o, x) ==
  /\ At(o, "idle")
  /\ x \in holds[o]
  /\ ~Locked(x)
  /\ added < MaxRules
  /\ Goto(o, "iptables")
  /\ added' = added + 1
  /\ chain' = [chain EXCEPT ![o] = x]
  /\ rule' = [rule EXCEPT ![o] = added + 1]
  /\ index' = [index EXCEPT ![o] = rule_id]
  /\ UNCHANGED <<objectVars, rule_id, kernel, name, loaded, mine, stuck, lost, crashed>>

Unlocks(o) ==
  /\ Goto(o, "idle")
  /\ chain' = [chain EXCEPT ![o] = None]
  /\ rule' = [rule EXCEPT ![o] = 0]
  /\ index' = [index EXCEPT ![o] = 0]
  /\ loaded' = [loaded EXCEPT ![o] = 0]

\* iptables -A fails, and ChainRule's constructor throws.
Fails(o) ==
  /\ At(o, "iptables")
  /\ Unlocks(o)
  /\ UNCHANGED <<objectVars, rule_id, kernel, name, added, mine, stuck, lost, crashed>>

\* ~ChainRule: iptables -D for each of these, which may fail unnoticed.
Removes(gone, rest) ==
  \E failed \in SUBSET gone : /\ kernel' = rest \ (gone \ failed)
                              /\ stuck' = stuck \cup failed

\* The new rule takes the place of its id.  The id is read before or after
\* iptables has run, which C++11 leaves open; a rule that had it goes.
Insert(o) ==
  LET x == chain[o]
  IN /\ At(o, "iptables")
     /\ \E k \in {index[o], rule_id} :
          LET old == {e \in package_rules[x] : e[1] = k}
          IN /\ package_rules' = [package_rules EXCEPT ![x] = (@ \ old) \cup {<<k, rule[o]>>}]
             /\ Removes({e[2] : e \in old}, kernel \cup {rule[o]})
     /\ mine' = [mine EXCEPT ![o] = @ \cup {rule[o]}]
     /\ Goto(o, "count")
     /\ UNCHANGED <<registry, holds, rule_id, name, chain, rule, index, loaded, added, lost,
                    crashed>>

\* rule_id++ is a load
Load(o) ==
  /\ At(o, "count")
  /\ Goto(o, "store")
  /\ loaded' = [loaded EXCEPT ![o] = rule_id]
  /\ UNCHANGED <<objectVars, rule_id, kernel, name, chain, rule, index, added, mine, stuck,
                 lost, crashed>>

\* Mutant: addRule returns rule_id as it is.
StoreSame(o) ==
  /\ At(o, "store")
  /\ Unlocks(o)
  /\ UNCHANGED <<objectVars, rule_id, kernel, name, added, mine, stuck, lost, crashed>>

\* and a store, with nothing that keeps the users of other chains away.
Store(o) ==
  /\ At(o, "store")
  /\ rule_id' = loaded[o] + 1
  /\ lost' = (lost \/ rule_id # loaded[o])
  /\ Unlocks(o)
  /\ UNCHANGED <<objectVars, kernel, name, added, mine, stuck, crashed>>

\* Mutant: the destructor of a Chain forgets its rules.
DropForgets(o) ==
  LET dead == {x \in holds[o] : \A p \in Owners \ {o} : x \notin holds[p]}
  IN /\ At(o, "idle")
     /\ holds[o] # {}
     /\ holds' = [holds EXCEPT ![o] = {}]
     /\ package_rules' = [x \in Chains |-> IF x \in dead THEN {} ELSE package_rules[x]]
     /\ mine' = [mine EXCEPT ![o] = {}]
     /\ UNCHANGED <<registry, rule_id, kernel, threadVars, added, stuck, lost, crashed>>

\* An owner goes, when it is destroyed or when an exception leaves its
\* constructor; ~Chain, of those that nobody else has, drops their rules.
Drop(o) ==
  LET dead == {x \in holds[o] : \A p \in Owners \ {o} : x \notin holds[p]}
  IN /\ At(o, "idle")
     /\ holds[o] # {}
     /\ holds' = [holds EXCEPT ![o] = {}]
     /\ package_rules' = [x \in Chains |-> IF x \in dead THEN {} ELSE package_rules[x]]
     /\ Removes(UNION {RulesOf(x) : x \in dead}, kernel)
     /\ mine' = [mine EXCEPT ![o] = {}]
     /\ UNCHANGED <<registry, rule_id, threadVars, added, lost, crashed>>

Step(o) ==
  \/ \E n \in Names : Share(o, n) \/ Miss(o, n)
  \/ Make(o)
  \/ \E x \in Chains : AddRule(o, x)
  \/ Fails(o) \/ Insert(o) \/ Load(o) \/ Store(o)
  \/ Drop(o)

Next == (\E o \in Owners : Step(o)) \/ Crash

Spec == Init /\ [][Next]_vars

-----------------------------------------------------------------------------
(* Properties *)

\* A rule that an owner has added is there as long as the owner, whoever else
\* adds to the chain or drops it, and whichever command fails: unless an
\* increment of the ids was lost, after which a new rule may push out an old one
\* (Chain.cpp:20-21).
RulesStay == \A o \in Owners : mine[o] \subseteq kernel
RulesKept == ~lost => RulesStay

\* What would keep every increment: one mutex for all Chains, in place of the
\* one that each has (Chain.cpp:18), or no second Chain beside the first.
SerialAdds == \A o, p \in Owners : chain[o] # None /\ chain[p] # None => o = p
OneChain == \A x, y \in Chains : Live(x) /\ Live(y) => x = y
\* The invariant behind that: rule_id is still what rule_id++ has read.
SerialInv == ~lost /\ \A o \in Owners : pc[o] = "store" => loaded[o] = rule_id

\* No rule stays behind: one that is in the kernel is known to a Chain that
\* somebody holds, however often it was added and under whichever id, or
\* iptables failed to remove it (ChainRule.cpp:17-33).
RulesGo ==
  kernel \subseteq stuck \cup UNION {RulesOf(x) : x \in {y \in Chains : Live(y)}}

\* Who is in addRule has the mutex of a Chain that it holds, alone.
LockInv == \A o \in Owners :
  /\ pc[o] \in {"iptables", "count", "store"} <=> chain[o] # None
  /\ chain[o] # None => chain[o] \in holds[o]
  /\ pc[o] = "make" => name[o] \in Names
  /\ \A p \in Owners \ {o} : chain[o] # None => chain[o] # chain[p]

\* A rule is of one Chain and under one id, an owner's are of Chains that it has.
OwnInv ==
  /\ \A x, y \in Chains : \A e \in package_rules[x], f \in package_rules[y] :
       e[2] = f[2] => x = y /\ e = f
  /\ \A x \in Chains : \A e \in package_rules[x] : e[2] <= added
  /\ \A o \in Owners : pc[o] = "iptables" =>
       /\ rule[o] \in 1..added
       /\ \A x \in Chains : rule[o] \notin RulesOf(x)
       /\ \A p \in Owners \ {o} : pc[p] = "iptables" => rule[p] # rule[o]
  /\ ~lost => \A o \in Owners : \A r \in mine[o] : \E x \in holds[o] : r \in RulesOf(x)
  /\ ~lost => \A x \in Chains : RulesOf(x) \subseteq kernel

\* An id is below rule_id when somebody begins to add under it.
IdInv == ~lost =>
  /\ \A x \in Chains : \A e \in package_rules[x] :
       \/ e[1] < rule_id
       \/ e[1] = rule_id /\ \E o \in Owners : chain[o] = x /\ pc[o] \in {"count", "store"}
  /\ \A o \in Owners : pc[o] = "iptables" =>
       /\ index[o] <= rule_id
       /\ \A e \in package_rules[chain[o]] : e[1] < index[o]
  /\ \A o \in Owners : pc[o] = "store" => loaded[o] <= rule_id

\* The inductive invariant behind the two.
XTablesInv == TypeOK /\ RulesGo /\ LockInv /\ OwnInv /\ IdInv
================================================================================
