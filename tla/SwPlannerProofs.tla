--------------------------- MODULE SwPlannerProofs ---------------------------
(***************************************************************************)
(* What holds of every plan, of whatever request it is built.              *)
(***************************************************************************)
EXTENDS SwPlanner, TLAPS, WellFoundedInduction

\* Before the check only a setting of the system is the agent's; after it, with a
\* matrix, the packages it delegates too.  The check leaves names and versions
\* alone, so that it delegates what it would delegate of its own result.
FlagsMeanDelegated ==
  /\ pc = "parse" => items = <<>>
  /\ pc = "check" => \A i \in DOMAIN items : items[i].agent <=> items[i].name = "sys_config"
  /\ pc \notin {"parse", "check"} =>
       \A i \in DOMAIN items :
         items[i].agent <=>
           \/ items[i].name = "sys_config"
           \/ matrix /\ items[i].name \in Delegated(items)

\* The agent is called when there is something for it, with attempts left, and
\* there is an answer of some kind exactly when it was called.
CallsAreNeeded ==
  /\ pc \in {"parse", "check", "ask"} => attempts = 0
  /\ pc = "call" => NeedsAgent /\ attempts < MaxAttempts
  /\ agentPlan # "none" <=> pc = "built" /\ NeedsAgent

PlanIInv == TypeOK /\ FlagsMeanDelegated /\ CallsAreNeeded

-----------------------------------------------------------------------------
(* The operators.                                                          *)

\* A bounded set of numbers has a greatest one.
LEMMA GreatestExists ==
  ASSUME NEW T \in SUBSET Nat, NEW n \in Nat, \A i \in T : i <= n, T # {}
  PROVE  \E i \in T : \A j \in T : j <= i
<1> DEFINE D == {n - i : i \in T}
<1>1. D \subseteq Nat /\ D # {}
  <2>1. \A i \in T : n - i \in Nat
    OBVIOUS
  <2>2. PICK i \in T : TRUE
    OBVIOUS
  <2> QED
    BY <2>1, <2>2
<1>2. PICK x \in D : \A y \in D : <<y, x>> \notin OpToRel(<, Nat)
  BY <1>1, NatLessThanWellFounded, WFMin
<1>3. \A y \in D : ~(y < x)
  BY <1>1, <1>2 DEF OpToRel
<1>4. PICK i \in T : x = n - i
  OBVIOUS
<1>5. \A j \in T : n - j \in D
  OBVIOUS
<1>6. \A j \in T : ~(n - j < n - i)
  BY <1>3, <1>4, <1>5
<1> QED
  BY <1>6

\* The names of the aliases are packages, and no alias is without a word.
LEMMA AliasFacts ==
  ASSUME NEW a \in Aliases
  PROVE  a.name \in SwNames /\ Len(a.text) \in 1..5
<1>1. a.name \in SwNames
  BY DEF Aliases, SwNames, Stack
<1>2. Len(a.text) \in 1..5
  BY DEF Aliases
<1> QED
  BY <1>1, <1>2

\* Whatever a line begins with, it gets the name of a package.
LEMMA LinesHaveNames ==
  ASSUME NEW line
  PROVE  NameOf(line) \in SwNames
<1> DEFINE fits == {a \in Aliases : StartsWith(line, a)}
           longest == CHOOSE a \in fits : \A b \in fits : Len(b.text) <= Len(a.text)
<1>1. CASE fits = {}
  <2>1. FirstWord(line) \in SwNames
    BY DEF FirstWord, SwNames
  <2> QED
    BY <1>1, <2>1 DEF NameOf
<1>2. CASE fits # {}
  <2>0. \A a \in fits : a.name \in SwNames /\ Len(a.text) \in 1..5
    BY AliasFacts
  <2> HIDE DEF fits
  <2> DEFINE lengths == {Len(a.text) : a \in fits}
  <2>1. lengths \in SUBSET Nat /\ \A i \in lengths : i <= 5
    <3>1. \A i \in lengths : i \in 1..5
      BY <2>0
    <3> HIDE DEF lengths
    <3> QED
      BY <3>1
  <2>2. lengths # {}
    BY <1>2
  <2>3. PICK m \in lengths : \A j \in lengths : j <= m
    BY <2>1, <2>2, GreatestExists
  <2>4. \E a \in fits : \A b \in fits : Len(b.text) <= Len(a.text)
    <3>1. PICK a \in fits : m = Len(a.text)
      BY <2>3
    <3>2. \A b \in fits : Len(b.text) \in lengths
      OBVIOUS
    <3> QED
      BY <2>3, <3>1, <3>2
  <2>5. longest \in fits
    BY <2>4
  <2> QED
    BY <1>2, <2>0, <2>5 DEF NameOf, fits
<1> QED
  BY <1>1, <1>2

\* What a line becomes.
LEMMA ItemFacts ==
  ASSUME NEW line \in LineType
  PROVE  Item(line) \in ItemType /\ (Item(line).agent <=> Item(line).name = "sys_config")
<1>1. NameOf(line) \in SwNames
  BY LinesHaveNames
<1>2. KindOf(line) \in {"account", "storage_mount", "sys_config", "sw_install"}
  BY DEF KindOf
<1>3. VersionOf(line) \in Versions \cup {"none"}
  BY DEF VersionOf, LineType
<1>4. SwNames \subseteq Names /\ {"account", "storage_mount", "sys_config"} \subseteq Names
  BY DEF Names
<1>5. "sys_config" \notin SwNames
  BY DEF SwNames, Stack
<1> HIDE DEF Names, SwNames
<1>6. CASE KindOf(line) = "sw_install"
  BY <1>1, <1>3, <1>4, <1>5, <1>6 DEF Item, ItemType
<1>7. CASE KindOf(line) # "sw_install"
  BY <1>2, <1>4, <1>7 DEF Item, ItemType
<1> QED
  BY <1>6, <1>7

\* The version that counts for a name is that of an item with the name; and of a
\* name that is there once it is its version.
LEMMA ChosenFacts ==
  ASSUME NEW its \in Seq(ItemType), NEW n
  PROVE  /\ Chosen(its, n) # "none" =>
              \E i \in DOMAIN its : its[i].name = n /\ its[i].version = Chosen(its, n)
         /\ \A i \in DOMAIN its :
              its[i].name = n /\ (\A j \in DOMAIN its : its[j].name = n => j = i) =>
                Chosen(its, n) = its[i].version
<1> DEFINE at == {i \in DOMAIN its : its[i].name = n}
           last == CHOOSE i \in at : \A j \in at : j <= i
<1>1. at \in SUBSET Nat /\ Len(its) \in Nat /\ \A i \in at : i <= Len(its)
  OBVIOUS
<1>2. ASSUME at # {} PROVE last \in at
  <2>1. \E i \in at : \A j \in at : j <= i
    BY <1>1, <1>2, GreatestExists
  <2> QED
    BY <2>1
<1>3. at # {} => Chosen(its, n) = its[last].version
  BY DEF Chosen
<1>4. at = {} => Chosen(its, n) = "none"
  BY DEF Chosen
<1> HIDE DEF last
<1> QED
  BY <1>2, <1>3, <1>4

\* The check changes none of the versions that count.
LEMMA ChosenKept ==
  ASSUME NEW its \in Seq(ItemType), NEW new, NEW n, DOMAIN new = DOMAIN its,
         \A i \in DOMAIN its : new[i].name = its[i].name /\ new[i].version = its[i].version
  PROVE  Chosen(new, n) = Chosen(its, n)
<1> DEFINE at == {i \in DOMAIN its : its[i].name = n}
           last == CHOOSE i \in at : \A j \in at : j <= i
<1>1. at = {i \in DOMAIN new : new[i].name = n}
  OBVIOUS
<1>2. at \in SUBSET Nat /\ Len(its) \in Nat /\ \A i \in at : i <= Len(its)
  OBVIOUS
<1>3. CASE at = {}
  BY <1>1, <1>3 DEF Chosen
<1>4. CASE at # {}
  <2>1. \E i \in at : \A j \in at : j <= i
    BY <1>2, <1>4, GreatestExists
  <2>2. last \in at
    BY <2>1
  <2>3. Chosen(its, n) = its[last].version
    BY <1>4 DEF Chosen
  <2>4. Chosen(new, n) = new[last].version
    BY <1>1, <1>4 DEF Chosen
  <2> QED
    BY <2>2, <2>3, <2>4
<1> QED
  BY <1>3, <1>4

-----------------------------------------------------------------------------
(* The invariant.                                                          *)

\* A plan grows out of the request alone, step by step.
THEOREM PlanInductive == Spec => []PlanIInv
<1>1. Init => PlanIInv
  <2> SUFFICES ASSUME Init PROVE PlanIInv
    OBVIOUS
  <2>1. items \in Seq(ItemType)
    BY DEF Init
  <2>2. ~NeedsAgent
    BY DEF Init, NeedsAgent
  <2> QED
    BY <2>1, <2>2 DEF Init, PlanIInv, TypeOK, FlagsMeanDelegated, CallsAreNeeded, MaxAttempts
<1>2. PlanIInv /\ [Next]_vars => PlanIInv'
  <2> SUFFICES ASSUME PlanIInv, [Next]_vars PROVE PlanIInv'
    OBVIOUS
  <2> USE DEF PlanIInv
  <2>1. CASE Parse
    <3>1. request \in Seq(LineType)
      BY RequestsAssumption DEF TypeOK
    <3>2. \A i \in DOMAIN request : Item(request[i]) \in ItemType
            /\ (Item(request[i]).agent <=> Item(request[i]).name = "sys_config")
      BY <3>1, ItemFacts
    <3>3. items' = [i \in 1..Len(request) |-> Item(request[i])] /\ Len(request) \in Nat
      BY <2>1, <3>1 DEF Parse
    <3>4. items' \in Seq(ItemType)
      BY <3>1, <3>2, <3>3
    <3>5. TypeOK'
      BY <2>1, <3>4 DEF Parse, TypeOK
    <3>6. FlagsMeanDelegated'
      BY <2>1, <3>1, <3>2, <3>3 DEF Parse, FlagsMeanDelegated
    <3>7. CallsAreNeeded'
      BY <2>1 DEF Parse, CallsAreNeeded
    <3> QED
      BY <3>5, <3>6, <3>7
  <2>2. CASE Check
    <3>1. items \in Seq(ItemType) /\ Len(items) \in Nat /\ DOMAIN items = 1..Len(items)
      BY DEF TypeOK
    <3>2. /\ DOMAIN items' = DOMAIN items
          /\ \A i \in DOMAIN items :
               /\ items'[i] \in ItemType
               /\ items'[i].name = items[i].name /\ items'[i].version = items[i].version
               /\ items'[i].agent <=>
                    items[i].agent \/ (matrix /\ items[i].name \in Delegated(items))
      <4>1. items' = [i \in 1..Len(items) |->
              [items[i] EXCEPT !.agent = items[i].agent
                                 \/ (matrix /\ items[i].name \in Delegated(items))]]
        BY <2>2, <3>1 DEF Check
      <4>2. \A i \in 1..Len(items) : items[i] \in ItemType
        BY <3>1
      <4> DEFINE deal(i) == items[i].agent \/ (matrix /\ items[i].name \in Delegated(items))
      <4>3. \A i \in 1..Len(items) : deal(i) \in BOOLEAN
        BY <4>2 DEF ItemType
      <4>4. DOMAIN items' = 1..Len(items)
              /\ \A i \in 1..Len(items) : items'[i] = [items[i] EXCEPT !.agent = deal(i)]
        BY <4>1
      <4> HIDE DEF deal
      <4>5. \A i \in 1..Len(items) :
              /\ items'[i] \in ItemType
              /\ items'[i].name = items[i].name /\ items'[i].version = items[i].version
              /\ items'[i].agent = deal(i)
        BY <4>2, <4>3, <4>4 DEF ItemType
      <4> QED
        BY <3>1, <4>4, <4>5 DEF deal
    <3>3. items' \in Seq(ItemType)
      <4>1. \A i \in 1..Len(items) : items'[i] \in ItemType
        BY <3>1, <3>2
      <4>2. items' = [i \in 1..Len(items) |-> items'[i]]
        BY <2>2, <3>1 DEF Check
      <4> QED
        BY <3>1, <4>1, <4>2
    <3>4. \A n : Chosen(items', n) = Chosen(items, n)
      BY <3>1, <3>2, ChosenKept
    <3>5. Delegated(items') = Delegated(items)
      BY <3>4 DEF Delegated, Unlisted
    <3>6. TypeOK'
      BY <2>2, <3>3 DEF Check, TypeOK
    <3>7. FlagsMeanDelegated'
      <4>1. pc' = "ask" /\ matrix' = matrix
        BY <2>2 DEF Check
      <4>2. \A i \in DOMAIN items : items[i].agent <=> items[i].name = "sys_config"
        BY <2>2 DEF Check, FlagsMeanDelegated
      <4>3. \A i \in DOMAIN items' :
              items'[i].agent <=>
                \/ items'[i].name = "sys_config"
                \/ matrix' /\ items'[i].name \in Delegated(items')
        BY <3>2, <3>5, <4>1, <4>2
      <4> QED
        BY <4>1, <4>3 DEF FlagsMeanDelegated
    <3>8. CallsAreNeeded'
      BY <2>2 DEF Check, CallsAreNeeded
    <3> QED
      BY <3>6, <3>7, <3>8
  <2>3. CASE Ask
    <3>1. TypeOK'
      BY <2>3 DEF Ask, TypeOK
    <3>2. FlagsMeanDelegated'
      <4>1. items' = items /\ Delegated(items') = Delegated(items)
        BY <2>3 DEF Ask
      <4> QED
        BY <2>3, <4>1 DEF Ask, FlagsMeanDelegated
    <3>3. CallsAreNeeded'
      BY <2>3 DEF Ask, CallsAreNeeded, NeedsAgent, MaxAttempts
    <3> QED
      BY <3>1, <3>2, <3>3
  <2>4. CASE Answered \/ Overloaded
    <3>1. attempts \in Nat /\ attempts' = attempts + 1 /\ attempts < MaxAttempts
      BY <2>4 DEF Answered, Overloaded, CallsAreNeeded, TypeOK
    <3>2. TypeOK'
      BY <2>4, <3>1 DEF Answered, Overloaded, LastAttempt, TypeOK, MaxAttempts
    <3>3. FlagsMeanDelegated'
      <4>1. items' = items /\ Delegated(items') = Delegated(items)
        BY <2>4 DEF Answered, Overloaded
      <4> QED
        BY <2>4, <4>1 DEF Answered, Overloaded, LastAttempt, FlagsMeanDelegated
    <3>4. CallsAreNeeded'
      BY <2>4, <3>1 DEF Answered, Overloaded, LastAttempt, CallsAreNeeded, NeedsAgent,
         MaxAttempts
    <3> QED
      BY <3>2, <3>3, <3>4
  <2>5. CASE UNCHANGED vars
    <3>1. items' = items /\ Delegated(items') = Delegated(items)
      BY <2>5 DEF vars
    <3>2. TypeOK' /\ CallsAreNeeded'
      BY <2>5 DEF vars, TypeOK, CallsAreNeeded, NeedsAgent
    <3>3. FlagsMeanDelegated'
      BY <2>5, <3>1 DEF vars, FlagsMeanDelegated
    <3> QED
      BY <3>2, <3>3
  <2> QED
    BY <2>1, <2>2, <2>3, <2>4, <2>5 DEF Next
<1> QED
  BY <1>1, <1>2, PTL DEF Spec

\* The types, of every set of requests.
THEOREM TypeCorrect == Spec => []TypeOK
<1>1. PlanIInv => TypeOK
  BY DEF PlanIInv
<1> QED
  BY <1>1, PlanInductive, PTL

-----------------------------------------------------------------------------
(* The plan.                                                               *)

\* When the versions of both packages of a pair count, both are there.
LEMMA UnlistedAreThere ==
  ASSUME NEW its \in Seq(ItemType), NEW m, NEW n, Unlisted(its, m, n)
  PROVE  \E i, j \in DOMAIN its :
           /\ its[i].name = m /\ its[i].version = Chosen(its, m)
           /\ its[j].name = n /\ its[j].version = Chosen(its, n)
           /\ its[i].version # "none" /\ its[j].version # "none"
           /\ <<its[i].version, its[j].version>> \notin Listed
<1>1. /\ Chosen(its, m) # "none" /\ Chosen(its, n) # "none"
      /\ <<Chosen(its, m), Chosen(its, n)>> \notin Listed
  BY DEF Unlisted
<1>2. PICK i \in DOMAIN its : its[i].name = m /\ its[i].version = Chosen(its, m)
  BY <1>1, ChosenFacts
<1>3. PICK j \in DOMAIN its : its[j].name = n /\ its[j].version = Chosen(its, n)
  BY <1>1, ChosenFacts
<1> QED
  BY <1>1, <1>2, <1>3

\* Of names that are there once, a clash is a pair that is not listed.
LEMMA ClashIsUnlisted ==
  ASSUME items \in Seq(ItemType), NamedOnce, NEW i \in DOMAIN items, NEW j \in DOMAIN items,
         Clash(i, j)
  PROVE  \/ /\ items[i].name = "nvidia_driver" /\ items[j].name = "cuda"
            /\ Unlisted(items, "nvidia_driver", "cuda")
         \/ /\ items[i].name = "cuda" /\ items[j].name = "torch"
            /\ Unlisted(items, "cuda", "torch")
<1>1. /\ Chosen(items, items[i].name) = items[i].version
      /\ Chosen(items, items[j].name) = items[j].version
  BY ChosenFacts DEF NamedOnce
<1>2. /\ items[i].version # "none" /\ items[j].version # "none"
      /\ <<items[i].version, items[j].version>> \notin Listed
      /\ \/ items[i].name = "nvidia_driver" /\ items[j].name = "cuda"
         \/ items[i].name = "cuda" /\ items[j].name = "torch"
  BY DEF Clash
<1>3. Unlisted(items, items[i].name, items[j].name)
  BY <1>1, <1>2 DEF Unlisted
<1> QED
  BY <1>2, <1>3

\* Of a request that names nothing twice, what the agent gets are the packages of
\* the pairs the matrix does not list, and no others.
THEOREM UnlistedAreTheAgents == Spec => []UnlistedPairsAsked
<1>1. PlanIInv => UnlistedPairsAsked
  <2> SUFFICES ASSUME PlanIInv, pc \notin {"parse", "check"}, matrix, NamedOnce,
                      NEW i \in DOMAIN items, items[i].name \in SwNames
               PROVE  items[i].agent <=> \E j \in DOMAIN items : Clash(i, j) \/ Clash(j, i)
    BY DEF UnlistedPairsAsked
  <2>1. items \in Seq(ItemType)
    BY DEF PlanIInv, TypeOK
  <2>2. items[i].name # "sys_config"
    BY DEF SwNames, Stack
  <2>3. items[i].agent <=> items[i].name \in Delegated(items)
    BY <2>2 DEF PlanIInv, FlagsMeanDelegated
  <2>4. \A m, n : Unlisted(items, m, n) => \E a, b \in DOMAIN items :
          /\ items[a].name = m /\ items[b].name = n
          /\ items[a].version # "none" /\ items[b].version # "none"
          /\ <<items[a].version, items[b].version>> \notin Listed
    BY <2>1, UnlistedAreThere
  <2>5. ASSUME NEW m, NEW n, Unlisted(items, m, n), items[i].name \in {m, n},
               <<m, n>> \in {<<"nvidia_driver", "cuda">>, <<"cuda", "torch">>}
        PROVE  \E j \in DOMAIN items : Clash(i, j) \/ Clash(j, i)
    <3>1. PICK a, b \in DOMAIN items :
            /\ items[a].name = m /\ items[b].name = n
            /\ items[a].version # "none" /\ items[b].version # "none"
            /\ <<items[a].version, items[b].version>> \notin Listed
      BY <2>4, <2>5
    <3>2. Clash(a, b)
      BY <2>5, <3>1 DEF Clash
    <3>3. i = a \/ i = b
      BY <2>5, <3>1 DEF NamedOnce
    <3> QED
      BY <3>2, <3>3
  <2>6. ASSUME items[i].name \in Delegated(items)
        PROVE  \E j \in DOMAIN items : Clash(i, j) \/ Clash(j, i)
    <3>1. \/ Unlisted(items, "nvidia_driver", "cuda") /\ items[i].name \in {"nvidia_driver", "cuda"}
          \/ Unlisted(items, "cuda", "torch") /\ items[i].name \in {"cuda", "torch"}
      BY <2>6 DEF Delegated
    <3> QED
      BY <2>5, <3>1
  <2>7. ASSUME NEW j \in DOMAIN items, Clash(i, j) \/ Clash(j, i)
        PROVE  items[i].name \in Delegated(items)
    BY <2>1, <2>7, ClashIsUnlisted DEF Delegated
  <2> QED
    BY <2>3, <2>6, <2>7
<1> QED
  BY <1>1, PlanInductive, PTL

\* The plan is one SwInstall starts from.
THEOREM PlansFitTheInstall == Spec => []SwInstallStartsHere
<1>1. PlanIInv => SwInstallStartsHere
  <2> SUFFICES ASSUME PlanIInv, pc = "built" PROVE SwInstallStartsHere
    BY DEF SwInstallStartsHere
  <2> DEFINE named == {items[i].name : i \in DOMAIN items}
             agent == {items[i].name : i \in {k \in DOMAIN items : items[k].agent}}
  <2>1. items \in Seq(ItemType)
    BY DEF PlanIInv, TypeOK
  <2>2. \A i \in DOMAIN items :
          items[i].agent <=>
            \/ items[i].name = "sys_config"
            \/ matrix /\ items[i].name \in Delegated(items)
    BY DEF PlanIInv, FlagsMeanDelegated
  <2>3. \A m, n : Unlisted(items, m, n) => m \in named /\ n \in named
    <3>1. ASSUME NEW m, NEW n, Unlisted(items, m, n)
          PROVE  \E i, j \in DOMAIN items : items[i].name = m /\ items[j].name = n
      <4>1. PICK i, j \in DOMAIN items :
              /\ items[i].name = m /\ items[i].version = Chosen(items, m)
              /\ items[j].name = n /\ items[j].version = Chosen(items, n)
              /\ items[i].version # "none" /\ items[j].version # "none"
              /\ <<items[i].version, items[j].version>> \notin Listed
        BY <2>1, <3>1, UnlistedAreThere
      <4> QED
        BY <4>1
    <3> QED
      BY <3>1
  <2>4. /\ Delegated(items) \subseteq named
        /\ Delegated(items) \subseteq SwNames
    BY <2>3 DEF Delegated, SwNames, Stack
  <2>5. "sys_config" \notin SwNames
    BY DEF SwNames, Stack
  <2>6. agent \cap SwNames = IF matrix THEN Delegated(items) ELSE {}
    BY <2>2, <2>4, <2>5
  <2>7. agent \cap SwNames \in Misses(named)
    <3> DEFINE Missed == {q \in Pairs : \/ /\ q = {"nvidia_driver", "cuda"}
                                          /\ Unlisted(items, "nvidia_driver", "cuda")
                                       \/ /\ q = {"cuda", "torch"}
                                          /\ Unlisted(items, "cuda", "torch")}
    <3>1. Missed \in SUBSET {q \in Pairs : q \subseteq named}
      BY <2>3 DEF Pairs
    <3>2. UNION Missed = Delegated(items)
      BY DEF Pairs, Delegated
    <3>3. {} \in SUBSET {q \in Pairs : q \subseteq named} /\ UNION {} = {}
      OBVIOUS
    <3> HIDE DEF named, agent, Missed
    <3> QED
      BY <2>6, <3>1, <3>2, <3>3 DEF Misses
  <2>8. agent = {} <=> ~NeedsAgent
    BY DEF NeedsAgent
  <2>9. NeedsAgent => agent \cap SwNames # {} \/ "sys_config" \in named
    <3>1. ASSUME NEW i \in DOMAIN items, items[i].agent
          PROVE  agent \cap SwNames # {} \/ "sys_config" \in named
      BY <2>2, <2>4, <3>1
    <3> QED
      BY <3>1 DEF NeedsAgent
  <2>10. agentPlan # "none" <=> NeedsAgent
    BY DEF PlanIInv, CallsAreNeeded
  <2> HIDE DEF named, agent
  <2>11. /\ agent \cap SwNames \in Misses(named)
         /\ agentPlan = "steps" => agent \cap SwNames # {} \/ "sys_config" \in named
         /\ agentPlan = "none" <=> agent = {}
    BY <2>7, <2>8, <2>9, <2>10
  <2> QED
    BY <2>11 DEF SwInstallStartsHere, named, agent
<1> QED
  BY <1>1, PlanInductive, PTL
=============================================================================
