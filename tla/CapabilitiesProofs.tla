--------------------------- MODULE CapabilitiesProofs ---------------------------
(***************************************************************************)
(* Proofs about the capability runtime: the rules a directory resolves to, *)
(* and the cache of NotSupported answers.                                  *)
(*                                                                         *)
(* Selection is a recursive function over the entries of a directory.  The *)
(* induction that its properties take is an argument about the least       *)
(* counterexample: a nonempty set of numbers has a least element.          *)
(***************************************************************************)
EXTENDS Capabilities, FiniteSetTheorems, NaturalsInduction, TLAPS

LEMMA Least ==
  ASSUME NEW S \in SUBSET Nat, S # {}
  PROVE  \E m \in S : \A n \in S : m <= n
<1>1. IsWellFoundedOn(OpToRel(<, Nat), Nat)
  BY NatLessThanWellFounded
<1>2. PICK m \in S : \A n \in S : <<n, m>> \notin OpToRel(<, Nat)
  BY <1>1, WFMin
<1>3. ASSUME NEW n \in S PROVE m <= n
  <2>1. m \in Nat /\ n \in Nat
    OBVIOUS
  <2>2. ~(n < m)
    BY <1>2, <2>1 DEF OpToRel
  <2> QED BY <2>1, <2>2
<1> QED BY <1>3

\* A set of numbers with 0 and, with each below n, the next one, has all up
\* to n.
LEMMA UpTo ==
  ASSUME NEW n \in Nat, NEW S, 0 \in S,
         \A i \in 1..n : i - 1 \in S => i \in S
  PROVE  0..n \subseteq S
<1> SUFFICES ASSUME (0..n) \ S # {} PROVE FALSE
  OBVIOUS
<1>1. (0..n) \ S \in SUBSET Nat
  OBVIOUS
<1>2. PICK m \in (0..n) \ S : \A i \in (0..n) \ S : m <= i
  BY <1>1, Least
<1>3. m \in 1..n
  BY <1>2
<1>4. m - 1 \in S
  BY <1>2, <1>3
<1> QED BY <1>2, <1>3, <1>4

-----------------------------------------------------------------------------
(* Selection *)

\* One entry of the directory.
After(e, before, id) ==
  IF Selects(e, id) /\ Replaces(e, before[e.key])
    THEN [before EXCEPT ![e.key] =
            [specificity |-> SelectorSpecificity(e), policy |-> e.policy]]
    ELSE before

NoRules == [k \in CapabilityKeys |-> NoRule]

\* f is the selection after each of the first n entries.
SelectsUpTo(f, es, id, n) ==
  f = [i \in 0..n |-> IF i = 0 THEN NoRules ELSE After(es[i], f[i - 1], id)]

LEMMA SelectionExists ==
  ASSUME NEW es, NEW id, NEW n \in Nat
  PROVE  \E f : SelectsUpTo(f, es, id, n)
<1> DEFINE S == {i \in 0..n : \E f : SelectsUpTo(f, es, id, i)}
<1>1. 0 \in S
  <2> DEFINE f == [i \in 0..0 |-> NoRules]
  <2>1. SelectsUpTo(f, es, id, 0)
    BY DEF SelectsUpTo
  <2> QED BY <2>1
<1>2. ASSUME NEW i \in 1..n, i - 1 \in S
      PROVE  i \in S
  <2>1. PICK f : SelectsUpTo(f, es, id, i - 1)
    BY <1>2
  <2> DEFINE g == [j \in 0..i |-> IF j = i THEN After(es[i], f[i - 1], id)
                                          ELSE f[j]]
             h == [j \in 0..i |-> IF j = 0 THEN NoRules
                                           ELSE After(es[j], g[j - 1], id)]
  <2>2. \A j \in 0..(i - 1) :
          f[j] = IF j = 0 THEN NoRules ELSE After(es[j], f[j - 1], id)
    BY <2>1 DEF SelectsUpTo
  <2>3. ASSUME NEW j \in 0..i PROVE g[j] = h[j]
    <3>1. CASE j = 0
      BY <3>1, <2>2
    <3>2. CASE j \in 1..(i - 1)
      <4>1. g[j] = f[j] /\ g[j - 1] = f[j - 1]
        BY <3>2
      <4> QED BY <4>1, <3>2, <2>2
    <3>3. CASE j = i
      <4>1. g[j] = After(es[i], f[i - 1], id) /\ g[j - 1] = f[i - 1]
        BY <3>3
      <4>2. h[j] = After(es[i], g[i - 1], id)
        BY <3>3
      <4> QED BY <4>1, <4>2, <3>3
    <3> QED BY <3>1, <3>2, <3>3
  <2>4. g = h
    BY <2>3
  <2>5. SelectsUpTo(g, es, id, i)
    BY <2>4 DEF SelectsUpTo
  <2> QED BY <2>5
<1>3. 0..n \subseteq S
  <2> HIDE DEF S
  <2> QED BY <1>1, <1>2, UpTo
<1>4. n \in S
  BY <1>3
<1> QED BY <1>4

LEMMA SelectionStep ==
  ASSUME NEW es, NEW id, Len(es) \in Nat
  PROVE  /\ Selection(es, id)[0] = NoRules
         /\ \A i \in 1..Len(es) :
              Selection(es, id)[i] = After(es[i], Selection(es, id)[i - 1], id)
<1> DEFINE f == Selection(es, id)
<1>1. f = CHOOSE g : SelectsUpTo(g, es, id, Len(es))
  BY DEF Selection, SelectsUpTo, After, NoRules
<1>2. SelectsUpTo(f, es, id, Len(es))
  BY <1>1, SelectionExists
<1> QED BY <1>2 DEF SelectsUpTo

-----------------------------------------------------------------------------
(* What a directory resolves to *)

LEMMA SelectorType ==
  ASSUME NEW e
  PROVE  SelectorSpecificity(e) \in Nat
<1> DEFINE F == {f \in {"product", "pci"} : e[f] # Any}
<1>1. IsFiniteSet({"product", "pci"})
  <2>1. IsFiniteSet({"product"} \union {"pci"})
    BY FS_Singleton, FS_AddElement
  <2>2. {"product"} \union {"pci"} = {"product", "pci"}
    OBVIOUS
  <2> QED BY <2>1, <2>2
<1>2. F \in SUBSET {"product", "pci"}
  OBVIOUS
<1>3. IsFiniteSet(F)
  BY <1>1, <1>2, FS_Subset
<1> QED BY <1>3, FS_CardinalityType DEF SelectorSpecificity

\* Among the first n entries with key k, `rule` is that of the most specific
\* one, or there is none.
Tells(rule, es, id, k, n) ==
  /\ rule.specificity \in Nat
  /\ \/ rule = NoRule /\ \A i \in 1..n : i \notin MatchesFor(es, id, k)
     \/ \E best \in (1..n) \cap MatchesFor(es, id, k) :
          /\ rule.specificity = SelectorSpecificity(es[best])
          /\ rule.policy = es[best].policy
          /\ \A i \in (1..n) \cap MatchesFor(es, id, k) :
               i # best => SelectorSpecificity(es[i]) < rule.specificity

LEMMA TellsStep ==
  ASSUME NEW es, Len(es) \in Nat, DOMAIN es = 1..Len(es), NEW id,
         NEW k \in CapabilityKeys, NEW i \in 1..Len(es),
         NEW before, NEW f, f = After(es[i], before, id),
         DOMAIN before = CapabilityKeys,
         Tells(before[k], es, id, k, i - 1),
         Selects(es[i], id) /\ es[i].key = k
           => before[k].specificity # SelectorSpecificity(es[i])
  PROVE  Tells(f[k], es, id, k, i)
<1> DEFINE M == MatchesFor(es, id, k)
           spec(j) == SelectorSpecificity(es[j])
           new == [specificity |-> spec(i), policy |-> es[i].policy]
<1>1. \A j \in 1..Len(es) : spec(j) \in Nat
  BY SelectorType
<1>2. \A j : j \in 1..i <=> j \in 1..(i - 1) \/ j = i
  OBVIOUS
<1>3. i \in M <=> es[i].key = k /\ Selects(es[i], id)
  BY DEF MatchesFor
<1>4. before[k].specificity \in Nat
  BY DEF Tells
<1>5. CASE i \in M /\ before[k].specificity < spec(i)
  <2>1. f[k] = new
    BY <1>3, <1>5 DEF After, Replaces
  <2>2. \A j \in (1..(i - 1)) \cap M : spec(j) < spec(i)
    <3> SUFFICES ASSUME NEW j \in (1..(i - 1)) \cap M PROVE spec(j) < spec(i)
      OBVIOUS
    <3>1. spec(j) <= before[k].specificity
      BY <1>1, <1>4 DEF Tells
    <3>2. spec(j) \in Nat /\ spec(i) \in Nat
      BY <1>1
    <3> QED BY <3>1, <3>2, <1>4, <1>5
  <2>3. \A j \in (1..i) \cap M : j # i => spec(j) < new.specificity
    BY <2>2, <1>2
  <2>4. i \in (1..i) \cap M /\ new.specificity = spec(i)
        /\ new.policy = es[i].policy /\ new.specificity \in Nat
    BY <1>1, <1>5
  <2> HIDE DEF new
  <2> QED BY <2>1, <2>3, <2>4 DEF Tells
<1>6. CASE i \in M /\ ~(before[k].specificity < spec(i))
  <2>1. f[k] = before[k]
    BY <1>3, <1>6 DEF After, Replaces
  <2>2. spec(i) < before[k].specificity
    BY <1>1, <1>3, <1>4, <1>6
  <2>3. before[k] # NoRule
    BY <2>2, <1>1 DEF NoRule
  <2> QED BY <2>1, <2>2, <2>3, <1>2, <1>4 DEF Tells
<1>7. CASE i \notin M
  <2>1. f[k] = before[k]
    BY <1>3, <1>7 DEF After
  <2>2. (1..i) \cap M = (1..(i - 1)) \cap M
    BY <1>2, <1>7
  <2>3. \A j \in 1..i : j \in M => j \in 1..(i - 1)
    BY <1>2, <1>7
  <2> QED BY <2>1, <2>2, <2>3 DEF Tells
<1> QED BY <1>5, <1>6, <1>7

\* load_directory gives each key the rule of its most specific entry.
LEMMA SelectionTells ==
  ASSUME NEW dir, NEW id, ProfilesLoad(dir, id), Len(dir.entries) \in Nat,
         DOMAIN dir.entries = 1..Len(dir.entries), NEW k \in CapabilityKeys
  PROVE  Tells(Selection(dir.entries, id)[Len(dir.entries)][k],
               dir.entries, id, k, Len(dir.entries))
<1> DEFINE es == dir.entries
           n == Len(es)
           f == Selection(es, id)
           S == {i \in 0..n : DOMAIN f[i] = CapabilityKeys
                              /\ Tells(f[i][k], es, id, k, i)}
<1>1. 0 \in S
  <2>1. f[0] = NoRules
    BY SelectionStep
  <2>2. DOMAIN f[0] = CapabilityKeys /\ f[0][k] = NoRule
    BY <2>1 DEF NoRules
  <2>3. NoRule.specificity \in Nat
    BY DEF NoRule
  <2>4. \A i \in 1..0 : i \notin MatchesFor(es, id, k)
    OBVIOUS
  <2>5. Tells(f[0][k], es, id, k, 0)
    <3> HIDE DEF f
    <3> QED BY <2>2, <2>3, <2>4 DEF Tells
  <2> QED BY <2>2, <2>5
<1>2. ASSUME NEW i \in 1..n, i - 1 \in S
      PROVE  i \in S
  <2>1. f[i] = After(es[i], f[i - 1], id)
    BY SelectionStep
  <2>2. DOMAIN f[i - 1] = CapabilityKeys /\ Tells(f[i - 1][k], es, id, k, i - 1)
    BY <1>2
  <2>3. Selects(es[i], id) /\ es[i].key = k
          => f[i - 1][k].specificity # SelectorSpecificity(es[i])
    BY DEF ProfilesLoad, Ambiguous
  <2> HIDE DEF f
  <2>4. Tells(f[i][k], es, id, k, i)
    <3> HIDE DEF es
    <3> QED BY <2>1, <2>2, <2>3, TellsStep DEF es
  <2>5. DOMAIN f[i] = CapabilityKeys
    BY <2>1, <2>2 DEF After
  <2> QED BY <2>4, <2>5
<1>3. 0..n \subseteq S
  <2> HIDE DEF S
  <2> QED BY <1>1, <1>2, UpTo
<1>4. n \in S
  BY <1>3
<1> QED BY <1>4

LEMMA EntriesOf ==
  ASSUME NEW dir \in Directories
  PROVE  /\ Len(dir.entries) \in Nat
         /\ DOMAIN dir.entries = 1..Len(dir.entries)
         /\ \A i \in DOMAIN dir.entries :
              dir.entries[i].policy \in CapabilityPolicies
<1> DEFINE es == dir.entries
           R == {dir.entries[i] : i \in DOMAIN dir.entries}
<1>1. es \in Seq(R)
      /\ \A i \in DOMAIN es : es[i].policy \in CapabilityPolicies
  BY DirectoriesAssumption
<1> HIDE DEF es, R
<1>2. Len(es) \in Nat /\ DOMAIN es = 1..Len(es)
  BY <1>1
<1> QED BY <1>1, <1>2 DEF es

\* Each resolved rule is that of the only most specific entry.
LEMMA ResolvedRules ==
  ASSUME NEW dir \in Directories, NEW id, ProfilesLoad(dir, id),
         NEW k \in CapabilityKeys
  PROVE  /\ \/ /\ MostSpecific(dir.entries, id, k) = {}
               /\ Resolved(dir, id)[k] = "auto"
            \/ \E best \in DOMAIN dir.entries :
                 /\ MostSpecific(dir.entries, id, k) = {best}
                 /\ Resolved(dir, id)[k] = dir.entries[best].policy
         /\ Resolved(dir, id)[k] \in CapabilityPolicies
<1> DEFINE es == dir.entries
           n == Len(es)
           M == MatchesFor(es, id, k)
           spec(i) == SelectorSpecificity(es[i])
           rule == Selection(es, id)[n][k]
<1>1. n \in Nat /\ DOMAIN es = 1..n
      /\ \A i \in DOMAIN es : es[i].policy \in CapabilityPolicies
  BY EntriesOf
<1>2. M \subseteq 1..n
  BY <1>1 DEF MatchesFor
<1>3. Tells(rule, es, id, k, n)
  BY <1>1, SelectionTells
<1>4. Resolved(dir, id)[k] = rule.policy
  BY DEF Resolved
<1> HIDE DEF rule, n
<1>5. CASE rule = NoRule /\ \A i \in 1..n : i \notin M
  <2>1. M = {}
    BY <1>2, <1>5
  <2>2. MostSpecific(es, id, k) = {}
    BY <2>1 DEF MostSpecific
  <2>3. rule.policy = "auto"
    BY <1>5 DEF NoRule
  <2> QED BY <1>4, <2>2, <2>3 DEF CapabilityPolicies
<1>6. CASE \E best \in (1..n) \cap M :
             /\ rule.specificity = spec(best)
             /\ rule.policy = es[best].policy
             /\ \A i \in (1..n) \cap M : i # best => spec(i) < rule.specificity
  <2>1. PICK best \in (1..n) \cap M :
          /\ rule.specificity = spec(best)
          /\ rule.policy = es[best].policy
          /\ \A i \in (1..n) \cap M : i # best => spec(i) < rule.specificity
    BY <1>6
  <2>2. \A i : spec(i) \in Nat
    BY SelectorType
  <2> HIDE DEF spec, M
  <2>3. \A i \in M : i # best => spec(i) < spec(best)
    BY <1>2, <2>1
  <2>4. \A i \in M : spec(i) <= spec(best)
    BY <2>2, <2>3
  <2>5. \A i \in M : spec(best) <= spec(i) => i = best
    BY <2>2, <2>3
  <2>6. MostSpecific(es, id, k)
          = {i \in M : \A j \in M : spec(j) <= spec(i)}
    BY DEF MostSpecific, M, spec
  <2>7. MostSpecific(es, id, k) = {best}
    BY <2>1, <2>4, <2>5, <2>6
  <2>8. best \in DOMAIN es
    BY <1>1, <2>1
  <2> QED BY <1>1, <1>4, <2>1, <2>7, <2>8
<1> QED BY <1>3, <1>5, <1>6 DEF Tells

-----------------------------------------------------------------------------
(* The rules in force *)

\* The active rules are those of the last directory that loaded, for the
\* identity read then, whatever has been read since.
LoadInv ==
  /\ loadedFrom \in Directories
  /\ ProfilesLoad(loadedFrom, loadedFor)
  /\ rules = Resolved(loadedFrom, loadedFor)

LEMMA LoadInvInit == Init => LoadInv
BY DEF Init, LoadInv

LEMMA LoadInvStep == LoadInv /\ [Next]_vars => LoadInv'
<1> SUFFICES ASSUME LoadInv, [Next]_vars PROVE LoadInv'
  OBVIOUS
<1>1. ASSUME rules' = rules, UNCHANGED loadVars PROVE LoadInv'
  BY <1>1 DEF LoadInv, loadVars
<1>2. ASSUME NEW gpus, NEW version, HardwareChanges(gpus, version)
      PROVE  LoadInv'
  BY <1>1, <1>2 DEF HardwareChanges, runtimeVars
<1>3. ASSUME NEW id, NEW opened, StartCollection(id, opened) PROVE LoadInv'
  BY <1>1, <1>3 DEF StartCollection
<1>4. ASSUME NEW g, NEW k, SkipQuery(g, k) PROVE LoadInv'
  BY <1>1, <1>4 DEF SkipQuery, runtimeVars
<1>5. ASSUME NEW g, NEW k, QueryNotSupported(g, k) PROVE LoadInv'
  BY <1>1, <1>5 DEF QueryNotSupported
<1>6. ASSUME NEW g, NEW k, QueryOther(g, k) PROVE LoadInv'
  BY <1>1, <1>6 DEF QueryOther, runtimeVars
<1>7. ASSUME NEW dir \in Directories, NEW id, Reload(dir, id) PROVE LoadInv'
  BY <1>7 DEF Reload, LoadInv
<1>8. CASE UNCHANGED vars
  BY <1>1, <1>8 DEF vars, runtimeVars
<1> QED
  BY <1>2, <1>3, <1>4, <1>5, <1>6, <1>7, <1>8 DEF Next, ReloadFails

(***************************************************************************)
(* Profile selection depends on no file order: the active rule of each     *)
(* capability is that of the only most specific matching entry of the      *)
(* directory loaded last, or `auto` without one (load_directory).          *)
(***************************************************************************)
THEOREM RuleSelection == Spec => []RulesMostSpecific
<1>1. LoadInv => RulesMostSpecific
  <2> SUFFICES ASSUME LoadInv, NEW k \in CapabilityKeys
               PROVE  LET best == MostSpecific(loadedFrom.entries, loadedFor, k)
                      IN  /\ Cardinality(best) <= 1
                          /\ \A i \in best :
                               rules[k] = loadedFrom.entries[i].policy
                          /\ best = {} => rules[k] = "auto"
    BY DEF RulesMostSpecific
  <2> DEFINE best == MostSpecific(loadedFrom.entries, loadedFor, k)
  <2>1. \/ best = {} /\ rules[k] = "auto"
        \/ \E i : best = {i} /\ rules[k] = loadedFrom.entries[i].policy
    BY ResolvedRules DEF LoadInv
  <2> HIDE DEF best
  <2>2. Cardinality(best) <= 1
    BY <2>1, FS_EmptySet, FS_Singleton
  <2>3. \A i \in best : rules[k] = loadedFrom.entries[i].policy
    BY <2>1
  <2> QED BY <2>1, <2>2, <2>3 DEF best
<1> QED BY <1>1, LoadInvInit, LoadInvStep, PTL DEF Spec

-----------------------------------------------------------------------------
(* Types *)

LEMMA ReadingsTyped ==
  ASSUME installed \in SUBSET Gpus, driver \in Drivers, NEW id \in Readings
  PROVE  id \in Identities
<1>1. PICK named \in SUBSET installed, located \in SUBSET installed,
           version \in {driver, NoDriver} :
        id = Reading(named, located, version)
  BY DEF Readings
<1>2. {g.product : g \in named} \in SUBSET {g.product : g \in Gpus}
      /\ {g.pci : g \in located} \in SUBSET {g.pci : g \in Gpus}
      /\ version \in Drivers \union {NoDriver}
  OBVIOUS
<1> QED BY <1>1, <1>2 DEF Identities, Reading

LEMMA ResolvedTyped ==
  ASSUME NEW dir \in Directories, NEW id, ProfilesLoad(dir, id)
  PROVE  /\ dir.valid
         /\ Resolved(dir, id) \in [CapabilityKeys -> CapabilityPolicies]
<1>1. \A k \in CapabilityKeys : Resolved(dir, id)[k] \in CapabilityPolicies
  BY ResolvedRules
<1>2. Resolved(dir, id) = [k \in CapabilityKeys |-> Resolved(dir, id)[k]]
  BY DEF Resolved
<1> QED BY <1>1, <1>2 DEF ProfilesLoad

LEMMA TypeInit == Init => TypeOK
<1> SUFFICES ASSUME Init PROVE TypeOK
  OBVIOUS
<1>1. identity \in Identities
  BY ReadingsTyped DEF Init
<1>2. loadedFrom \in Directories /\ ProfilesLoad(loadedFrom, identity)
  BY DEF Init
<1>3. loadedFrom.valid /\ rules \in [CapabilityKeys -> CapabilityPolicies]
  BY <1>2, ResolvedTyped DEF Init
<1> QED BY <1>1, <1>2, <1>3 DEF Init, TypeOK

LEMMA TypeStep == TypeOK /\ [Next]_vars => TypeOK'
<1> SUFFICES ASSUME TypeOK, [Next]_vars PROVE TypeOK'
  OBVIOUS
<1> USE DEF TypeOK
<1>1. ASSUME NEW gpus \in SUBSET Gpus, NEW version \in Drivers,
             HardwareChanges(gpus, version)
      PROVE  TypeOK'
  BY <1>1 DEF HardwareChanges, runtimeVars, loadVars, answerVars
<1>2. ASSUME NEW id \in Readings, NEW opened \in SUBSET installed,
             StartCollection(id, opened)
      PROVE  TypeOK'
  <2>1. id \in Identities
    BY ReadingsTyped
  <2>2. identity' \in Identities /\ unsupported' \in SUBSET CapabilityKeys
    BY <1>2, <2>1 DEF StartCollection, UpdateIdentity
  <2>3. pending' \in SUBSET (Gpus \X CapabilityKeys)
    BY <1>2 DEF StartCollection
  <2> QED BY <1>2, <2>1, <2>2, <2>3 DEF StartCollection, hardwareVars, loadVars
<1>3. ASSUME NEW g, NEW k, SkipQuery(g, k) PROVE TypeOK'
  BY <1>3 DEF SkipQuery, hardwareVars, runtimeVars, loadVars, answerVars
<1>4. ASSUME NEW g, NEW k \in CapabilityKeys, QueryNotSupported(g, k)
      PROVE  TypeOK'
  <2>1. unsupported' \in SUBSET CapabilityKeys
        /\ answered' \in SUBSET CapabilityKeys
    BY <1>4 DEF QueryNotSupported, ObserveUnsupported
  <2> QED BY <1>4, <2>1 DEF QueryNotSupported, hardwareVars, loadVars
<1>5. ASSUME NEW g, NEW k, QueryOther(g, k) PROVE TypeOK'
  BY <1>5 DEF QueryOther, hardwareVars, runtimeVars, loadVars, answerVars
<1>6. ASSUME NEW dir \in Directories, NEW id \in Readings, Reload(dir, id)
      PROVE  TypeOK'
  <2>1. id \in Identities
    BY ReadingsTyped
  <2>2. dir.valid /\ rules' \in [CapabilityKeys -> CapabilityPolicies]
    BY <1>6, ResolvedTyped DEF Reload
  <2> QED BY <1>6, <2>1, <2>2 DEF Reload, hardwareVars
<1>7. CASE UNCHANGED vars
  BY <1>7 DEF vars, hardwareVars, runtimeVars, loadVars, answerVars
<1> QED
  BY <1>1, <1>2, <1>3, <1>4, <1>5, <1>6, <1>7 DEF Next, ReloadFails

(***************************************************************************)
(* The runtime keeps its types: identities are among those that can be     *)
(* read and every capability has a rule, for all directories and hardware. *)
(***************************************************************************)
THEOREM TypeCorrect == Spec => []TypeOK
BY TypeInit, TypeStep, PTL DEF Spec

-----------------------------------------------------------------------------
(* The cache *)

\* A cached answer is covered by `answered`, which is reset exactly when the
\* identity read is a new one: the runtime must hold the last one read.
CacheInv ==
  /\ unsupported \subseteq answered
  /\ lastRead = identity

LEMMA CacheInvInit == Init => CacheInv
  BY DEF Init, CacheInv

LEMMA CacheInvStep == CacheInv /\ [Next]_vars => CacheInv'
<1> SUFFICES ASSUME CacheInv, [Next]_vars PROVE CacheInv'
  OBVIOUS
<1> USE DEF CacheInv
<1>1. ASSUME NEW gpus, NEW version, HardwareChanges(gpus, version)
      PROVE  CacheInv'
  BY <1>1 DEF HardwareChanges, runtimeVars, answerVars
<1>2. ASSUME NEW id, NEW opened, StartCollection(id, opened) PROVE CacheInv'
  <2>1. lastRead' = id
    BY <1>2 DEF StartCollection
  <2>2. CASE SameLifecycle(id)
    BY <1>2, <2>1, <2>2 DEF StartCollection, UpdateIdentity, SameLifecycle
  <2>3. CASE ~SameLifecycle(id)
    BY <1>2, <2>1, <2>3 DEF StartCollection, UpdateIdentity
  <2> QED BY <2>2, <2>3
<1>3. ASSUME NEW g, NEW k, SkipQuery(g, k) PROVE CacheInv'
  BY <1>3 DEF SkipQuery, runtimeVars, answerVars
<1>4. ASSUME NEW g, NEW k, QueryNotSupported(g, k) PROVE CacheInv'
  BY <1>4 DEF QueryNotSupported, ObserveUnsupported
<1>5. ASSUME NEW g, NEW k, QueryOther(g, k) PROVE CacheInv'
  BY <1>5 DEF QueryOther, runtimeVars, answerVars
<1>6. ASSUME NEW dir, NEW id, Reload(dir, id) PROVE CacheInv'
  BY <1>6 DEF Reload
<1>7. CASE UNCHANGED vars
  BY <1>7 DEF vars, runtimeVars, answerVars
<1> QED
  BY <1>1, <1>2, <1>3, <1>4, <1>5, <1>6, <1>7 DEF Next, ReloadFails

(***************************************************************************)
(* The automatic cache never outlives the GPU/driver lifecycle it was      *)
(* filled in, whatever hardware changes and failed reads occur             *)
(* (update_identity, reload).                                              *)
(***************************************************************************)
THEOREM CacheLifecycle == Spec => []CacheOfLifecycle
<1>1. CacheInv => CacheOfLifecycle
  BY DEF CacheInv, CacheOfLifecycle
<1> QED
  BY <1>1, CacheInvInit, CacheInvStep, PTL DEF Spec

(***************************************************************************)
(* A capability is suppressed by a rule or by the cache, never by both, so *)
(* the inventory lists it once: observe_definitive_unsupported only caches *)
(* under `auto`, and every reload that may change a rule empties the       *)
(* cache.                                                                  *)
(***************************************************************************)
THEOREM OneReason == Spec => []SuppressedForOneReason
<1> USE DEF SuppressedForOneReason
<1>1. Init => SuppressedForOneReason
  BY DEF Init
<1>2. SuppressedForOneReason /\ [Next]_vars => SuppressedForOneReason'
  <2> SUFFICES ASSUME SuppressedForOneReason, [Next]_vars
               PROVE  SuppressedForOneReason'
    OBVIOUS
  <2>1. ASSUME NEW gpus, NEW version, HardwareChanges(gpus, version)
        PROVE  SuppressedForOneReason'
    BY <2>1 DEF HardwareChanges, runtimeVars
  <2>2. ASSUME NEW id, NEW opened, StartCollection(id, opened)
        PROVE  SuppressedForOneReason'
    BY <2>2 DEF StartCollection, UpdateIdentity
  <2>3. ASSUME NEW g, NEW k, SkipQuery(g, k) PROVE SuppressedForOneReason'
    BY <2>3 DEF SkipQuery, runtimeVars
  <2>4. ASSUME NEW g, NEW k, QueryNotSupported(g, k)
        PROVE  SuppressedForOneReason'
    <3>1. rules' = rules
      BY <2>4 DEF QueryNotSupported
    <3>2. unsupported' \subseteq unsupported \union {l \in {k} : rules[l] = "auto"}
      BY <2>4 DEF QueryNotSupported, ObserveUnsupported
    <3> QED BY <3>1, <3>2
  <2>5. ASSUME NEW g, NEW k, QueryOther(g, k) PROVE SuppressedForOneReason'
    BY <2>5 DEF QueryOther, runtimeVars
  <2>6. ASSUME NEW dir, NEW id, Reload(dir, id) PROVE SuppressedForOneReason'
    BY <2>6 DEF Reload
  <2>7. CASE UNCHANGED vars
    BY <2>7 DEF vars, runtimeVars
  <2> QED
    BY <2>1, <2>2, <2>3, <2>4, <2>5, <2>6, <2>7 DEF Next, ReloadFails
<1> QED
  BY <1>1, <1>2, PTL DEF Spec
=============================================================================
