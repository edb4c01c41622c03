------------------------ MODULE SignalEmitterProofs -------------------------
(***************************************************************************)
(* Proofs about the emission filter: rule files that load never leave a    *)
(* point to file order, and what is emitted is enough to know what was     *)
(* collected.                                                              *)
(***************************************************************************)
EXTENDS SignalEmitter, FiniteSetTheorems, TLAPS

\* Rules as the loader leaves them, typed.
LoadedRules(rs) ==
  /\ Loads(rs)
  /\ DOMAIN rs \subseteq Nat
  /\ \A i \in DOMAIN rs : /\ IsFiniteSet(DOMAIN rs[i].attributes)
                          /\ rs[i].policy \in Policies

LEMMA SpecificityNat ==
  ASSUME NEW rs, LoadedRules(rs), NEW i \in DOMAIN rs
  PROVE  Specificity(rs[i]) \in Nat
BY FS_CardinalityType DEF LoadedRules, Specificity

\* Two rules that decide the same point agree on their common attributes and
\* are equally specific: they overlap.
LEMMA DecidingOverlap ==
  ASSUME NEW rs, LoadedRules(rs), NEW key,
         NEW i \in Deciding(rs, key), NEW j \in Deciding(rs, key)
  PROVE  CanOverlap(rs[i], rs[j])
<1>1. /\ i \in DOMAIN rs /\ Matches(rs[i], key)
      /\ j \in DOMAIN rs /\ Matches(rs[j], key)
  BY DEF Deciding
<1>2. Specificity(rs[i]) <= Specificity(rs[j]) /\ Specificity(rs[j]) <= Specificity(rs[i])
  BY <1>1 DEF Deciding
<1>3. Specificity(rs[i]) = Specificity(rs[j])
  BY <1>1, <1>2, SpecificityNat
<1>4. rs[i].metric = rs[j].metric
  BY <1>1 DEF Matches
<1>5. \A k \in DOMAIN rs[i].attributes \cap DOMAIN rs[j].attributes :
         rs[i].attributes[k] = rs[j].attributes[k]
  BY <1>1 DEF Matches, Covers
<1> QED BY <1>3, <1>4, <1>5 DEF CanOverlap

LEMMA DecidingUnique ==
  ASSUME NEW rs, LoadedRules(rs), NEW key,
         NEW i \in Deciding(rs, key), NEW j \in Deciding(rs, key)
  PROVE  i = j
<1>1. i \in DOMAIN rs /\ j \in DOMAIN rs /\ i \in Nat /\ j \in Nat
  BY DEF Deciding, LoadedRules
<1>2. CanOverlap(rs[i], rs[j]) /\ CanOverlap(rs[j], rs[i])
  BY DecidingOverlap
<1>3. ~(i < j) /\ ~(j < i)
  BY <1>1, <1>2 DEF LoadedRules, Loads
<1> QED BY <1>1, <1>3

LEMMA DecidingSize ==
  ASSUME NEW rs, LoadedRules(rs), NEW key
  PROVE  Cardinality(Deciding(rs, key)) <= 1
<1>1. CASE Deciding(rs, key) = {}
  BY <1>1, FS_EmptySet
<1>2. CASE Deciding(rs, key) # {}
  <2>1. PICK i \in Deciding(rs, key) : TRUE
    BY <1>2
  <2>2. Deciding(rs, key) = {i}
    BY <2>1, DecidingUnique
  <2> QED BY <2>2, FS_Singleton
<1> QED BY <1>1, <1>2

\* Every point has one of the four policies.
LEMMA PolicyForType ==
  ASSUME NEW rs, LoadedRules(rs), NEW key
  PROVE  PolicyFor(rs, key) \in Policies
<1>1. CASE Deciding(rs, key) = {}
  BY <1>1 DEF PolicyFor, Policies
<1>2. CASE Deciding(rs, key) # {}
  <2> DEFINE D == Deciding(rs, key)
             i == CHOOSE n \in D : \A m \in D : m <= n
  <2>1. PICK n \in D : TRUE
    BY <1>2
  <2>2. n \in Nat
    BY <2>1 DEF Deciding, LoadedRules
  <2>3. \A m \in D : m <= n
    BY <2>1, <2>2, DecidingUnique
  <2>4. i \in D
    BY <2>1, <2>3
  <2>5. rs[i].policy \in Policies
    BY <2>4 DEF Deciding, LoadedRules
  <2>6. PolicyFor(rs, key) = rs[i].policy
    BY <1>2 DEF PolicyFor
  <2> QED BY <2>5, <2>6
<1> QED BY <1>1, <1>2

LEMMA FilesLoaded ==
  ASSUME NEW rs \in RuleFiles, Loads(rs)
  PROVE  LoadedRules(rs)
BY RuleFilesAssumption DEF LoadedRules

-----------------------------------------------------------------------------

MemoryType ==
  /\ states \in [Keys -> Observations \union {None}]
  /\ availability \in [Keys -> SUBSET BOOLEAN]
  /\ observed \in [Keys -> Observations \union {None}]
  /\ emitted \in [Keys -> Observations \union {None}]

\* What the memory of each policy says about the last observation.
Remembers(k) ==
  /\ PolicyFor(rules, k) = "enabled" => emitted[k] = observed[k]
  /\ PolicyFor(rules, k) = "disabled" => emitted[k] = None
  /\ PolicyFor(rules, k) = "state-change"
       => states[k] = observed[k] /\ emitted[k] = observed[k]
  /\ PolicyFor(rules, k) = "availability-change"
       => \/ availability[k] = {} /\ observed[k] = None
          \/ /\ observed[k] # None
             /\ availability[k] = {Available(observed[k])}
             /\ \/ emitted[k] = observed[k]
                \/ /\ emitted[k] # None
                   /\ ~Available(emitted[k])
                   /\ ~Available(observed[k])

EmitterInv ==
  /\ rules \in RuleFiles /\ Loads(rules)
  /\ MemoryType
  /\ \A k \in Keys : Remembers(k)

LEMMA NoneApart == None \notin Observations
BY NoneAssumption, ObservationsAssumption DEF None

LEMMA FreshRemembers ==
  ASSUME NEW rs, LoadedRules(rs), rules' = rs, Fresh
  PROVE  MemoryType' /\ \A k \in Keys : Remembers(k)'
<1>1. MemoryType'
  BY DEF Fresh, MemoryType
<1>2. ASSUME NEW k \in Keys PROVE Remembers(k)'
  BY DEF Fresh, Remembers
<1> QED BY <1>1, <1>2

LEMMA EmitterStart == EmitterInit => EmitterInv
<1> SUFFICES ASSUME EmitterInit PROVE EmitterInv
  OBVIOUS
<1>1. rules \in RuleFiles /\ Loads(rules)
  BY DEF EmitterInit
<1>2. MemoryType
  BY DEF EmitterInit, MemoryType
<1>3. ASSUME NEW k \in Keys PROVE Remembers(k)
  BY DEF EmitterInit, Remembers
<1> QED BY <1>1, <1>2, <1>3 DEF EmitterInv

\* The memory a filtered point leaves, under each policy.
LEMMA FilterRemembers ==
  ASSUME EmitterInv, NEW k \in Keys, NEW o \in Observations, Filter(k, o)
  PROVE  Remembers(k)'
<1> DEFINE p == PolicyFor(rules, k)
<1>1. p \in Policies
  BY FilesLoaded, PolicyForType DEF EmitterInv
<1>2. PolicyFor(rules, k)' = p
  BY DEF Filter
<1>3. observed'[k] = o /\ o # None
  BY NoneApart DEF EmitterInv, MemoryType, Filter
<1>4. emitted'[k] = IF ShouldEmit(k, o) THEN o ELSE emitted[k]
  BY DEF EmitterInv, MemoryType, Filter
<1>5. Remembers(k)
  BY DEF EmitterInv
<1>6. CASE p = "enabled"
  BY <1>2, <1>3, <1>4, <1>6 DEF Remembers, ShouldEmit
<1>7. CASE p = "disabled"
  BY <1>2, <1>3, <1>4, <1>5, <1>7 DEF Remembers, ShouldEmit
<1>8. CASE p = "state-change"
  <2>1. states'[k] = o
    BY <1>8 DEF EmitterInv, MemoryType, Filter, Remember
  <2>2. ShouldEmit(k, o) <=> states[k] # o
    BY <1>8 DEF ShouldEmit, Changed
  <2>3. emitted'[k] = o
    BY <1>4, <1>5, <1>8, <2>2 DEF Remembers
  <2> QED BY <1>2, <1>3, <1>8, <2>1, <2>3 DEF Remembers
<1>9. CASE p = "availability-change"
  <2>1. availability'[k] = {Available(o)}
    BY <1>9 DEF EmitterInv, MemoryType, Filter, Remember
  <2>2. ShouldEmit(k, o) <=> Reportable(k, o)
    BY <1>9 DEF ShouldEmit
  <2>3. CASE Reportable(k, o)
    BY <1>2, <1>3, <1>4, <1>9, <2>1, <2>2, <2>3 DEF Remembers
  <2>4. CASE ~Reportable(k, o)
    <3>1. ~Available(o) /\ availability[k] = {FALSE}
      BY <2>4 DEF Reportable
    <3>2. emitted'[k] = emitted[k]
      BY <1>4, <2>2, <2>4
    <3>3. emitted[k] # None /\ ~Available(emitted[k])
      <4>1. observed[k] # None /\ availability[k] = {Available(observed[k])}
        BY <1>5, <1>9, <3>1 DEF Remembers
      <4>2. ~Available(observed[k])
        BY <3>1, <4>1
      <4> QED BY <1>5, <1>9, <3>1, <4>1, <4>2 DEF Remembers
    <3> QED BY <1>2, <1>3, <1>9, <2>1, <3>1, <3>2, <3>3 DEF Remembers
  <2> QED BY <2>3, <2>4
<1> QED BY <1>1, <1>6, <1>7, <1>8, <1>9 DEF Policies

LEMMA FilterType ==
  ASSUME EmitterInv, NEW k \in Keys, NEW o \in Observations, Filter(k, o)
  PROVE  MemoryType'
<1> USE DEF EmitterInv, MemoryType
<1>1. Available(o) \in BOOLEAN
  BY DEF Available
<1>2. states' \in [Keys -> Observations \union {None}]
  BY DEF Filter, Remember
<1>3. availability' \in [Keys -> SUBSET BOOLEAN]
  BY <1>1 DEF Filter, Remember
<1>4. observed' \in [Keys -> Observations \union {None}]
  BY DEF Filter
<1>5. emitted' \in [Keys -> Observations \union {None}]
  BY DEF Filter
<1> QED BY <1>2, <1>3, <1>4, <1>5

LEMMA FilterKeepsOthers ==
  ASSUME EmitterInv, NEW k \in Keys, NEW o \in Observations, Filter(k, o),
         NEW l \in Keys, l # k
  PROVE  Remembers(l)'
<1>1. /\ states'[l] = states[l] /\ availability'[l] = availability[l]
      /\ observed'[l] = observed[l] /\ emitted'[l] = emitted[l]
      /\ rules' = rules
  BY DEF EmitterInv, MemoryType, Filter, Remember
<1>2. Remembers(l)
  BY DEF EmitterInv
<1> QED BY <1>1, <1>2 DEF Remembers

LEMMA EmitterStep == EmitterInv /\ [EmitterNext]_emitterVars => EmitterInv'
<1> SUFFICES ASSUME EmitterInv, [EmitterNext]_emitterVars PROVE EmitterInv'
  OBVIOUS
<1>1. ASSUME NEW k \in Keys, NEW o \in Observations, Filter(k, o)
      PROVE  EmitterInv'
  <2>1. rules' \in RuleFiles /\ Loads(rules')
    BY <1>1 DEF EmitterInv, Filter
  <2>2. \A l \in Keys : Remembers(l)'
    BY <1>1, FilterRemembers, FilterKeepsOthers
  <2> QED BY <1>1, <2>1, <2>2, FilterType DEF EmitterInv
<1>2. ASSUME NEW rs \in RuleFiles, Reload(rs) PROVE EmitterInv'
  <2>1. CASE Loads(rs) /\ rules' = rs /\ Fresh
    BY <2>1, FilesLoaded, FreshRemembers DEF EmitterInv
  <2>2. CASE UNCHANGED emitterVars
    BY <2>2 DEF emitterVars, EmitterInv, MemoryType, Remembers
  <2> QED BY <1>2, <2>1, <2>2 DEF Reload
<1>3. CASE UNCHANGED emitterVars
  BY <1>3 DEF emitterVars, EmitterInv, MemoryType, Remembers
<1> QED BY <1>1, <1>2, <1>3 DEF EmitterNext

LEMMA EmitterInvariant == EmitterSpec => []EmitterInv
BY EmitterStart, EmitterStep, PTL DEF EmitterSpec

(***************************************************************************)
(* Type correctness of the emitter: only rule sets that load are ever      *)
(* active (SignalEmitter::load, reload on SIGHUP).                         *)
(***************************************************************************)
THEOREM EmitterTypes == EmitterSpec => []EmitterType
<1>1. EmitterInv => EmitterType
  BY DEF EmitterInv, MemoryType, EmitterType
<1> QED BY <1>1, EmitterInvariant, PTL

(***************************************************************************)
(* File order never decides: in any rule set that loads, at most one of    *)
(* the most specific rules matches a point, whatever the attributes are    *)
(* (can_overlap, load_policy_directory, policy_for).                       *)
(***************************************************************************)
THEOREM NoOrderDependence == EmitterSpec => []OneRuleDecides
<1>1. EmitterInv => OneRuleDecides
  BY FilesLoaded, DecidingSize DEF EmitterInv, OneRuleDecides
<1> QED BY <1>1, EmitterInvariant, PTL

(***************************************************************************)
(* A consumer that keeps the last emitted point of each series knows the   *)
(* last observation as far as the series' policy lets it (should_emit and  *)
(* its two memories).                                                      *)
(***************************************************************************)
THEOREM ConsumerKnows == EmitterSpec => []ConsumerInSync
<1>1. ASSUME EmitterInv PROVE ConsumerInSync
  <2> SUFFICES ASSUME NEW k \in Keys, observed[k] # None
               PROVE  CASE PolicyFor(rules, k) = "disabled" -> emitted[k] = None
                        [] PolicyFor(rules, k) = "availability-change" ->
                             \/ emitted[k] = observed[k]
                             \/ /\ emitted[k] # None
                                /\ ~Available(emitted[k])
                                /\ ~Available(observed[k])
                        [] OTHER -> emitted[k] = observed[k]
    BY DEF ConsumerInSync
  <2>1. PolicyFor(rules, k) \in Policies
    BY <1>1, FilesLoaded, PolicyForType DEF EmitterInv
  <2>2. Remembers(k)
    BY <1>1 DEF EmitterInv
  <2>3. CASE PolicyFor(rules, k) = "enabled"
    BY <2>2, <2>3 DEF Remembers
  <2>4. CASE PolicyFor(rules, k) = "disabled"
    BY <2>2, <2>4 DEF Remembers
  <2>5. CASE PolicyFor(rules, k) = "state-change"
    BY <2>2, <2>5 DEF Remembers
  <2>6. CASE PolicyFor(rules, k) = "availability-change"
    BY <2>2, <2>6 DEF Remembers
  <2> QED BY <2>1, <2>3, <2>4, <2>5, <2>6 DEF Policies
<1>2. EmitterInv => ConsumerInSync
  BY <1>1
<1> QED BY <1>2, EmitterInvariant, PTL
=============================================================================
