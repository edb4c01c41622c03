--------------------------- MODULE DiscoveryProofs ---------------------------
(***************************************************************************)
(* Proofs about signal discovery: what a later run or a reader finds under *)
(* the output's name is a complete policy, that policy loads, and it does  *)
(* to the series of its run what the classification says.                  *)
(***************************************************************************)
EXTENDS Discovery, FiniteSetTheorems, NaturalsInduction, TLAPS

-----------------------------------------------------------------------------
(* The generated rules *)

LEMMA Listed ==
  ASSUME NEW S, IsFiniteSet(S)
  PROVE  /\ SetToSeq(S) \in [1..Cardinality(S) -> S]
         /\ \A i, j \in 1..Cardinality(S) :
              SetToSeq(S)[i] = SetToSeq(S)[j] => i = j
         /\ \A x \in S : \E i \in 1..Cardinality(S) : SetToSeq(S)[i] = x
         /\ Cardinality(S) \in Nat
<1> DEFINE n == Cardinality(S)
           f == SetToSeq(S)
<1>1. n \in Nat /\ ExistsBijection(1..n, S)
  BY FS_CardinalityType
<1>2. PICK g \in Bijection(1..n, S) : TRUE
  BY <1>1 DEF ExistsBijection
<1>3. g \in [1..n -> S] /\ IsInjective(g)
  BY <1>2 DEF Bijection, Injection
<1>4. f \in [1..n -> S] /\ IsInjective(f)
  BY <1>3 DEF SetToSeq
<1>5. f \in Injection(1..n, S)
  BY <1>4 DEF Injection
<1>6. IsFiniteSet(1..n) /\ Cardinality(1..n) = n
  BY <1>1, FS_Interval
<1>7. f \in Surjection(1..n, S)
  BY <1>5, <1>6, FS_Injection
<1>8. \A x \in S : \E i \in 1..n : f[i] = x
  BY <1>7 DEF Surjection
<1>9. \A i, j \in 1..n : f[i] = f[j] => i = j
  BY <1>4 DEF IsInjective
<1> QED BY <1>1, <1>4, <1>8, <1>9

LEMMA IdleFinite ==
  ASSUME IsFiniteSet(seen)
  PROVE  IsFiniteSet(Idle) /\ Idle \subseteq seen
<1>1. Idle \in SUBSET seen
  BY DEF Idle
<1> QED BY <1>1, FS_Subset

\* One rule per idle series, and no series twice.
LEMMA GeneratedRules ==
  ASSUME IsFiniteSet(seen)
  PROVE  /\ DOMAIN Generated = 1..Cardinality(Idle)
         /\ Cardinality(Idle) \in Nat
         /\ \A i \in DOMAIN Generated :
              \E k \in Idle : Generated[i] = GeneratedPolicy(k)
         /\ \A k \in Idle :
              \E i \in DOMAIN Generated : Generated[i] = GeneratedPolicy(k)
         /\ \A i, j \in DOMAIN Generated :
              i # j => \E k, m \in Idle : /\ k # m
                                          /\ Generated[i] = GeneratedPolicy(k)
                                          /\ Generated[j] = GeneratedPolicy(m)
<1> DEFINE n == Cardinality(Idle)
           ks == SetToSeq(Idle)
<1>1. /\ ks \in [1..n -> Idle]
      /\ \A i, j \in 1..n : ks[i] = ks[j] => i = j
      /\ \A k \in Idle : \E i \in 1..n : ks[i] = k
      /\ n \in Nat
  BY IdleFinite, Listed
<1>2. Generated = [i \in 1..n |-> GeneratedPolicy(ks[i])]
  BY <1>1 DEF Generated
<1> HIDE DEF n, ks
<1>3. DOMAIN Generated = 1..n
      /\ \A i \in 1..n : Generated[i] = GeneratedPolicy(ks[i]) /\ ks[i] \in Idle
  BY <1>1, <1>2
<1>4. \A k \in Idle :
        \E i \in DOMAIN Generated : Generated[i] = GeneratedPolicy(k)
  BY <1>1, <1>3
<1>5. \A i, j \in DOMAIN Generated : i # j => ks[i] # ks[j]
  BY <1>1, <1>3
<1>6. \A i, j \in DOMAIN Generated :
        i # j => \E k, m \in Idle : /\ k # m
                                    /\ Generated[i] = GeneratedPolicy(k)
                                    /\ Generated[j] = GeneratedPolicy(m)
  BY <1>3, <1>5
<1> QED BY <1>1, <1>3, <1>4, <1>6 DEF n

-----------------------------------------------------------------------------
(* Which files load *)

(***************************************************************************)
(* Two series of a metric with equally many attributes have the same       *)
(* attribute names or disagree on one they share.  The collectors name the *)
(* attributes of a metric alike; where some are optional (the limits of a  *)
(* temperature sensor, pid and start time of a unit), sensor and channel,  *)
(* unit and substate tell the series apart, except for two hwmon devices   *)
(* of one name whose channels have one label and different limits.         *)
(***************************************************************************)
NamesTellApart ==
  \A k, m \in Keys :
    (k.metric = m.metric
       /\ Cardinality(DOMAIN k.attributes) = Cardinality(DOMAIN m.attributes))
      => \/ DOMAIN k.attributes = DOMAIN m.attributes
         \/ \E n \in DOMAIN k.attributes \cap DOMAIN m.attributes :
               k.attributes[n] # m.attributes[n]

LEMMA DistinctApart ==
  ASSUME NamesTellApart, NEW k \in Keys, NEW m \in Keys, k # m
  PROVE  ~CanOverlap(GeneratedPolicy(k), GeneratedPolicy(m))
<1> SUFFICES ASSUME CanOverlap(GeneratedPolicy(k), GeneratedPolicy(m))
             PROVE  FALSE
  OBVIOUS
<1> DEFINE a == k.attributes
           b == m.attributes
<1>1. k.metric = m.metric /\ Cardinality(DOMAIN a) = Cardinality(DOMAIN b)
      /\ \A n \in DOMAIN a \cap DOMAIN b : a[n] = b[n]
  BY DEF CanOverlap, GeneratedPolicy, Specificity
<1>2. DOMAIN a = DOMAIN b
  BY <1>1 DEF NamesTellApart
<1>3. a = [n \in DOMAIN a |-> a[n]] /\ b = [n \in DOMAIN b |-> b[n]]
  BY KeysAssumption
<1>4. a = b
  BY <1>1, <1>2, <1>3
<1>5. k = [metric |-> k.metric, attributes |-> a]
      /\ m = [metric |-> m.metric, attributes |-> b]
  BY KeysAssumption
<1> QED BY <1>1, <1>4, <1>5

LEMMA GeneratedLoads ==
  ASSUME NamesTellApart, IsFiniteSet(seen), seen \subseteq Keys,
         \A i \in DOMAIN Generated : Validates(Generated[i].attributes)
  PROVE  Loads(Generated)
<1> SUFFICES ASSUME NEW i \in DOMAIN Generated
             PROVE  /\ Generated[i].valid
                    /\ \A j \in DOMAIN Generated :
                         j < i => ~CanOverlap(Generated[j], Generated[i])
  BY DEF Loads
<1>1. Generated[i].valid
  <2>1. PICK k \in Idle : Generated[i] = GeneratedPolicy(k)
    BY GeneratedRules
  <2>2. Generated[i].attributes = k.attributes /\ Validates(Generated[i].attributes)
    BY <2>1 DEF GeneratedPolicy
  <2> QED BY <2>1, <2>2 DEF GeneratedPolicy
<1>2. ASSUME NEW j \in DOMAIN Generated, j < i
      PROVE  ~CanOverlap(Generated[j], Generated[i])
  <2>1. i # j
    BY <1>2, GeneratedRules
  <2>2. PICK k \in Idle, m \in Idle :
          k # m /\ Generated[j] = GeneratedPolicy(k)
                /\ Generated[i] = GeneratedPolicy(m)
    BY <2>1, GeneratedRules
  <2>3. k \in Keys /\ m \in Keys
    BY IdleFinite
  <2> QED BY <2>2, <2>3, DistinctApart
<1> QED BY <1>1, <1>2

-----------------------------------------------------------------------------
(* What a file decides *)

LEMMA NatGreatest ==
  ASSUME NEW D \in SUBSET Nat, D # {}, NEW n \in Nat, \A d \in D : d <= n
  PROVE  \E d \in D : \A e \in D : e <= d
<1> DEFINE T == {n - d : d \in D}
           R == OpToRel(<, Nat)
<1>1. T \subseteq Nat /\ T # {}
  <2>1. \A d \in D : n - d \in Nat
    OBVIOUS
  <2>2. PICK d \in D : TRUE
    OBVIOUS
  <2>3. n - d \in T
    BY <2>2
  <2> QED BY <2>1, <2>3
<1>2. IsWellFoundedOn(R, Nat)
  BY NatLessThanWellFounded
<1>3. PICK x \in T : \A y \in T : <<y, x>> \notin R
  BY <1>1, <1>2, WFMin
<1>4. PICK d \in D : x = n - d
  BY <1>3
<1>5. ASSUME NEW e \in D PROVE e <= d
  <2>1. n - e \in T /\ n - e \in Nat /\ x \in Nat
    BY <1>1, <1>3
  <2>2. ~(n - e < x)
    BY <1>3, <2>1 DEF OpToRel
  <2> QED BY <1>4, <2>1, <2>2
<1> QED BY <1>5

LEMMA MatchFinite ==
  ASSUME NEW k \in Keys, NEW r, Matches(r, k)
  PROVE  Specificity(r) \in Nat /\ Specificity(r) <= Cardinality(DOMAIN k.attributes)
<1>1. IsFiniteSet(DOMAIN k.attributes)
  BY KeysAssumption
<1>2. DOMAIN r.attributes \in SUBSET DOMAIN k.attributes
  BY DEF Matches, Covers
<1>3. IsFiniteSet(DOMAIN r.attributes)
      /\ Cardinality(DOMAIN r.attributes) <= Cardinality(DOMAIN k.attributes)
  BY <1>1, <1>2, FS_Subset
<1> QED BY <1>3, FS_CardinalityType DEF Specificity

\* A rule that matches makes some most specific rule decide.
LEMMA SomeRuleDecides ==
  ASSUME NEW rs, NEW k \in Keys, NEW i \in DOMAIN rs, Matches(rs[i], k)
  PROVE  Deciding(rs, k) # {}
<1> DEFINE M == {j \in DOMAIN rs : Matches(rs[j], k)}
           D == {Specificity(rs[j]) : j \in M}
           n == Cardinality(DOMAIN k.attributes)
<1>1. n \in Nat
  BY KeysAssumption, FS_CardinalityType
<1>2. \A j \in M : Specificity(rs[j]) \in Nat /\ Specificity(rs[j]) <= n
  BY MatchFinite
<1>3. i \in M
  OBVIOUS
<1> HIDE DEF n, M
<1>4. D \in SUBSET Nat /\ D # {} /\ \A d \in D : d <= n
  BY <1>2, <1>3
<1>5. PICK d \in D : \A e \in D : e <= d
  <2> HIDE DEF D
  <2> QED BY <1>1, <1>4, NatGreatest
<1>6. PICK j \in M : d = Specificity(rs[j])
  BY <1>5
<1>7. \A m \in M : Specificity(rs[m]) <= Specificity(rs[j])
  BY <1>5, <1>6
<1>8. j \in Deciding(rs, k)
  BY <1>7 DEF M, Deciding
<1> QED BY <1>8

LEMMA GeneratedDecides ==
  ASSUME IsFiniteSet(seen), seen \subseteq Keys, NEW k \in seen
  PROVE  PolicyFor(Generated, k)
           = IF \E i \in Idle : Matches(GeneratedPolicy(i), k)
               THEN "disabled" ELSE "enabled"
<1> DEFINE rs == Generated
           D == Deciding(rs, k)
<1>1. CASE \E i \in Idle : Matches(GeneratedPolicy(i), k)
  <2>1. PICK i \in DOMAIN rs : Matches(rs[i], k)
    BY <1>1, GeneratedRules
  <2>2. D # {}
    BY <2>1, SomeRuleDecides
  <2>3. D \in SUBSET Nat /\ \A d \in D : d <= Cardinality(Idle)
    BY GeneratedRules DEF Deciding
  <2>4. PICK d \in D : \A e \in D : e <= d
    <3> HIDE DEF D
    <3> QED BY <2>2, <2>3, GeneratedRules, NatGreatest
  <2> DEFINE last == CHOOSE i1 \in D : \A j \in D : j <= i1
  <2>5. last \in D
    BY <2>4
  <2>6. last \in DOMAIN rs
    BY <2>5 DEF Deciding
  <2>7. PICK m \in Idle : rs[last] = GeneratedPolicy(m)
    <3> HIDE DEF last
    <3> QED BY <2>6, GeneratedRules
  <2>8. PolicyFor(rs, k) = rs[last].policy
    BY <2>2 DEF PolicyFor
  <2>9. rs[last].policy = "disabled"
    BY <2>7 DEF GeneratedPolicy
  <2> QED BY <1>1, <2>8, <2>9
<1>2. CASE ~\E i \in Idle : Matches(GeneratedPolicy(i), k)
  <2>1. \A i \in DOMAIN rs : ~Matches(rs[i], k)
    BY <1>2, GeneratedRules
  <2>2. D = {}
    BY <2>1 DEF Deciding
  <2> QED BY <1>2, <2>2 DEF PolicyFor
<1> QED BY <1>1, <1>2

-----------------------------------------------------------------------------
(* Types *)

LEMMA StartTyped == Init => TypeOK
BY DiscoveryAssumption DEF Init, TypeOK, Absent, Without, Contents

LEMMA ObserveTyped ==
  ASSUME TypeOK, NEW k \in Keys, NEW r \in Values \union {Failure},
         Observe(k, r)
  PROVE  TypeOK'
<1>1. seen' \in SUBSET Keys /\ k \in seen' /\ seen \subseteq seen'
  BY DEF Observe, Entered, TypeOK
<1>2. successes' = [successes EXCEPT ![k] = Counted(k, r)]
      /\ Counted(k, r) \in SUBSET Values
  BY DEF Observe, Counted, TypeOK
<1>3. successes' \in [Keys -> SUBSET Values]
  BY <1>2 DEF TypeOK
<1>4. \A m \in Keys : successes'[m] # {} => m \in seen'
  BY <1>1, <1>2 DEF TypeOK
<1> QED BY <1>1, <1>3, <1>4 DEF Observe, TypeOK

\* The files stay files and what is unsynced is one of them.
FilesType ==
  /\ DOMAIN temp = Pids
  /\ \A p \in Pids : temp[p].content \in Contents
  /\ target.content \in Contents
  /\ unsynced \in SUBSET (Pids \union {"target"})

LEMMA StepTyped == TypeOK /\ [Next]_vars => TypeOK'
<1> SUFFICES ASSUME TypeOK, [Next]_vars PROVE TypeOK'
  OBVIOUS
<1> USE DEF Absent, Without, Complete, Contents
<1>1. ASSUME NEW k \in Keys, NEW r \in Values \union {Failure}, Observe(k, r)
      PROVE  TypeOK'
  BY <1>1, ObserveTyped
<1>2. CASE Deadline
  BY <1>2 DEF TypeOK, Deadline, trackerVars
<1>3. CASE OpenFails
  BY <1>3 DEF TypeOK, OpenFails, trackerVars
<1>4. CASE Open
  BY <1>4 DEF TypeOK, Open, trackerVars
<1>5. CASE WriteSome
  BY <1>5 DEF TypeOK, WriteSome, trackerVars
<1>6. CASE WriteAll
  BY <1>6 DEF TypeOK, WriteAll, AfterWrite, trackerVars
<1>7. CASE SyncAll
  BY <1>7 DEF TypeOK, SyncAll, trackerVars
<1>8. CASE Rename
  BY <1>8 DEF TypeOK, Rename, trackerVars
<1>9. CASE Kill
  BY <1>9 DEF TypeOK, Kill, trackerVars
<1>10. CASE PowerLoss
  <2>1. PICK cut \in SUBSET unsynced,
             left \in {Without("empty"), Without("partial")} :
          /\ temp' = [p \in Pids |-> IF p \in cut THEN left ELSE temp[p]]
          /\ target' = IF "target" \in cut THEN left ELSE target
    BY <1>10 DEF PowerLoss
  <2>2. left.content \in Contents
    OBVIOUS
  <2>3. FilesType'
    BY <1>10, <2>1, <2>2 DEF TypeOK, PowerLoss, FilesType
  <2> QED BY <1>10, <2>3 DEF TypeOK, PowerLoss, FilesType, trackerVars
<1>11. ASSUME NEW p \in Pids, Restart(p)
       PROVE  TypeOK'
  BY <1>11, DiscoveryAssumption DEF TypeOK, Restart
<1>12. CASE UNCHANGED vars
  BY <1>12 DEF TypeOK, vars
<1> QED BY <1>1, <1>2, <1>3, <1>4, <1>5, <1>6, <1>7, <1>8, <1>9, <1>10,
           <1>11, <1>12 DEF Next

(* The tracker and the files keep their types, however often runs start    *)
(* and stop: `discovery` checks it for two pids and three runs.            *)
THEOREM TypeCorrect == Spec => []TypeOK
BY StartTyped, StepTyped, PTL DEF Spec

-----------------------------------------------------------------------------
(* The output *)

(***************************************************************************)
(* What a run may rely on between its steps: the temporary file it is      *)
(* about to install is the complete file of its own tracker, it is synced  *)
(* before it is renamed, and a file in place never becomes unsynced.       *)
(***************************************************************************)
InstallInv ==
  /\ IsFiniteSet(seen)
  /\ "target" \notin unsynced
  /\ phase \in {"sync", "rename"} => temp[pid] = Complete(Generated)
  /\ phase = "rename" => pid \notin unsynced
  /\ TargetComplete

LEMMA IdleKept ==
  ASSUME UNCHANGED trackerVars
  PROVE  Idle' = Idle /\ Generated' = Generated
<1>1. Idle' = Idle
  BY DEF Idle, Classification, trackerVars
<1> QED BY <1>1 DEF Generated

LEMMA InstallStart == Init => InstallInv
BY FS_EmptySet
   DEF Init, InstallInv, TargetComplete, Absent, Without

LEMMA InstallStep ==
  TypeOK /\ InstallInv /\ [Next]_vars => InstallInv'
<1> SUFFICES ASSUME TypeOK, InstallInv, [Next]_vars PROVE InstallInv'
  OBVIOUS
<1> USE DEF InstallInv, TargetComplete
<1>1. ASSUME NEW k \in Keys, NEW r \in Values \union {Failure}, Observe(k, r)
      PROVE  InstallInv'
  <2>1. IsFiniteSet(seen')
    BY <1>1, FS_AddElement DEF Observe, Entered
  <2> QED BY <1>1, <2>1 DEF Observe
<1>2. CASE Deadline
  BY <1>2 DEF Deadline, trackerVars
<1>3. CASE OpenFails
  BY <1>3 DEF OpenFails, trackerVars
<1>4. CASE Open
  BY <1>4, DiscoveryAssumption DEF Open, trackerVars, TypeOK
<1>5. CASE WriteSome
  BY <1>5 DEF WriteSome, trackerVars
<1>6. CASE WriteAll
  <2>1. Generated' = Generated
    BY <1>6, IdleKept DEF WriteAll
  <2>2. temp'[pid'] = Complete(Generated)
    BY <1>6 DEF WriteAll, TypeOK
  <2> QED BY <1>6, <2>1, <2>2 DEF WriteAll, AfterWrite, trackerVars
<1>7. CASE SyncAll
  <2>1. Generated' = Generated
    BY <1>7, IdleKept DEF SyncAll
  <2> QED BY <1>7, <2>1 DEF SyncAll, trackerVars
<1>8. CASE Rename
  <2>1. pid \notin unsynced /\ target' = Complete(Generated)
    BY <1>8 DEF Rename
  <2>2. "target" \notin unsynced'
    BY <1>8, <2>1 DEF Rename
  <2> QED BY <1>8, <2>1, <2>2 DEF Rename, Complete, trackerVars
<1>9. CASE Kill
  BY <1>9 DEF Kill, trackerVars
<1>10. CASE PowerLoss
  <2>1. target' = target
    BY <1>10 DEF PowerLoss
  <2> QED BY <1>10, <2>1 DEF PowerLoss, trackerVars
<1>11. ASSUME NEW p \in Pids, Restart(p)
       PROVE  InstallInv'
  BY <1>11, FS_EmptySet DEF Restart
<1>12. CASE UNCHANGED vars
  <2>1. Generated' = Generated
    BY <1>12, IdleKept DEF vars, trackerVars
  <2> QED BY <1>12, <2>1 DEF vars
<1> QED BY <1>1, <1>2, <1>3, <1>4, <1>5, <1>6, <1>7, <1>8, <1>9, <1>10,
           <1>11, <1>12 DEF Next

LEMMA InstallInvariant == Spec => [](TypeOK /\ InstallInv)
<1>1. Init => TypeOK /\ InstallInv
  BY StartTyped, InstallStart
<1>2. (TypeOK /\ InstallInv) /\ [Next]_vars => (TypeOK /\ InstallInv)'
  BY StepTyped, InstallStep
<1> QED BY <1>1, <1>2, PTL DEF Spec

(* Whenever the process is killed or the machine stops, the output is      *)
(* absent or the complete policy of some run: write_policy syncs its       *)
(* temporary file before it renames it.                                    *)
THEOREM OutputComplete == Spec => []TargetComplete
<1>1. InstallInv => TargetComplete
  BY DEF InstallInv
<1> QED BY <1>1, InstallInvariant, PTL

(* The file about to be installed disables exactly the series of the run   *)
(* that an idle one of the same metric covers, for every set of series.    *)
THEOREM FileFollowsRun == Spec => []FileDecides
<1>1. TypeOK /\ InstallInv => FileDecides
  <2> SUFFICES ASSUME TypeOK, InstallInv, phase = "rename", NEW k \in seen
               PROVE  PolicyFor(temp[pid].rules, k)
                        = IF \E i \in Idle : Matches(GeneratedPolicy(i), k)
                            THEN "disabled" ELSE "enabled"
    BY DEF FileDecides
  <2>1. temp[pid].rules = Generated
    BY DEF InstallInv, Complete
  <2>2. IsFiniteSet(seen) /\ seen \subseteq Keys
    BY DEF InstallInv, TypeOK
  <2> QED BY <2>1, <2>2, GeneratedDecides
<1> QED BY <1>1, InstallInvariant, PTL

-----------------------------------------------------------------------------

LEMMA LoadsStart == Init => TargetLoads
BY DEF Init, TargetLoads, Absent, Without

LEMMA LoadsStep ==
  ASSUME NamesTellApart
  PROVE  TypeOK /\ InstallInv /\ TargetLoads /\ [Next]_vars => TargetLoads'
<1> SUFFICES ASSUME TypeOK, InstallInv, TargetLoads, [Next]_vars
             PROVE  TargetLoads'
  OBVIOUS
<1>1. CASE target' = target
  BY <1>1 DEF TargetLoads
<1>2. CASE Rename
  <2>1. target' = Complete(Generated)
    BY <1>2 DEF Rename, InstallInv
  <2> SUFFICES ASSUME \A i \in DOMAIN Generated : Validates(Generated[i].attributes)
               PROVE  Loads(Generated)
    BY <2>1 DEF TargetLoads, Complete
  <2> QED BY GeneratedLoads DEF InstallInv, TypeOK
<1>3. CASE PowerLoss
  <2>1. target' = target
    BY <1>3 DEF PowerLoss, InstallInv
  <2> QED BY <2>1, <1>1
<1>4. ASSUME NEW k \in Keys, NEW r \in Values \union {Failure}, Observe(k, r)
      PROVE  TargetLoads'
  BY <1>4, <1>1 DEF Observe
<1>5. ASSUME NEW p \in Pids, Restart(p)
      PROVE  TargetLoads'
  BY <1>5, <1>1 DEF Restart
<1>6. CASE \/ Deadline \/ OpenFails \/ Open \/ WriteSome \/ WriteAll \/ SyncAll
           \/ Kill \/ UNCHANGED vars
  <2>1. target' = target
    BY <1>6
       DEF Deadline, OpenFails, Open, WriteSome, WriteAll, SyncAll, Kill, vars
  <2> QED BY <2>1, <1>1
<1> QED BY <1>2, <1>3, <1>4, <1>5, <1>6 DEF Next

(* The rules of an installed file never collide, as long as the names or a *)
(* shared attribute tell equally specific series of a metric apart: it is  *)
(* refused for an empty or over-long attribute value or not at all.        *)
THEOREM OutputLoads ==
  ASSUME NamesTellApart
  PROVE  Spec => []TargetLoads
<1>1. TypeOK /\ InstallInv /\ TargetLoads /\ [Next]_vars => TargetLoads'
  BY LoadsStep
<1>2. Spec => []TargetLoads
  BY <1>1, LoadsStart, InstallInvariant, PTL DEF Spec
<1> QED BY <1>2
=============================================================================
