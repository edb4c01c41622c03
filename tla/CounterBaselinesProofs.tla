----------------------- MODULE CounterBaselinesProofs -----------------------
(***************************************************************************)
(* Proofs that deltas never invent events and that they leave none out     *)
(* but across restarts.  Every collection is an instance of Take, so Take  *)
(* is treated once, for any values it is given that are at most what the   *)
(* counters say, but for those it takes as 0 unread.                       *)
(***************************************************************************)
EXTENDS CounterBaselines, TLAPS

LEMMA GrownType == \A v, old \in Nat : Grown(v, old) \in Nat
  BY SMT DEF Grown

LEMMA CountersSets ==
  /\ BootCounters \subseteq Counters /\ RestartingCounters \subseteq Counters
  /\ Cpu \subseteq Counters /\ Vmstat \subseteq Counters
  /\ Network \subseteq Counters /\ Carrier \subseteq Counters
  /\ Disk \subseteq Counters /\ Cgroup \subseteq Counters
  /\ Llm \subseteq Counters
  BY DEF Counters, BootCounters, RestartingCounters

\* A known counter that did not restart has grown, since its baseline was
\* read, by what happened since.
Tracked(c) ==
  c \in known \ restarted
    => /\ counter[c] >= baseline[c]
       /\ counter[c] - baseline[c] = real[c] - last[c]

CountersInv == \A c \in Counters \ misread : Tracked(c)

LEMMA TypeInit == Init => TypeOK
<1> SUFFICES ASSUME Init PROVE TypeOK
  OBVIOUS
<1> QED BY CountersAssumption DEF Init, TypeOK

LEMMA CountersInit == Init => NoInventedEvents /\ CountersInv
  BY DEF Init, NoInventedEvents, CountersInv, Tracked, Pending

-----------------------------------------------------------------------------
(* Collection *)

LEMMA TakeType ==
  ASSUME TypeOK, NEW got \in SUBSET Counters, NEW value \in [Counters -> Nat],
         NEW kept \in SUBSET Counters, NEW stale, Take(got, value, kept, stale),
         misread' \in SUBSET Counters, steps' \in Nat
  PROVE  TypeOK'
<1> USE DEF TypeOK, Take
<1>1. known' \in SUBSET Counters /\ restarted' \in SUBSET Counters
      /\ deltas' \in SUBSET Counters
  OBVIOUS
<1>2. baseline' \in [Counters -> Nat]
  BY DEF Remembered
<1>3. last' \in [Counters -> Nat]
  OBVIOUS
<1>4. reported' \in [Counters -> Nat]
  <2>1. \A c \in Counters : Grown(value[c], baseline[c]) \in Nat
    BY GrownType
  <2>2. \A c \in Counters : reported[c] + Grown(value[c], baseline[c]) \in Nat
    BY <2>1
  <2> QED BY <2>2
<1> QED BY <1>1, <1>2, <1>3, <1>4

\* What one collection does to one counter, taken as it stands or not at all.
LEMMA TakeCounter ==
  ASSUME TypeOK, NEW got \in SUBSET Counters, NEW value \in [Counters -> Nat],
         NEW kept \in SUBSET known, NEW stale, Take(got, value, kept, stale),
         NEW c \in Counters, c \in got => value[c] = counter[c],
         reported[c] + Pending(c) <= real[c], Tracked(c)
  PROVE  /\ reported'[c] + Pending(c)' <= real'[c]
         /\ Tracked(c)'
         /\ c \in deltas' \ restarted
              => reported'[c] - reported[c] = real[c] - last[c]
<1> USE DEF TypeOK
<1>1. /\ counter' = counter /\ real' = real
      /\ known' = got \union kept
      /\ restarted' = restarted \ got
      /\ deltas' = (got \cap known) \ stale
  BY DEF Take
<1>2. /\ baseline'[c] = IF c \in got THEN value[c] ELSE baseline[c]
      /\ last'[c] = IF c \in got THEN real[c] ELSE last[c]
      /\ reported'[c] = IF c \in (got \cap known) \ stale
                          THEN reported[c] + Grown(value[c], baseline[c])
                          ELSE reported[c]
  BY DEF Take, Remembered
<1>3. /\ counter[c] \in Nat /\ baseline[c] \in Nat /\ real[c] \in Nat
      /\ reported[c] \in Nat /\ last[c] \in Nat
  OBVIOUS
<1>4. Grown(counter[c], baseline[c]) \in Nat
  BY <1>3, GrownType
<1>5. CASE c \in got
  <2>1. baseline'[c] = counter[c] /\ last'[c] = real[c] /\ c \in known'
        /\ c \notin restarted'
    BY <1>1, <1>2, <1>5
  <2>2. Pending(c)' = 0
    BY <2>1, <1>1, <1>3 DEF Pending, Grown
  <2>3. Tracked(c)'
    BY <2>1, <1>1, <1>3 DEF Tracked
  <2>4. CASE c \in known \ stale
    <3>1. reported'[c] = reported[c] + Pending(c)
      BY <1>2, <1>5, <2>4 DEF Pending
    <3>2. reported'[c] + Pending(c)' <= real'[c]
      BY <3>1, <2>2, <1>1, <1>3, <1>4 DEF Pending
    <3>3. c \notin restarted => Pending(c) = real[c] - last[c]
      BY <2>4, <1>3 DEF Tracked, Pending, Grown
    <3>4. c \notin restarted => reported'[c] - reported[c] = real[c] - last[c]
      BY <3>1, <3>3, <1>3
    <3> QED BY <3>2, <3>4, <2>3
  <2>5. CASE c \notin known \ stale
    <3>1. reported'[c] = reported[c] /\ c \notin deltas'
      BY <1>1, <1>2, <2>5
    <3>2. Pending(c) \in Nat
      BY <1>4 DEF Pending
    <3>3. reported[c] <= real[c]
      BY <3>2, <1>3
    <3> QED BY <3>1, <3>3, <2>2, <2>3, <1>1, <1>3
  <2> QED BY <2>4, <2>5
<1>6. CASE c \notin got
  <2>1. /\ reported'[c] = reported[c] /\ baseline'[c] = baseline[c]
        /\ last'[c] = last[c] /\ c \notin deltas'
        /\ c \in restarted' <=> c \in restarted
        /\ c \in known' => c \in known
    BY <1>1, <1>2, <1>6
  <2>2. Pending(c)' <= Pending(c) /\ Pending(c) \in Nat /\ Pending(c)' \in Nat
    BY <2>1, <1>1, <1>3, <1>4 DEF Pending
  <2>3. Tracked(c)'
    BY <2>1, <1>1 DEF Tracked
  <2> QED BY <2>1, <2>2, <2>3, <1>1, <1>3
<1> QED BY <1>5, <1>6

\* What a step must keep, and what it must say about deltas.
Kept == TypeOK' /\ NoInventedEvents' /\ CountersInv'
DeltaStep ==
  \A c \in deltas' \ (misread' \union restarted) :
    reported'[c] - reported[c] = real[c] - last[c]

LEMMA TakeStep ==
  ASSUME TypeOK, NoInventedEvents, CountersInv,
         NEW got \in SUBSET Counters, NEW value \in [Counters -> Nat],
         NEW kept \in SUBSET known, NEW stale, Take(got, value, kept, stale),
         NEW unread \in SUBSET Counters, misread' = misread \union unread,
         \A c \in got \ unread : value[c] = counter[c],
         steps' \in Nat
  PROVE  Kept /\ DeltaStep
<1>1. TypeOK'
  <2>1. kept \in SUBSET Counters /\ misread' \in SUBSET Counters
    BY DEF TypeOK
  <2> QED BY <2>1, TakeType
<1>2. ASSUME NEW c \in Counters \ misread'
      PROVE  /\ reported'[c] + Pending(c)' <= real'[c]
             /\ Tracked(c)'
             /\ c \in deltas' \ restarted
                  => reported'[c] - reported[c] = real[c] - last[c]
  <2>1. reported[c] + Pending(c) <= real[c] /\ Tracked(c)
    BY DEF NoInventedEvents, CountersInv
  <2>2. c \in got => value[c] = counter[c]
    OBVIOUS
  <2> QED BY <2>1, <2>2, TakeCounter
<1>3. deltas' \subseteq Counters
  BY <1>1 DEF TypeOK
<1> QED BY <1>1, <1>2, <1>3 DEF Kept, DeltaStep, NoInventedEvents, CountersInv

\* Every collection is a Take, or takes nothing.
Collect ==
  \/ \E read \in SUBSET Cpu : CollectCpu(read)
  \/ CollectVmstat
  \/ \E read \in SUBSET Carrier : CollectNetwork(read)
  \/ \E read \in SUBSET Disk : CollectBlock(read)
  \/ \E read \in SUBSET Cgroup : CollectCgroup(read)
  \/ \E read \in SUBSET Llm : CollectLlm(read)

LEMMA ZeroUnlessType ==
  ASSUME TypeOK, NEW read
  PROVE  /\ ZeroUnless(read) \in [Counters -> Nat]
         /\ \A c \in Counters \ ((Cpu \union Carrier) \ read) :
              ZeroUnless(read)[c] = counter[c]
  BY DEF TypeOK, ZeroUnless

\* A collection that takes counters as they stand.
LEMMA TakeAsRead ==
  ASSUME TypeOK, NoInventedEvents, CountersInv,
         NEW got \in SUBSET Counters, NEW kept \in SUBSET known, NEW stale,
         Take(got, counter, kept, stale), AllRead
  PROVE  Kept /\ DeltaStep
<1> DEFINE value == counter
           unread == {}
<1>1. value \in [Counters -> Nat] /\ unread \in SUBSET Counters
  BY DEF TypeOK
<1>2. /\ Take(got, value, kept, stale)
      /\ misread' = misread \union unread /\ steps' \in Nat
  BY DEF TypeOK, AllRead
<1>3. \A c \in got \ unread : value[c] = counter[c]
  OBVIOUS
<1> HIDE DEF value, unread
<1> QED BY <1>1, <1>2, <1>3, TakeStep

LEMMA CollectStep ==
  ASSUME TypeOK, NoInventedEvents, CountersInv, Collect
  PROVE  Kept /\ DeltaStep
<1>1. counter \in [Counters -> Nat] /\ known \subseteq Counters
      /\ present \subseteq Counters
  BY DEF TypeOK
<1>2. ASSUME NEW read \in SUBSET Cpu, CollectCpu(read)
      PROVE  Kept /\ DeltaStep
  <2> DEFINE value == ZeroUnless(read)
             unread == Cpu \ read
  <2>1. /\ Cpu \in SUBSET Counters /\ unread \in SUBSET Counters
        /\ known \ Cpu \in SUBSET known
    BY CountersSets
  <2>2. value \in [Counters -> Nat] /\ \A c \in Cpu \ unread : value[c] = counter[c]
    BY <2>1, ZeroUnlessType, CountersAssumption
       DEF BootCounters, RestartingCounters
  <2>3. /\ Take(Cpu, value, known \ Cpu, {})
        /\ misread' = misread \union unread /\ steps' \in Nat
    BY <1>2 DEF CollectCpu, TakenAsZero, TypeOK
  <2> HIDE DEF value, unread
  <2> QED BY <2>1, <2>2, <2>3, TakeStep
<1>3. CASE CollectVmstat
  <2>1. Vmstat \cap present \in SUBSET Counters /\ known \ Vmstat \in SUBSET known
    BY <1>1
  <2>2. /\ Take(Vmstat \cap present, counter, known \ Vmstat, {})
        /\ AllRead
    BY <1>3 DEF CollectVmstat
  <2> QED BY <2>1, <2>2, TakeAsRead
<1>4. ASSUME NEW read \in SUBSET Carrier, CollectNetwork(read)
      PROVE  Kept /\ DeltaStep
  <2> DEFINE got == (Network \union Carrier) \cap present
             value == ZeroUnless(read)
             kept == known \ (Network \union Carrier)
             unread == (Carrier \cap present) \ read
  <2>1. /\ got \in SUBSET Counters /\ kept \in SUBSET known
        /\ unread \in SUBSET Counters
    BY <1>1
  <2>2. value \in [Counters -> Nat] /\ \A c \in got \ unread : value[c] = counter[c]
    BY <2>1, ZeroUnlessType, CountersAssumption
       DEF BootCounters, RestartingCounters
  <2>3. /\ Take(got, value, kept, {})
        /\ misread' = misread \union unread /\ steps' \in Nat
    BY <1>4 DEF CollectNetwork, TakenAsZero, TypeOK
  <2> HIDE DEF got, value, kept, unread
  <2> QED BY <2>1, <2>2, <2>3, TakeStep
<1>5. ASSUME NEW read \in SUBSET Disk, CollectBlock(read)
      PROVE  Kept /\ DeltaStep
  <2>1. /\ Disk \cap present \cap read \in SUBSET Counters
        /\ known \ Disk \in SUBSET known
    BY <1>1
  <2>2. /\ Take(Disk \cap present \cap read, counter, known \ Disk, {})
        /\ AllRead
    BY <1>5 DEF CollectBlock, Devices
  <2> QED BY <2>1, <2>2, TakeAsRead
<1>6. ASSUME NEW read \in SUBSET Cgroup, CollectCgroup(read)
      PROVE  Kept /\ DeltaStep
  <2> DEFINE got == Cgroup \cap present \cap read
  <2>1. got \in SUBSET Counters /\ known \ got \in SUBSET known
    BY <1>1
  <2>2. /\ Take(got, counter, known \ got, {})
        /\ AllRead
    BY <1>6 DEF CollectCgroup
  <2> HIDE DEF got
  <2> QED BY <2>1, <2>2, TakeAsRead
<1>7. ASSUME NEW read \in SUBSET Llm, CollectLlm(read)
      PROVE  Kept /\ DeltaStep
  <2> DEFINE got == Llm \cap present \cap read
             stale == {c \in got : counter[c] < baseline[c]}
  <2>1. got \in SUBSET Counters /\ known \ got \in SUBSET known
    BY <1>1
  <2>2. /\ Take(got, counter, known \ got, stale)
        /\ AllRead
    BY <1>7 DEF CollectLlm
  <2> HIDE DEF got, stale
  <2> QED BY <2>1, <2>2, TakeAsRead
<1> QED BY <1>2, <1>3, <1>4, <1>5, <1>6, <1>7 DEF Collect

-----------------------------------------------------------------------------
(* The other steps *)

\* A failed read and a new LlmProbe only forget.
LEMMA ForgetStep ==
  ASSUME TypeOK, NoInventedEvents, CountersInv, ReadFails \/ ReloadLlm
  PROVE  Kept /\ DeltaStep
<1>1. /\ UNCHANGED <<worldVars, baseline, reported, last>>
      /\ known' \subseteq known /\ deltas' = {} /\ misread' = misread
  BY DEF ReadFails, ReloadLlm
<1>2. TypeOK'
  BY <1>1 DEF TypeOK, worldVars
<1>3. ASSUME NEW c \in Counters \ misread'
      PROVE  reported'[c] + Pending(c)' <= real'[c] /\ Tracked(c)'
  <2>1. reported[c] + Pending(c) <= real[c] /\ Tracked(c)
    BY <1>1 DEF NoInventedEvents, CountersInv
  <2>2. /\ counter[c] \in Nat /\ baseline[c] \in Nat
        /\ reported[c] \in Nat /\ real[c] \in Nat
    BY DEF TypeOK
  <2>3. Grown(counter[c], baseline[c]) \in Nat
    BY <2>2, GrownType
  <2>4. Pending(c)' <= Pending(c) /\ Pending(c) \in Nat /\ Pending(c)' \in Nat
    BY <1>1, <2>2, <2>3 DEF Pending, worldVars
  <2>5. Tracked(c)'
    BY <1>1, <2>1 DEF Tracked, worldVars
  <2> QED BY <1>1, <2>1, <2>2, <2>4, <2>5 DEF worldVars
<1> QED BY <1>1, <1>2, <1>3 DEF Kept, DeltaStep, NoInventedEvents, CountersInv

World ==
  \/ \E c \in Counters : Happens(c)
  \/ \E c \in RestartingCounters : Restarts(c) \/ Vanishes(c)

LEMMA WorldStep ==
  ASSUME TypeOK, NoInventedEvents, CountersInv, World
  PROVE  Kept /\ UNCHANGED collectorVars
<1> USE DEF TypeOK
<1>1. ASSUME NEW d \in Counters, Happens(d) PROVE Kept /\ UNCHANGED collectorVars
  <2>1. TypeOK' /\ UNCHANGED collectorVars
    BY <1>1 DEF Happens, collectorVars
  <2>2. ASSUME NEW c \in Counters \ misread
        PROVE  reported'[c] + Pending(c)' <= real'[c] /\ Tracked(c)'
    <3>1. reported[c] + Pending(c) <= real[c] /\ Tracked(c)
      BY DEF NoInventedEvents, CountersInv
    <3>2. /\ reported' = reported /\ known' = known /\ baseline' = baseline
          /\ last' = last /\ restarted' = restarted
      BY <1>1 DEF Happens, collectorVars
    <3>3. \/ counter'[c] = counter[c] /\ real'[c] = real[c]
          \/ counter'[c] = counter[c] + 1 /\ real'[c] = real[c] + 1
      BY <1>1 DEF Happens
    <3>4. Tracked(c)'
      BY <3>1, <3>2, <3>3 DEF Tracked
    <3>5. reported'[c] + Pending(c)' <= real'[c]
      BY <3>1, <3>2, <3>3 DEF Pending, Grown
    <3> QED BY <3>4, <3>5
  <2> QED BY <2>1, <2>2 DEF Kept, NoInventedEvents, CountersInv, collectorVars
<1>2. ASSUME NEW d \in RestartingCounters, Restarts(d)
      PROVE  Kept /\ UNCHANGED collectorVars
  <2>1. TypeOK' /\ UNCHANGED collectorVars
    BY <1>2, CountersSets DEF Restarts, collectorVars
  <2>2. ASSUME NEW c \in Counters \ misread
        PROVE  reported'[c] + Pending(c)' <= real'[c] /\ Tracked(c)'
    <3>1. reported[c] + Pending(c) <= real[c] /\ Tracked(c)
      BY DEF NoInventedEvents, CountersInv
    <3>2. /\ reported' = reported /\ known' = known /\ baseline' = baseline
          /\ last' = last /\ real' = real
      BY <1>2 DEF Restarts, collectorVars
    <3>3. \/ counter'[c] = counter[c] /\ (c \in restarted' <=> c \in restarted)
          \/ counter'[c] = 0 /\ c \in restarted'
      BY <1>2 DEF Restarts
    <3>4. Tracked(c)'
      BY <3>1, <3>2, <3>3 DEF Tracked
    <3>5. reported'[c] + Pending(c)' <= real'[c]
      BY <3>1, <3>2, <3>3 DEF Pending, Grown
    <3> QED BY <3>4, <3>5
  <2> QED BY <2>1, <2>2 DEF Kept, NoInventedEvents, CountersInv, collectorVars
<1>3. ASSUME NEW d \in RestartingCounters, Vanishes(d)
      PROVE  Kept /\ UNCHANGED collectorVars
  <2>1. /\ TypeOK' /\ UNCHANGED collectorVars
        /\ UNCHANGED <<counter, real, restarted>>
    BY <1>3, CountersSets DEF Vanishes, collectorVars
  <2>2. NoInventedEvents' /\ CountersInv'
    BY <2>1 DEF NoInventedEvents, CountersInv, Tracked, Pending, Grown,
                collectorVars
  <2> QED BY <2>1, <2>2 DEF Kept
<1> QED BY <1>1, <1>2, <1>3 DEF World

LEMMA CountersStep ==
  ASSUME TypeOK, NoInventedEvents, CountersInv, [Next]_vars
  PROVE  Kept /\ (UNCHANGED collectorVars \/ DeltaStep)
<1>1. CASE Next
  <2>1. Next => World \/ Collect \/ ReadFails \/ ReloadLlm
    BY DEF Next, World, Collect
  <2> QED BY <1>1, <2>1, WorldStep, CollectStep, ForgetStep
<1>2. CASE UNCHANGED vars
  BY <1>2 DEF vars, worldVars, collectorVars, Kept, TypeOK, NoInventedEvents,
              CountersInv, Tracked, Pending, Grown
<1> QED BY <1>1, <1>2

LEMMA CountersInvariant == Spec => [](TypeOK /\ NoInventedEvents /\ CountersInv)
<1>1. Init => TypeOK /\ NoInventedEvents /\ CountersInv
  BY TypeInit, CountersInit
<1>2. TypeOK /\ NoInventedEvents /\ CountersInv /\ [Next]_vars
        => (TypeOK /\ NoInventedEvents /\ CountersInv)'
  BY CountersStep DEF Kept
<1> QED BY <1>1, <1>2, PTL DEF Spec

(***************************************************************************)
(* The collectors keep their types: baselines and sums stay natural        *)
(* numbers through every restart, failed read and reload, so no            *)
(* subtraction underflows.                                                 *)
(***************************************************************************)
THEOREM TypeCorrect == Spec => []TypeOK
<1> QED BY CountersInvariant, PTL

(***************************************************************************)
(* The deltas of a counter never add up to more than happened, whatever    *)
(* fails, restarts or disappears between the readings (spark-linux and     *)
(* spark-probes), unless it was once taken as 0 unread.                    *)
(***************************************************************************)
THEOREM NothingInvented == Spec => []NoInventedEvents
<1> QED BY CountersInvariant, PTL

(***************************************************************************)
(* Every delta covers exactly the events since the last reading, unless    *)
(* the counter restarted in between or was once taken as 0 unread.         *)
(***************************************************************************)
THEOREM NothingSkipped == Spec => DeltasComplete
<1>1. TypeOK /\ NoInventedEvents /\ CountersInv /\ [Next]_vars
        => [\A c \in deltas' \ (misread' \union restarted) :
              collectorVars' # collectorVars
                => reported'[c] - reported[c] = real[c] - last[c]]_vars
  BY CountersStep DEF DeltaStep
<1> QED BY <1>1, CountersInvariant, PTL DEF Spec, DeltasComplete
=============================================================================
