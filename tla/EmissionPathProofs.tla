-------------------------- MODULE EmissionPathProofs --------------------------
(***************************************************************************)
(* Proofs about the way of a series to the bridge: it implements the       *)
(* emission filter, and what the bridge shows is what was collected.       *)
(***************************************************************************)
EXTENDS EmissionPath, SignalEmitterProofs

\* The filter is used as it is: every step of the path is one of it or none.
LEMMA PathStep == [Next]_vars => [EmitterNext]_emitterVars
<1> SUFFICES ASSUME [Next]_vars PROVE [EmitterNext]_emitterVars
  OBVIOUS
<1>1. ASSUME NEW k \in Keys, NEW o \in Observations, Collect(k, o)
      PROVE  EmitterNext
  BY <1>1 DEF Collect, EmitterNext
<1>2. ASSUME NEW rs \in RuleFiles, Hangup(rs) PROVE EmitterNext
  BY <1>2 DEF Hangup, EmitterNext
<1>3. CASE Publish \/ Deliver \/ Lose \/ Replay \/ BridgeRestarts
  BY <1>3 DEF Publish, Deliver, Lose, Replay, BridgeRestarts
<1>4. CASE UNCHANGED vars
  BY <1>4 DEF vars
<1> QED BY <1>1, <1>2, <1>3, <1>4 DEF Next

(***************************************************************************)
(* The path to the bridge implements the emission filter: batches, losses, *)
(* replays and restarts of the bridge have no influence on what is emitted *)
(* (main.rs calls filter once per batch and publishes the result).         *)
(***************************************************************************)
THEOREM PathImplementsFilter == Spec => EmitterSpec
<1>1. Init => EmitterInit
  BY DEF Init
<1> QED BY <1>1, PathStep, PTL DEF Spec, EmitterSpec

-----------------------------------------------------------------------------

PathType ==
  /\ todo \in SUBSET Keys
  /\ batch \in SUBSET Points
  /\ ahead \in Seq(SUBSET Points)
  /\ held \in SUBSET Points
  /\ missing \in SUBSET Keys

BridgeType ==
  /\ gauge \in [Keys -> Observations \union {None}]
  /\ notice \in [Keys -> Observations \union {None}]
  /\ unsupported \in SUBSET Keys

\* What the log keeps silent about stands in it already.
Announced == \A k \in unsupported : notice[k] # None

Holds(b, k) == \A p \in b : p.key = k => p.o = emitted[k]

\* The last emission of k has left the agent and nothing of k follows it.
Past(k) == k \notin KeysOf(batch) /\ \A j \in DOMAIN ahead : k \notin KeysOf(ahead[j])

\* The newest batch with a point of k holds the last emission of k, and when
\* it is not under way any more the bridge tells it, or it is missing.
Tracked(k) ==
  /\ k \in todo => k \notin KeysOf(batch)
  /\ emitted[k] # None =>
       /\ Holds(batch, k)
       /\ k \notin KeysOf(batch) =>
            \A i \in DOMAIN ahead :
              (\A j \in DOMAIN ahead : i < j => k \notin KeysOf(ahead[j]))
                => Holds(ahead[i], k)
       /\ Past(k) => Holds(held, k)
       /\ Past(k) /\ k \notin missing => Tells(k, emitted[k])

PathInv == /\ EmitterInv /\ PathType /\ BridgeType /\ Announced
           /\ \A k \in Keys : Tracked(k)

LEMMA PointIn ==
  ASSUME NEW b, NEW k, k \in KeysOf(b)
  PROVE  PointOf(b, k) \in b /\ PointOf(b, k).key = k
BY DEF KeysOf, PointOf

\* The wire changes what is not a number and nothing else.
LEMMA SentAs ==
  ASSUME NEW b \in SUBSET Points, NEW k \in KeysOf(b)
  PROVE  /\ PointOf(b, k).o \in Observations
         /\ PointOf(b, k).o.value # NaN => Sent(b, k) = PointOf(b, k).o
         /\ Sent(b, k).tag = PointOf(b, k).o.tag
         /\ Available(Sent(b, k)) => Sent(b, k) = PointOf(b, k).o
<1>1. PointOf(b, k).o \in Observations
  BY PointIn DEF Points
<1>2. PointOf(b, k).o \in [value : Values \union {NoValue}, tag : Tags]
  BY <1>1, ObservationsAssumption
<1> QED BY <1>1, <1>2 DEF Sent, OnWire, Available

LEMMA NoneUncollected == None \notin Observations
BY ObservationsAssumption, NoneAssumption DEF None

\* What is logged is the point as it was collected.
LEMMA LoggedAs ==
  ASSUME NEW b \in SUBSET Points, NEW k \in Logged(b)
  PROVE  /\ k \in KeysOf(b) /\ Sent(b, k) = PointOf(b, k).o
         /\ Sent(b, k) \in Observations /\ Sent(b, k) # None
<1>1. k \in KeysOf(b) /\ Sent(b, k).tag \in CodedTags
  BY PathAssumption DEF Logged
<1>2. PointOf(b, k).o \in Observations /\ ~Available(PointOf(b, k).o)
  BY <1>1, SentAs, PathAssumption
<1>3. PointOf(b, k).o \in [value : Values \union {NoValue}, tag : Tags]
  BY <1>2, ObservationsAssumption
<1>4. Sent(b, k) = PointOf(b, k).o
  BY <1>2, <1>3 DEF Sent, OnWire, Available
<1> QED BY <1>1, <1>2, <1>4, NoneUncollected

\* A batch that decodes tells its points.
LEMMA RecordTells ==
  ASSUME PathInv, NEW b \in SUBSET Points, Record(b),
         NEW k \in Keys, k \in KeysOf(b)
  PROVE  Tells(k, PointOf(b, k).o)'
<1> DEFINE o == PointOf(b, k).o
<1>1. /\ o \in Observations /\ o # None
      /\ o.value # NaN => Sent(b, k) = o
      /\ Sent(b, k).tag = o.tag
  BY SentAs, NoneUncollected
<1>2. /\ gauge'[k] = IF k \in Measured(b) THEN Sent(b, k) ELSE gauge[k]
      /\ notice'[k] = IF k \in Measured(b) THEN None
                       ELSE IF k \in Logged(b) THEN Sent(b, k) ELSE notice[k]
  BY DEF Record
<1>3. k \in Measured(b) <=> Available(Sent(b, k))
  BY DEF Measured
<1> SUFFICES ASSUME o.value # NaN PROVE Tells(k, o)'
  BY DEF Tells
<1>4. CASE Available(o)
  <2>1. gauge'[k] = o /\ notice'[k] = None
    BY <1>1, <1>2, <1>3, <1>4
  <2> QED BY <1>4, <2>1 DEF Tells
<1>5. CASE ~Available(o)
  <2>1. k \notin Measured(b) /\ o.tag \in CodedTags
    BY <1>1, <1>3, <1>5, PathAssumption
  <2>2. CASE k \in Logged(b)
    BY <1>1, <1>2, <1>5, <2>1, <2>2 DEF Tells
  <2>3. CASE k \notin Logged(b)
    <3>1. k \in unsupported /\ o.tag \in UnsupportedTags
      BY <1>1, <2>1, <2>3 DEF Logged
    <3>2. notice'[k] # None
      BY <1>2, <2>1, <2>3, <3>1 DEF PathInv, Announced
    <3> QED BY <1>5, <3>1, <3>2 DEF Tells
  <2> QED BY <2>2, <2>3
<1> QED BY <1>4, <1>5

\* What one batch does to the bridge.
LEMMA TakeTracks ==
  ASSUME PathInv, NEW b \in SUBSET Points, Take(b), emitted' = emitted,
         NEW k \in Keys, Holds(b, k), k \notin missing',
         k \in KeysOf(b) \/ Tells(k, emitted[k]) \/ k \in missing
  PROVE  Tells(k, emitted[k])'
<1>1. CASE Decodes(b)
  <2>1. Record(b) /\ missing' = missing \ KeysOf(b)
    BY <1>1 DEF Take
  <2>2. CASE k \in KeysOf(b)
    <3>1. PointOf(b, k).o = emitted[k]
      BY <2>2, PointIn DEF Holds
    <3>2. Tells(k, PointOf(b, k).o)'
      BY <2>1, <2>2, RecordTells
    <3> QED BY <3>1, <3>2 DEF Tells
  <2>3. CASE k \notin KeysOf(b)
    <3>1. Tells(k, emitted[k])
      BY <2>1, <2>3
    <3>2. k \notin Measured(b) /\ k \notin Logged(b)
      BY <2>3 DEF Measured, Logged
    <3>3. gauge'[k] = gauge[k] /\ notice'[k] = notice[k]
      BY <2>1, <3>2 DEF Record
    <3> QED BY <3>1, <3>3 DEF Tells
  <2> QED BY <2>2, <2>3
<1>2. CASE ~Decodes(b)
  <2>1. UNCHANGED bridgeVars /\ missing' = missing \union KeysOf(b)
    BY <1>2 DEF Take
  <2>2. Tells(k, emitted[k])
    BY <2>1
  <2> QED BY <2>1, <2>2 DEF Tells, bridgeVars
<1> QED BY <1>1, <1>2

LEMMA TakeTypes ==
  ASSUME PathInv, NEW b \in SUBSET Points, Take(b)
  PROVE  missing' \in SUBSET Keys /\ BridgeType' /\ Announced'
<1>1. KeysOf(b) \subseteq Keys
  BY DEF KeysOf, Points
<1>2. CASE Decodes(b)
  <2>1. Record(b) /\ missing' \in SUBSET Keys
    BY <1>1, <1>2 DEF Take, PathInv, PathType
  <2>2. Measured(b) \subseteq KeysOf(b) /\ Logged(b) \subseteq KeysOf(b)
    BY DEF Measured, Logged
  <2>3. \A k \in Measured(b) : Sent(b, k) \in Observations
    BY <2>2, SentAs DEF Measured
  <2>4. gauge' \in [Keys -> Observations \union {None}]
    BY <2>1, <2>3 DEF Record, PathInv, BridgeType
  <2>5. notice' \in [Keys -> Observations \union {None}]
    BY <2>1, LoggedAs DEF Record, PathInv, BridgeType
  <2>6. unsupported' \in SUBSET Keys
    BY <1>1, <2>1, <2>2 DEF Record, PathInv, BridgeType
  <2>7. ASSUME NEW k \in unsupported' PROVE notice'[k] # None
    <3>1. k \in Keys /\ (k \in Logged(b) \/ (k \in unsupported /\ k \notin Measured(b)))
      BY <2>1, <2>6 DEF Record, Rearmed
    <3>2. k \notin Measured(b)
      BY <3>1 DEF Logged
    <3>3. notice'[k] = IF k \in Logged(b) THEN Sent(b, k) ELSE notice[k]
      BY <2>1, <3>1, <3>2 DEF Record
    <3> QED BY <3>1, <3>3, LoggedAs DEF PathInv, Announced
  <2> QED BY <2>1, <2>4, <2>5, <2>6, <2>7 DEF BridgeType, Announced
<1>3. CASE ~Decodes(b)
  BY <1>1, <1>3 DEF Take, PathInv, PathType, BridgeType, Announced, bridgeVars
<1> QED BY <1>2, <1>3

LEMMA PathStart == Init => PathInv
<1> SUFFICES ASSUME Init PROVE PathInv
  OBVIOUS
<1>1. EmitterInv
  BY EmitterStart DEF Init
<1>2. PathType /\ BridgeType /\ Announced
  BY DEF Init, BridgeInit, PathType, BridgeType, Announced
<1>3. ASSUME NEW k \in Keys PROVE Tracked(k)
  <2>1. emitted[k] = None
    BY DEF Init, EmitterInit
  <2>2. k \notin KeysOf(batch)
    BY DEF Init, KeysOf
  <2> QED BY <2>1, <2>2 DEF Tracked
<1> QED BY <1>1, <1>2, <1>3 DEF PathInv

LEMMA CollectStep ==
  ASSUME PathInv, NEW k \in Keys, NEW o \in Observations, Collect(k, o)
  PROVE  PathType' /\ BridgeType' /\ Announced' /\ \A l \in Keys : Tracked(l)'
<1> DEFINE new == [key |-> k, o |-> o]
<1>1. new \in Points
  BY DEF Points
<1>2. PathType' /\ BridgeType' /\ Announced'
  BY <1>1 DEF Collect, PathInv, PathType, BridgeType, Announced, bridgeVars
<1>3. /\ UNCHANGED <<ahead, held, bridgeVars, missing>>
      /\ todo' = todo \ {k} /\ k \in todo
  BY DEF Collect
<1>4. k \notin KeysOf(batch)
  BY <1>3 DEF PathInv, Tracked
<1>5. CASE ~ShouldEmit(k, o)
  <2>1. batch' = batch /\ emitted' = emitted
    BY <1>5 DEF Collect, Filter
  <2>2. ASSUME NEW l \in Keys PROVE Tracked(l)'
    <3>1. Tracked(l)
      BY DEF PathInv
    <3> QED BY <1>3, <2>1, <3>1 DEF Tracked, Holds, Past, KeysOf, Tells, bridgeVars
  <2> QED BY <1>2, <2>2
<1>6. CASE ShouldEmit(k, o)
  <2>1. batch' = batch \union {new} /\ emitted' = [emitted EXCEPT ![k] = o]
    BY <1>6 DEF Collect, Filter
  <2>2. \A l : l \in KeysOf(batch') <=> l \in KeysOf(batch) \/ l = k
    <3>1. new.key = k
      OBVIOUS
    <3> QED BY <2>1, <3>1, Zenon DEF KeysOf
  <2>3. emitted \in [Keys -> Observations \union {None}]
    BY DEF PathInv, EmitterInv, MemoryType
  <2>4. Tracked(k)'
    <3>1. Holds(batch, k)'
      <4> SUFFICES ASSUME NEW p \in batch', p.key = k PROVE p.o = emitted'[k]
        BY DEF Holds
      <4>1. p = new
        BY <1>4, <2>1 DEF KeysOf
      <4> QED BY <2>1, <2>3, <4>1
    <3>2. (k \in KeysOf(batch))' /\ k \notin todo'
      BY <1>3, <2>2
    <3> QED BY <3>1, <3>2 DEF Tracked, Past
  <2>5. ASSUME NEW l \in Keys, l # k PROVE Tracked(l)'
    <3>1. emitted'[l] = emitted[l]
      BY <2>1, <2>3, <2>5
    <3>2. l \in KeysOf(batch') <=> l \in KeysOf(batch)
      BY <2>2, <2>5
    <3>3. Holds(batch, l) <=> Holds(batch, l)'
      BY <2>1, <2>5, <3>1 DEF Holds
    <3>4. \A b : Holds(b, l) <=> (\A p \in b : p.key = l => p.o = emitted'[l])
      BY <3>1 DEF Holds
    <3>5. Tracked(l)
      BY DEF PathInv
    <3> QED BY <1>3, <3>1, <3>2, <3>3, <3>4, <3>5
            DEF Tracked, Past, Holds, KeysOf, Tells, bridgeVars
  <2> QED BY <1>2, <2>4, <2>5
<1> QED BY <1>5, <1>6

LEMMA PublishStep ==
  ASSUME PathInv, Publish
  PROVE  PathType' /\ BridgeType' /\ Announced' /\ \A l \in Keys : Tracked(l)'
<1>1. /\ ahead' = Append(ahead, batch) /\ batch' = {} /\ todo' = Keys
      /\ UNCHANGED <<emitterVars, held, bridgeVars, missing>>
  BY DEF Publish
<1>2. /\ ahead \in Seq(SUBSET Points) /\ batch \in SUBSET Points
      /\ DOMAIN ahead = 1 .. Len(ahead) /\ Len(ahead) \in Nat
  BY DEF PathInv, PathType
<1>3. PathType' /\ BridgeType' /\ Announced'
  BY <1>1, <1>2 DEF PathInv, PathType, BridgeType, Announced, bridgeVars
<1>4. /\ DOMAIN ahead' = 1 .. Len(ahead) + 1
      /\ ahead'[Len(ahead) + 1] = batch
      /\ \A i \in DOMAIN ahead : ahead'[i] = ahead[i]
  BY <1>1, <1>2
<1>5. ASSUME NEW l \in Keys PROVE Tracked(l)'
  <2>1. l \notin KeysOf(batch')
    BY <1>1 DEF KeysOf
  <2>2. emitted' = emitted
    BY <1>1 DEF emitterVars
  <2>3. Tracked(l)
    BY DEF PathInv
  <2> SUFFICES ASSUME emitted[l] # None
               PROVE  /\ Holds(batch, l)'
                      /\ \A i \in DOMAIN ahead' :
                           (\A j \in DOMAIN ahead' : i < j => l \notin KeysOf(ahead'[j]))
                             => Holds(ahead'[i], l)
                      /\ Past(l)' => Holds(held, l)
                      /\ Past(l)' /\ l \notin missing
                           => Tells(l, emitted[l])
    BY <1>1, <2>1, <2>2 DEF Tracked, Holds, Tells, bridgeVars
  <2>4. Holds(batch, l)'
    BY <1>1 DEF Holds
  <2>5. ASSUME NEW i \in DOMAIN ahead',
               \A j \in DOMAIN ahead' : i < j => l \notin KeysOf(ahead'[j])
        PROVE  Holds(ahead'[i], l)
    <3>1. CASE i = Len(ahead) + 1
      BY <1>4, <2>3, <3>1 DEF Tracked
    <3>2. CASE i # Len(ahead) + 1
      <4>1. i \in DOMAIN ahead /\ i < Len(ahead) + 1
        BY <1>2, <1>4, <3>2
      <4>2. l \notin KeysOf(batch)
        BY <1>2, <1>4, <2>5, <4>1
      <4>3. \A j \in DOMAIN ahead : i < j => l \notin KeysOf(ahead[j])
        BY <1>2, <1>4, <2>5
      <4> QED BY <1>4, <2>3, <4>1, <4>2, <4>3 DEF Tracked
    <3> QED BY <3>1, <3>2
  <2>6. Past(l)' => Past(l)
    BY <1>2, <1>4 DEF Past
  <2> QED BY <2>3, <2>4, <2>5, <2>6 DEF Tracked
<1> QED BY <1>3, <1>5

LEMMA HangupStep ==
  ASSUME PathInv, NEW rs \in RuleFiles, Hangup(rs)
  PROVE  PathType' /\ BridgeType' /\ Announced' /\ \A l \in Keys : Tracked(l)'
<1>1. UNCHANGED pathVars
  BY DEF Hangup
<1>2. PathType' /\ BridgeType' /\ Announced'
  BY <1>1 DEF pathVars, bridgeVars, PathInv, PathType, BridgeType, Announced
<1>3. ASSUME NEW l \in Keys PROVE Tracked(l)'
  <2>1. Tracked(l)
    BY DEF PathInv
  <2>2. emitted' = emitted \/ emitted'[l] = None
    BY DEF Hangup, Reload, Fresh, emitterVars
  <2> QED BY <1>1, <2>1, <2>2
          DEF pathVars, bridgeVars, Tracked, Holds, Past, KeysOf, Tells
<1> QED BY <1>2, <1>3

\* A batch comes off the path and is taken or lost.
LEMMA ArrivalStep ==
  ASSUME PathInv, Deliver \/ Lose
  PROVE  PathType' /\ BridgeType' /\ Announced' /\ \A l \in Keys : Tracked(l)'
<1> DEFINE b == Head(ahead)
<1>1. /\ ahead # <<>> /\ ahead' = Tail(ahead) /\ held' = b
      /\ UNCHANGED <<emitterVars, todo, batch>>
  BY DEF Deliver, Lose
<1>2. /\ ahead \in Seq(SUBSET Points) /\ Len(ahead) \in Nat \ {0}
      /\ DOMAIN ahead = 1 .. Len(ahead) /\ b = ahead[1] /\ b \in SUBSET Points
  BY <1>1 DEF PathInv, PathType
<1>3. /\ DOMAIN ahead' = 1 .. Len(ahead) - 1
      /\ \A i \in DOMAIN ahead' : ahead'[i] = ahead[i + 1]
      /\ ahead' \in Seq(SUBSET Points)
  BY <1>1, <1>2
<1>4. missing' \in SUBSET Keys /\ BridgeType' /\ Announced'
  <2>1. CASE Deliver
    BY <1>2, <2>1, TakeTypes DEF Deliver
  <2>2. CASE Lose
    <3>1. KeysOf(b) \subseteq Keys
      BY <1>2 DEF KeysOf, Points
    <3> QED BY <2>2, <3>1
            DEF Lose, PathInv, PathType, BridgeType, Announced, bridgeVars
  <2> QED BY <2>1, <2>2
<1>5. PathType'
  BY <1>1, <1>2, <1>3, <1>4 DEF PathInv, PathType
<1>6. ASSUME NEW l \in Keys PROVE Tracked(l)'
  <2>1. emitted' = emitted
    BY <1>1 DEF emitterVars
  <2>2. Tracked(l)
    BY DEF PathInv
  <2> SUFFICES ASSUME emitted[l] # None
               PROVE  /\ l \notin KeysOf(batch) =>
                           \A i \in DOMAIN ahead' :
                             (\A j \in DOMAIN ahead' : i < j => l \notin KeysOf(ahead'[j]))
                               => Holds(ahead'[i], l)
                      /\ Past(l)' => Holds(b, l)
                      /\ Past(l)' /\ l \notin missing'
                           => Tells(l, emitted[l])'
    BY <1>1, <2>1, <2>2 DEF Tracked, Holds
  <2>3. ASSUME l \notin KeysOf(batch), NEW i \in DOMAIN ahead',
               \A j \in DOMAIN ahead' : i < j => l \notin KeysOf(ahead'[j])
        PROVE  Holds(ahead'[i], l)
    <3>1. i + 1 \in DOMAIN ahead /\ ahead'[i] = ahead[i + 1]
      BY <1>2, <1>3
    <3>2. ASSUME NEW j \in DOMAIN ahead, i + 1 < j PROVE l \notin KeysOf(ahead[j])
      <4>1. j - 1 \in DOMAIN ahead' /\ i < j - 1 /\ (j - 1) + 1 = j
        BY <1>2, <1>3, <3>2
      <4> QED BY <1>3, <2>3, <4>1
    <3> QED BY <2>2, <2>3, <3>1, <3>2 DEF Tracked
  <2>4. ASSUME Past(l)' PROVE Holds(b, l)
    <3>1. l \notin KeysOf(batch)
      BY <1>1, <2>4 DEF Past
    <3>2. ASSUME NEW j \in DOMAIN ahead, 1 < j PROVE l \notin KeysOf(ahead[j])
      <4>1. j - 1 \in DOMAIN ahead' /\ (j - 1) + 1 = j
        BY <1>2, <1>3, <3>2
      <4> QED BY <1>3, <2>4, <4>1 DEF Past
    <3> QED BY <1>2, <2>2, <3>1, <3>2 DEF Tracked
  <2>5. ASSUME Past(l)', l \notin missing' PROVE Tells(l, emitted[l])'
    <3>1. Holds(b, l)
      BY <2>4, <2>5
    <3>2. ASSUME l \notin KeysOf(b) PROVE Past(l)
      <4>1. ASSUME NEW j \in DOMAIN ahead PROVE l \notin KeysOf(ahead[j])
        <5>1. CASE j = 1
          BY <1>2, <3>2, <5>1
        <5>2. CASE j # 1
          <6>1. j - 1 \in DOMAIN ahead' /\ (j - 1) + 1 = j
            BY <1>2, <1>3, <5>2
          <6> QED BY <1>3, <2>5, <6>1 DEF Past
        <5> QED BY <5>1, <5>2
      <4> QED BY <1>1, <2>5, <4>1 DEF Past
    <3>3. l \in KeysOf(b) \/ Tells(l, emitted[l]) \/ l \in missing
      BY <2>2, <3>2 DEF Tracked
    <3>4. CASE Deliver
      BY <1>2, <2>1, <2>5, <3>1, <3>3, <3>4, TakeTracks DEF Deliver
    <3>5. CASE Lose
      BY <2>1, <2>5, <3>3, <3>5 DEF Lose, Tells, bridgeVars
    <3> QED BY <3>4, <3>5
  <2> QED BY <2>3, <2>4, <2>5
<1> QED BY <1>4, <1>5, <1>6

LEMMA ReplayStep ==
  ASSUME PathInv, Replay
  PROVE  PathType' /\ BridgeType' /\ Announced' /\ \A l \in Keys : Tracked(l)'
<1>1. Take(held) /\ UNCHANGED <<emitterVars, todo, batch, ahead, held>>
  BY DEF Replay
<1>2. held \in SUBSET Points
  BY DEF PathInv, PathType
<1>3. PathType' /\ BridgeType' /\ Announced'
  BY <1>1, <1>2, TakeTypes DEF PathInv, PathType
<1>4. ASSUME NEW l \in Keys PROVE Tracked(l)'
  <2>1. Tracked(l)
    BY DEF PathInv
  <2>2. emitted' = emitted
    BY <1>1 DEF emitterVars
  <2>3. ASSUME emitted[l] # None, Past(l), l \notin missing'
        PROVE  Tells(l, emitted[l])'
    <3>1. Holds(held, l) /\ (Tells(l, emitted[l]) \/ l \in missing)
      BY <2>1, <2>3 DEF Tracked
    <3> QED BY <1>1, <1>2, <2>2, <2>3, <3>1, TakeTracks
  <2> QED BY <1>1, <2>1, <2>2, <2>3 DEF Tracked, Holds, Past, KeysOf
<1> QED BY <1>3, <1>4

LEMMA RestartStep ==
  ASSUME PathInv, BridgeRestarts
  PROVE  PathType' /\ BridgeType' /\ Announced' /\ \A l \in Keys : Tracked(l)'
<1>1. PathType' /\ BridgeType' /\ Announced'
  BY DEF BridgeRestarts, PathInv, PathType, BridgeType, Announced
<1>2. ASSUME NEW l \in Keys PROVE Tracked(l)'
  <2>1. Tracked(l)
    BY DEF PathInv
  <2>2. l \in missing' /\ UNCHANGED <<emitted, todo, batch, ahead, held>>
    BY DEF BridgeRestarts, emitterVars
  <2> QED BY <2>1, <2>2 DEF Tracked, Holds, Past, KeysOf
<1> QED BY <1>1, <1>2

LEMMA PathInvStep == PathInv /\ [Next]_vars => PathInv'
<1> SUFFICES ASSUME PathInv, [Next]_vars PROVE PathInv'
  OBVIOUS
<1>1. EmitterInv'
  BY PathStep, EmitterStep DEF PathInv
<1>2. PathType' /\ BridgeType' /\ Announced' /\ \A l \in Keys : Tracked(l)'
  <2>1. CASE \E k \in Keys, o \in Observations : Collect(k, o)
    BY <2>1, CollectStep
  <2>2. CASE \E rs \in RuleFiles : Hangup(rs)
    BY <2>2, HangupStep
  <2>3. CASE UNCHANGED vars
    BY <2>3 DEF vars, pathVars, bridgeVars, emitterVars, PathInv, PathType,
                BridgeType, Announced, Tracked, Holds, Past, KeysOf, Tells
  <2> QED BY <2>1, <2>2, <2>3, PublishStep, ArrivalStep, ReplayStep, RestartStep
          DEF Next
<1> QED BY <1>1, <1>2 DEF PathInv

LEMMA PathInvariant == Spec => []PathInv
BY PathStart, PathInvStep, PTL DEF Spec

(***************************************************************************)
(* With nothing under way the bridge tells the last observation of every   *)
(* series whose last emission was not lost, refused or forgotten, unless   *)
(* it is not a number, however many ticks, reloads, replays and restarts   *)
(* there were (filter, decode_v1, record and the log of unavailable points *)
(* together).                                                              *)
(***************************************************************************)
THEOREM BridgeCurrent == Spec => []ConsumerCurrent
<1>1. ASSUME PathInv, ConsumerInSync PROVE ConsumerCurrent
  <2> SUFFICES ASSUME Quiet, NEW k \in Keys \ missing, observed[k] # None,
                      PolicyFor(rules, k) # "disabled"
               PROVE  \/ Tells(k, observed[k])
                      \/ /\ PolicyFor(rules, k) = "availability-change"
                         /\ ~Available(observed[k]) /\ notice[k] # None
    BY DEF ConsumerCurrent
  <2>1. Past(k)
    BY DEF Quiet, Past, KeysOf
  <2>2. emitted[k] # None => Tells(k, emitted[k])
    BY <1>1, <2>1 DEF PathInv, Tracked
  <2>3. CASE emitted[k] = observed[k]
    BY <2>2, <2>3
  <2>4. CASE emitted[k] # observed[k]
    <3>1. /\ PolicyFor(rules, k) = "availability-change"
          /\ emitted[k] # None /\ ~Available(emitted[k]) /\ ~Available(observed[k])
      <4>1. PolicyFor(rules, k) \in Policies
        BY <1>1, FilesLoaded, PolicyForType DEF PathInv, EmitterInv
      <4>2. Remembers(k)
        BY <1>1 DEF PathInv, EmitterInv
      <4> QED BY <2>4, <4>1, <4>2 DEF Remembers, Policies
    <3>2. CASE notice[k] # None
      BY <3>1, <3>2
    <3>3. CASE notice[k] = None
      <4>1. emitted[k].value = NaN /\ emitted[k].value = NoValue
        BY <2>2, <3>1, <3>3 DEF Tells, Available
      <4>2. observed[k].value = NaN
        BY <3>1, <4>1 DEF Available
      <4> QED BY <4>2 DEF Tells
    <3> QED BY <3>2, <3>3
  <2> QED BY <2>3, <2>4
<1>2. Spec => []ConsumerInSync
  BY PathImplementsFilter, ConsumerKnows, PTL
<1> QED BY <1>1, <1>2, PathInvariant, PTL
-----------------------------------------------------------------------------
(* Types *)

\* The agent waits for room on the way.
Room == Len(ahead) <= MaxAhead

LEMMA RoomStart == Init => Room
BY PathAssumption DEF Init, Room

LEMMA RoomStep == PathInv /\ Room /\ [Next]_vars => Room'
<1> SUFFICES ASSUME PathInv, Room, [Next]_vars PROVE Room'
  OBVIOUS
<1>1. /\ ahead \in Seq(SUBSET Points) /\ Len(ahead) \in Nat
      /\ batch \in SUBSET Points /\ MaxAhead \in Nat
  BY PathAssumption DEF PathInv, PathType
<1>2. CASE Publish
  <2>1. Len(ahead') = Len(ahead) + 1
    BY <1>1, <1>2 DEF Publish
  <2> QED BY <1>1, <1>2, <2>1 DEF Publish, Room
<1>3. CASE Deliver \/ Lose
  <2>1. ahead # <<>> /\ ahead' = Tail(ahead)
    BY <1>3 DEF Deliver, Lose
  <2>2. Len(ahead') = Len(ahead) - 1
    BY <1>1, <2>1
  <2> QED BY <1>1, <2>2 DEF Room
<1>4. CASE ahead' = ahead
  BY <1>4 DEF Room
<1> QED BY <1>2, <1>3, <1>4
        DEF Next, Collect, Hangup, Replay, BridgeRestarts, vars, pathVars

(***************************************************************************)
(* The emitter, the batches on their way and the bridge's gauges and log   *)
(* keep their types: only rule sets that load are active, and what the     *)
(* bridge puts out was collected.                                          *)
(***************************************************************************)
THEOREM TypeCorrect == Spec => []TypeOK
<1>1. PathInv /\ Room => TypeOK
  BY DEF PathInv, EmitterInv, MemoryType, PathType, BridgeType, Room,
         TypeOK, EmitterType
<1> QED BY <1>1, PathStart, PathInvStep, RoomStart, RoomStep, PTL DEF Spec
=============================================================================
