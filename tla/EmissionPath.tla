----------------------------- MODULE EmissionPath -----------------------------
(***************************************************************************)
(* A series from its collector to the bridge: the points of a tick pass    *)
(* the emission filter, what is left is published as one batch, batches    *)
(* may be skipped and sent again on the way, a consumer decodes or refuses *)
(* a batch as a whole, and the bridge records values in gauges and writes  *)
(* a log of what is unavailable.                                           *)
(*                                                                         *)
(* The path in between is taken for what Publisher is shown to implement,  *)
(* LatestValue: the consumer never goes back, may skip a batch for a later *)
(* one, and may get the latest one again.                                  *)
(***************************************************************************)
EXTENDS SignalEmitter

CONSTANTS
  Readings,         \* the observations that the collector of a key makes
  CodedTags,        \* tags with an error code
  UnsupportedTags,  \* tags with quality unsupported
  MaxAhead          \* bound: batches published and not yet seen or skipped

\* MetricPoint::gauge sets no error code, MetricPoint::unavailable always one.
ASSUME PathAssumption ==
  /\ MaxAhead \in Nat \ {0}
  /\ Readings \in [Keys -> SUBSET Observations]
  /\ UnsupportedTags \subseteq CodedTags
  /\ \A o \in Observations : Available(o) <=> o.tag \notin CodedTags

VARIABLES
  todo,        \* keys that the current tick may still collect
  batch,       \* points of the tick that passed the filter
  ahead,       \* batches on their way, oldest first
  held,        \* the batch that arrived or was lost last
  gauge,       \* the value recorded last, per key: a gauge keeps it
  notice,      \* the unavailable log written since then, per key
  unsupported, \* UnavailableLogEmitter.unsupported_capabilities
  \* history
  missing      \* keys whose last emission was lost, refused or forgotten

bridgeVars == <<gauge, notice, unsupported>>
pathVars == <<todo, batch, ahead, held, bridgeVars, missing>>
vars == <<emitterVars, pathVars>>

Points == [key : Keys, o : Observations]

TypeOK ==
  /\ EmitterType
  /\ todo \in SUBSET Keys
  /\ batch \in SUBSET Points
  /\ ahead \in Seq(SUBSET Points) /\ Len(ahead) <= MaxAhead
  /\ held \in SUBSET Points
  /\ gauge \in [Keys -> Observations \union {None}]
  /\ notice \in [Keys -> Observations \union {None}]
  /\ unsupported \in SUBSET Keys
  /\ missing \in SUBSET Keys

\* Instruments::new
BridgeInit ==
  /\ gauge = [k \in Keys |-> None]
  /\ notice = [k \in Keys |-> None]
  /\ unsupported = {}

Init ==
  /\ EmitterInit
  /\ todo = Keys
  /\ batch = {} /\ ahead = <<>> /\ held = {}
  /\ BridgeInit
  /\ missing = {}

KeysOf(b) == {p.key : p \in b}
PointOf(b, k) == CHOOSE p \in b : p.key = k

-----------------------------------------------------------------------------
(* Agent *)

\* A collector returns at most one point per key and tick.
Collect(k, o) ==
  /\ k \in todo /\ o \in Readings[k]
  /\ todo' = todo \ {k}
  /\ Filter(k, o)
  /\ batch' = IF ShouldEmit(k, o) THEN batch \union {[key |-> k, o |-> o]} ELSE batch
  /\ UNCHANGED <<ahead, held, bridgeVars, missing>>

\* publish_state, also when nothing is left to emit; then the next tick.
Publish ==
  /\ Len(ahead) < MaxAhead
  /\ ahead' = Append(ahead, batch)
  /\ batch' = {}
  /\ todo' = Keys
  /\ UNCHANGED <<emitterVars, held, bridgeVars, missing>>

\* select! takes a SIGHUP only between ticks.
Hangup(rs) ==
  /\ todo = Keys
  /\ Reload(rs)
  /\ UNCHANGED pathVars

-----------------------------------------------------------------------------
(* Bridge *)

\* The point of k as the bridge decodes it.
Sent(b, k) == OnWire(PointOf(b, k).o)
Measured(b) == {k \in KeysOf(b) : Available(Sent(b, k))}

\* UnavailableLogEmitter::emit: convert makes no log of a point without an
\* error code, and an unsupported key is logged when it is new to the set.
Logged(b) ==
  {k \in KeysOf(b) \ Measured(b) :
     /\ Sent(b, k).tag \in CodedTags
     /\ Sent(b, k).tag \in UnsupportedTags => k \notin unsupported}

NeverRearmed(b) == {}    \* mutant of Rearmed

\* observe_available
Rearmed(b) == Measured(b)

\* Instruments::record on each point of the batch.
Record(b) ==
  /\ gauge' = [k \in Keys |-> IF k \in Measured(b) THEN Sent(b, k) ELSE gauge[k]]
  /\ notice' = [k \in Keys |-> IF k \in Measured(b) THEN None
                               ELSE IF k \in Logged(b) THEN Sent(b, k) ELSE notice[k]]
  /\ unsupported' = (unsupported \ Rearmed(b))
                    \union {k \in Logged(b) : Sent(b, k).tag \in UnsupportedTags}

Take(b) ==
  IF Decodes(b)
    THEN Record(b) /\ missing' = missing \ KeysOf(b)
    ELSE UNCHANGED bridgeVars /\ missing' = missing \union KeysOf(b)

Deliver ==
  /\ ahead # <<>>
  /\ ahead' = Tail(ahead) /\ held' = Head(ahead)
  /\ Take(Head(ahead))
  /\ UNCHANGED <<emitterVars, todo, batch>>

\* Replaced in the watch channel by the next one, lost with a connection, or
\* discarded by the full receive queue.
Lose ==
  /\ ahead # <<>>
  /\ ahead' = Tail(ahead) /\ held' = Head(ahead)
  /\ missing' = missing \union KeysOf(Head(ahead))
  /\ UNCHANGED <<emitterVars, todo, batch, bridgeVars>>

\* The batch is sent again on a new connection.
Replay ==
  /\ Take(held)
  /\ UNCHANGED <<emitterVars, todo, batch, ahead, held>>

\* A new bridge process knows nothing, and subscribing replays nothing.
BridgeRestarts ==
  /\ gauge' = [k \in Keys |-> None]
  /\ notice' = [k \in Keys |-> None]
  /\ unsupported' = {}
  /\ missing' = Keys
  /\ UNCHANGED <<emitterVars, todo, batch, ahead, held>>

Next ==
  \/ \E k \in Keys, o \in Observations : Collect(k, o)
  \/ Publish
  \/ \E rs \in RuleFiles : Hangup(rs)
  \/ Deliver
  \/ Lose
  \/ Replay
  \/ BridgeRestarts

Spec == Init /\ [][Next]_vars

-----------------------------------------------------------------------------
(* Properties *)

\* Nothing is under way.
Quiet == ahead = <<>> /\ batch = {}

\* The bridge's gauge and log tell o of k: a value stands in the gauge with no
\* log since, what is unavailable stands in the log, be it under the code it
\* had before if it is unsupported again.  A value that is not a number
\* leaves no trace.
Tells(k, o) ==
  \/ o.value = NaN
  \/ Available(o) /\ gauge[k] = o /\ notice[k] = None
  \/ /\ ~Available(o) /\ notice[k] # None
     /\ notice[k] = o \/ o.tag \in UnsupportedTags

(***************************************************************************)
(* Once nothing is under way, the bridge tells what was collected: of a    *)
(* series under `enabled` or state-change the last observation, under      *)
(* availability-change that or, while it is unavailable, an earlier        *)
(* unavailable one; the gauge of an unavailable series still exports its   *)
(* last value, with a log after it.  The exceptions are series whose last  *)
(* emission was lost on the way, stood in a batch the bridge refused, or   *)
(* fell to an earlier bridge process; and readings that are not numbers.   *)
(* Replays, the memories of the policies and of the log, and reloads are   *)
(* not.                                                                    *)
(***************************************************************************)
ConsumerCurrent ==
  Quiet =>
    \A k \in Keys \ missing :
      \/ observed[k] = None \/ PolicyFor(rules, k) = "disabled"
      \/ Tells(k, observed[k])
      \/ /\ PolicyFor(rules, k) = "availability-change"
         /\ ~Available(observed[k]) /\ notice[k] # None
=============================================================================
