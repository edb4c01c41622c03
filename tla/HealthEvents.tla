---------------------------- MODULE HealthEvents ----------------------------
(***************************************************************************)
(* How spark-agent turns the readings of a tick into health events: it     *)
(* remembers the last level of each condition and raises an event when it  *)
(* moves.  The level is recorded whether or not the event finds room in    *)
(* the queue.                                                              *)
(*                                                                         *)
(* Level 0 is the good one of a link, a mount, a sensor and the            *)
(* collectors; of a service it is the inactive one.                        *)
(***************************************************************************)
EXTENDS Integers, Sequences

CONSTANTS
  Links,          \* physical interfaces
  Mounts,         \* file systems
  Sensors,        \* temperature channels, identified by sensor and channel
  Services,       \* configured systemd units
  Collectors,     \* the one condition of all collectors (COLLECTOR_DEGRADED)
  QueueCapacity   \* slots of the health-event queue (128 in the code)

Conditions == Links \union Mounts \union Sensors \union Collectors
Keys == Conditions \union Services

VARIABLES
  seen,      \* keys with a recorded level
  level,     \* system_health_states, service_states, collector_had_errors
  queue,     \* health events on their way to the publisher
  \* history
  mislaid    \* keys whose last event was refused or lost

\* An event is a key with its new level; an Alert reports something that has
\* no level (MEMORY_OOM_KILL, NVIDIA_XID).
LevelEvent(k, l) == [kind |-> "level", key |-> k, level |-> l]
Alert == [kind |-> "alert"]
Events == [kind : {"level"}, key : Keys, level : 0..2] \union {Alert}

LevelsOf(k) == IF k \in Mounts THEN {0, 2}
               ELSE IF k \in Sensors THEN 0..2 ELSE {0, 1}

Init ==
  /\ seen = Collectors
  /\ level = [k \in Keys |-> 0]
  /\ queue = <<>>
  /\ mislaid = {}

RaiseUnbounded(e) ==    \* mutant of Raise
  /\ queue' = Append(queue, e)
  /\ mislaid' = IF e = Alert THEN mislaid ELSE mislaid \ {e.key}

\* send_event
Raise(e) ==
  IF Len(queue) < QueueCapacity
    THEN /\ queue' = Append(queue, e)
         /\ mislaid' = IF e = Alert THEN mislaid ELSE mislaid \ {e.key}
    ELSE /\ mislaid' = IF e = Alert THEN mislaid ELSE mislaid \union {e.key}
         /\ UNCHANGED queue

MovedToBad(k, l) == level[k] # l /\ l # 0    \* mutant of Moved

Moved(k, l) == level[k] # l

\* The first observation of a service is silent, that of any other condition
\* is an event when it is bad.
Announced(k, l) ==
  IF k \in seen THEN Moved(k, l) ELSE k \notin Services /\ l # 0

\* One point with a reading: the level is inserted, then the event raised.
Observe(k, l) ==
  /\ l \in LevelsOf(k)
  /\ seen' = seen \union {k}
  /\ level' = [level EXCEPT ![k] = l]
  /\ IF Announced(k, l) THEN Raise(LevelEvent(k, l)) ELSE UNCHANGED <<queue, mislaid>>

\* A positive count of OOM kills or Xids raises an event each time.
ObserveCount ==
  /\ Raise(Alert)
  /\ UNCHANGED <<seen, level>>
=============================================================================
