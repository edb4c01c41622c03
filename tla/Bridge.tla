------------------------------- MODULE Bridge -------------------------------
(***************************************************************************)
(* spark-otel-bridge: the bounded queue between the NATS subscription and  *)
(* the main loop, and what the loop logs of the messages it takes.  Health *)
(* events are logged; an unavailable point is logged too, but an           *)
(* unsupported one only once until its capability is measured again.       *)
(*                                                                         *)
(* A message is a health event or a batch of one point, as the limits of   *)
(* the batch do not matter here; any other message only takes a slot.      *)
(***************************************************************************)
EXTENDS Integers, Sequences

CONSTANTS
  Nodes,
  Capabilities,   \* metric, source and attributes of a point
  Keys,           \* conditions that health events tell the level of
  InboxCapacity   \* slots of the receive queue (256 in the code)

VARIABLES
  inbox,        \* the receive queue
  unsupported,  \* UnavailableLogEmitter.unsupported_capabilities
  \* history: what was logged
  told,         \* last level logged, per key
  latest,       \* last quality processed, per node and capability
  announced     \* logged as unsupported since last measured

Qualities == {"measured", "unsupported", "error"}
Point(n, c, q) == [kind |-> "point", node |-> n, capability |-> c, quality |-> q]
Other == [kind |-> "other"]

Init ==
  /\ inbox = <<>>
  /\ unsupported = {}
  /\ told = [k \in Keys |-> 0]
  /\ latest = [s \in Nodes \X Capabilities |-> "measured"]
  /\ announced = {}

\* The receive task: a full queue drops the message, whatever it is.
Refused == Len(inbox) = InboxCapacity
Receive(m) ==
  /\ inbox' = IF Refused THEN inbox ELSE Append(inbox, m)
  /\ UNCHANGED <<unsupported, told, latest, announced>>

\* capability_key: metric, source and attributes of the point.
CapabilityKey(p) == p.capability

NeverRearmed(p) == unsupported    \* mutant of Rearmed

\* observe_available
Rearmed(p) == unsupported \ {CapabilityKey(p)}

\* UnavailableLogEmitter::emit: an unsupported point is logged when its key
\* is new to the set, an error always.  (convert refuses what no agent sends:
\* unknown metrics and sources, unsafe identifiers, malformed codes.)
Logged(p) == p.quality = "unsupported" => CapabilityKey(p) \notin unsupported

\* Instruments::record
Record(p) ==
  LET series == <<p.node, p.capability>> IN
  /\ latest' = [latest EXCEPT ![series] = p.quality]
  /\ CASE p.quality = "measured" ->
            /\ unsupported' = Rearmed(p)
            /\ announced' = announced \ {series}
       [] p.quality = "unsupported" ->
            /\ unsupported' = unsupported \union {CapabilityKey(p)}
            /\ announced' = IF Logged(p) THEN announced \union {series}
                                         ELSE announced
       [] OTHER -> UNCHANGED <<unsupported, announced>>
  /\ UNCHANGED told

\* emit_health
EmitHealth(e) ==
  /\ told' = [told EXCEPT ![e.key] = e.level]
  /\ UNCHANGED <<unsupported, latest, announced>>

\* A process ends with what it has in memory; what was logged stays logged.
Forgets ==
  /\ inbox' = <<>>
  /\ unsupported' = {}
  /\ UNCHANGED <<told, latest, announced>>

\* The main loop takes the oldest message.
Process ==
  /\ inbox # <<>>
  /\ inbox' = Tail(inbox)
  /\ LET m == Head(inbox) IN
       CASE m.kind = "point" -> Record(m)
         [] m.kind = "level" -> EmitHealth(m)
         [] OTHER -> UNCHANGED <<unsupported, told, latest, announced>>
=============================================================================
