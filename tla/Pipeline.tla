------------------------------ MODULE Pipeline ------------------------------
(***************************************************************************)
(* From a condition on a node to the log of the bridge: the agent's health *)
(* events and its points travel through NATS, which may lose them, and     *)
(* share the bridge's bounded receive queue.  The bridge may end and start *)
(* again; nobody keeps what is sent while it is not subscribed.  The       *)
(* health of one node is followed; every node sends points.                *)
(***************************************************************************)
EXTENDS Integers, Sequences

CONSTANTS
  Links, Mounts, Sensors, Services, Collectors, QueueCapacity,
  Nodes, Capabilities, InboxCapacity,
  Environments, Files, NoFile, Schema, Producer, MaxSize

VARIABLES
  seen, level, queue, mislaid,                   \* HealthEvents
  inbox, unsupported, told, latest, announced,   \* Bridge
  environment, phase, root, file, descriptor, credential    \* BridgeStart

Agent == INSTANCE HealthEvents
Sink == INSTANCE Bridge WITH Keys <- Agent!Keys
Process == INSTANCE BridgeStart

ASSUME PipelineAssumption ==
  /\ Agent!Conditions \cap Services = {}
  /\ QueueCapacity \in Nat \ {0}
  /\ InboxCapacity \in Nat \ {0}
  /\ \A e \in Environments : e.overrides \in BOOLEAN /\ e.root \in BOOLEAN
  /\ NoFile \notin Files

agentVars == <<seen, level, queue, mislaid>>
sinkVars == <<inbox, unsupported, told, latest, announced>>
startVars == <<environment, phase, root, file, descriptor, credential>>
vars == <<agentVars, sinkVars, startVars>>

Points == {Sink!Point(n, c, q) :
             n \in Nodes, c \in Capabilities, q \in Sink!Qualities}
Messages == Agent!Events \union Points \union {Sink!Other}

TypeOK ==
  /\ seen \in SUBSET Agent!Keys
  /\ level \in [Agent!Keys -> 0..2]
  /\ queue \in Seq(Agent!Events) /\ Len(queue) <= QueueCapacity
  /\ mislaid \in SUBSET Agent!Keys
  /\ inbox \in Seq(Messages) /\ Len(inbox) <= InboxCapacity
  /\ unsupported \in SUBSET Capabilities
  /\ told \in [Agent!Keys -> 0..2]
  /\ latest \in [Nodes \X Capabilities -> Sink!Qualities]
  /\ announced \in SUBSET (Nodes \X Capabilities)
  /\ Process!StartType

Init == Agent!Init /\ Sink!Init /\ Process!StartInit

\* Events of k in a queue.
Has(q, k) == \E i \in DOMAIN q : q[i].kind = "level" /\ q[i].key = k

\* The first observation of a service is what a consumer starts from: it is
\* silent, and published as a metric.
Observe(k, l) ==
  /\ Agent!Observe(k, l)
  /\ told' = IF k \in Services \ seen THEN [told EXCEPT ![k] = l] ELSE told
  /\ UNCHANGED <<inbox, unsupported, latest, announced, startVars>>

ObserveCount == Agent!ObserveCount /\ UNCHANGED <<sinkVars, startVars>>

\* The event e never reaches the loop; k stays mislaid unless a later event
\* of it is on its way.
Mislay(e, later) ==
  mislaid' = IF e.kind = "level" /\ ~Has(later, e.key)
               THEN mislaid \union {e.key} ELSE mislaid

\* The publisher takes the oldest event; it is lost on the way or finds no
\* subscriber ...
Lose ==
  /\ queue # <<>>
  /\ queue' = Tail(queue)
  /\ Mislay(Head(queue), Tail(queue))
  /\ UNCHANGED <<seen, level, sinkVars, startVars>>

\* ... or reaches the bridge, whose receive queue may be full.
Forward ==
  /\ phase = "running"
  /\ queue # <<>>
  /\ queue' = Tail(queue)
  /\ Sink!Receive(Head(queue))
  /\ IF Sink!Refused THEN Mislay(Head(queue), Tail(queue)) ELSE UNCHANGED mislaid
  /\ UNCHANGED <<seen, level, startVars>>

\* Batches of any node, inventories, status and invalid messages.
Arrive(m) ==
  /\ phase = "running"
  /\ Sink!Receive(m)
  /\ UNCHANGED <<agentVars, startVars>>

Handle ==
  /\ phase = "running"
  /\ Sink!Process
  /\ UNCHANGED <<agentVars, startVars>>

\* The events in the receive queue are gone, too.
BridgeEnds ==
  /\ Process!Exit
  /\ Sink!Forgets
  /\ mislaid' = mislaid \union {k \in Agent!Keys : Has(inbox, k) /\ ~Has(queue, k)}
  /\ UNCHANGED <<seen, level, queue>>

BridgeStarts == Process!Preparation /\ UNCHANGED <<agentVars, sinkVars>>

Next ==
  \/ \E k \in Agent!Keys : \E l \in 0..2 : Observe(k, l)
  \/ ObserveCount
  \/ Lose
  \/ Forward
  \/ \E m \in Points \union {Sink!Other} : Arrive(m)
  \/ Handle
  \/ BridgeEnds
  \/ BridgeStarts

Spec == Init /\ [][Next]_vars

-----------------------------------------------------------------------------
(* Properties *)

\* The bridge that runs has a fit target: see BridgeStart.
TargetFit == Process!TargetFit

(***************************************************************************)
(* The log tells the level: for each condition whose last event was not    *)
(* refused or lost, and has been processed, the last level logged is the   *)
(* one the agent has recorded, over any history of moves, queues filling   *)
(* up, losses and restarts of the bridge.                                  *)
(***************************************************************************)
LogTellsLevel ==
  \A k \in Agent!Keys :
    k \in mislaid \/ Has(queue, k) \/ Has(inbox, k) \/ told[k] = level[k]

(***************************************************************************)
(* "Unsupported capability state is informational and deduplicated until   *)
(* the same capability is measured again", with "node identity"            *)
(* (docs/otel-mapping.md:36-39): an unsupported capability of a node is    *)
(* announced once it was processed, and stays so until it is measured.     *)
(***************************************************************************)
UnsupportedAnnounced ==
  \A s \in Nodes \X Capabilities : latest[s] = "unsupported" => s \in announced
=============================================================================
