----------------------------- MODULE Publisher -----------------------------
(***************************************************************************)
(* The publication path of spark-agent: the main loop numbers envelopes    *)
(* and writes the latest one of each subject into a watch channel, health  *)
(* events go through a bounded queue, and the task `nats_publisher`        *)
(* forwards both to a NATS client that loses what is in flight whenever    *)
(* the connection drops.  A message is its subject and its envelope        *)
(* sequence: payloads play no part here.                                   *)
(*                                                                         *)
(* The main loop, the publisher task, the client's connection handler and  *)
(* the client's event callback run concurrently; each of their awaits is a *)
(* point where the others may run, hence an action boundary.               *)
(***************************************************************************)
EXTENDS Integers, Sequences, FiniteSets

CONSTANTS
  StatusSubject,     \* status.agent, published once
  InventorySubject,  \* inventory
  SampleSubjects,    \* the sample.* subjects
  EventSubject,      \* event.health
  EventCapacity,     \* slots of the health-event queue (128 in the code)
  CallbackCapacity,  \* slots of the client-event channel (32 in the code)
  ClientCapacity,    \* commands the NATS client buffers
  MaxSequence,       \* bound: collection stops numbering envelopes here
  MaxDisconnects,    \* bound: connection losses
  MaxFailures,       \* bound: failed reconnection attempts
  MaxDeaths          \* bound: clients that die

Subjects == {StatusSubject, InventorySubject} \union SampleSubjects

ASSUME SubjectsAssumption ==
  /\ StatusSubject # InventorySubject
  /\ {StatusSubject, InventorySubject} \cap SampleSubjects = {}
  /\ EventSubject \notin Subjects
  /\ IsFiniteSet(SampleSubjects)

ASSUME CapacityAssumption ==
  /\ EventCapacity \in Nat \ {0}
  /\ CallbackCapacity \in Nat \ {0}
  /\ ClientCapacity \in Nat \ {0}

ASSUME BoundAssumption ==
  /\ MaxSequence \in Nat
  /\ MaxDisconnects \in Nat
  /\ MaxFailures \in Nat
  /\ MaxDeaths \in Nat

VARIABLES
  \* main loop
  mainPc,             \* "idle" (awaiting tick or SIGHUP), "report", "collect"
  sequence,           \* EnvelopeFactory.sequence
  reportedReconnects,
  reportedDropped,
  \* shared with the publisher
  state,              \* watch channel: latest sequence per subject, 0 if none
  unseen,             \* watch channel: changed since the last changed().await
  events,             \* mpsc queue of health events (their sequences)
  dropped,            \* AtomicU64
  reconnects,         \* AtomicU64
  \* publisher task
  pc,                 \* "connect", "publish", "select", "send"
  sent,               \* last sequence handed to the client, per subject
  snapshot,           \* clone of the watch value under publication
  inHand,             \* event taken from the queue, 0 if none
  connectedEvents,
  \* NATS client and server (external)
  link,               \* "none", "up", "down", "dead"
  clientBuf,          \* accepted by the client, not yet written
  wire,               \* written to the connection, not yet at the server
  emitted,            \* client events the callback has not seen yet
  natsEvents,         \* client events the callback has forwarded
  losses, failures, deaths,  \* outages so far (for the bounds)
  \* history, read by the properties only
  delivered,          \* last sequence the server received, per subject
  onLink,             \* the same, over the current connection only
  accepted, received, lost,  \* health events: queued / at the server / lost
  missed,             \* the last Connected event was refused by the channel
  announced           \* the drop count covered by a queued EVENTS_DROPPED

mainVars == <<mainPc, sequence, reportedReconnects, reportedDropped>>
sharedVars == <<state, unseen, events, dropped, reconnects>>
taskVars == <<pc, sent, snapshot, inHand, connectedEvents>>
outages == <<losses, failures, deaths>>
clientVars == <<link, clientBuf, wire, emitted, natsEvents, outages>>
historyVars == <<delivered, onLink, accepted, received, lost, missed,
                 announced>>
vars == <<mainVars, sharedVars, taskVars, clientVars, historyVars>>

Message == [subject : Subjects \union {EventSubject}, sequence : Nat]
NoneSent == [s \in Subjects |-> 0]
EventsOf(q) == {q[i].sequence : i \in {j \in DOMAIN q :
                                         q[j].subject = EventSubject}}

MainType ==
  /\ mainPc \in {"idle", "report", "collect"}
  /\ sequence \in Nat
  /\ reportedReconnects \in Nat
  /\ reportedDropped \in Nat

SharedType ==
  /\ state \in [Subjects -> Nat]
  /\ unseen \in BOOLEAN
  /\ events \in Seq(Nat) /\ Len(events) <= EventCapacity
  /\ dropped \in Nat
  /\ reconnects \in Nat

TaskType ==
  /\ pc \in {"connect", "publish", "select", "send"}
  /\ sent \in [Subjects -> Nat]
  /\ snapshot \in [Subjects -> Nat]
  /\ inHand \in Nat
  /\ connectedEvents \in Nat

ClientType ==
  /\ link \in {"none", "up", "down", "dead"}
  /\ clientBuf \in Seq(Message) /\ Len(clientBuf) <= ClientCapacity
  /\ wire \in Seq(Message)
  /\ emitted \in Seq({"connected", "other"})
  /\ natsEvents \in Seq({"connected", "other"})
  /\ Len(natsEvents) <= CallbackCapacity
  /\ losses \in Nat
  /\ failures \in Nat
  /\ deaths \in Nat

HistoryType ==
  /\ delivered \in [Subjects -> Nat]
  /\ onLink \in [Subjects -> Nat]
  /\ accepted \in SUBSET Nat
  /\ received \in SUBSET Nat
  /\ lost \in SUBSET Nat
  /\ missed \in BOOLEAN
  /\ announced \in Nat

TypeOK == MainType /\ SharedType /\ TaskType /\ ClientType /\ HistoryType

(***************************************************************************)
(* Before the publisher is spawned, main has published status.agent with   *)
(* sequence 1 and inventory with sequence 2.  The watch receiver was       *)
(* created first, so these two writes are unseen.                          *)
(***************************************************************************)
Init ==
  /\ mainPc = "idle"
  /\ sequence = 2
  /\ reportedReconnects = 0
  /\ reportedDropped = 0
  /\ state = [s \in Subjects |-> IF s = StatusSubject THEN 1
                                 ELSE IF s = InventorySubject THEN 2 ELSE 0]
  /\ unseen = TRUE
  /\ events = <<>>
  /\ dropped = 0
  /\ reconnects = 0
  /\ pc = "connect"
  /\ sent = NoneSent
  /\ snapshot = NoneSent
  /\ inHand = 0
  /\ connectedEvents = 0
  /\ link = "none"
  /\ clientBuf = <<>>
  /\ wire = <<>>
  /\ emitted = <<>>
  /\ natsEvents = <<>>
  /\ losses = 0
  /\ failures = 0
  /\ deaths = 0
  /\ delivered = NoneSent
  /\ onLink = NoneSent
  /\ accepted = {}
  /\ received = {}
  /\ lost = {}
  /\ missed = FALSE
  /\ announced = 0

-----------------------------------------------------------------------------
(* The main loop *)

WrappingSequence == (sequence + 1) % MaxSequence    \* mutant of NextSequence

\* EnvelopeFactory.build numbers the envelopes of all subjects in one series.
NextSequence == sequence + 1

\* mutant of PublishState: the write does not wake the receiver
PublishStateSilently(s) ==
  /\ sequence' = NextSequence
  /\ state' = [state EXCEPT ![s] = NextSequence]
  /\ UNCHANGED unseen

\* publish_state: number an envelope and make it the latest of its subject.
PublishState(s) ==
  /\ sequence' = NextSequence
  /\ state' = [state EXCEPT ![s] = NextSequence]
  /\ unseen' = TRUE

\* mutant of SendEvent: the queue grows without bound
SendEventUnbounded ==
  /\ sequence' = NextSequence
  /\ events' = Append(events, NextSequence)
  /\ accepted' = accepted \union {NextSequence}
  /\ UNCHANGED dropped

\* send_event: number an envelope and try_send it; a full queue only counts.
SendEvent ==
  /\ sequence' = NextSequence
  /\ IF Len(events) < EventCapacity
       THEN /\ events' = Append(events, NextSequence)
            /\ accepted' = accepted \union {NextSequence}
            /\ UNCHANGED dropped
       ELSE /\ dropped' = dropped + 1
            /\ UNCHANGED <<events, accepted>>

\* SIGHUP with a valid configuration republishes the inventory and goes back
\* to the select: no tick is counted.
Reload ==
  /\ mainPc = "idle"
  /\ sequence < MaxSequence
  /\ PublishState(InventorySubject)
  /\ UNCHANGED <<mainPc, reportedReconnects, reportedDropped, events, dropped,
                 reconnects, taskVars, clientVars, historyVars>>

\* A tick that finds no new reconnect goes on to collect.
TickQuiet ==
  /\ mainPc = "idle"
  /\ reconnects <= reportedReconnects
  /\ mainPc' = "collect"
  /\ UNCHANGED <<sequence, reportedReconnects, reportedDropped, sharedVars,
                 taskVars, clientVars, historyVars>>

\* A tick that finds one reports NATS_RECONNECTED.  The drop count compared
\* below is the one loaded before this event is sent.
TickReconnected ==
  /\ mainPc = "idle"
  /\ reconnects > reportedReconnects
  /\ reportedReconnects' = reconnects
  /\ SendEvent
  /\ reportedDropped' = dropped
  /\ mainPc' = IF dropped > reportedDropped THEN "report" ELSE "collect"
  /\ UNCHANGED <<state, unseen, reconnects, taskVars, clientVars, delivered,
                 onLink, received, lost, missed, announced>>

CountedAfterSending == dropped'    \* mutant of CountedBeforeSending

\* The count EVENTS_DROPPED covers was loaded before either report was sent.
CountedBeforeSending == reportedDropped

\* ... and EVENTS_DROPPED, through the same queue.
ReportDropped ==
  /\ mainPc = "report"
  /\ SendEvent
  /\ reportedDropped' = CountedBeforeSending
  /\ announced' = IF Len(events) < EventCapacity THEN reportedDropped
                                                 ELSE announced
  /\ mainPc' = "collect"
  /\ UNCHANGED <<reportedReconnects, state, unseen, reconnects, taskVars,
                 clientVars, delivered, onLink, received, lost, missed>>

\* The rest of the tick publishes samples and the inventory ...
CollectState(s) ==
  /\ mainPc = "collect"
  /\ sequence < MaxSequence
  /\ PublishState(s)
  /\ UNCHANGED <<mainPc, reportedReconnects, reportedDropped, events, dropped,
                 reconnects, taskVars, clientVars, historyVars>>

\* ... and health events.
CollectEvent ==
  /\ mainPc = "collect"
  /\ sequence < MaxSequence
  /\ SendEvent
  /\ UNCHANGED <<mainPc, reportedReconnects, reportedDropped, state, unseen,
                 reconnects, taskVars, clientVars, delivered, onLink,
                 received, lost, missed, announced>>

EndTick ==
  /\ mainPc = "collect"
  /\ mainPc' = "idle"
  /\ UNCHANGED <<sequence, reportedReconnects, reportedDropped, sharedVars,
                 taskVars, clientVars, historyVars>>

Main ==
  \/ Reload
  \/ TickQuiet
  \/ TickReconnected
  \/ ReportDropped
  \/ \E s \in Subjects \ {StatusSubject} : CollectState(s)
  \/ CollectEvent
  \/ EndTick

-----------------------------------------------------------------------------
(* The publisher task *)

\* Publications of the snapshot that `sent` does not cover.
Pending == {s \in Subjects : snapshot[s] > sent[s]}

\* A connection attempt succeeds (failed ones sleep and change nothing): a
\* new client, a new event channel, `sent` empty.  The client emits Connected
\* for the initial connection too.
Connect ==
  /\ pc = "connect"
  /\ link' = "up"
  /\ clientBuf' = <<>>
  /\ wire' = <<>>
  /\ emitted' = <<"connected">>
  /\ natsEvents' = <<>>
  /\ sent' = NoneSent
  /\ snapshot' = state
  /\ connectedEvents' = 0
  /\ pc' = "publish"
  /\ onLink' = NoneSent
  /\ UNCHANGED <<mainVars, sharedVars, inHand, outages, delivered, accepted,
                 received, lost, missed, announced>>

NextOfAny(s) == s \in Pending    \* mutant of NextInOrder: no sort

\* publish_latest goes through the snapshot sorted by sequence.
NextInOrder(s) ==
  /\ s \in Pending
  /\ \A t \in Pending : snapshot[s] <= snapshot[t]

\* publish_latest: one client.publish; it waits while the client's buffer is
\* full.
PublishNext(s) ==
  /\ pc = "publish"
  /\ link # "dead"
  /\ NextInOrder(s)
  /\ Len(clientBuf) < ClientCapacity
  /\ clientBuf' = Append(clientBuf, [subject |-> s, sequence |-> snapshot[s]])
  /\ sent' = [sent EXCEPT ![s] = snapshot[s]]
  /\ UNCHANGED <<mainVars, sharedVars, pc, snapshot, inHand, connectedEvents,
                 link, wire, emitted, natsEvents, outages, historyVars>>

\* publish_latest: client.flush returns once everything has been written; it
\* waits for as long as the connection is down.
Flush ==
  /\ pc = "publish"
  /\ Pending = {}
  /\ link = "up"
  /\ clientBuf = <<>>
  /\ pc' = "select"
  /\ UNCHANGED <<mainVars, sharedVars, sent, snapshot, inHand,
                 connectedEvents, clientVars, historyVars>>

\* publish or flush fails because the client is gone: back to connecting.
\* An event in hand is dropped with it.
PublishError ==
  /\ pc \in {"publish", "send"}
  /\ link = "dead"
  /\ pc' = "connect"
  /\ lost' = lost \union ({inHand} \ {0})
  /\ inHand' = 0
  /\ UNCHANGED <<mainVars, sharedVars, sent, snapshot, connectedEvents,
                 clientVars, delivered, onLink, accepted, received, missed,
                 announced>>

\* select!, state.changed(): publish what is new.
OnChanged ==
  /\ pc = "select"
  /\ unseen
  /\ unseen' = FALSE
  /\ snapshot' = state
  /\ pc' = "publish"
  /\ UNCHANGED <<mainVars, state, events, dropped, reconnects, sent, inHand,
                 connectedEvents, clientVars, historyVars>>

Peeked(q) == q    \* mutant of Popped

\* What recv() leaves in the queue.
Popped(q) == Tail(q)

\* select!, events.recv(): take the oldest event ...
OnEvent ==
  /\ pc = "select"
  /\ events # <<>>
  /\ inHand' = Head(events)
  /\ events' = Popped(events)
  /\ pc' = "send"
  /\ UNCHANGED <<mainVars, state, unseen, dropped, reconnects, sent, snapshot,
                 connectedEvents, clientVars, historyVars>>

InHand == [subject |-> EventSubject, sequence |-> inHand]

\* mutant of WithEvent: events raised during an outage are skipped
WithEventIfUp(q) == IF link = "up" THEN Append(q, InHand) ELSE q

WithEvent(q) == Append(q, InHand)

\* ... and hand it to the client, without a flush.
PublishEvent ==
  /\ pc = "send"
  /\ link # "dead"
  /\ Len(clientBuf) < ClientCapacity
  /\ clientBuf' = WithEvent(clientBuf)
  /\ inHand' = 0
  /\ pc' = "select"
  /\ UNCHANGED <<mainVars, sharedVars, sent, snapshot, connectedEvents, link,
                 wire, emitted, natsEvents, outages, historyVars>>

SentBefore == sent    \* mutant of SentAfterConnected: nothing is forgotten

SentAfterConnected == NoneSent

\* select!, Connected: forget what was sent and publish the whole state.
OnConnected ==
  /\ pc = "select"
  /\ natsEvents # <<>>
  /\ Head(natsEvents) = "connected"
  /\ natsEvents' = Tail(natsEvents)
  /\ connectedEvents' = connectedEvents + 1
  /\ reconnects' = IF connectedEvents + 1 > 1 THEN reconnects + 1
                                              ELSE reconnects
  /\ sent' = SentAfterConnected
  /\ snapshot' = state
  /\ pc' = "publish"
  /\ UNCHANGED <<mainVars, state, unseen, events, dropped, inHand, link,
                 clientBuf, wire, emitted, outages, historyVars>>

\* select!, any other client event: nothing.
OnOtherEvent ==
  /\ pc = "select"
  /\ natsEvents # <<>>
  /\ Head(natsEvents) # "connected"
  /\ natsEvents' = Tail(natsEvents)
  /\ UNCHANGED <<mainVars, sharedVars, taskVars, link, clientBuf, wire,
                 emitted, outages, historyVars>>

\* select!, event channel closed: the client is gone, connect again.
OnClosed ==
  /\ pc = "select"
  /\ link = "dead"
  /\ emitted = <<>>
  /\ natsEvents = <<>>
  /\ pc' = "connect"
  /\ UNCHANGED <<mainVars, sharedVars, sent, snapshot, inHand,
                 connectedEvents, clientVars, historyVars>>

Publisher ==
  \/ Connect
  \/ \E s \in Subjects : PublishNext(s)
  \/ Flush
  \/ PublishError
  \/ OnChanged
  \/ OnEvent
  \/ PublishEvent
  \/ OnConnected
  \/ OnOtherEvent
  \/ OnClosed

-----------------------------------------------------------------------------
(* The NATS client and the server: external, as nats_publisher uses them *)

Write ==
  /\ link = "up"
  /\ clientBuf # <<>>
  /\ wire' = Append(wire, Head(clientBuf))
  /\ clientBuf' = Tail(clientBuf)
  /\ UNCHANGED <<mainVars, sharedVars, taskVars, link, emitted, natsEvents,
                 outages, historyVars>>

Deliver ==
  /\ link = "up"
  /\ wire # <<>>
  /\ wire' = Tail(wire)
  /\ LET m == Head(wire) IN
       IF m.subject = EventSubject
         THEN /\ received' = received \union {m.sequence}
              /\ UNCHANGED <<delivered, onLink>>
         ELSE /\ delivered' = [delivered EXCEPT ![m.subject] = m.sequence]
              /\ onLink' = [onLink EXCEPT ![m.subject] = m.sequence]
              /\ UNCHANGED received
  /\ UNCHANGED <<mainVars, sharedVars, taskVars, link, clientBuf, emitted,
                 natsEvents, outages, accepted, lost, missed, announced>>

\* The connection is lost with everything written to it; what the client had
\* only queued survives.
Disconnect ==
  /\ link = "up"
  /\ losses < MaxDisconnects
  /\ losses' = losses + 1
  /\ UNCHANGED <<failures, deaths>>
  /\ link' = "down"
  /\ wire' = <<>>
  /\ lost' = lost \union EventsOf(wire)
  /\ emitted' = Append(emitted, "other")
  /\ UNCHANGED <<mainVars, sharedVars, taskVars, clientBuf, natsEvents,
                 delivered, onLink, accepted, received, missed, announced>>

\* An attempt to reconnect fails and emits a client error.
ReconnectFails ==
  /\ link = "down"
  /\ failures < MaxFailures
  /\ failures' = failures + 1
  /\ UNCHANGED <<losses, deaths>>
  /\ emitted' = Append(emitted, "other")
  /\ UNCHANGED <<mainVars, sharedVars, taskVars, link, clientBuf, wire,
                 natsEvents, historyVars>>

Reconnect ==
  /\ link = "down"
  /\ link' = "up"
  /\ emitted' = Append(emitted, "connected")
  /\ onLink' = NoneSent
  /\ UNCHANGED <<mainVars, sharedVars, taskVars, clientBuf, wire, natsEvents,
                 outages, delivered, accepted, received, lost, missed,
                 announced>>

\* The client's connection handler ends: nothing it held is ever delivered.
Die ==
  /\ link \in {"up", "down"}
  /\ deaths < MaxDeaths
  /\ deaths' = deaths + 1
  /\ UNCHANGED <<losses, failures>>
  /\ link' = "dead"
  /\ clientBuf' = <<>>
  /\ wire' = <<>>
  /\ lost' = lost \union EventsOf(wire) \union EventsOf(clientBuf)
  /\ UNCHANGED <<mainVars, sharedVars, taskVars, emitted, natsEvents,
                 delivered, onLink, accepted, received, missed, announced>>

\* event_callback: forward a client event, or drop it when the channel is
\* full (the result of try_send is ignored).
Callback ==
  /\ emitted # <<>>
  /\ emitted' = Tail(emitted)
  /\ \/ /\ Len(natsEvents) < CallbackCapacity
        /\ natsEvents' = Append(natsEvents, Head(emitted))
        /\ missed' = (missed /\ Head(emitted) # "connected")
     \/ /\ Len(natsEvents) = CallbackCapacity
        /\ missed' = (missed \/ Head(emitted) = "connected")
        /\ UNCHANGED natsEvents
  /\ UNCHANGED <<mainVars, sharedVars, taskVars, link, clientBuf, wire,
                 outages, delivered, onLink, accepted, received, lost,
                 announced>>

Client ==
  \/ Write
  \/ Deliver
  \/ Disconnect
  \/ ReconnectFails
  \/ Reconnect
  \/ Die
  \/ Callback

Next == Main \/ Publisher \/ Client

Spec == Init /\ [][Next]_vars

(***************************************************************************)
(* Fairness: a runnable task of the multi-threaded runtime is eventually   *)
(* run, select! polls its ready branches in random order, and the client   *)
(* keeps writing, delivering and reconnecting (max_reconnects is None).    *)
(* Nothing is assumed of the main loop or of the faults.                   *)
(***************************************************************************)
Fairness ==
  /\ WF_vars(Connect)
  /\ WF_vars(\E s \in Subjects : PublishNext(s))
  /\ WF_vars(Flush)
  /\ WF_vars(PublishError)
  /\ WF_vars(OnChanged)
  /\ WF_vars(OnEvent)
  /\ WF_vars(PublishEvent)
  /\ WF_vars(OnConnected)
  /\ WF_vars(OnOtherEvent)
  /\ WF_vars(OnClosed)
  /\ WF_vars(Write)
  /\ WF_vars(Deliver)
  /\ WF_vars(Reconnect)
  /\ WF_vars(Callback)

FairSpec == Spec /\ Fairness

-----------------------------------------------------------------------------
(* Properties *)

Latest == INSTANCE LatestValue
            WITH Keys <- Subjects, latest <- state, view <- delivered

(***************************************************************************)
(* The server's view of every subject refines a latest-value register,     *)
(* whatever is lost, replayed or rebuilt: nats_publisher never publishes   *)
(* an observation older than one already received.                         *)
(***************************************************************************)
ViewIsLatestValue == Latest!Spec

(***************************************************************************)
(* "The publisher sends its complete latest state in sequence order":      *)
(* between two resets of `sent`, what publish_latest hands to the client   *)
(* has increasing sequences across all subjects, although each call sorts  *)
(* only its own snapshot.                                                  *)
(***************************************************************************)
StateInSequenceOrder ==
  [][\A s \in Subjects :
        sent'[s] # sent[s] /\ sent' # NoneSent
          => \A t \in Subjects : sent[t] < sent'[s]]_vars

\* Nothing left to do in the publisher, the client or the callback.
Quiescent ==
  /\ pc = "select"
  /\ link = "up"
  /\ ~unseen
  /\ natsEvents = <<>>
  /\ emitted = <<>>
  /\ clientBuf = <<>>
  /\ wire = <<>>

(***************************************************************************)
(* "On connection and reconnection, the publisher sends its complete       *)
(* latest state" (docs/schema-v1.md:34): when nothing is left to do, the   *)
(* current connection has carried the latest value of every subject.       *)
(***************************************************************************)
CompleteOnConnection == Quiescent => onLink = state

(***************************************************************************)
(* The part of it the code does ensure: it holds unless the client event   *)
(* channel was full when the last Connected event arrived.                 *)
(***************************************************************************)
CompleteUnlessMissed == Quiescent /\ ~missed => onLink = state

(***************************************************************************)
(* Every health event the queue accepted is in exactly the places the code *)
(* can hold it: queue, task, client, connection, server, or lost with a    *)
(* connection; none disappears between two of them.                        *)
(***************************************************************************)
EventsAccounted ==
  accepted = {events[i] : i \in DOMAIN events} \union ({inHand} \ {0})
               \union EventsOf(clientBuf) \union EventsOf(wire)
               \union received \union lost

(***************************************************************************)
(* Health events reach the server in the order they were raised, each at   *)
(* most once: they are never replayed.                                     *)
(***************************************************************************)
EventsInOrderOnce ==
  \A e \in received, w \in DOMAIN wire :
     wire[w].subject = EventSubject => e < wire[w].sequence

(***************************************************************************)
(* Refused events stay owed: while some refusal is covered by no queued    *)
(* EVENTS_DROPPED, the next reconnect will raise one, even if the reports  *)
(* themselves were refused by the full queue.                              *)
(***************************************************************************)
DropsStayOwed ==
  mainPc # "report" /\ dropped > announced => dropped > reportedDropped

(***************************************************************************)
(* Once collection and the faults end, the server ends up with the latest  *)
(* value of every subject and no event is left queued, unless the last     *)
(* Connected event was missed.                                             *)
(***************************************************************************)
EventuallyCurrent ==
  <>[](/\ missed \/ delivered = state
       /\ events = <<>> /\ inHand = 0)
=============================================================================
