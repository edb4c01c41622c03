--------------------------- MODULE PublisherProofs --------------------------
(***************************************************************************)
(* Theorems about the publication path, for every set of subjects, every   *)
(* queue capacity and any number of outages.                               *)
(***************************************************************************)
EXTENDS Publisher, SequenceTheorems, TLAPS

-----------------------------------------------------------------------------
(* Facts about queues, each from the library's theorems *)

LEMMA EventsOfType ==
  ASSUME NEW q \in Seq(Message)
  PROVE  EventsOf(q) \in SUBSET Nat
<1>1. \A j \in DOMAIN q : q[j] \in Message
  BY ElementOfSeq, LenProperties
<1>2. \A j \in DOMAIN q : q[j].sequence \in Nat
  BY <1>1 DEF Message
<1>. QED
  BY <1>2 DEF EventsOf

\* try_send: what was appended still fits.
LEMMA AppendFits ==
  ASSUME NEW S, NEW q \in Seq(S), NEW e \in S, NEW n \in Nat, Len(q) < n
  PROVE  Append(q, e) \in Seq(S) /\ Len(Append(q, e)) <= n
BY AppendProperties, LenProperties

LEMMA TailFits ==
  ASSUME NEW S, NEW q \in Seq(S), q # <<>>, NEW n \in Nat, Len(q) <= n
  PROVE  /\ Head(q) \in S
         /\ Tail(q) \in Seq(S)
         /\ Len(Tail(q)) <= n
BY HeadTailProperties, LenProperties

LEMMA EmptyFits ==
  ASSUME NEW S, NEW n \in Nat
  PROVE  <<>> \in Seq(S) /\ Len(<<>>) <= n
BY EmptySeq

LEMMA NoneSentType == NoneSent \in [Subjects -> Nat]
BY DEF NoneSent

-----------------------------------------------------------------------------
(* Types *)

LEMMA TypeInit == Init => TypeOK
<1> SUFFICES ASSUME Init PROVE TypeOK
  OBVIOUS
<1> USE EmptyFits, NoneSentType, CapacityAssumption DEF Init
<1>1. MainType
  BY DEF MainType
<1>2. SharedType
  BY DEF SharedType
<1>3. TaskType
  BY DEF TaskType
<1>4. ClientType
  BY DEF ClientType
<1>5. HistoryType
  BY DEF HistoryType
<1>. QED
  BY <1>1, <1>2, <1>3, <1>4, <1>5 DEF TypeOK

LEMMA NextSequenceType == TypeOK => NextSequence \in Nat
BY DEF TypeOK, MainType, NextSequence

\* What send_event assigns is typed, whether or not the queue had room.
LEMMA SendEventType ==
  ASSUME TypeOK, SendEvent
  PROVE  /\ sequence' \in Nat
         /\ events' \in Seq(Nat) /\ Len(events') <= EventCapacity
         /\ dropped' \in Nat
         /\ accepted' \in SUBSET Nat
<1> USE NextSequenceType DEF TypeOK, SharedType, HistoryType, SendEvent
<1>1. CASE Len(events) < EventCapacity
  BY <1>1, AppendFits, CapacityAssumption
<1>2. CASE ~(Len(events) < EventCapacity)
  <2>1. sequence' \in Nat /\ events' = events /\ accepted' = accepted
    BY <1>2
  <2>2. dropped' \in Nat
    BY <1>2
  <2>. QED
    BY <2>1, <2>2
<1>. QED
  BY <1>1, <1>2

LEMMA PublishStateType ==
  ASSUME TypeOK, NEW s \in Subjects, PublishState(s)
  PROVE  sequence' \in Nat /\ state' \in [Subjects -> Nat] /\ unseen' = TRUE
BY NextSequenceType DEF TypeOK, SharedType, PublishState

LEMMA TypeMain == TypeOK /\ Main => TypeOK'
<1> SUFFICES ASSUME TypeOK, Main PROVE TypeOK'
  OBVIOUS
<1> USE DEF TypeOK, MainType, SharedType, TaskType, ClientType, HistoryType,
            taskVars, clientVars, outages
<1>1. CASE Reload
  BY <1>1, PublishStateType DEF Reload, historyVars, Subjects
<1>2. CASE TickQuiet
  BY <1>2 DEF TickQuiet, sharedVars, historyVars
<1>3. CASE TickReconnected
  BY <1>3, SendEventType DEF TickReconnected
<1>4. CASE ReportDropped
  BY <1>4, SendEventType DEF ReportDropped, CountedBeforeSending
<1>5. ASSUME NEW s \in Subjects \ {StatusSubject}, CollectState(s)
      PROVE  TypeOK'
  BY <1>5, PublishStateType DEF CollectState, historyVars
<1>6. CASE CollectEvent
  BY <1>6, SendEventType DEF CollectEvent
<1>7. CASE EndTick
  BY <1>7 DEF EndTick, sharedVars, historyVars
<1>8. QED
  BY <1>1, <1>2, <1>3, <1>4, <1>5, <1>6, <1>7 DEF Main

LEMMA TypePublisher == TypeOK /\ Publisher => TypeOK'
<1> SUFFICES ASSUME TypeOK, Publisher PROVE TypeOK'
  OBVIOUS
<1> USE CapacityAssumption
    DEF TypeOK, MainType, SharedType, TaskType, ClientType, HistoryType,
        mainVars, outages
<1>1. CASE Connect
  <2>1. <<"connected">> \in Seq({"connected", "other"})
    OBVIOUS
  <2>. QED
    BY <1>1, <2>1, EmptyFits, NoneSentType DEF Connect, sharedVars
<1>2. ASSUME NEW s \in Subjects, PublishNext(s)
      PROVE  TypeOK'
  <2>1. [subject |-> s, sequence |-> snapshot[s]] \in Message
    BY DEF Message
  <2>. QED
    BY <1>2, <2>1, AppendFits DEF PublishNext, sharedVars, historyVars
<1>3. CASE Flush
  BY <1>3 DEF Flush, sharedVars, clientVars, historyVars
<1>4. CASE PublishError
  BY <1>4 DEF PublishError, sharedVars, clientVars
<1>5. CASE OnChanged
  BY <1>5 DEF OnChanged, clientVars, historyVars
<1>6. CASE OnEvent
  BY <1>6, TailFits DEF OnEvent, Popped, clientVars, historyVars
<1>7. CASE PublishEvent
  <2>1. InHand \in Message
    BY DEF InHand, Message
  <2>. QED
    BY <1>7, <2>1, AppendFits
       DEF PublishEvent, WithEvent, sharedVars, historyVars
<1>8. CASE OnConnected
  <2>1. /\ natsEvents' \in Seq({"connected", "other"})
        /\ Len(natsEvents') <= CallbackCapacity
    BY <1>8, TailFits DEF OnConnected
  <2>. QED
    BY <1>8, <2>1, NoneSentType DEF OnConnected, SentAfterConnected, historyVars
<1>9. CASE OnOtherEvent
  BY <1>9, TailFits DEF OnOtherEvent, sharedVars, taskVars, historyVars
<1>10. CASE OnClosed
  BY <1>10 DEF OnClosed, sharedVars, clientVars, historyVars
<1>11. QED
  BY <1>1, <1>2, <1>3, <1>4, <1>5, <1>6, <1>7, <1>8, <1>9, <1>10
     DEF Publisher

LEMMA TypeClient == TypeOK /\ Client => TypeOK'
<1> SUFFICES ASSUME TypeOK, Client PROVE TypeOK'
  OBVIOUS
<1> USE CapacityAssumption
    DEF TypeOK, MainType, SharedType, TaskType, ClientType, HistoryType,
        mainVars, sharedVars, taskVars, outages
<1>1. CASE Write
  <2>1. Head(clientBuf) \in Message
    BY <1>1, TailFits DEF Write
  <2>2. Append(wire, Head(clientBuf)) \in Seq(Message)
    BY <2>1, AppendProperties
  <2>3. clientBuf' \in Seq(Message) /\ Len(clientBuf') <= ClientCapacity
    BY <1>1, TailFits DEF Write
  <2>. QED
    BY <1>1, <2>2, <2>3 DEF Write, historyVars
<1>2. CASE Deliver
  <2>1. Head(wire) \in Message /\ Tail(wire) \in Seq(Message)
    BY <1>2, HeadTailProperties DEF Deliver
  <2>2. /\ delivered' \in [Subjects -> Nat]
        /\ onLink' \in [Subjects -> Nat]
        /\ received' \in SUBSET Nat
    BY <1>2, <2>1 DEF Deliver, Message
  <2>. QED
    BY <1>2, <2>1, <2>2 DEF Deliver
<1>3. CASE Disconnect
  <2>1. Append(emitted, "other") \in Seq({"connected", "other"})
    BY AppendProperties
  <2>2. lost' \in SUBSET Nat
    BY <1>3, EventsOfType DEF Disconnect
  <2>3. wire' \in Seq(Message)
    BY <1>3, EmptySeq DEF Disconnect
  <2>. QED
    BY <1>3, <2>1, <2>2, <2>3 DEF Disconnect
<1>4. CASE ReconnectFails
  <2>1. Append(emitted, "other") \in Seq({"connected", "other"})
    BY AppendProperties
  <2>. QED
    BY <1>4, <2>1 DEF ReconnectFails, historyVars
<1>5. CASE Reconnect
  <2>1. Append(emitted, "connected") \in Seq({"connected", "other"})
    BY AppendProperties
  <2>. QED
    BY <1>5, <2>1, NoneSentType DEF Reconnect
<1>6. CASE Die
  <2>1. lost' \in SUBSET Nat
    BY <1>6, EventsOfType DEF Die
  <2>2. clientBuf' \in Seq(Message) /\ Len(clientBuf') <= ClientCapacity
    BY <1>6, EmptyFits DEF Die
  <2>3. wire' \in Seq(Message)
    BY <1>6, EmptySeq DEF Die
  <2>. QED
    BY <1>6, <2>1, <2>2, <2>3 DEF Die
<1>7. CASE Callback
  <2>1. /\ Head(emitted) \in {"connected", "other"}
        /\ Tail(emitted) \in Seq({"connected", "other"})
    BY <1>7, HeadTailProperties DEF Callback
  <2>2. /\ natsEvents' \in Seq({"connected", "other"})
        /\ Len(natsEvents') <= CallbackCapacity
    BY <1>7, <2>1, AppendFits, LenProperties DEF Callback
  <2>3. missed' \in BOOLEAN
    BY <1>7, Zenon DEF Callback
  <2>. QED
    BY <1>7, <2>1, <2>2, <2>3 DEF Callback
<1>8. QED
  BY <1>1, <1>2, <1>3, <1>4, <1>5, <1>6, <1>7 DEF Client

LEMMA TypeNext == TypeOK /\ [Next]_vars => TypeOK'
<1>1. TypeOK /\ UNCHANGED vars => TypeOK'
  BY DEF TypeOK, MainType, SharedType, TaskType, ClientType, HistoryType,
         vars, mainVars, sharedVars, taskVars, clientVars, historyVars, outages
<1>2. QED
  BY <1>1, TypeMain, TypePublisher, TypeClient DEF Next

(***************************************************************************)
(* The variables keep their types; in particular neither the health-event  *)
(* queue, nor the client-event channel, nor the client's buffer ever       *)
(* exceeds its capacity.                                                   *)
(***************************************************************************)
THEOREM TypeCorrect == Spec => []TypeOK
BY TypeInit, TypeNext, PTL DEF Spec

-----------------------------------------------------------------------------
(* Refused events stay owed *)

\* What the main loop has reported is at most what was refused, and a queued
\* EVENTS_DROPPED covers at most what was reported.
DropsInv ==
  /\ announced <= reportedDropped
  /\ reportedDropped <= dropped
  /\ DropsStayOwed

LEMMA DropsNext == TypeOK /\ DropsInv /\ [Next]_vars => DropsInv'
<1> SUFFICES ASSUME TypeOK, DropsInv, [Next]_vars PROVE DropsInv'
  OBVIOUS
<1> USE DEF TypeOK, MainType, SharedType, HistoryType, DropsInv,
            DropsStayOwed, mainVars, sharedVars, historyVars
<1>1. CASE TickReconnected
  BY <1>1 DEF TickReconnected, SendEvent
<1>2. CASE ReportDropped
  BY <1>2 DEF ReportDropped, SendEvent, CountedBeforeSending
<1>3. CASE CollectEvent
  BY <1>3 DEF CollectEvent, SendEvent
<1>4. CASE Reload \/ TickQuiet \/ EndTick
           \/ \E s \in Subjects \ {StatusSubject} : CollectState(s)
  BY <1>4 DEF Reload, TickQuiet, EndTick, CollectState, PublishState
<1>5. CASE Publisher
  <2>1. /\ UNCHANGED mainVars
        /\ dropped' = dropped
        /\ announced' = announced
    BY <1>5 DEF Publisher, Connect, PublishNext, Flush, PublishError,
                OnChanged, OnEvent, PublishEvent, OnConnected, OnOtherEvent,
                OnClosed
  <2>. QED
    BY <2>1
<1>6. CASE Client
  <2>1. /\ UNCHANGED mainVars
        /\ dropped' = dropped
        /\ announced' = announced
    BY <1>6 DEF Client, Write, Deliver, Disconnect, ReconnectFails, Reconnect,
                Die, Callback
  <2>. QED
    BY <2>1
<1>7. CASE UNCHANGED vars
  BY <1>7 DEF vars
<1>. QED
  BY <1>1, <1>2, <1>3, <1>4, <1>5, <1>6, <1>7 DEF Next, Main

(***************************************************************************)
(* The main loop always still owes an EVENTS_DROPPED for refusals that no  *)
(* queued one covers, although the reports go through the full queue.      *)
(***************************************************************************)
THEOREM DropsOwed == Spec => []DropsStayOwed
<1>1. Init => DropsInv
  BY DEF Init, DropsInv, DropsStayOwed
<1>2. DropsInv => DropsStayOwed
  BY DEF DropsInv
<1>. QED
  BY <1>1, <1>2, TypeCorrect, DropsNext, PTL DEF Spec

-----------------------------------------------------------------------------
(* State goes out in sequence order *)

\* No two subjects carry the same envelope.
Distinct(f) ==
  \A s, t \in Subjects : f[s] = f[t] => s = t \/ f[s] = 0

(***************************************************************************)
(* `sent` trails the snapshot and the snapshot trails the watch value;     *)
(* whatever the watch value holds beyond the snapshot is newer than all of *)
(* the snapshot, and whatever the snapshot still has to publish is newer   *)
(* than all that was sent.                                                 *)
(***************************************************************************)
OrderInv ==
  /\ \A s \in Subjects : state[s] <= sequence
  /\ \A s \in Subjects : sent[s] <= snapshot[s] /\ snapshot[s] <= state[s]
  /\ Distinct(state) /\ Distinct(snapshot)
  /\ \A s, t \in Subjects : state[s] # snapshot[s] => snapshot[t] < state[s]
  /\ \A s, t \in Subjects : sent[s] < snapshot[s] => sent[t] < snapshot[s]

LEMMA OrderInit == Init => OrderInv
BY SubjectsAssumption DEF Init, OrderInv, Distinct, NoneSent, Subjects

\* A write is newer than everything there is.
LEMMA OrderWrite ==
  ASSUME TypeOK, OrderInv, NEW u \in Subjects, PublishState(u),
         UNCHANGED <<sent, snapshot>>
  PROVE  OrderInv'
<1>1. /\ sequence' = sequence + 1
      /\ state' = [state EXCEPT ![u] = sequence + 1]
  BY DEF PublishState, NextSequence
<1>2. /\ sequence \in Nat
      /\ state \in [Subjects -> Nat]
      /\ sent \in [Subjects -> Nat]
      /\ snapshot \in [Subjects -> Nat]
  BY DEF TypeOK, MainType, SharedType, TaskType
<1>3. \A s \in Subjects : state'[s] = IF s = u THEN sequence + 1 ELSE state[s]
  BY <1>1, <1>2
<1>. QED
  BY <1>1, <1>2, <1>3 DEF OrderInv, Distinct

\* A new snapshot preserves the order whether or not `sent` is reset.
LEMMA OrderSnapshot ==
  ASSUME TypeOK, OrderInv, snapshot' = state,
         sent' = sent \/ sent' = NoneSent, UNCHANGED <<sequence, state>>
  PROVE  OrderInv'
<1>1. /\ sequence \in Nat
      /\ state \in [Subjects -> Nat]
      /\ sent \in [Subjects -> Nat]
      /\ snapshot \in [Subjects -> Nat]
  BY DEF TypeOK, MainType, SharedType, TaskType
<1>2. CASE sent' = sent
  BY <1>1, <1>2 DEF OrderInv, Distinct
<1>3. CASE sent' = NoneSent
  BY <1>1, <1>3 DEF OrderInv, Distinct, NoneSent
<1>. QED
  BY <1>2, <1>3

\* Publishing the oldest pending envelope leaves only newer ones pending.
LEMMA OrderPublish ==
  ASSUME TypeOK, OrderInv, NEW u \in Subjects, PublishNext(u)
  PROVE  OrderInv'
<1>1. /\ sequence \in Nat
      /\ state \in [Subjects -> Nat]
      /\ sent \in [Subjects -> Nat]
      /\ snapshot \in [Subjects -> Nat]
  BY DEF TypeOK, MainType, SharedType, TaskType
<1>2. UNCHANGED <<sequence, state, snapshot>>
  BY DEF PublishNext, mainVars, sharedVars
<1>3. /\ snapshot[u] > sent[u]
      /\ \A t \in Subjects : snapshot[t] > sent[t] => snapshot[u] <= snapshot[t]
  BY DEF PublishNext, NextInOrder, Pending
<1>4. \A s \in Subjects : sent'[s] = IF s = u THEN snapshot[u] ELSE sent[s]
  BY <1>1 DEF PublishNext
<1>. QED
  BY <1>1, <1>2, <1>3, <1>4 DEF OrderInv, Distinct

LEMMA OrderNext == TypeOK /\ OrderInv /\ [Next]_vars => OrderInv'
<1> SUFFICES ASSUME TypeOK, OrderInv, [Next]_vars PROVE OrderInv'
  OBVIOUS
<1>1. CASE UNCHANGED <<sequence, state, sent, snapshot>>
  BY <1>1 DEF OrderInv, Distinct
<1>2. CASE Reload
  BY <1>2, OrderWrite DEF Reload, taskVars, Subjects
<1>3. ASSUME NEW s \in Subjects \ {StatusSubject}, CollectState(s)
      PROVE  OrderInv'
  BY <1>3, OrderWrite DEF CollectState, taskVars
<1>4. CASE TickReconnected \/ ReportDropped \/ CollectEvent
  <2>1. sequence' = sequence + 1 /\ UNCHANGED <<state, sent, snapshot>>
    BY <1>4 DEF TickReconnected, ReportDropped, CollectEvent, SendEvent,
                NextSequence, taskVars
  <2>2. sequence \in Nat /\ state \in [Subjects -> Nat]
    BY DEF TypeOK, MainType, SharedType
  <2>. QED
    BY <2>1, <2>2 DEF OrderInv, Distinct
<1>5. CASE Connect \/ OnChanged \/ OnConnected
  BY <1>5, OrderSnapshot
     DEF Connect, OnChanged, OnConnected, SentAfterConnected, mainVars,
         sharedVars
<1>6. ASSUME NEW s \in Subjects, PublishNext(s)
      PROVE  OrderInv'
  BY <1>6, OrderPublish
<1>7. CASE TickQuiet \/ EndTick \/ Flush \/ PublishError \/ OnEvent
           \/ PublishEvent \/ OnOtherEvent \/ OnClosed \/ Client
  <2>1. UNCHANGED <<sequence, state, sent, snapshot>>
    BY <1>7 DEF TickQuiet, EndTick, Flush, PublishError, OnEvent,
                PublishEvent, OnOtherEvent, OnClosed, Client, Write, Deliver,
                Disconnect, ReconnectFails, Reconnect, Die, Callback,
                mainVars, sharedVars, taskVars
  <2>. QED
    BY <2>1, <1>1
<1>8. CASE UNCHANGED vars
  BY <1>8, <1>1 DEF vars, mainVars, sharedVars, taskVars
<1>. QED
  BY <1>2, <1>3, <1>4, <1>5, <1>6, <1>7, <1>8 DEF Next, Main, Publisher

LEMMA OrderStep ==
  ASSUME TypeOK, OrderInv, [Next]_vars
  PROVE  [\A s \in Subjects :
             sent'[s] # sent[s] /\ sent' # NoneSent
               => \A t \in Subjects : sent[t] < sent'[s]]_vars
<1>1. ASSUME NEW u \in Subjects, PublishNext(u)
      PROVE  \A s \in Subjects :
               sent'[s] # sent[s] => \A t \in Subjects : sent[t] < sent'[s]
  <2>1. sent \in [Subjects -> Nat] /\ snapshot[u] > sent[u]
    BY <1>1 DEF TypeOK, TaskType, PublishNext, NextInOrder, Pending
  <2>2. \A s \in Subjects : sent'[s] = IF s = u THEN snapshot[u] ELSE sent[s]
    BY <1>1, <2>1 DEF PublishNext
  <2>. QED
    BY <2>1, <2>2 DEF OrderInv
<1>2. CASE \E u \in Subjects : PublishNext(u)
  BY <1>1, <1>2
<1>3. CASE ~(\E u \in Subjects : PublishNext(u))
  <2>1. sent' = sent \/ sent' = NoneSent
    BY <1>3 DEF Next, Main, Reload, TickQuiet, TickReconnected, ReportDropped,
                CollectState, CollectEvent, EndTick, Publisher, Connect,
                Flush, PublishError, OnChanged, OnEvent, PublishEvent,
                OnConnected, SentAfterConnected, OnOtherEvent, OnClosed,
                Client, Write, Deliver, Disconnect, ReconnectFails, Reconnect,
                Die, Callback, vars, taskVars
  <2>. QED
    BY <2>1
<1>. QED
  BY <1>2, <1>3

(***************************************************************************)
(* Between two resets of `sent`, publish_latest hands the state to the     *)
(* client in the order of the envelope sequences, across all its calls.    *)
(***************************************************************************)
THEOREM SequenceOrder == Spec => StateInSequenceOrder
<1>1. Spec => [](TypeOK /\ OrderInv)
  BY TypeCorrect, OrderInit, OrderNext, PTL DEF Spec
<1>2. TypeOK /\ OrderInv /\ [Next]_vars
        => [\A s \in Subjects :
              sent'[s] # sent[s] /\ sent' # NoneSent
                => \A t \in Subjects : sent[t] < sent'[s]]_vars
  BY OrderStep
<1>. QED
  BY <1>1, <1>2, PTL DEF Spec, StateInSequenceOrder

-----------------------------------------------------------------------------
(* The server's view is a latest-value register *)

\* The messages of s in q lie between lo and hi and do not decrease.
Within(q, s, lo, hi) ==
  \A i \in 1..Len(q) :
     q[i].subject = s => lo <= q[i].sequence /\ q[i].sequence <= hi
Ordered(q, s) ==
  \A i, j \in 1..Len(q) :
     i < j /\ q[i].subject = s /\ q[j].subject = s
       => q[i].sequence <= q[j].sequence
\* Every message of s in p is at most every message of s in q.
Before(p, q, s) ==
  \A i \in 1..Len(p), j \in 1..Len(q) :
     p[i].subject = s /\ q[j].subject = s => p[i].sequence <= q[j].sequence

LEMMA AppendKeeps ==
  ASSUME NEW q \in Seq(Message), NEW m \in Message, NEW s, NEW lo \in Nat,
         NEW hi \in Nat,
         Within(q, s, lo, hi), Ordered(q, s),
         m.subject = s => /\ lo <= m.sequence
                          /\ m.sequence <= hi
                          /\ \A i \in 1..Len(q) :
                               q[i].subject = s => q[i].sequence <= m.sequence
  PROVE  Within(Append(q, m), s, lo, hi) /\ Ordered(Append(q, m), s)
<1> DEFINE p == Append(q, m)
<1>1. /\ Len(q) \in Nat
      /\ Len(p) = Len(q) + 1
      /\ \A i \in 1..Len(q) : p[i] = q[i]
      /\ p[Len(q) + 1] = m
  BY AppendProperties, LenProperties
<1>2. \A i \in 1..Len(p) : i \in 1..Len(q) \/ i = Len(q) + 1
  BY <1>1
<1> HIDE DEF p
<1>3. Within(p, s, lo, hi)
  BY <1>1, <1>2 DEF Within
<1>4. Ordered(p, s)
  BY <1>1, <1>2 DEF Ordered
<1>. QED
  BY <1>3, <1>4 DEF p

LEMMA TailKeeps ==
  ASSUME NEW q \in Seq(Message), q # <<>>, NEW s, NEW lo \in Nat,
         NEW hi \in Nat, Within(q, s, lo, hi), Ordered(q, s)
  PROVE  /\ Within(Tail(q), s, lo, hi) /\ Ordered(Tail(q), s)
         /\ Head(q).subject = s => /\ lo <= Head(q).sequence
                                   /\ Head(q).sequence <= hi
                                   /\ Within(Tail(q), s, Head(q).sequence, hi)
<1> DEFINE p == Tail(q)
<1>1. /\ Len(q) \in Nat \ {0}
      /\ Len(p) = Len(q) - 1
      /\ \A i \in 1..Len(p) : p[i] = q[i + 1]
      /\ Head(q) = q[1]
  BY HeadTailProperties, EmptySeq, LenProperties
<1>2. \A i \in 1..Len(p) : i + 1 \in 1..Len(q) /\ 1 < i + 1
  BY <1>1
<1>3. 1 \in 1..Len(q)
  BY <1>1
<1> HIDE DEF p
<1>4. Within(p, s, lo, hi)
  BY <1>1, <1>2 DEF Within
<1>5. Ordered(p, s)
  BY <1>1, <1>2 DEF Ordered
<1>6. Head(q).subject = s => /\ lo <= Head(q).sequence
                             /\ Head(q).sequence <= hi
                             /\ Within(p, s, Head(q).sequence, hi)
  BY <1>1, <1>2, <1>3 DEF Within, Ordered
<1>. QED
  BY <1>4, <1>5, <1>6 DEF p

(***************************************************************************)
(* Whatever is on its way lies, per subject, between what the server has   *)
(* received and the publisher's snapshot, and does not decrease along the  *)
(* client's buffer and the connection.                                     *)
(***************************************************************************)
FlightOK(s) ==
  /\ delivered[s] <= snapshot[s]
  /\ Within(wire, s, delivered[s], snapshot[s])
  /\ Within(clientBuf, s, delivered[s], snapshot[s])
  /\ Ordered(wire, s)
  /\ Ordered(clientBuf, s)
  /\ Before(wire, clientBuf, s)
FlightInv == \A s \in Subjects : FlightOK(s)

FlightTypes ==
  /\ clientBuf \in Seq(Message)
  /\ wire \in Seq(Message)
  /\ \A s \in Subjects : /\ delivered[s] \in Nat
                         /\ snapshot[s] \in Nat
                         /\ state[s] \in Nat

LEMMA TypeOKFlight == TypeOK => FlightTypes
BY DEF TypeOK, SharedType, TaskType, ClientType, HistoryType, FlightTypes

LEMMA EmptyKeeps ==
  ASSUME NEW s, NEW lo, NEW hi, NEW q
  PROVE  /\ Within(<<>>, s, lo, hi) /\ Ordered(<<>>, s)
         /\ Before(<<>>, q, s) /\ Before(q, <<>>, s)
BY DEF Within, Ordered, Before

LEMMA FlightInit == Init => FlightInv
BY EmptyKeeps DEF Init, FlightInv, FlightOK, NoneSent

\* The snapshot only moves forward.
LEMMA FlightSnapshot ==
  ASSUME TypeOK, OrderInv, FlightInv, UNCHANGED <<wire, clientBuf, delivered>>,
         snapshot' = state \/ snapshot' = snapshot
  PROVE  FlightInv'
<1>1. FlightTypes
  BY TypeOKFlight
<1> SUFFICES ASSUME NEW s \in Subjects PROVE FlightOK(s)'
  BY DEF FlightInv
<1>2. FlightOK(s) /\ snapshot[s] <= state[s]
  BY DEF FlightInv, OrderInv
<1>3. CASE snapshot' = snapshot
  BY <1>2, <1>3 DEF FlightOK, Within, Ordered, Before
<1>4. CASE snapshot' = state
  <2>1. ASSUME NEW q \in Seq(Message),
               Within(q, s, delivered[s], snapshot[s])
        PROVE  Within(q, s, delivered[s], state[s])
    <3>1. \A i \in 1..Len(q) : q[i] \in Message
      BY ElementOfSeq
    <3>2. \A i \in 1..Len(q) : q[i].sequence \in Nat
      BY <3>1 DEF Message
    <3>. QED
      BY <1>1, <1>2, <2>1, <3>2 DEF Within, FlightTypes
  <2>. QED
    BY <1>1, <1>2, <1>4, <2>1 DEF FlightOK, FlightTypes, Ordered, Before
<1>. QED
  BY <1>3, <1>4

\* A lost connection or client only empties queues.
LEMMA FlightLost ==
  ASSUME FlightInv, UNCHANGED <<delivered, snapshot>>, wire' = <<>>,
         clientBuf' = clientBuf \/ clientBuf' = <<>>
  PROVE  FlightInv'
<1> SUFFICES ASSUME NEW s \in Subjects PROVE FlightOK(s)'
  BY DEF FlightInv
<1>1. FlightOK(s)
  BY DEF FlightInv
<1>2. CASE clientBuf' = clientBuf
  BY <1>1, <1>2, EmptyKeeps DEF FlightOK
<1>3. CASE clientBuf' = <<>>
  BY <1>1, <1>3, EmptyKeeps DEF FlightOK
<1>. QED
  BY <1>2, <1>3

\* What is handed to the client is at least all that is on its way.
LEMMA FlightHand ==
  ASSUME TypeOK, FlightInv, UNCHANGED <<wire, delivered, snapshot>>,
         NEW m \in Message, clientBuf' = Append(clientBuf, m),
         m.subject \in Subjects => m.sequence = snapshot[m.subject]
  PROVE  FlightInv'
<1>1. FlightTypes
  BY TypeOKFlight
<1> SUFFICES ASSUME NEW s \in Subjects PROVE FlightOK(s)'
  BY DEF FlightInv
<1>2. FlightOK(s)
  BY DEF FlightInv
<1>3. Within(clientBuf', s, delivered[s], snapshot[s]) /\ Ordered(clientBuf', s)
  <2>1. /\ clientBuf \in Seq(Message)
        /\ delivered[s] \in Nat /\ snapshot[s] \in Nat
        /\ Within(clientBuf, s, delivered[s], snapshot[s])
        /\ Ordered(clientBuf, s)
    BY <1>1, <1>2 DEF FlightTypes, FlightOK
  <2>2. m.subject = s
          => /\ delivered[s] <= m.sequence
             /\ m.sequence <= snapshot[s]
             /\ \A i \in 1..Len(clientBuf) :
                  clientBuf[i].subject = s => clientBuf[i].sequence <= m.sequence
    BY <1>2, <2>1 DEF FlightOK, Within
  <2>. QED
    BY <2>1, <2>2, AppendKeeps
<1>4. Before(wire, clientBuf', s)
  <2>1. /\ Len(clientBuf) \in Nat
        /\ Len(clientBuf') = Len(clientBuf) + 1
        /\ \A i \in 1..Len(clientBuf) : clientBuf'[i] = clientBuf[i]
        /\ clientBuf'[Len(clientBuf) + 1] = m
    BY <1>1, AppendProperties, LenProperties DEF FlightTypes
  <2>2. \A i \in 1..Len(clientBuf') :
           i \in 1..Len(clientBuf) \/ i = Len(clientBuf) + 1
    BY <2>1
  <2>. QED
    BY <1>2, <2>1, <2>2 DEF FlightOK, Before, Within
<1>. QED
  BY <1>2, <1>3, <1>4 DEF FlightOK

\* Writing moves the oldest buffered message behind the written ones.
LEMMA FlightWrite ==
  ASSUME TypeOK, FlightInv, Write
  PROVE  FlightInv'
<1>1. FlightTypes
  BY TypeOKFlight
<1>2. /\ UNCHANGED <<delivered, snapshot>>
      /\ clientBuf # <<>>
      /\ clientBuf' = Tail(clientBuf)
      /\ wire' = Append(wire, Head(clientBuf))
  BY DEF Write, taskVars, historyVars
<1> DEFINE m == Head(clientBuf)
<1>3. /\ m \in Message
      /\ Len(clientBuf) \in Nat \ {0}
      /\ m = clientBuf[1]
      /\ Len(Tail(clientBuf)) = Len(clientBuf) - 1
      /\ \A i \in 1..Len(Tail(clientBuf)) : Tail(clientBuf)[i] = clientBuf[i + 1]
  BY <1>1, <1>2, HeadTailProperties, EmptySeq, LenProperties DEF FlightTypes
<1>4. /\ Len(wire) \in Nat
      /\ Len(wire') = Len(wire) + 1
      /\ \A i \in 1..Len(wire) : wire'[i] = wire[i]
      /\ wire'[Len(wire) + 1] = m
  BY <1>1, <1>2, <1>3, AppendProperties, LenProperties DEF FlightTypes
<1>5. 1 \in 1..Len(clientBuf)
  BY <1>3
<1> HIDE DEF m
<1> SUFFICES ASSUME NEW s \in Subjects PROVE FlightOK(s)'
  BY DEF FlightInv
<1>6. FlightOK(s)
  BY DEF FlightInv
<1>7. /\ Within(clientBuf', s, delivered[s], snapshot[s])
      /\ Ordered(clientBuf', s)
      /\ m.subject = s => Within(clientBuf', s, m.sequence, snapshot[s])
      /\ m.subject = s => delivered[s] <= m.sequence /\ m.sequence <= snapshot[s]
  BY <1>1, <1>2, <1>6, TailKeeps DEF FlightOK, FlightTypes, m
<1>8. m.subject = s
        => \A i \in 1..Len(wire) : wire[i].subject = s => wire[i].sequence <= m.sequence
  BY <1>3, <1>5, <1>6 DEF FlightOK, Before
<1>9. Within(wire', s, delivered[s], snapshot[s]) /\ Ordered(wire', s)
  BY <1>1, <1>2, <1>3, <1>6, <1>7, <1>8, AppendKeeps DEF FlightOK, FlightTypes, m
<1>10. Before(wire', clientBuf', s)
  <2>1. \A i \in 1..Len(wire') : i \in 1..Len(wire) \/ i = Len(wire) + 1
    BY <1>4
  <2>2. \A j \in 1..Len(clientBuf') : j + 1 \in 1..Len(clientBuf)
    BY <1>2, <1>3
  <2>. QED
    BY <1>2, <1>3, <1>4, <1>6, <1>7, <2>1, <2>2 DEF FlightOK, Before, Within
<1>. QED
  BY <1>2, <1>6, <1>7, <1>9, <1>10 DEF FlightOK

\* The oldest written message becomes the server's value of its subject.
LEMMA FlightDeliver ==
  ASSUME TypeOK, FlightInv, Deliver
  PROVE  /\ FlightInv'
         /\ \A s \in Subjects : /\ delivered[s] <= delivered'[s]
                                /\ delivered'[s] <= snapshot[s]
         /\ \/ UNCHANGED delivered
            \/ \E u \in Subjects : \A s \in Subjects \ {u} :
                 delivered'[s] = delivered[s]
<1>1. FlightTypes /\ delivered \in [Subjects -> Nat]
  BY TypeOKFlight DEF TypeOK, HistoryType
<1> DEFINE m == Head(wire)
<1>2. /\ wire # <<>>
      /\ wire' = Tail(wire)
      /\ UNCHANGED <<clientBuf, snapshot>>
  BY DEF Deliver, taskVars
<1>3. /\ m \in Message
      /\ Len(wire) \in Nat \ {0}
      /\ m = wire[1]
      /\ Len(wire') = Len(wire) - 1
      /\ \A i \in 1..Len(wire') : wire'[i] = wire[i + 1]
  BY <1>1, <1>2, HeadTailProperties, EmptySeq, LenProperties DEF FlightTypes
<1>4. 1 \in 1..Len(wire) /\ \A i \in 1..Len(wire') : i + 1 \in 1..Len(wire)
  BY <1>3
<1>5. /\ m.subject = EventSubject => delivered' = delivered
      /\ m.subject # EventSubject
           => /\ m.subject \in Subjects
              /\ delivered' = [delivered EXCEPT ![m.subject] = m.sequence]
  BY <1>3 DEF Deliver, Message
<1>6. \A s \in Subjects :
        delivered'[s] = IF m.subject = s THEN m.sequence ELSE delivered[s]
  BY <1>1, <1>5, SubjectsAssumption
<1> HIDE DEF m
<1>7. ASSUME NEW s \in Subjects
      PROVE  /\ FlightOK(s)'
             /\ delivered[s] <= delivered'[s]
             /\ delivered'[s] <= snapshot[s]
  <2>1. FlightOK(s)
    BY DEF FlightInv
  <2>2. /\ Within(wire', s, delivered[s], snapshot[s])
        /\ Ordered(wire', s)
        /\ m.subject = s => /\ Within(wire', s, m.sequence, snapshot[s])
                            /\ delivered[s] <= m.sequence
                            /\ m.sequence <= snapshot[s]
    BY <1>1, <1>2, <2>1, TailKeeps DEF FlightOK, FlightTypes, m
  <2>3. Before(wire', clientBuf, s)
    BY <1>3, <1>4, <2>1 DEF FlightOK, Before
  <2>4. m.subject = s => Within(clientBuf, s, m.sequence, snapshot[s])
    BY <1>3, <1>4, <2>1 DEF FlightOK, Before, Within
  <2>5. CASE m.subject = s
    BY <1>2, <1>6, <2>1, <2>2, <2>3, <2>4, <2>5 DEF FlightOK
  <2>6. CASE m.subject # s
    BY <1>1, <1>2, <1>6, <2>1, <2>2, <2>3, <2>6 DEF FlightOK, FlightTypes
  <2>. QED
    BY <2>5, <2>6
<1>8. \/ UNCHANGED delivered
      \/ \E u \in Subjects : \A s \in Subjects \ {u} :
           delivered'[s] = delivered[s]
  BY <1>5, <1>6
<1>. QED
  BY <1>7, <1>8 DEF FlightInv

LEMMA FlightNext == TypeOK /\ OrderInv /\ FlightInv /\ [Next]_vars => FlightInv'
<1> SUFFICES ASSUME TypeOK, OrderInv, FlightInv, [Next]_vars PROVE FlightInv'
  OBVIOUS
<1>1. CASE Main
  <2>1. UNCHANGED <<wire, clientBuf, delivered, snapshot>>
    BY <1>1 DEF Main, Reload, TickQuiet, TickReconnected, ReportDropped,
                CollectState, CollectEvent, EndTick, taskVars, clientVars,
                historyVars
  <2>. QED
    BY <2>1, FlightSnapshot
<1>2. CASE Connect
  <2>1. FlightTypes
    BY TypeOKFlight
  <2>2. /\ wire' = <<>> /\ clientBuf' = <<>> /\ UNCHANGED delivered
        /\ snapshot' = state
    BY <1>2 DEF Connect
  <2>3. \A s \in Subjects : delivered[s] <= snapshot[s] /\ snapshot[s] <= state[s]
    BY DEF FlightInv, FlightOK, OrderInv
  <2>4. ASSUME NEW s \in Subjects
        PROVE  FlightOK(s)'
    <3>1. delivered'[s] <= snapshot'[s]
      BY <2>1, <2>2, <2>3 DEF FlightTypes
    <3>2. /\ Within(wire', s, delivered'[s], snapshot'[s])
          /\ Within(clientBuf', s, delivered'[s], snapshot'[s])
          /\ Ordered(wire', s) /\ Ordered(clientBuf', s)
          /\ Before(wire', clientBuf', s)
      BY <2>2, EmptyKeeps
    <3>. QED
      BY <3>1, <3>2 DEF FlightOK
  <2>. QED
    BY <2>4 DEF FlightInv
<1>3. ASSUME NEW s \in Subjects, PublishNext(s)
      PROVE  FlightInv'
  <2>1. snapshot[s] \in Nat
    BY DEF TypeOK, TaskType
  <2>2. [subject |-> s, sequence |-> snapshot[s]] \in Message
    BY <2>1 DEF Message
  <2>. QED
    BY <1>3, <2>2, FlightHand DEF PublishNext, historyVars
<1>4. CASE PublishEvent
  <2>1. InHand \in Message /\ InHand.subject \notin Subjects
    BY SubjectsAssumption DEF InHand, Message, TypeOK, TaskType
  <2>. QED
    BY <1>4, <2>1, FlightHand DEF PublishEvent, WithEvent, historyVars
<1>5. CASE OnChanged \/ OnConnected
  BY <1>5, FlightSnapshot DEF OnChanged, OnConnected, clientVars, historyVars
<1>6. CASE Flush \/ PublishError \/ OnEvent \/ OnOtherEvent \/ OnClosed
           \/ ReconnectFails \/ Reconnect \/ Callback
  <2>1. UNCHANGED <<wire, clientBuf, delivered, snapshot>>
    BY <1>6 DEF Flush, PublishError, OnEvent, OnOtherEvent, OnClosed,
                ReconnectFails, Reconnect, Callback, taskVars, clientVars,
                historyVars
  <2>. QED
    BY <2>1, FlightSnapshot
<1>7. CASE Disconnect \/ Die
  BY <1>7, FlightLost DEF Disconnect, Die, taskVars
<1>8. CASE Write
  BY <1>8, FlightWrite
<1>9. CASE Deliver
  BY <1>9, FlightDeliver
<1>10. CASE UNCHANGED vars
  BY <1>10, FlightSnapshot DEF vars, taskVars, clientVars, historyVars
<1>. QED
  BY <1>1, <1>2, <1>3, <1>4, <1>5, <1>6, <1>7, <1>8, <1>9, <1>10
     DEF Next, Publisher, Client

\* Every step writes a later value, or moves the view towards the latest one,
\* or changes neither.
LEMMA LatestStep ==
  ASSUME TypeOK, OrderInv, FlightInv, [Next]_vars, TypeOK'
  PROVE  [Latest!Next]_<<state, delivered>>
<1>1. /\ state \in [Subjects -> Nat] /\ state' \in [Subjects -> Nat]
      /\ delivered \in [Subjects -> Nat] /\ delivered' \in [Subjects -> Nat]
      /\ sequence \in Nat
  BY DEF TypeOK, MainType, SharedType, HistoryType
<1>2. ASSUME NEW u \in Subjects, PublishState(u), UNCHANGED delivered
      PROVE  Latest!Write(u)
  <2>1. /\ state[u] <= sequence
        /\ state' = [state EXCEPT ![u] = sequence + 1]
    BY <1>2 DEF OrderInv, PublishState, NextSequence
  <2>2. \A s \in Subjects : state'[s] = IF s = u THEN sequence + 1 ELSE state[s]
    BY <1>1, <2>1
  <2>. QED
    BY <1>1, <1>2, <2>1, <2>2 DEF Latest!Write, Latest!Only
<1>3. CASE Reload
  BY <1>2, <1>3 DEF Reload, historyVars, Subjects, Latest!Next
<1>4. ASSUME NEW s \in Subjects \ {StatusSubject}, CollectState(s)
      PROVE  Latest!Next
  BY <1>2, <1>4 DEF CollectState, historyVars, Latest!Next
<1>5. CASE Deliver
  <2>1. /\ \A s \in Subjects : /\ delivered[s] <= delivered'[s]
                               /\ delivered'[s] <= snapshot[s]
        /\ \/ UNCHANGED delivered
           \/ \E u \in Subjects : \A s \in Subjects \ {u} :
                delivered'[s] = delivered[s]
    BY <1>5, FlightDeliver
  <2>2. UNCHANGED state
    BY <1>5 DEF Deliver, sharedVars
  <2>3. CASE UNCHANGED delivered
    BY <2>2, <2>3
  <2>4. ASSUME NEW u \in Subjects,
               \A s \in Subjects \ {u} : delivered'[s] = delivered[s]
        PROVE  Latest!Observe(u)
    <3>1. delivered[u] <= delivered'[u] /\ delivered'[u] <= state[u]
      <4>1. snapshot[u] \in Nat /\ snapshot[u] <= state[u]
        BY DEF TypeOK, TaskType, OrderInv
      <4>. QED
        BY <1>1, <2>1, <4>1
    <3>. QED
      BY <1>1, <2>2, <2>4, <3>1 DEF Latest!Observe, Latest!Only
  <2>. QED
    BY <2>1, <2>3, <2>4 DEF Latest!Next
<1>6. CASE UNCHANGED <<state, delivered>>
  BY <1>6
<1>7. CASE \/ TickQuiet \/ TickReconnected \/ ReportDropped \/ CollectEvent
           \/ EndTick \/ Publisher \/ Write \/ Disconnect \/ ReconnectFails
           \/ Reconnect \/ Die \/ Callback
  <2>1. UNCHANGED <<state, delivered>>
    BY <1>7 DEF TickQuiet, TickReconnected, ReportDropped, CollectEvent,
                EndTick, Publisher, Connect, PublishNext, Flush, PublishError,
                OnChanged, OnEvent, PublishEvent, OnConnected, OnOtherEvent,
                OnClosed, Write, Disconnect, ReconnectFails, Reconnect, Die,
                Callback, sharedVars, historyVars
  <2>. QED
    BY <2>1, <1>6
<1>8. CASE UNCHANGED vars
  BY <1>8, <1>6 DEF vars, sharedVars, historyVars
<1>. QED
  BY <1>3, <1>4, <1>5, <1>7, <1>8 DEF Next, Main, Client

(***************************************************************************)
(* The publication path implements the latest-value register: through      *)
(* losses, replays, coalescing and new clients, the server's value of a    *)
(* subject is one the agent wrote, and is never replaced by an older one.  *)
(***************************************************************************)
THEOREM LatestValueView == Spec => ViewIsLatestValue
<1>1. Spec => [](TypeOK /\ OrderInv /\ FlightInv)
  BY TypeCorrect, OrderInit, OrderNext, FlightInit, FlightNext, PTL DEF Spec
<1>2. Init => Latest!Init
  BY TypeInit DEF Init, NoneSent, Latest!Init, TypeOK, SharedType
<1>3. TypeOK /\ TypeOK' /\ OrderInv /\ FlightInv /\ [Next]_vars
        => [Latest!Next]_<<state, delivered>>
  BY LatestStep
<1>. QED
  BY <1>1, <1>2, <1>3, TypeCorrect, PTL DEF Spec, ViewIsLatestValue, Latest!Spec
-----------------------------------------------------------------------------
(* Health events: where they are *)

\* The event a message carries, if it is one.
EventOf(m) == IF m.subject = EventSubject THEN {m.sequence} ELSE {}

\* The event in the task's hand.
Hand == {inHand} \ {0}

\* What a queue holds.
Elements(q) == {q[i] : i \in DOMAIN q}

LEMMA ElementsEmpty == Elements(<<>>) = {}
BY DEF Elements

LEMMA ElementsAppend ==
  ASSUME NEW S, NEW q \in Seq(S), NEW e \in S
  PROVE  Elements(Append(q, e)) = Elements(q) \union {e}
<1> DEFINE p == Append(q, e)
<1>1. /\ DOMAIN q = 1..Len(q)
      /\ DOMAIN p = 1..Len(p)
      /\ Len(q) \in Nat
      /\ Len(p) = Len(q) + 1
      /\ \A i \in 1..Len(q) : p[i] = q[i]
      /\ p[Len(q) + 1] = e
  BY AppendProperties, LenProperties
<1>2. /\ \A i \in 1..Len(p) : i \in 1..Len(q) \/ i = Len(q) + 1
      /\ \A i \in 1..Len(q) : i \in 1..Len(p)
      /\ Len(q) + 1 \in 1..Len(p)
  BY <1>1
<1> HIDE DEF p
<1>3. /\ Elements(p) = {p[i] : i \in 1..Len(p)}
      /\ Elements(q) = {q[i] : i \in 1..Len(q)}
  BY <1>1 DEF Elements
<1>4. Elements(p) = Elements(q) \union {e}
  BY <1>1, <1>2, <1>3
<1>. QED
  BY <1>4 DEF p

LEMMA ElementsTail ==
  ASSUME NEW S, NEW q \in Seq(S), q # <<>>
  PROVE  /\ Elements(q) = {Head(q)} \union Elements(Tail(q))
         /\ Head(q) \in S
         /\ Tail(q) \in Seq(S)
<1> DEFINE p == Tail(q)
<1>1. /\ DOMAIN q = 1..Len(q)
      /\ DOMAIN p = 1..Len(p)
      /\ Len(q) \in Nat \ {0}
      /\ Len(p) = Len(q) - 1
      /\ \A i \in 1..Len(p) : p[i] = q[i + 1]
      /\ Head(q) = q[1]
  BY HeadTailProperties, EmptySeq, LenProperties
<1>2. /\ \A i \in 1..Len(q) : i # 1 => i - 1 \in 1..Len(p)
      /\ \A i \in 1..Len(p) : i + 1 \in 1..Len(q)
      /\ 1 \in 1..Len(q)
  BY <1>1
<1>3. Head(q) \in S /\ p \in Seq(S)
  BY HeadTailProperties
<1> HIDE DEF p
<1>4. \A i \in 1..Len(q) : i # 1 => p[i - 1] = q[i]
  BY <1>1, <1>2
<1>5. /\ Elements(p) = {p[i] : i \in 1..Len(p)}
      /\ Elements(q) = {q[i] : i \in 1..Len(q)}
  BY <1>1 DEF Elements
<1>6. \A x : x \in Elements(q) => x = Head(q) \/ x \in Elements(p)
  BY <1>1, <1>2, <1>4, <1>5
<1>7. \A x : x = Head(q) \/ x \in Elements(p) => x \in Elements(q)
  BY <1>1, <1>2, <1>5
<1>8. Elements(q) = {Head(q)} \union Elements(p)
  BY <1>6, <1>7
<1>. QED
  BY <1>3, <1>8 DEF p

LEMMA EventsOfMember ==
  ASSUME NEW q, NEW x
  PROVE  x \in EventsOf(q) <=> \E m \in Elements(q) : x \in EventOf(m)
BY DEF EventsOf, EventOf, Elements

LEMMA EventsOfEmpty == EventsOf(<<>>) = {}
BY DEF EventsOf

LEMMA EventsOfAppend ==
  ASSUME NEW q \in Seq(Message), NEW m \in Message
  PROVE  EventsOf(Append(q, m)) = EventsOf(q) \union EventOf(m)
<1>1. Elements(Append(q, m)) = Elements(q) \union {m}
  BY ElementsAppend
<1>2. ASSUME NEW x
      PROVE  x \in EventsOf(Append(q, m))
               <=> x \in EventsOf(q) \/ x \in EventOf(m)
  BY <1>1, EventsOfMember
<1>. QED
  BY <1>2

LEMMA EventsOfTail ==
  ASSUME NEW q \in Seq(Message), q # <<>>
  PROVE  EventsOf(q) = EventOf(Head(q)) \union EventsOf(Tail(q))
<1>1. Elements(q) = {Head(q)} \union Elements(Tail(q))
  BY ElementsTail
<1>2. ASSUME NEW x
      PROVE  x \in EventsOf(q)
               <=> x \in EventOf(Head(q)) \/ x \in EventsOf(Tail(q))
  BY <1>1, EventsOfMember
<1>. QED
  BY <1>2

-----------------------------------------------------------------------------
(* Health events: none disappears *)

(***************************************************************************)
(* The task connects only when no client is left, and a client that is not *)
(* there holds nothing: building a new one discards no message.            *)
(***************************************************************************)
LinkInv ==
  /\ pc = "connect" => link \in {"none", "dead"}
  /\ link = "none" => pc = "connect"
  /\ link \in {"none", "dead"} => clientBuf = <<>> /\ wire = <<>>

\* The task holds an event exactly while it sends it.
HandInv ==
  /\ pc = "send" <=> inHand # 0
  /\ 0 \notin Elements(events)

AccountInv == LinkInv /\ HandInv /\ EventsAccounted

LEMMA AccountInit == Init => AccountInv
<1>1. Init => LinkInv
  BY DEF Init, LinkInv
<1>2. Init => HandInv /\ EventsAccounted
  BY EventsOfEmpty DEF Init, HandInv, EventsAccounted, Elements
<1>. QED
  BY <1>1, <1>2 DEF AccountInv

LEMMA LinkNext == LinkInv /\ [Next]_vars => LinkInv'
<1> SUFFICES ASSUME LinkInv, [Next]_vars PROVE LinkInv'
  OBVIOUS
<1> USE DEF LinkInv
<1>1. CASE Main
  <2>1. UNCHANGED <<pc, link, clientBuf, wire>>
    BY <1>1 DEF Main, Reload, TickQuiet, TickReconnected, ReportDropped,
                CollectState, CollectEvent, EndTick, taskVars, clientVars
  <2>. QED
    BY <2>1
<1>2. CASE Publisher
  BY <1>2 DEF Publisher, Connect, PublishNext, Flush, PublishError, OnChanged,
              OnEvent, PublishEvent, OnConnected, OnOtherEvent, OnClosed,
              taskVars, clientVars
<1>3. CASE Client
  BY <1>3 DEF Client, Write, Deliver, Disconnect, ReconnectFails, Reconnect,
              Die, Callback, taskVars
<1>4. CASE UNCHANGED vars
  BY <1>4 DEF vars, taskVars, clientVars
<1>. QED
  BY <1>1, <1>2, <1>3, <1>4 DEF Next

\* send_event puts the event into the queue and into `accepted`, or neither.
LEMMA AccountSend ==
  ASSUME TypeOK, HandInv, SendEvent
  PROVE  /\ 0 \notin Elements(events')
         /\ \/ /\ Elements(events') = Elements(events) \union {sequence + 1}
               /\ accepted' = accepted \union {sequence + 1}
            \/ events' = events /\ accepted' = accepted
<1>1. sequence \in Nat /\ events \in Seq(Nat) /\ NextSequence = sequence + 1
  BY DEF TypeOK, MainType, SharedType, NextSequence
<1>2. Elements(Append(events, sequence + 1))
        = Elements(events) \union {sequence + 1}
  BY <1>1, ElementsAppend
<1>3. CASE Len(events) < EventCapacity
  <2>1. /\ events' = Append(events, sequence + 1)
        /\ accepted' = accepted \union {sequence + 1}
    BY <1>1, <1>3 DEF SendEvent
  <2>2. Elements(events') = Elements(events) \union {sequence + 1}
    BY <1>2, <2>1
  <2>. QED
    BY <1>1, <2>1, <2>2 DEF HandInv
<1>4. CASE ~(Len(events) < EventCapacity)
  BY <1>4 DEF SendEvent, HandInv
<1>. QED
  BY <1>3, <1>4

LEMMA AccountMain ==
  TypeOK /\ AccountInv /\ Main => (HandInv /\ EventsAccounted)'
<1> SUFFICES ASSUME TypeOK, AccountInv, Main
             PROVE  (HandInv /\ EventsAccounted)'
  OBVIOUS
<1> USE DEF AccountInv, HandInv, EventsAccounted, Elements
<1>1. UNCHANGED <<pc, inHand, clientBuf, wire, received, lost>>
  BY DEF Main, Reload, TickQuiet, TickReconnected, ReportDropped,
         CollectState, CollectEvent, EndTick, taskVars, clientVars, historyVars
<1>2. CASE SendEvent
  BY <1>1, <1>2, AccountSend
<1>3. CASE UNCHANGED <<events, accepted>>
  BY <1>1, <1>3
<1>4. SendEvent \/ UNCHANGED <<events, accepted>>
  BY DEF Main, Reload, TickQuiet, TickReconnected, ReportDropped,
         CollectState, CollectEvent, EndTick, sharedVars, historyVars
<1>. QED
  BY <1>2, <1>3, <1>4

LEMMA AccountPublisher ==
  TypeOK /\ AccountInv /\ Publisher => (HandInv /\ EventsAccounted)'
<1> SUFFICES ASSUME TypeOK, AccountInv, Publisher
             PROVE  (HandInv /\ EventsAccounted)'
  OBVIOUS
<1>0. /\ clientBuf \in Seq(Message) /\ events \in Seq(Nat)
      /\ inHand \in Nat /\ snapshot \in [Subjects -> Nat]
  BY DEF TypeOK, ClientType, SharedType, TaskType
<1>1. CASE Connect
  <2>1. /\ pc # "send" /\ clientBuf = <<>> /\ wire = <<>>
        /\ clientBuf' = <<>> /\ wire' = <<>> /\ pc' # "send"
        /\ UNCHANGED <<inHand, events, accepted, received, lost>>
    BY <1>1 DEF Connect, AccountInv, LinkInv, sharedVars
  <2>. QED
    BY <2>1 DEF AccountInv, HandInv, EventsAccounted
<1>2. ASSUME NEW s \in Subjects, PublishNext(s)
      PROVE  (HandInv /\ EventsAccounted)'
  <2> DEFINE m == [subject |-> s, sequence |-> snapshot[s]]
  <2>1. m \in Message /\ EventOf(m) = {}
    BY <1>0, SubjectsAssumption DEF Message, EventOf
  <2>2. EventsOf(clientBuf') = EventsOf(clientBuf)
    BY <1>0, <1>2, <2>1, EventsOfAppend DEF PublishNext
  <2>. QED
    BY <1>2, <2>2
       DEF PublishNext, AccountInv, HandInv, EventsAccounted, sharedVars,
           historyVars
<1>3. CASE PublishError
  BY <1>3 DEF PublishError, AccountInv, HandInv, EventsAccounted, sharedVars,
              clientVars
<1>4. CASE OnEvent
  <2>1. /\ Elements(events) = {Head(events)} \union Elements(Tail(events))
        /\ inHand = 0
    BY <1>0, <1>4, ElementsTail DEF OnEvent, AccountInv, HandInv
  <2>. QED
    BY <1>4, <2>1
       DEF OnEvent, Popped, AccountInv, HandInv, EventsAccounted, Elements,
           clientVars, historyVars
<1>5. CASE PublishEvent
  <2>1. InHand \in Message /\ EventOf(InHand) = {inHand}
    BY <1>0 DEF InHand, Message, EventOf
  <2>2. EventsOf(clientBuf') = EventsOf(clientBuf) \union {inHand}
    BY <1>0, <1>5, <2>1, EventsOfAppend DEF PublishEvent, WithEvent
  <2>. QED
    BY <1>5, <2>2
       DEF PublishEvent, AccountInv, HandInv, EventsAccounted, sharedVars,
           historyVars
<1>6. CASE Flush \/ OnChanged \/ OnConnected \/ OnOtherEvent \/ OnClosed
  <2>1. /\ UNCHANGED <<inHand, events, clientBuf, wire, accepted, received,
                       lost>>
        /\ pc # "send" /\ pc' # "send"
    BY <1>6 DEF Flush, OnChanged, OnConnected, OnOtherEvent, OnClosed,
                sharedVars, taskVars, clientVars, historyVars
  <2>. QED
    BY <2>1 DEF AccountInv, HandInv, EventsAccounted
<1>. QED
  BY <1>1, <1>2, <1>3, <1>4, <1>5, <1>6 DEF Publisher

LEMMA AccountClient ==
  TypeOK /\ AccountInv /\ Client => (HandInv /\ EventsAccounted)'
<1> SUFFICES ASSUME TypeOK, AccountInv, Client
             PROVE  (HandInv /\ EventsAccounted)'
  OBVIOUS
<1>0. clientBuf \in Seq(Message) /\ wire \in Seq(Message)
  BY DEF TypeOK, ClientType
<1>1. UNCHANGED <<pc, inHand, events, accepted>>
  BY DEF Client, Write, Deliver, Disconnect, ReconnectFails, Reconnect, Die,
         Callback, sharedVars, taskVars, historyVars
<1>2. HandInv'
  BY <1>1 DEF AccountInv, HandInv
<1>3. CASE Write
  <2>1. /\ EventsOf(clientBuf)
             = EventOf(Head(clientBuf)) \union EventsOf(clientBuf')
        /\ Head(clientBuf) \in Message
    BY <1>0, <1>3, EventsOfTail, HeadTailProperties DEF Write
  <2>2. EventsOf(wire') = EventsOf(wire) \union EventOf(Head(clientBuf))
    BY <1>0, <1>3, <2>1, EventsOfAppend DEF Write
  <2>. QED
    BY <1>1, <1>2, <1>3, <2>1, <2>2
       DEF Write, AccountInv, EventsAccounted, historyVars
<1>4. CASE Deliver
  <2>1. EventsOf(wire) = EventOf(Head(wire)) \union EventsOf(wire')
    BY <1>0, <1>4, EventsOfTail DEF Deliver
  <2>2. received' = received \union EventOf(Head(wire))
    BY <1>4 DEF Deliver, EventOf
  <2>. QED
    BY <1>1, <1>2, <1>4, <2>1, <2>2 DEF Deliver, AccountInv, EventsAccounted
<1>5. CASE Disconnect
  BY <1>1, <1>2, <1>5, EventsOfEmpty
     DEF Disconnect, AccountInv, EventsAccounted
<1>6. CASE Die
  BY <1>1, <1>2, <1>6, EventsOfEmpty DEF Die, AccountInv, EventsAccounted
<1>7. CASE ReconnectFails \/ Reconnect \/ Callback
  <2>1. UNCHANGED <<clientBuf, wire, received, lost>>
    BY <1>7 DEF ReconnectFails, Reconnect, Callback, historyVars
  <2>. QED
    BY <1>1, <1>2, <2>1 DEF AccountInv, EventsAccounted
<1>. QED
  BY <1>3, <1>4, <1>5, <1>6, <1>7 DEF Client

LEMMA AccountNext == TypeOK /\ AccountInv /\ [Next]_vars => AccountInv'
<1>1. AccountInv /\ UNCHANGED vars => (HandInv /\ EventsAccounted)'
  BY DEF AccountInv, HandInv, EventsAccounted, vars, sharedVars, taskVars,
         clientVars, historyVars
<1>. QED
  BY <1>1, LinkNext, AccountMain, AccountPublisher, AccountClient
     DEF Next, AccountInv

(***************************************************************************)
(* No health event the queue accepted disappears between the queue, the    *)
(* task, the client, the connection and the server: it is in one of them,  *)
(* or was lost with a connection or a client.                              *)
(***************************************************************************)
THEOREM EventsAccountedFor == Spec => []EventsAccounted
<1>1. AccountInv => EventsAccounted
  BY DEF AccountInv
<1>. QED
  BY <1>1, TypeCorrect, AccountInit, AccountNext, PTL DEF Spec

-----------------------------------------------------------------------------
(* Health events: in order, at most once *)

Below(S, T) == \A x \in S, y \in T : x < y

\* The events along a queue of messages, and along the event queue, increase.
Increasing(q) ==
  \A i, j \in 1..Len(q) :
     i < j => Below(EventOf(q[i]), EventOf(q[j]))
Rising(q) == \A i, j \in 1..Len(q) : i < j => q[i] < q[j]

LEMMA IncreasingAppend ==
  ASSUME NEW q \in Seq(Message), NEW m \in Message, Increasing(q),
         Below(EventsOf(q), EventOf(m))
  PROVE  Increasing(Append(q, m))
<1> DEFINE p == Append(q, m)
<1>1. /\ Len(q) \in Nat
      /\ Len(p) = Len(q) + 1
      /\ \A i \in 1..Len(q) : p[i] = q[i]
      /\ p[Len(q) + 1] = m
  BY AppendProperties, LenProperties
<1> HIDE DEF p
<1> SUFFICES ASSUME NEW i \in 1..Len(p), NEW j \in 1..Len(p), i < j
             PROVE  Below(EventOf(p[i]), EventOf(p[j]))
  BY DEF Increasing, p
<1>2. i \in 1..Len(q) /\ p[i] = q[i]
  BY <1>1
<1>3. CASE j \in 1..Len(q)
  BY <1>1, <1>2, <1>3 DEF Increasing
<1>4. CASE j = Len(q) + 1
  <2>1. \A x \in EventOf(q[i]) : x \in EventsOf(q)
    <3>1. q[i] \in Elements(q)
      BY <1>2, LenProperties DEF Elements
    <3>. QED
      BY <3>1, EventsOfMember
  <2>. QED
    BY <1>1, <1>2, <1>4, <2>1 DEF Below
<1>5. j \in 1..Len(q) \/ j = Len(q) + 1
  BY <1>1
<1>. QED
  BY <1>3, <1>4, <1>5

LEMMA IncreasingTail ==
  ASSUME NEW q \in Seq(Message), q # <<>>, Increasing(q)
  PROVE  /\ Increasing(Tail(q))
         /\ Below(EventOf(Head(q)), EventsOf(Tail(q)))
<1> DEFINE p == Tail(q)
<1>1. /\ p \in Seq(Message)
      /\ Len(q) \in Nat \ {0}
      /\ Len(p) = Len(q) - 1
      /\ \A i \in 1..Len(p) : p[i] = q[i + 1]
      /\ Head(q) = q[1]
  BY HeadTailProperties, EmptySeq, LenProperties
<1>2. /\ \A i \in 1..Len(p) : i + 1 \in 1..Len(q) /\ 1 < i + 1
      /\ 1 \in 1..Len(q)
      /\ \A i, j \in 1..Len(p) : i < j => i + 1 < j + 1
  BY <1>1
<1> HIDE DEF p
<1>3. Increasing(p)
  BY <1>1, <1>2 DEF Increasing
<1>4. \A j \in 1..Len(p) : Below(EventOf(Head(q)), EventOf(p[j]))
  BY <1>1, <1>2 DEF Increasing
<1>5. \A y \in EventsOf(p) : \E j \in 1..Len(p) : y \in EventOf(p[j])
  <2>1. DOMAIN p = 1..Len(p)
    BY <1>1, LenProperties
  <2>. QED
    BY <2>1, EventsOfMember DEF Elements
<1>6. Below(EventOf(Head(q)), EventsOf(p))
  BY <1>4, <1>5 DEF Below
<1>. QED
  BY <1>3, <1>6 DEF p

LEMMA RisingAppend ==
  ASSUME NEW q \in Seq(Nat), NEW e \in Nat, Rising(q), Below(Elements(q), {e})
  PROVE  Rising(Append(q, e))
<1> DEFINE p == Append(q, e)
<1>1. /\ DOMAIN q = 1..Len(q)
      /\ Len(q) \in Nat
      /\ Len(p) = Len(q) + 1
      /\ \A i \in 1..Len(q) : p[i] = q[i]
      /\ p[Len(q) + 1] = e
  BY AppendProperties, LenProperties
<1>2. \A i \in 1..Len(q) : q[i] < e
  BY <1>1 DEF Below, Elements
<1> HIDE DEF p
<1>3. \A i \in 1..Len(p) : i \in 1..Len(q) \/ i = Len(q) + 1
  BY <1>1
<1>4. Rising(p)
  BY <1>1, <1>2, <1>3 DEF Rising
<1>. QED
  BY <1>4 DEF p

LEMMA RisingTail ==
  ASSUME NEW q \in Seq(Nat), q # <<>>, Rising(q)
  PROVE  Rising(Tail(q)) /\ Below({Head(q)}, Elements(Tail(q)))
<1> DEFINE p == Tail(q)
<1>1. /\ DOMAIN p = 1..Len(p)
      /\ Len(q) \in Nat \ {0}
      /\ Len(p) = Len(q) - 1
      /\ \A i \in 1..Len(p) : p[i] = q[i + 1]
      /\ Head(q) = q[1]
  BY HeadTailProperties, EmptySeq, LenProperties
<1>2. /\ \A i \in 1..Len(p) : i + 1 \in 1..Len(q) /\ 1 < i + 1
      /\ 1 \in 1..Len(q)
  BY <1>1
<1> HIDE DEF p
<1>3. ASSUME NEW i \in 1..Len(p), NEW j \in 1..Len(p), i < j
      PROVE  p[i] < p[j]
  <2>1. i + 1 \in 1..Len(q) /\ j + 1 \in 1..Len(q) /\ i + 1 < j + 1
    BY <1>2, <1>3
  <2>. QED
    BY <1>1, <2>1 DEF Rising
<1>4. \A j \in 1..Len(p) : Head(q) < p[j]
  BY <1>1, <1>2 DEF Rising
<1>5. Below({Head(q)}, Elements(p))
  BY <1>1, <1>4 DEF Below, Elements
<1>. QED
  BY <1>3, <1>5 DEF p, Rising

(***************************************************************************)
(* The stations of an event, from the server back to the event queue: what *)
(* is at one of them is older than what is at those behind it.             *)
(***************************************************************************)
Chain(R, W, B, H, Q) ==
  /\ Below(R, W \union B \union H \union Q)
  /\ Below(W, B \union H \union Q)
  /\ Below(B, H \union Q)
  /\ Below(H, Q)

ChainInv ==
  /\ \A e \in accepted : e <= sequence
  /\ Chain(received, EventsOf(wire), EventsOf(clientBuf), Hand,
           Elements(events))
  /\ Increasing(wire)
  /\ Increasing(clientBuf)
  /\ Rising(events)

LEMMA ChainInit == Init => ChainInv
<1> SUFFICES ASSUME Init PROVE ChainInv
  OBVIOUS
<1>1. wire = <<>> /\ clientBuf = <<>> /\ events = <<>> /\ accepted = {}
  BY DEF Init
<1>2. Increasing(<<>>) /\ Rising(<<>>)
  BY DEF Increasing, Rising
<1>3. Chain(received, EventsOf(wire), EventsOf(clientBuf), Hand,
            Elements(events))
  BY <1>1, EventsOfEmpty DEF Init, Chain, Below, Elements, Hand
<1>. QED
  BY <1>1, <1>2, <1>3 DEF ChainInv

LEMMA ChainMain == TypeOK /\ AccountInv /\ ChainInv /\ Main => ChainInv'
<1> SUFFICES ASSUME TypeOK, AccountInv, ChainInv, Main PROVE ChainInv'
  OBVIOUS
<1>1. UNCHANGED <<inHand, clientBuf, wire, received>>
  BY DEF Main, Reload, TickQuiet, TickReconnected, ReportDropped,
         CollectState, CollectEvent, EndTick, taskVars, clientVars, historyVars
<1>2. sequence \in Nat /\ accepted \in SUBSET Nat /\ events \in Seq(Nat)
  BY DEF TypeOK, MainType, SharedType, HistoryType
<1>3. CASE events' = events /\ accepted' = accepted
  <2>1. sequence' = sequence \/ sequence' = sequence + 1
    BY DEF Main, Reload, TickQuiet, TickReconnected, ReportDropped,
           CollectState, CollectEvent, EndTick, PublishState, SendEvent,
           NextSequence
  <2>2. \A e \in accepted' : e <= sequence'
    BY <1>2, <1>3, <2>1 DEF ChainInv
  <2>. QED
    BY <1>1, <1>3, <2>2 DEF ChainInv, Hand
<1>4. CASE /\ events' = Append(events, sequence + 1)
           /\ accepted' = accepted \union {sequence + 1}
           /\ sequence' = sequence + 1
  <2>1. Elements(events') = Elements(events) \union {sequence + 1}
    BY <1>2, <1>4, ElementsAppend
  <2>2. \A x \in received \union EventsOf(wire) \union EventsOf(clientBuf)
                  \union Hand \union Elements(events) : x < sequence + 1
    <3>1. /\ received \union EventsOf(wire) \union EventsOf(clientBuf)
                \union Hand \union Elements(events) \subseteq accepted
      BY DEF AccountInv, EventsAccounted, Hand, Elements
    <3>2. \A x \in accepted : x < sequence + 1
      BY <1>2 DEF ChainInv
    <3>. QED
      BY <3>1, <3>2
  <2>3. Chain(received, EventsOf(wire), EventsOf(clientBuf), Hand,
              Elements(events'))
    BY <2>1, <2>2 DEF ChainInv, Chain, Below
  <2>4. Below(Elements(events), {sequence + 1})
    BY <2>2 DEF Below
  <2>5. Rising(events')
    BY <1>2, <1>4, <2>4, RisingAppend DEF ChainInv
  <2>6. \A e \in accepted' : e <= sequence'
    BY <1>2, <1>4 DEF ChainInv
  <2>. QED
    BY <1>1, <2>3, <2>5, <2>6 DEF ChainInv, Hand
<1>5. \/ events' = events /\ accepted' = accepted
      \/ /\ events' = Append(events, sequence + 1)
         /\ accepted' = accepted \union {sequence + 1}
         /\ sequence' = sequence + 1
  BY DEF Main, Reload, TickQuiet, TickReconnected, ReportDropped,
         CollectState, CollectEvent, EndTick, SendEvent, NextSequence,
         sharedVars, historyVars
<1>. QED
  BY <1>3, <1>4, <1>5

LEMMA ChainPublisher ==
  TypeOK /\ AccountInv /\ ChainInv /\ Publisher => ChainInv'
<1> SUFFICES ASSUME TypeOK, AccountInv, ChainInv, Publisher PROVE ChainInv'
  OBVIOUS
<1>0. /\ clientBuf \in Seq(Message) /\ events \in Seq(Nat)
      /\ inHand \in Nat /\ snapshot \in [Subjects -> Nat]
  BY DEF TypeOK, ClientType, SharedType, TaskType
<1>1. UNCHANGED <<sequence, accepted, received>>
  BY DEF Publisher, Connect, PublishNext, Flush, PublishError, OnChanged,
         OnEvent, PublishEvent, OnConnected, OnOtherEvent, OnClosed,
         mainVars, historyVars
<1>2. CASE Connect
  <2>1. /\ clientBuf' = clientBuf /\ wire' = wire
        /\ UNCHANGED <<inHand, events>>
    BY <1>2 DEF Connect, AccountInv, LinkInv, sharedVars
  <2>. QED
    BY <1>1, <2>1 DEF ChainInv, Hand
<1>3. ASSUME NEW s \in Subjects, PublishNext(s)
      PROVE  ChainInv'
  <2> DEFINE m == [subject |-> s, sequence |-> snapshot[s]]
  <2>1. m \in Message /\ EventOf(m) = {} /\ clientBuf' = Append(clientBuf, m)
    BY <1>0, <1>3, SubjectsAssumption DEF Message, EventOf, PublishNext
  <2> HIDE DEF m
  <2>2. EventsOf(clientBuf') = EventsOf(clientBuf)
    BY <1>0, <2>1, EventsOfAppend
  <2>3. Increasing(clientBuf')
    BY <1>0, <2>1, IncreasingAppend DEF ChainInv, Below
  <2>4. UNCHANGED <<wire, events, inHand>>
    BY <1>3 DEF PublishNext, sharedVars
  <2>. QED
    BY <1>1, <2>2, <2>3, <2>4 DEF ChainInv, Hand
<1>4. CASE PublishError
  <2>1. UNCHANGED <<wire, clientBuf, events>> /\ Hand' = {}
    BY <1>4 DEF PublishError, clientVars, sharedVars, Hand
  <2>. QED
    BY <1>1, <2>1 DEF ChainInv, Chain, Below
<1>5. CASE OnEvent
  <2>1. /\ events # <<>> /\ Rising(events) /\ inHand' = Head(events)
        /\ events' = Tail(events)
        /\ UNCHANGED <<wire, clientBuf>>
    BY <1>5 DEF OnEvent, Popped, ChainInv, clientVars
  <2>2. Elements(events) = {inHand'} \union Elements(events')
    BY <1>0, <2>1, ElementsTail
  <2>3. Rising(events') /\ Below({inHand'}, Elements(events'))
    BY <1>0, <2>1, RisingTail
  <2>4. Hand' = {inHand'} \ {0}
    BY DEF Hand
  <2>5. Chain(received, EventsOf(wire), EventsOf(clientBuf), Hand',
              Elements(events'))
    BY <2>2, <2>3, <2>4 DEF ChainInv, Chain, Below
  <2>. QED
    BY <1>1, <2>1, <2>3, <2>5 DEF ChainInv
<1>6. CASE PublishEvent
  <2>1. /\ inHand # 0 /\ inHand' = 0
        /\ clientBuf' = Append(clientBuf, InHand)
        /\ UNCHANGED <<wire, events>>
    BY <1>6 DEF PublishEvent, WithEvent, AccountInv, HandInv, sharedVars
  <2>2. InHand \in Message /\ EventOf(InHand) = Hand
    BY <1>0, <2>1 DEF InHand, Message, EventOf, Hand
  <2>3. EventsOf(clientBuf') = EventsOf(clientBuf) \union Hand
    BY <1>0, <2>1, <2>2, EventsOfAppend
  <2>4. Below(EventsOf(clientBuf), EventOf(InHand)) /\ Increasing(clientBuf)
    BY <2>2 DEF ChainInv, Chain, Below
  <2>5. Increasing(clientBuf')
    BY <1>0, <2>1, <2>2, <2>4, IncreasingAppend
  <2>6. Hand' = {}
    BY <2>1 DEF Hand
  <2>7. Chain(received, EventsOf(wire), EventsOf(clientBuf'), Hand',
              Elements(events))
    BY <2>3, <2>6 DEF ChainInv, Chain, Below
  <2>. QED
    BY <1>1, <2>1, <2>5, <2>7 DEF ChainInv
<1>7. CASE Flush \/ OnChanged \/ OnConnected \/ OnOtherEvent \/ OnClosed
  <2>1. UNCHANGED <<inHand, events, clientBuf, wire>>
    BY <1>7 DEF Flush, OnChanged, OnConnected, OnOtherEvent, OnClosed,
                sharedVars, taskVars, clientVars
  <2>. QED
    BY <1>1, <2>1 DEF ChainInv, Hand
<1>. QED
  BY <1>2, <1>3, <1>4, <1>5, <1>6, <1>7 DEF Publisher

LEMMA ChainClient == TypeOK /\ ChainInv /\ Client => ChainInv'
<1> SUFFICES ASSUME TypeOK, ChainInv, Client PROVE ChainInv'
  OBVIOUS
<1>0. clientBuf \in Seq(Message) /\ wire \in Seq(Message)
  BY DEF TypeOK, ClientType
<1>1. UNCHANGED <<sequence, accepted, inHand, events>>
  BY DEF Client, Write, Deliver, Disconnect, ReconnectFails, Reconnect, Die,
         Callback, mainVars, sharedVars, taskVars, historyVars
<1>2. Increasing(<<>>)
  BY DEF Increasing
<1>3. CASE Write
  <2> DEFINE m == Head(clientBuf)
  <2>1. /\ clientBuf # <<>> /\ clientBuf' = Tail(clientBuf)
        /\ wire' = Append(wire, m) /\ UNCHANGED received
    BY <1>3 DEF Write, historyVars
  <2>2. m \in Message
    BY <1>0, <2>1, HeadTailProperties
  <2>3. EventsOf(clientBuf) = EventOf(m) \union EventsOf(clientBuf')
    BY <1>0, <2>1, EventsOfTail
  <2>4. EventsOf(wire') = EventsOf(wire) \union EventOf(m)
    BY <1>0, <2>1, <2>2, EventsOfAppend
  <2>5. Increasing(clientBuf') /\ Below(EventOf(m), EventsOf(clientBuf'))
    BY <1>0, <2>1, IncreasingTail DEF ChainInv
  <2> HIDE DEF m
  <2>6. Below(EventsOf(wire), EventOf(m))
    BY <2>3 DEF ChainInv, Chain, Below
  <2>7. Increasing(wire')
    BY <1>0, <2>1, <2>2, <2>6, IncreasingAppend DEF ChainInv
  <2>8. Chain(received, EventsOf(wire'), EventsOf(clientBuf'), Hand,
              Elements(events))
    BY <2>3, <2>4, <2>5 DEF ChainInv, Chain, Below
  <2>. QED
    BY <1>1, <2>1, <2>5, <2>7, <2>8 DEF ChainInv, Hand
<1>4. CASE Deliver
  <2> DEFINE m == Head(wire)
  <2>1. wire # <<>> /\ wire' = Tail(wire) /\ UNCHANGED clientBuf
    BY <1>4 DEF Deliver
  <2>2. received' = received \union EventOf(m)
    BY <1>4 DEF Deliver, EventOf
  <2>3. EventsOf(wire) = EventOf(m) \union EventsOf(wire')
    BY <1>0, <2>1, EventsOfTail
  <2>4. Increasing(wire') /\ Below(EventOf(m), EventsOf(wire'))
    BY <1>0, <2>1, IncreasingTail DEF ChainInv
  <2> HIDE DEF m
  <2>5. Chain(received', EventsOf(wire'), EventsOf(clientBuf), Hand,
              Elements(events))
    BY <2>2, <2>3, <2>4 DEF ChainInv, Chain, Below
  <2>. QED
    BY <1>1, <2>1, <2>4, <2>5 DEF ChainInv, Hand
<1>5. CASE Disconnect \/ Die
  <2>1. /\ wire' = <<>> /\ EventsOf(wire') = {} /\ UNCHANGED received
        /\ \/ UNCHANGED clientBuf
           \/ clientBuf' = <<>> /\ EventsOf(clientBuf') = {}
    BY <1>5, EventsOfEmpty DEF Disconnect, Die
  <2>2. Increasing(wire') /\ Increasing(clientBuf')
    BY <1>2, <2>1 DEF ChainInv
  <2>3. Chain(received, EventsOf(wire'), EventsOf(clientBuf'), Hand,
              Elements(events))
    BY <2>1 DEF ChainInv, Chain, Below
  <2>. QED
    BY <1>1, <2>1, <2>2, <2>3 DEF ChainInv, Hand
<1>6. CASE ReconnectFails \/ Reconnect \/ Callback
  <2>1. UNCHANGED <<clientBuf, wire, received>>
    BY <1>6 DEF ReconnectFails, Reconnect, Callback, historyVars
  <2>. QED
    BY <1>1, <2>1 DEF ChainInv, Hand
<1>. QED
  BY <1>3, <1>4, <1>5, <1>6 DEF Client

LEMMA ChainNext == TypeOK /\ AccountInv /\ ChainInv /\ [Next]_vars => ChainInv'
<1>1. ChainInv /\ UNCHANGED vars => ChainInv'
  BY DEF ChainInv, Hand, vars, mainVars, sharedVars, taskVars, clientVars,
         historyVars
<1>. QED
  BY <1>1, ChainMain, ChainPublisher, ChainClient DEF Next

LEMMA ChainMeans == TypeOK /\ ChainInv => EventsInOrderOnce
<1> SUFFICES ASSUME TypeOK, ChainInv, NEW e \in received,
                    NEW w \in DOMAIN wire, wire[w].subject = EventSubject
             PROVE  e < wire[w].sequence
  BY DEF EventsInOrderOnce
<1>1. wire[w].sequence \in EventsOf(wire)
  BY DEF EventsOf
<1>. QED
  BY <1>1 DEF ChainInv, Chain, Below

(***************************************************************************)
(* An event that arrives is younger than every event received before, over *)
(* all connections and clients: none is repeated, none overtakes another.  *)
(***************************************************************************)
THEOREM EventsOrdered == Spec => []EventsInOrderOnce
BY TypeCorrect, AccountInit, AccountNext, ChainInit, ChainNext, ChainMeans,
   PTL DEF Spec

-----------------------------------------------------------------------------
(* The whole state goes out after a reconnect *)

\* What the client has accepted and the server has not received.
InFlight == Elements(wire) \union Elements(clientBuf)

\* A Connected event is on its way to the task, or was refused on the way.
Owed ==
  missed \/ "connected" \in Elements(emitted) \union Elements(natsEvents)

Carrying(s) == [subject |-> s, sequence |-> sent[s]] \in InFlight

(***************************************************************************)
(* Between its publications the task has sent the whole snapshot, which is *)
(* the latest state unless a change is announced.  What is in flight is no *)
(* newer than what was sent, and while no Connected event is owed, what    *)
(* was sent is at the server over this connection or still in flight.      *)
(***************************************************************************)
CompleteInv ==
  /\ pc \in {"select", "send"} => \A s \in Subjects : sent[s] = snapshot[s]
  /\ unseen \/ snapshot = state
  /\ \A s \in Subjects : onLink[s] <= delivered[s]
  /\ \A m \in InFlight :
       m.subject \in Subjects =>
         sent[m.subject] = 0 \/ m.sequence <= sent[m.subject]
  /\ link = "up" /\ ~Owed =>
       \A s \in Subjects : sent[s] = 0 \/ onLink[s] = sent[s] \/ Carrying(s)

LEMMA CompleteInit == Init => CompleteInv
<1> SUFFICES ASSUME Init PROVE CompleteInv
  OBVIOUS
<1>1. InFlight = {}
  BY ElementsEmpty DEF Init, InFlight
<1>. QED
  BY <1>1 DEF Init, CompleteInv, NoneSent

\* What FlightInv says of a message in flight.
LEMMA FlightBounds ==
  ASSUME TypeOK, FlightInv, NEW m \in InFlight, m.subject \in Subjects
  PROVE  /\ m.sequence \in Nat
         /\ delivered[m.subject] <= m.sequence
         /\ m.sequence <= snapshot[m.subject]
<1>1. FlightTypes /\ FlightOK(m.subject)
  BY TypeOKFlight DEF FlightInv
<1>2. ASSUME NEW q \in Seq(Message), m \in Elements(q),
             Within(q, m.subject, delivered[m.subject], snapshot[m.subject])
      PROVE  /\ m.sequence \in Nat
             /\ delivered[m.subject] <= m.sequence
             /\ m.sequence <= snapshot[m.subject]
  <2>1. PICK i \in 1..Len(q) : q[i] = m
    BY <1>2, LenProperties DEF Elements
  <2>2. m \in Message
    BY <1>2, <2>1, ElementOfSeq
  <2>. QED
    BY <1>2, <2>1, <2>2 DEF Within, Message
<1>. QED
  BY <1>1, <1>2 DEF FlightTypes, FlightOK, InFlight

LEMMA CompleteMain == TypeOK /\ CompleteInv /\ Main => CompleteInv'
<1> SUFFICES ASSUME TypeOK, CompleteInv, Main PROVE CompleteInv'
  OBVIOUS
<1>1. UNCHANGED <<pc, sent, snapshot, link, clientBuf, wire, emitted,
                  natsEvents, onLink, delivered, missed>>
  BY DEF Main, Reload, TickQuiet, TickReconnected, ReportDropped,
         CollectState, CollectEvent, EndTick, taskVars, clientVars, historyVars
<1>2. unseen' \/ (unseen' = unseen /\ state' = state)
  BY DEF Main, Reload, TickQuiet, TickReconnected, ReportDropped,
         CollectState, CollectEvent, EndTick, PublishState, sharedVars
<1>. QED
  BY <1>1, <1>2 DEF CompleteInv, InFlight, Owed, Carrying

LEMMA CompletePublisher ==
  TypeOK /\ LinkInv /\ OrderInv /\ FlightInv /\ CompleteInv /\ Publisher
    => CompleteInv'
<1> SUFFICES ASSUME TypeOK, LinkInv, OrderInv, FlightInv, CompleteInv,
                    Publisher
             PROVE  CompleteInv'
  OBVIOUS
<1>0. /\ clientBuf \in Seq(Message)
      /\ natsEvents \in Seq({"connected", "other"})
      /\ inHand \in Nat
      /\ sent \in [Subjects -> Nat]
      /\ snapshot \in [Subjects -> Nat]
      /\ onLink \in [Subjects -> Nat]
      /\ delivered \in [Subjects -> Nat]
  BY DEF TypeOK, ClientType, TaskType, HistoryType
<1>1. UNCHANGED <<delivered, missed, state>>
  BY DEF Publisher, Connect, PublishNext, Flush, PublishError, OnChanged,
         OnEvent, PublishEvent, OnConnected, OnOtherEvent, OnClosed,
         sharedVars, historyVars
<1>2. CASE Connect
  <2>1. /\ pc' = "publish" /\ snapshot' = state /\ emitted' = <<"connected">>
        /\ wire' = <<>> /\ clientBuf' = <<>> /\ onLink' = NoneSent
    BY <1>2 DEF Connect
  <2>2. InFlight' = {} /\ Owed'
    BY <2>1, ElementsEmpty DEF InFlight, Owed, Elements
  <2>3. \A s \in Subjects : onLink'[s] <= delivered'[s]
    BY <1>0, <1>1, <2>1 DEF NoneSent
  <2>. QED
    BY <1>1, <2>1, <2>2, <2>3 DEF CompleteInv
<1>3. ASSUME NEW u \in Subjects, PublishNext(u)
      PROVE  CompleteInv'
  <2> DEFINE m == [subject |-> u, sequence |-> snapshot[u]]
  <2>1. /\ pc' = "publish" /\ clientBuf' = Append(clientBuf, m)
        /\ sent' = [sent EXCEPT ![u] = snapshot[u]]
        /\ UNCHANGED <<snapshot, unseen, link, wire, emitted, natsEvents,
                       onLink>>
    BY <1>3 DEF PublishNext, sharedVars, historyVars
  <2>2. m \in Message
    BY <1>0 DEF Message
  <2>3. InFlight' = InFlight \union {m}
    BY <1>0, <2>1, <2>2, ElementsAppend DEF InFlight
  <2>4. \A s \in Subjects : sent'[s] = IF s = u THEN snapshot[u] ELSE sent[s]
    BY <1>0, <2>1
  <2>5. \A n \in InFlight' :
          n.subject \in Subjects =>
            sent'[n.subject] = 0 \/ n.sequence <= sent'[n.subject]
    BY <1>0, <2>3, <2>4, FlightBounds DEF CompleteInv
  <2>6. Owed' = Owed
    BY <1>1, <2>1 DEF Owed
  <2>7. ASSUME link = "up", ~Owed, NEW s \in Subjects
        PROVE  sent'[s] = 0 \/ onLink[s] = sent'[s] \/ Carrying(s)'
    <3>1. CASE s = u
      BY <2>3, <2>4, <3>1 DEF Carrying
    <3>2. CASE s # u
      BY <2>3, <2>4, <2>7, <3>2 DEF CompleteInv, Carrying
    <3>. QED
      BY <3>1, <3>2
  <2>. QED
    BY <1>1, <2>1, <2>5, <2>6, <2>7 DEF CompleteInv
<1>4. CASE Flush
  <2>1. /\ Pending = {}
        /\ UNCHANGED <<sent, snapshot, unseen, link, clientBuf, wire, emitted,
                       natsEvents, onLink>>
    BY <1>4 DEF Flush, sharedVars, clientVars, historyVars
  <2>2. \A s \in Subjects : sent[s] = snapshot[s]
    BY <1>0, <2>1 DEF Pending, OrderInv
  <2>. QED
    BY <1>1, <2>1, <2>2 DEF CompleteInv, InFlight, Owed, Carrying
<1>5. CASE PublishError \/ OnClosed
  <2>1. /\ pc' = "connect" /\ link = "dead"
        /\ UNCHANGED <<sent, snapshot, unseen, link, clientBuf, wire, onLink>>
    BY <1>5 DEF PublishError, OnClosed, sharedVars, clientVars, historyVars
  <2>. QED
    BY <1>1, <2>1 DEF CompleteInv, InFlight
<1>6. CASE OnChanged
  <2>1. /\ pc' = "publish" /\ snapshot' = state
        /\ UNCHANGED <<sent, link, clientBuf, wire, emitted, natsEvents,
                       onLink>>
    BY <1>6 DEF OnChanged, clientVars, historyVars
  <2>. QED
    BY <1>1, <2>1 DEF CompleteInv, InFlight, Owed, Carrying
<1>7. CASE OnEvent
  <2>1. /\ pc = "select"
        /\ UNCHANGED <<sent, snapshot, unseen, link, clientBuf, wire, emitted,
                       natsEvents, onLink>>
    BY <1>7 DEF OnEvent, clientVars, historyVars
  <2>. QED
    BY <1>1, <2>1 DEF CompleteInv, InFlight, Owed, Carrying
<1>8. CASE PublishEvent
  <2>1. /\ pc = "send" /\ clientBuf' = Append(clientBuf, InHand)
        /\ UNCHANGED <<sent, snapshot, unseen, link, wire, emitted,
                       natsEvents, onLink>>
    BY <1>8 DEF PublishEvent, WithEvent, sharedVars, historyVars
  <2>2. InHand \in Message /\ InHand.subject \notin Subjects
    BY <1>0, SubjectsAssumption DEF InHand, Message
  <2>3. InFlight' = InFlight \union {InHand}
    BY <1>0, <2>1, <2>2, ElementsAppend DEF InFlight
  <2>4. Owed' = Owed
    BY <1>1, <2>1 DEF Owed
  <2>5. \A s \in Subjects : Carrying(s) => Carrying(s)'
    BY <2>1, <2>3 DEF Carrying
  <2>. QED
    BY <1>1, <2>1, <2>2, <2>3, <2>4, <2>5 DEF CompleteInv
<1>9. CASE OnConnected
  <2>1. /\ pc' = "publish" /\ snapshot' = state /\ sent' = NoneSent
        /\ UNCHANGED <<clientBuf, wire, onLink>>
    BY <1>9 DEF OnConnected, SentAfterConnected, historyVars
  <2>2. \A s \in Subjects : sent'[s] = 0
    BY <2>1 DEF NoneSent
  <2>. QED
    BY <1>1, <2>1, <2>2 DEF CompleteInv, InFlight
<1>10. CASE OnOtherEvent
  <2>1. /\ pc' = pc /\ natsEvents # <<>> /\ Head(natsEvents) # "connected"
        /\ natsEvents' = Tail(natsEvents)
        /\ UNCHANGED <<sent, snapshot, unseen, link, clientBuf, wire, emitted,
                       onLink>>
    BY <1>10 DEF OnOtherEvent, taskVars, sharedVars, historyVars
  <2>2. Elements(natsEvents) = {Head(natsEvents)} \union Elements(natsEvents')
    BY <1>0, <2>1, ElementsTail
  <2>3. Owed' <=> Owed
    BY <1>1, <2>1, <2>2 DEF Owed
  <2>. QED
    BY <1>1, <2>1, <2>3 DEF CompleteInv, InFlight, Carrying
<1>. QED
  BY <1>2, <1>3, <1>4, <1>5, <1>6, <1>7, <1>8, <1>9, <1>10 DEF Publisher

LEMMA CompleteClient ==
  TypeOK /\ FlightInv /\ CompleteInv /\ Client => CompleteInv'
<1> SUFFICES ASSUME TypeOK, FlightInv, CompleteInv, Client PROVE CompleteInv'
  OBVIOUS
<1>0. /\ clientBuf \in Seq(Message) /\ wire \in Seq(Message)
      /\ emitted \in Seq({"connected", "other"})
      /\ natsEvents \in Seq({"connected", "other"})
      /\ missed \in BOOLEAN
      /\ sent \in [Subjects -> Nat]
      /\ snapshot \in [Subjects -> Nat]
      /\ onLink \in [Subjects -> Nat]
      /\ delivered \in [Subjects -> Nat]
  BY DEF TypeOK, ClientType, TaskType, HistoryType
<1>1. UNCHANGED <<pc, sent, snapshot, unseen, state>>
  BY DEF Client, Write, Deliver, Disconnect, ReconnectFails, Reconnect, Die,
         Callback, sharedVars, taskVars
<1>2. CASE Write
  <2>1. /\ clientBuf # <<>> /\ clientBuf' = Tail(clientBuf)
        /\ wire' = Append(wire, Head(clientBuf))
        /\ UNCHANGED <<link, emitted, natsEvents, missed, onLink, delivered>>
    BY <1>2 DEF Write, historyVars
  <2>2. /\ Elements(clientBuf)
             = {Head(clientBuf)} \union Elements(Tail(clientBuf))
        /\ Head(clientBuf) \in Message
    BY <1>0, <2>1, ElementsTail
  <2>3. Elements(wire') = Elements(wire) \union {Head(clientBuf)}
    BY <1>0, <2>1, <2>2, ElementsAppend
  <2>4. InFlight' = InFlight
    BY <2>1, <2>2, <2>3 DEF InFlight
  <2>. QED
    BY <1>1, <2>1, <2>4 DEF CompleteInv, Owed, Carrying
<1>3. CASE Deliver
  <2> DEFINE m == Head(wire)
  <2>1. /\ link = "up" /\ wire # <<>> /\ wire' = Tail(wire)
        /\ UNCHANGED <<link, clientBuf, emitted, natsEvents, missed>>
    BY <1>3 DEF Deliver
  <2>2. m \in Message /\ Elements(wire) = {m} \union Elements(wire')
    BY <1>0, <2>1, ElementsTail
  <2>3. InFlight = InFlight' \union {m}
    BY <2>1, <2>2 DEF InFlight
  <2>4. /\ m.subject = EventSubject => UNCHANGED <<delivered, onLink>>
        /\ m.subject # EventSubject
             => /\ m.subject \in Subjects
                /\ delivered' = [delivered EXCEPT ![m.subject] = m.sequence]
                /\ onLink' = [onLink EXCEPT ![m.subject] = m.sequence]
    BY <1>3, <2>2 DEF Deliver, Message
  <2> HIDE DEF m
  <2>5. \A s \in Subjects :
          /\ delivered'[s] = IF m.subject = s THEN m.sequence ELSE delivered[s]
          /\ onLink'[s] = IF m.subject = s THEN m.sequence ELSE onLink[s]
    BY <1>0, <2>4, SubjectsAssumption
  <2>6. \A s \in Subjects : onLink'[s] <= delivered'[s]
    BY <2>2, <2>5 DEF CompleteInv, Message
  <2>7. Owed' = Owed
    BY <2>1 DEF Owed
  <2>8. ASSUME link = "up", ~Owed, NEW s \in Subjects
        PROVE  sent[s] = 0 \/ onLink'[s] = sent[s] \/ Carrying(s)'
    <3>1. sent[s] = 0 \/ onLink[s] = sent[s] \/ Carrying(s)
      BY <2>8 DEF CompleteInv
    <3>2. CASE m.subject # s
      <4>1. m # [subject |-> s, sequence |-> sent[s]]
        BY <3>2
      <4>. QED
        BY <1>1, <2>3, <2>5, <3>1, <3>2, <4>1 DEF Carrying
    <3>3. CASE m.subject = s
      <4>1. /\ delivered[s] <= m.sequence /\ m.sequence \in Nat
            /\ sent[s] = 0 \/ m.sequence <= sent[s]
            /\ onLink[s] <= delivered[s]
        BY <2>3, <3>3, FlightBounds DEF CompleteInv
      <4>2. CASE onLink[s] = sent[s]
        BY <1>0, <2>5, <3>3, <4>1, <4>2
      <4>3. CASE Carrying(s)
        BY <1>1, <2>3, <2>5, <3>3, <4>3 DEF Carrying
      <4>. QED
        BY <3>1, <4>2, <4>3
    <3>. QED
      BY <3>2, <3>3
  <2>. QED
    BY <1>1, <2>1, <2>3, <2>6, <2>7, <2>8 DEF CompleteInv
<1>4. CASE Disconnect \/ Die
  <2>1. /\ link' # "up" /\ wire' = <<>>
        /\ clientBuf' = clientBuf \/ clientBuf' = <<>>
        /\ UNCHANGED <<onLink, delivered>>
    BY <1>4 DEF Disconnect, Die
  <2>2. \A m \in InFlight' : m \in InFlight
    BY <2>1, ElementsEmpty DEF InFlight
  <2>. QED
    BY <1>1, <2>1, <2>2 DEF CompleteInv
<1>5. CASE ReconnectFails
  <2>1. /\ link' # "up" /\ UNCHANGED <<wire, clientBuf, onLink, delivered>>
    BY <1>5 DEF ReconnectFails, historyVars
  <2>. QED
    BY <1>1, <2>1 DEF CompleteInv, InFlight
<1>6. CASE Reconnect
  <2>1. /\ emitted' = Append(emitted, "connected") /\ onLink' = NoneSent
        /\ UNCHANGED <<wire, clientBuf, delivered>>
    BY <1>6 DEF Reconnect
  <2>2. Elements(emitted') = Elements(emitted) \union {"connected"}
    BY <1>0, <2>1, ElementsAppend
  <2>3. Owed'
    BY <2>2 DEF Owed
  <2>4. \A s \in Subjects : onLink'[s] <= delivered'[s]
    BY <1>0, <2>1 DEF NoneSent
  <2>. QED
    BY <1>1, <2>1, <2>3, <2>4 DEF CompleteInv, InFlight
<1>7. CASE Callback
  <2> DEFINE e == Head(emitted)
  <2>1. /\ emitted # <<>> /\ emitted' = Tail(emitted)
        /\ UNCHANGED <<link, wire, clientBuf, onLink, delivered>>
    BY <1>7 DEF Callback
  <2>2. /\ e \in {"connected", "other"}
        /\ Elements(emitted) = {e} \union Elements(emitted')
    BY <1>0, <2>1, ElementsTail
  <2>3. Owed => Owed'
    <3>1. CASE /\ natsEvents' = Append(natsEvents, e)
               /\ missed' = (missed /\ e # "connected")
      <4>1. Elements(natsEvents') = Elements(natsEvents) \union {e}
        BY <1>0, <2>2, <3>1, ElementsAppend
      <4>. QED
        BY <2>2, <3>1, <4>1, Zenon DEF Owed
    <3>2. CASE /\ missed' = (missed \/ e = "connected")
               /\ natsEvents' = natsEvents
      BY <2>2, <3>2, Zenon DEF Owed
    <3>. QED
      BY <1>7, <3>1, <3>2, Zenon DEF Callback
  <2>. QED
    BY <1>1, <2>1, <2>3 DEF CompleteInv, InFlight, Carrying
<1>. QED
  BY <1>2, <1>3, <1>4, <1>5, <1>6, <1>7 DEF Client

LEMMA CompleteNext ==
  TypeOK /\ LinkInv /\ OrderInv /\ FlightInv /\ CompleteInv /\ [Next]_vars
    => CompleteInv'
<1>1. CompleteInv /\ UNCHANGED vars => CompleteInv'
  BY DEF CompleteInv, InFlight, Owed, Carrying, vars, sharedVars, taskVars,
         clientVars, historyVars
<1>. QED
  BY <1>1, CompleteMain, CompletePublisher, CompleteClient DEF Next

LEMMA CompleteMeans ==
  TypeOK /\ FlightInv /\ CompleteInv => CompleteUnlessMissed
<1> SUFFICES ASSUME TypeOK, FlightInv, CompleteInv, Quiescent, ~missed
             PROVE  onLink = state
  BY DEF CompleteUnlessMissed
<1>1. /\ onLink \in [Subjects -> Nat] /\ state \in [Subjects -> Nat]
      /\ delivered \in [Subjects -> Nat]
  BY DEF TypeOK, SharedType, HistoryType
<1>2. InFlight = {} /\ ~Owed
  BY ElementsEmpty DEF Quiescent, InFlight, Owed
<1>3. \A s \in Subjects : sent[s] = state[s] /\ snapshot[s] = state[s]
  BY DEF Quiescent, CompleteInv
<1>4. ASSUME NEW s \in Subjects
      PROVE  onLink[s] = state[s]
  <2>1. CASE sent[s] = 0
    BY <1>1, <1>3, <2>1 DEF CompleteInv, FlightInv, FlightOK
  <2>2. CASE sent[s] # 0
    BY <1>2, <1>3, <2>2 DEF CompleteInv, Quiescent, Carrying
  <2>. QED
    BY <2>1, <2>2
<1>. QED
  BY <1>1, <1>4

(***************************************************************************)
(* When nothing is left to do, the current connection has carried the      *)
(* latest value of every subject, unless the event that announced it was   *)
(* refused by the full client-event channel: that is the only way for a    *)
(* reconnect to leave the server without a part of the state.              *)
(***************************************************************************)
THEOREM CompleteState == Spec => []CompleteUnlessMissed
<1>1. Spec => [](TypeOK /\ OrderInv /\ FlightInv)
  BY TypeCorrect, OrderInit, OrderNext, FlightInit, FlightNext, PTL DEF Spec
<1>2. Spec => []LinkInv
  BY AccountInit, LinkNext, PTL DEF Spec, AccountInv
<1>. QED
  BY <1>1, <1>2, CompleteInit, CompleteNext, CompleteMeans, PTL DEF Spec
=============================================================================
