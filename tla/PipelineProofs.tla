--------------------------- MODULE PipelineProofs ---------------------------
(***************************************************************************)
(* Theorems about the way from a condition of a node to the bridge's log,  *)
(* for any conditions, capabilities, queue capacities, environments and    *)
(* credential files.                                                       *)
(***************************************************************************)
EXTENDS Pipeline, SequenceTheorems, TLAPS

-----------------------------------------------------------------------------
(* Types *)

AgentType ==
  /\ seen \in SUBSET Agent!Keys
  /\ level \in [Agent!Keys -> 0..2]
  /\ queue \in Seq(Agent!Events) /\ Len(queue) <= QueueCapacity
  /\ mislaid \in SUBSET Agent!Keys

SinkType ==
  /\ inbox \in Seq(Messages) /\ Len(inbox) <= InboxCapacity
  /\ unsupported \in SUBSET Capabilities
  /\ told \in [Agent!Keys -> 0..2]
  /\ latest \in [Nodes \X Capabilities -> Sink!Qualities]
  /\ announced \in SUBSET (Nodes \X Capabilities)

LEMMA TypeParts == TypeOK <=> AgentType /\ SinkType /\ Process!StartType
BY DEF TypeOK, AgentType, SinkType

\* What a message of each kind tells.
LEMMA MessageKinds ==
  ASSUME NEW m \in Messages
  PROVE  /\ m.kind \in {"level", "alert", "point", "other"}
         /\ m.kind = "level" => m.key \in Agent!Keys /\ m.level \in 0..2
         /\ m.kind = "point" => /\ m.node \in Nodes
                                /\ m.capability \in Capabilities
                                /\ m.quality \in Sink!Qualities
<1>1. CASE m \in [kind : {"level"}, key : Agent!Keys, level : 0..2]
  BY <1>1
<1>2. CASE m = [kind |-> "alert"]
  BY <1>2
<1>3. CASE m \in Points
  BY <1>3 DEF Points, Sink!Point
<1>4. CASE m = [kind |-> "other"]
  BY <1>4
<1>. QED
  BY <1>1, <1>2, <1>3, <1>4
     DEF Messages, Agent!Events, Agent!Alert, Sink!Other

LEMMA EventKinds ==
  ASSUME NEW e \in Agent!Events
  PROVE  /\ e \in Messages
         /\ e.kind = "level" => e.key \in Agent!Keys /\ e.level \in 0..2
         /\ e # Agent!Alert <=> e.kind = "level"
<1>1. CASE e \in [kind : {"level"}, key : Agent!Keys, level : 0..2]
  BY <1>1 DEF Messages, Agent!Events, Agent!Alert
<1>2. CASE e = [kind |-> "alert"]
  BY <1>2 DEF Messages, Agent!Events, Agent!Alert
<1>. QED
  BY <1>1, <1>2 DEF Agent!Events, Agent!Alert

\* A bounded queue that is not full still fits its capacity with one more.
LEMMA AppendFits ==
  ASSUME NEW S, NEW q \in Seq(S), NEW e \in S, NEW n \in Nat,
         Len(q) <= n, Len(q) # n
  PROVE  Append(q, e) \in Seq(S) /\ Len(Append(q, e)) <= n
BY AppendProperties, LenProperties

LEMMA TailFits ==
  ASSUME NEW S, NEW q \in Seq(S), q # <<>>, NEW n \in Nat, Len(q) <= n
  PROVE  /\ Head(q) \in S
         /\ Tail(q) \in Seq(S)
         /\ Len(Tail(q)) <= n
BY HeadTailProperties, LenProperties

LEMMA EmptyFits ==
  ASSUME NEW S, NEW n \in Nat
  PROVE  <<>> \in Seq(S) /\ Len(<<>>) <= n
BY EmptySeq

LEMMA TypeInit == Init => TypeOK
<1> SUFFICES ASSUME Init PROVE TypeOK
  OBVIOUS
<1>1. AgentType
  BY EmptyFits, PipelineAssumption
     DEF Init, Agent!Init, AgentType, Agent!Keys, Agent!Conditions
<1>2. SinkType
  BY EmptyFits, PipelineAssumption
     DEF Init, Sink!Init, SinkType, Sink!Qualities
<1>3. Process!StartType
  BY DEF Init, Process!StartInit, Process!StartType
<1>. QED
  BY <1>1, <1>2, <1>3, TypeParts

\* send_event keeps the queue within its capacity.
LEMMA RaiseType ==
  ASSUME AgentType, NEW e \in Agent!Events, Agent!Raise(e)
  PROVE  /\ queue' \in Seq(Agent!Events) /\ Len(queue') <= QueueCapacity
         /\ mislaid' \in SUBSET Agent!Keys
<1>1. e # Agent!Alert => e.key \in Agent!Keys
  BY EventKinds
<1>2. CASE Len(queue) < QueueCapacity
  <2>1. Len(queue) # QueueCapacity
    BY <1>2, LenProperties, PipelineAssumption DEF AgentType
  <2>. QED
    BY <1>1, <1>2, <2>1, AppendFits, PipelineAssumption
       DEF AgentType, Agent!Raise
<1>3. CASE ~(Len(queue) < QueueCapacity)
  BY <1>1, <1>3 DEF AgentType, Agent!Raise
<1>. QED
  BY <1>2, <1>3

LEMMA ObserveType ==
  ASSUME TypeOK, NEW k \in Agent!Keys, NEW l \in 0..2, Observe(k, l)
  PROVE  TypeOK'
<1>1. AgentType /\ SinkType /\ Process!StartType
  BY TypeParts
<1>2. Agent!LevelEvent(k, l) \in Agent!Events
  BY DEF Agent!LevelEvent, Agent!Events
<1>3. seen' \in SUBSET Agent!Keys /\ level' \in [Agent!Keys -> 0..2]
  BY <1>1 DEF Observe, Agent!Observe, AgentType
<1>4. /\ queue' \in Seq(Agent!Events) /\ Len(queue') <= QueueCapacity
      /\ mislaid' \in SUBSET Agent!Keys
  <2>1. CASE Agent!Raise(Agent!LevelEvent(k, l))
    BY <1>1, <1>2, <2>1, RaiseType
  <2>2. CASE UNCHANGED <<queue, mislaid>>
    BY <1>1, <2>2 DEF AgentType
  <2>. QED
    BY <2>1, <2>2 DEF Observe, Agent!Observe
<1>5. told' \in [Agent!Keys -> 0..2]
  BY <1>1 DEF Observe, SinkType
<1>6. UNCHANGED <<inbox, unsupported, latest, announced, startVars>>
  BY DEF Observe
<1>7. Process!StartType'
  BY <1>1, <1>6 DEF Process!StartType, startVars
<1>. QED
  BY <1>1, <1>3, <1>4, <1>5, <1>6, <1>7 DEF TypeOK, SinkType

LEMMA AgentNext ==
  ASSUME TypeOK,
         ObserveCount \/ Lose
  PROVE  TypeOK'
<1>1. AgentType /\ SinkType /\ Process!StartType
  BY TypeParts
<1>2. UNCHANGED <<seen, level, sinkVars, startVars>>
  BY DEF ObserveCount, Agent!ObserveCount, Lose
<1>3. /\ queue' \in Seq(Agent!Events) /\ Len(queue') <= QueueCapacity
      /\ mislaid' \in SUBSET Agent!Keys
  <2>1. CASE ObserveCount
    BY <1>1, <2>1, RaiseType
       DEF ObserveCount, Agent!ObserveCount, Agent!Events
  <2>2. CASE Lose
    <3>1. /\ Head(queue) \in Agent!Events
          /\ queue' \in Seq(Agent!Events) /\ Len(queue') <= QueueCapacity
      BY <1>1, <2>2, TailFits, PipelineAssumption DEF Lose, AgentType
    <3>2. mislaid' \in SUBSET Agent!Keys
      BY <1>1, <2>2, <3>1, EventKinds DEF Lose, Mislay, AgentType
    <3>. QED
      BY <3>1, <3>2
  <2>. QED
    BY <2>1, <2>2
<1>4. Process!StartType'
  BY <1>1, <1>2 DEF Process!StartType, startVars
<1>. QED
  BY <1>1, <1>2, <1>3, <1>4 DEF TypeOK, AgentType, SinkType, sinkVars

\* The receive task keeps its queue within its capacity.
LEMMA ReceiveType ==
  ASSUME SinkType, NEW m \in Messages, Sink!Receive(m)
  PROVE  SinkType'
<1>1. inbox' \in Seq(Messages) /\ Len(inbox') <= InboxCapacity
  BY AppendFits, PipelineAssumption DEF SinkType, Sink!Receive, Sink!Refused
<1>. QED
  BY <1>1 DEF SinkType, Sink!Receive

LEMMA ForwardType ==
  ASSUME TypeOK, Forward
  PROVE  TypeOK'
<1>1. AgentType /\ SinkType /\ Process!StartType
  BY TypeParts
<1>2. /\ Head(queue) \in Agent!Events
      /\ queue' \in Seq(Agent!Events) /\ Len(queue') <= QueueCapacity
  BY <1>1, TailFits, PipelineAssumption DEF Forward, AgentType
<1>3. SinkType'
  BY <1>1, <1>2, EventKinds, ReceiveType DEF Forward
<1>4. mislaid' \in SUBSET Agent!Keys
  BY <1>1, <1>2, EventKinds DEF Forward, Mislay, AgentType
<1>5. UNCHANGED <<seen, level, startVars>>
  BY DEF Forward
<1>6. Process!StartType'
  BY <1>1, <1>5 DEF Process!StartType, startVars
<1>. QED
  BY <1>1, <1>2, <1>3, <1>4, <1>5, <1>6 DEF TypeOK, AgentType, SinkType

LEMMA RecordType ==
  ASSUME SinkType, NEW m \in Messages, m.kind = "point", Sink!Record(m)
  PROVE  /\ unsupported' \in SUBSET Capabilities
         /\ latest' \in [Nodes \X Capabilities -> Sink!Qualities]
         /\ announced' \in SUBSET (Nodes \X Capabilities)
         /\ told' = told
<1>1. /\ m.node \in Nodes /\ m.capability \in Capabilities
      /\ m.quality \in Sink!Qualities
  BY MessageKinds
<1> DEFINE series == <<m.node, m.capability>>
<1>2. series \in Nodes \X Capabilities
  BY <1>1
<1>3. latest' = [latest EXCEPT ![series] = m.quality] /\ told' = told
  BY DEF Sink!Record
<1>4. /\ unsupported' \in SUBSET Capabilities
      /\ announced' \in SUBSET (Nodes \X Capabilities)
  <2>1. \/ unsupported' = unsupported \ {m.capability}
        \/ unsupported' = unsupported \union {m.capability}
        \/ unsupported' = unsupported
    BY DEF Sink!Record, Sink!Rearmed, Sink!CapabilityKey
  <2>2. \/ announced' = announced \ {series}
        \/ announced' = announced \union {series}
        \/ announced' = announced
    BY DEF Sink!Record
  <2>. QED
    BY <1>1, <1>2, <2>1, <2>2 DEF SinkType
<1> HIDE DEF series
<1>. QED
  BY <1>1, <1>2, <1>3, <1>4 DEF SinkType

LEMMA SinkNext ==
  ASSUME TypeOK, Handle \/ \E m \in Points \union {Sink!Other} : Arrive(m)
  PROVE  TypeOK'
<1>1. AgentType /\ SinkType /\ Process!StartType
  BY TypeParts
<1>2. UNCHANGED <<agentVars, startVars>>
  BY DEF Handle, Arrive
<1>3. ASSUME NEW m \in Points \union {Sink!Other}, Arrive(m)
      PROVE  SinkType'
  BY <1>1, <1>3, ReceiveType DEF Arrive, Messages
<1>4. ASSUME Handle
      PROVE  SinkType'
  <2> DEFINE m == Head(inbox)
  <2>1. /\ m \in Messages
        /\ inbox' \in Seq(Messages) /\ Len(inbox') <= InboxCapacity
    BY <1>1, <1>4, TailFits, PipelineAssumption
       DEF Handle, Sink!Process, SinkType
  <2>2. ASSUME m.kind = "point"
        PROVE  SinkType'
    <3>1. Sink!Record(m)
      BY <1>4, <2>2 DEF Handle, Sink!Process
    <3>. QED
      BY <1>1, <2>1, <2>2, <3>1, RecordType DEF SinkType
  <2>3. ASSUME m.kind = "level"
        PROVE  SinkType'
    <3>1. Sink!EmitHealth(m)
      BY <1>4, <2>3 DEF Handle, Sink!Process
    <3>2. m.key \in Agent!Keys /\ m.level \in 0..2
      BY <2>1, <2>3, MessageKinds
    <3>. QED
      BY <1>1, <2>1, <3>1, <3>2 DEF Sink!EmitHealth, SinkType
  <2>4. ASSUME m.kind # "point", m.kind # "level"
        PROVE  SinkType'
    <3>1. UNCHANGED <<unsupported, told, latest, announced>>
      BY <1>4, <2>4 DEF Handle, Sink!Process
    <3>. QED
      BY <1>1, <2>1, <3>1 DEF SinkType
  <2>. QED
    BY <2>2, <2>3, <2>4
<1>5. SinkType'
  BY <1>3, <1>4
<1>6. Process!StartType'
  BY <1>1, <1>2 DEF Process!StartType, startVars
<1>. QED
  BY <1>1, <1>2, <1>5, <1>6 DEF TypeOK, AgentType, SinkType, agentVars

LEMMA ProcessNext ==
  ASSUME TypeOK, BridgeEnds \/ BridgeStarts
  PROVE  TypeOK'
<1>1. AgentType /\ SinkType /\ Process!StartType
  BY TypeParts
<1>2. CASE BridgeEnds
  <2>1. AgentType'
    BY <1>1, <1>2 DEF BridgeEnds, AgentType
  <2>2. SinkType'
    BY <1>1, <1>2, EmptyFits, PipelineAssumption
       DEF BridgeEnds, Sink!Forgets, SinkType
  <2>3. Process!StartType'
    BY <1>1, <1>2 DEF BridgeEnds, Process!Exit, Process!StartType
  <2>. QED
    BY <2>1, <2>2, <2>3 DEF TypeOK, AgentType, SinkType
<1>3. CASE BridgeStarts
  <2>1. AgentType' /\ SinkType'
    BY <1>1, <1>3 DEF BridgeStarts, AgentType, SinkType, agentVars, sinkVars
  <2>2. ASSUME Process!Start
        PROVE  Process!StartType'
    <3>1. environment' \in Environments
      BY <2>2 DEF Process!Start
    <3>. QED
      BY <1>1, <2>2, <3>1, PipelineAssumption
         DEF Process!Start, Process!StartType
  <2>3. ASSUME \/ Process!Replace \/ Process!PrepareStandard
               \/ Process!TrustPath \/ Process!Open \/ Process!Load
               \/ Process!Drop \/ Process!Connect
        PROVE  Process!StartType'
    BY <1>1, <2>3
       DEF Process!Replace, Process!PrepareStandard, Process!TrustPath,
           Process!Open, Process!Load, Process!Bytes, Process!Drop,
           Process!Connect, Process!StartType
  <2>4. Process!StartType'
    BY <1>3, <2>2, <2>3 DEF BridgeStarts, Process!Preparation
  <2>. QED
    BY <2>1, <2>4 DEF TypeOK, AgentType, SinkType
<1>. QED
  BY <1>2, <1>3

LEMMA TypeNext == TypeOK /\ [Next]_vars => TypeOK'
<1>1. TypeOK /\ UNCHANGED vars => TypeOK'
  BY DEF TypeOK, Process!StartType, vars, agentVars, sinkVars, startVars
<1>. QED
  BY <1>1, ObserveType, AgentNext, ForwardType, SinkNext, ProcessNext DEF Next

(***************************************************************************)
(* The variables keep their types; in particular neither the agent's event *)
(* queue nor the bridge's receive queue exceeds its capacity, whoever      *)
(* sends and however often the bridge ends.                                *)
(***************************************************************************)
THEOREM TypeCorrect == Spec => []TypeOK
BY TypeInit, TypeNext, PTL DEF Spec

-----------------------------------------------------------------------------
(* The log tells the level *)

IsOf(m, k) == m.kind = "level" /\ m.key = k

\* The last event of k in q, if there is one, tells the level l.
LastIs(q, k, l) ==
  \A i \in 1..Len(q) :
    IsOf(q[i], k) /\ (\A j \in 1..Len(q) : i < j => ~IsOf(q[j], k))
      => q[i].level = l

LEMMA HasAppend ==
  ASSUME NEW S, NEW q \in Seq(S), NEW m \in S, NEW k
  PROVE  Has(Append(q, m), k) <=> Has(q, k) \/ IsOf(m, k)
<1> DEFINE p == Append(q, m)
<1>1. /\ DOMAIN q = 1..Len(q) /\ DOMAIN p = 1..Len(p)
      /\ Len(q) \in Nat
      /\ Len(p) = Len(q) + 1
      /\ \A i \in 1..Len(q) : p[i] = q[i]
      /\ p[Len(q) + 1] = m
  BY AppendProperties, LenProperties
<1>2. /\ \A i \in 1..Len(p) : i \in 1..Len(q) \/ i = Len(q) + 1
      /\ \A i \in 1..Len(q) : i \in 1..Len(p)
      /\ Len(q) + 1 \in 1..Len(p)
  BY <1>1
<1> HIDE DEF p
<1>3. Has(p, k) <=> Has(q, k) \/ IsOf(m, k)
  BY <1>1, <1>2 DEF Has, IsOf
<1>. QED
  BY <1>3 DEF p

LEMMA HasTail ==
  ASSUME NEW S, NEW q \in Seq(S), q # <<>>, NEW k
  PROVE  Has(q, k) <=> IsOf(Head(q), k) \/ Has(Tail(q), k)
<1> DEFINE p == Tail(q)
<1>1. /\ DOMAIN q = 1..Len(q) /\ DOMAIN p = 1..Len(p)
      /\ Len(q) \in Nat \ {0}
      /\ Len(p) = Len(q) - 1
      /\ \A i \in 1..Len(p) : p[i] = q[i + 1]
      /\ Head(q) = q[1]
  BY HeadTailProperties, EmptySeq, LenProperties
<1>2. /\ \A i \in 1..Len(q) : i # 1 => i - 1 \in 1..Len(p)
      /\ \A i \in 1..Len(p) : i + 1 \in 1..Len(q)
      /\ 1 \in 1..Len(q)
  BY <1>1
<1> HIDE DEF p
<1>3. \A i \in 1..Len(q) : i # 1 => p[i - 1] = q[i]
  BY <1>1, <1>2
<1>4. Has(q, k) => IsOf(Head(q), k) \/ Has(p, k)
  BY <1>1, <1>2, <1>3 DEF Has, IsOf
<1>5. IsOf(Head(q), k) \/ Has(p, k) => Has(q, k)
  BY <1>1, <1>2 DEF Has, IsOf
<1>. QED
  BY <1>4, <1>5 DEF p

LEMMA HasEmpty == \A k : ~Has(<<>>, k)
BY DEF Has

LEMMA LastAppend ==
  ASSUME NEW S, NEW q \in Seq(S), NEW m \in S, NEW k, NEW l
  PROVE  /\ IsOf(m, k) /\ m.level = l => LastIs(Append(q, m), k, l)
         /\ ~IsOf(m, k) /\ LastIs(q, k, l) => LastIs(Append(q, m), k, l)
<1> DEFINE p == Append(q, m)
<1>1. /\ Len(q) \in Nat
      /\ Len(p) = Len(q) + 1
      /\ \A i \in 1..Len(q) : p[i] = q[i]
      /\ p[Len(q) + 1] = m
  BY AppendProperties, LenProperties
<1>2. /\ \A i \in 1..Len(p) :
           (i \in 1..Len(q) /\ i < Len(q) + 1) \/ i = Len(q) + 1
      /\ \A i \in 1..Len(q) : i \in 1..Len(p)
      /\ Len(q) + 1 \in 1..Len(p)
  BY <1>1
<1> HIDE DEF p
<1>3. IsOf(m, k) /\ m.level = l => LastIs(p, k, l)
  BY <1>1, <1>2 DEF LastIs
<1>4. ~IsOf(m, k) /\ LastIs(q, k, l) => LastIs(p, k, l)
  BY <1>1, <1>2 DEF LastIs
<1>. QED
  BY <1>3, <1>4 DEF p

LEMMA LastTail ==
  ASSUME NEW S, NEW q \in Seq(S), q # <<>>, NEW k, NEW l, LastIs(q, k, l)
  PROVE  /\ LastIs(Tail(q), k, l)
         /\ IsOf(Head(q), k) /\ ~Has(Tail(q), k) => Head(q).level = l
<1> DEFINE p == Tail(q)
<1>1. /\ DOMAIN p = 1..Len(p)
      /\ Len(q) \in Nat \ {0}
      /\ Len(p) = Len(q) - 1
      /\ \A i \in 1..Len(p) : p[i] = q[i + 1]
      /\ Head(q) = q[1]
  BY HeadTailProperties, EmptySeq, LenProperties
<1>2. /\ \A i \in 1..Len(q) : i # 1 => i - 1 \in 1..Len(p)
      /\ \A i \in 1..Len(p) : i + 1 \in 1..Len(q)
      /\ 1 \in 1..Len(q)
  BY <1>1
<1> HIDE DEF p
<1>3. \A j \in 1..Len(q) : j # 1 => p[j - 1] = q[j]
  BY <1>1, <1>2
<1>4. ASSUME NEW i \in 1..Len(p), IsOf(p[i], k),
             \A j \in 1..Len(p) : i < j => ~IsOf(p[j], k)
      PROVE  p[i].level = l
  <2>1. i + 1 \in 1..Len(q) /\ q[i + 1] = p[i]
    BY <1>1, <1>2
  <2>2. ASSUME NEW j \in 1..Len(q), i + 1 < j
        PROVE  ~IsOf(q[j], k)
    <3>1. j - 1 \in 1..Len(p) /\ i < j - 1 /\ p[j - 1] = q[j]
      BY <1>1, <1>2, <1>3, <2>2
    <3>. QED
      BY <1>4, <3>1
  <2>. QED
    BY <1>4, <2>1, <2>2 DEF LastIs
<1>5. ASSUME IsOf(Head(q), k), ~Has(p, k)
      PROVE  Head(q).level = l
  <2>1. \A j \in 1..Len(q) : 1 < j => ~IsOf(q[j], k)
    BY <1>1, <1>2, <1>3, <1>5 DEF Has, IsOf
  <2>. QED
    BY <1>1, <1>2, <1>5, <2>1 DEF LastIs
<1>. QED
  BY <1>4, <1>5 DEF p, LastIs

(***************************************************************************)
(* The level of k is told by the last event of k on its way, the agent's   *)
(* queue behind the bridge's; when there is none, by the log.              *)
(***************************************************************************)
Followed(k) ==
  /\ Has(queue, k) => LastIs(queue, k, level[k])
  /\ ~Has(queue, k) /\ Has(inbox, k) => LastIs(inbox, k, level[k])
  /\ ~Has(queue, k) /\ ~Has(inbox, k) => told[k] = level[k]

\* A condition not seen before is in no queue and at its good level.
Unseen(k) == ~Has(queue, k) /\ ~Has(inbox, k) /\ level[k] = 0

FollowInv ==
  \A k \in Agent!Keys : /\ k \in mislaid \/ Followed(k)
                        /\ k \in seen \/ Unseen(k)

LEMMA FollowInit == Init => FollowInv
<1> SUFFICES ASSUME Init PROVE FollowInv
  OBVIOUS
<1>1. /\ queue = <<>> /\ inbox = <<>>
      /\ \A k \in Agent!Keys : level[k] = 0 /\ told[k] = 0
  BY DEF Init, Agent!Init, Sink!Init
<1>. QED
  BY <1>1, HasEmpty DEF FollowInv, Followed, Unseen

\* send_event of an event e: what it does for the condition k.
LEMMA FollowRaise ==
  ASSUME TypeOK, NEW e \in Agent!Events, Agent!Raise(e), NEW k
  PROVE  /\ IsOf(e, k) =>
              \/ k \in mislaid'
              \/ /\ Has(queue', k)
                 /\ LastIs(queue', k, e.level)
         /\ ~IsOf(e, k) =>
              /\ k \in mislaid => k \in mislaid'
              /\ Has(queue', k) <=> Has(queue, k)
              /\ \A l : LastIs(queue, k, l) => LastIs(queue', k, l)
<1>1. queue \in Seq(Agent!Events)
  BY DEF TypeOK
<1>2. e = Agent!Alert \/ e.kind = "level"
  BY EventKinds
<1>3. CASE Len(queue) < QueueCapacity
  <2>1. /\ queue' = Append(queue, e)
        /\ mislaid' = IF e = Agent!Alert THEN mislaid ELSE mislaid \ {e.key}
    BY <1>3 DEF Agent!Raise
  <2>2. Has(queue', k) <=> Has(queue, k) \/ IsOf(e, k)
    BY <1>1, <2>1, HasAppend
  <2>3. \A l : /\ IsOf(e, k) /\ e.level = l => LastIs(queue', k, l)
               /\ ~IsOf(e, k) /\ LastIs(queue, k, l) => LastIs(queue', k, l)
    BY <1>1, <2>1, LastAppend
  <2>. QED
    BY <1>2, <2>1, <2>2, <2>3 DEF IsOf
<1>4. CASE ~(Len(queue) < QueueCapacity)
  <2>1. /\ queue' = queue
        /\ mislaid' = IF e = Agent!Alert THEN mislaid
                                         ELSE mislaid \union {e.key}
    BY <1>4 DEF Agent!Raise
  <2>2. e # Agent!Alert <=> e.kind = "level"
    BY EventKinds
  <2>. QED
    BY <2>1, <2>2 DEF IsOf
<1>. QED
  BY <1>3, <1>4

LEMMA FollowObserve ==
  ASSUME TypeOK, FollowInv, NEW k \in Agent!Keys, NEW l \in 0..2, Observe(k, l)
  PROVE  FollowInv'
<1> DEFINE e == Agent!LevelEvent(k, l)
<1>1. /\ e \in Agent!Events /\ e.level = l
      /\ \A j : IsOf(e, j) <=> j = k
  BY DEF Agent!LevelEvent, Agent!Events, IsOf
<1>2. /\ level \in [Agent!Keys -> 0..2] /\ told \in [Agent!Keys -> 0..2]
      /\ seen' = seen \union {k}
      /\ level' = [level EXCEPT ![k] = l]
      /\ inbox' = inbox
      /\ told' = IF k \in Services \ seen THEN [told EXCEPT ![k] = l] ELSE told
      /\ IF Agent!Announced(k, l) THEN Agent!Raise(e)
                                  ELSE UNCHANGED <<queue, mislaid>>
  BY DEF TypeOK, Observe, Agent!Observe
<1> HIDE DEF e
<1> SUFFICES ASSUME NEW j \in Agent!Keys
             PROVE  /\ j \in mislaid' \/ Followed(j)'
                    /\ j \in seen' \/ Unseen(j)'
  BY DEF FollowInv
<1>3. /\ j \in mislaid \/ Followed(j)
      /\ j \in seen \/ Unseen(j)
  BY DEF FollowInv
<1>4. CASE j # k
  <2>1. /\ level'[j] = level[j] /\ told'[j] = told[j]
        /\ j \in seen' <=> j \in seen
    BY <1>2, <1>4
  <2>2. /\ j \in mislaid => j \in mislaid'
        /\ Has(queue', j) <=> Has(queue, j)
        /\ \A v : LastIs(queue, j, v) => LastIs(queue', j, v)
    <3>1. CASE Agent!Raise(e)
      BY <1>1, <1>4, <3>1, FollowRaise
    <3>2. CASE UNCHANGED <<queue, mislaid>>
      BY <3>2
    <3>. QED
      BY <1>2, <3>1, <3>2
  <2>. QED
    BY <1>2, <1>3, <2>1, <2>2 DEF Followed, Unseen
<1>5. CASE j = k /\ Agent!Announced(k, l)
  <2>1. \/ j \in mislaid'
        \/ Has(queue', j) /\ LastIs(queue', j, l)
    BY <1>1, <1>2, <1>5, FollowRaise
  <2>2. level'[j] = l /\ j \in seen'
    BY <1>2, <1>5
  <2>. QED
    BY <2>1, <2>2 DEF Followed
<1>6. CASE j = k /\ ~Agent!Announced(k, l)
  <2>1. UNCHANGED <<queue, mislaid>> /\ level'[j] = l /\ j \in seen'
    BY <1>2, <1>6
  <2>2. CASE k \in seen
    <3>1. level[k] = l
      BY <1>6, <2>2 DEF Agent!Announced, Agent!Moved
    <3>. QED
      BY <1>2, <1>3, <1>6, <2>1, <2>2, <3>1 DEF Followed
  <2>3. CASE k \notin seen
    <3>1. ~Has(queue, k) /\ ~Has(inbox, k) /\ level[k] = 0
      BY <1>3, <1>6, <2>3 DEF Unseen
    <3>2. CASE k \in Services
      BY <1>2, <1>6, <2>1, <2>3, <3>1, <3>2 DEF Followed
    <3>3. CASE k \notin Services
      <4>1. l = 0 /\ told' = told
        BY <1>2, <1>6, <2>3, <3>3 DEF Agent!Announced
      <4>. QED
        BY <1>2, <1>3, <1>6, <2>1, <3>1, <4>1 DEF Followed
    <3>. QED
      BY <3>2, <3>3
  <2>. QED
    BY <2>2, <2>3
<1>. QED
  BY <1>4, <1>5, <1>6

LEMMA FollowCount == TypeOK /\ FollowInv /\ ObserveCount => FollowInv'
<1> SUFFICES ASSUME TypeOK, FollowInv, ObserveCount, NEW k \in Agent!Keys
             PROVE  /\ k \in mislaid' \/ Followed(k)'
                    /\ k \in seen' \/ Unseen(k)'
  BY DEF FollowInv
<1>1. /\ Agent!Raise(Agent!Alert)
      /\ UNCHANGED <<seen, level, inbox, told>>
  BY DEF ObserveCount, Agent!ObserveCount, sinkVars
<1>2. Agent!Alert \in Agent!Events /\ ~IsOf(Agent!Alert, k)
  BY DEF Agent!Events, Agent!Alert, IsOf
<1>3. /\ k \in mislaid => k \in mislaid'
      /\ Has(queue', k) <=> Has(queue, k)
      /\ \A l : LastIs(queue, k, l) => LastIs(queue', k, l)
  BY <1>1, <1>2, FollowRaise
<1>. QED
  BY <1>1, <1>3 DEF FollowInv, Followed, Unseen

\* The event taken from the agent's queue is lost, or the bridge refuses it.
LEMMA FollowMislay ==
  ASSUME TypeOK, FollowInv, queue # <<>>, queue' = Tail(queue),
         Mislay(Head(queue), Tail(queue)),
         UNCHANGED <<seen, level, inbox, told>>
  PROVE  FollowInv'
<1> SUFFICES ASSUME NEW k \in Agent!Keys
             PROVE  /\ k \in mislaid' \/ Followed(k)'
                    /\ k \in seen' \/ Unseen(k)'
  BY DEF FollowInv
<1>1. queue \in Seq(Agent!Events)
  BY DEF TypeOK
<1>2. Has(queue, k) <=> IsOf(Head(queue), k) \/ Has(queue', k)
  BY <1>1, HasTail
<1>3. \A l : LastIs(queue, k, l) => LastIs(queue', k, l)
  BY <1>1, LastTail
<1>4. /\ k \in mislaid => k \in mislaid'
      /\ IsOf(Head(queue), k) /\ ~Has(queue', k) => k \in mislaid'
  BY DEF Mislay, IsOf
<1>. QED
  BY <1>2, <1>3, <1>4 DEF FollowInv, Followed, Unseen

LEMMA FollowForward == TypeOK /\ FollowInv /\ Forward => FollowInv'
<1> SUFFICES ASSUME TypeOK, FollowInv, Forward PROVE FollowInv'
  OBVIOUS
<1>1. /\ queue # <<>> /\ queue' = Tail(queue)
      /\ UNCHANGED <<seen, level, told>>
  BY DEF Forward, Sink!Receive
<1>2. CASE Sink!Refused
  BY <1>1, <1>2, FollowMislay DEF Forward, Sink!Receive
<1>3. CASE ~Sink!Refused
  <2> SUFFICES ASSUME NEW k \in Agent!Keys
               PROVE  /\ k \in mislaid' \/ Followed(k)'
                      /\ k \in seen' \/ Unseen(k)'
    BY DEF FollowInv
  <2> DEFINE e == Head(queue)
  <2>1. queue \in Seq(Agent!Events) /\ inbox \in Seq(Messages)
    BY DEF TypeOK
  <2>2. e \in Messages
    BY <1>1, <2>1, HeadTailProperties, EventKinds
  <2>3. inbox' = Append(inbox, e) /\ UNCHANGED mislaid
    BY <1>3 DEF Forward, Sink!Receive
  <2>4. Has(queue, k) <=> IsOf(e, k) \/ Has(queue', k)
    BY <1>1, <2>1, HasTail
  <2>5. \A l : LastIs(queue, k, l) =>
                 /\ LastIs(queue', k, l)
                 /\ IsOf(e, k) /\ ~Has(queue', k) => e.level = l
    BY <1>1, <2>1, LastTail
  <2>6. Has(inbox', k) <=> Has(inbox, k) \/ IsOf(e, k)
    BY <2>1, <2>2, <2>3, HasAppend
  <2>7. \A l : /\ IsOf(e, k) /\ e.level = l => LastIs(inbox', k, l)
               /\ ~IsOf(e, k) /\ LastIs(inbox, k, l) => LastIs(inbox', k, l)
    BY <2>1, <2>2, <2>3, LastAppend
  <2> HIDE DEF e
  <2>8. /\ k \in mislaid \/ Followed(k)
        /\ k \in seen \/ Unseen(k)
    BY DEF FollowInv
  <2>9. k \in seen' \/ Unseen(k)'
    BY <1>1, <2>4, <2>6, <2>8 DEF Unseen
  <2>10. k \in mislaid' \/ Followed(k)'
    BY <1>1, <2>3, <2>4, <2>5, <2>6, <2>7, <2>8 DEF Followed
  <2>. QED
    BY <2>9, <2>10
<1>. QED
  BY <1>2, <1>3

LEMMA FollowArrive ==
  ASSUME TypeOK, FollowInv, NEW m \in Points \union {Sink!Other}, Arrive(m)
  PROVE  FollowInv'
<1> SUFFICES ASSUME NEW k \in Agent!Keys
             PROVE  /\ k \in mislaid' \/ Followed(k)'
                    /\ k \in seen' \/ Unseen(k)'
  BY DEF FollowInv
<1>1. /\ UNCHANGED <<seen, level, queue, mislaid, told>>
      /\ inbox' = inbox \/ inbox' = Append(inbox, m)
  BY DEF Arrive, Sink!Receive, agentVars
<1>2. inbox \in Seq(Messages) /\ m \in Messages /\ ~IsOf(m, k)
  BY DEF TypeOK, Messages, Points, Sink!Point, Sink!Other, IsOf
<1>3. CASE inbox' = inbox
  BY <1>1, <1>3 DEF FollowInv, Followed, Unseen
<1>4. CASE inbox' = Append(inbox, m)
  <2>1. Has(inbox', k) <=> Has(inbox, k)
    BY <1>2, <1>4, HasAppend
  <2>2. \A l : LastIs(inbox, k, l) => LastIs(inbox', k, l)
    BY <1>2, <1>4, LastAppend
  <2>. QED
    BY <1>1, <2>1, <2>2 DEF FollowInv, Followed, Unseen
<1>. QED
  BY <1>1, <1>3, <1>4

LEMMA FollowHandle == TypeOK /\ FollowInv /\ Handle => FollowInv'
<1> SUFFICES ASSUME TypeOK, FollowInv, Handle, NEW k \in Agent!Keys
             PROVE  /\ k \in mislaid' \/ Followed(k)'
                    /\ k \in seen' \/ Unseen(k)'
  BY DEF FollowInv
<1> DEFINE m == Head(inbox)
<1>1. /\ inbox # <<>> /\ inbox' = Tail(inbox)
      /\ UNCHANGED <<seen, level, queue, mislaid>>
  BY DEF Handle, Sink!Process, agentVars
<1>2. inbox \in Seq(Messages) /\ told \in [Agent!Keys -> 0..2]
  BY DEF TypeOK
<1>3. m \in Messages
  BY <1>1, <1>2, HeadTailProperties
<1>4. told'[k] = IF IsOf(m, k) THEN m.level ELSE told[k]
  <2>1. CASE m.kind = "level"
    <3>1. told' = [told EXCEPT ![m.key] = m.level]
      BY <2>1 DEF Handle, Sink!Process, Sink!EmitHealth
    <3>. QED
      BY <1>2, <2>1, <3>1 DEF IsOf
  <2>2. CASE m.kind # "level"
    <3>1. told' = told
      BY <2>2 DEF Handle, Sink!Process, Sink!Record
    <3>. QED
      BY <2>2, <3>1 DEF IsOf
  <2>. QED
    BY <2>1, <2>2
<1>5. Has(inbox, k) <=> IsOf(m, k) \/ Has(inbox', k)
  BY <1>1, <1>2, HasTail
<1>6. \A l : LastIs(inbox, k, l) =>
               /\ LastIs(inbox', k, l)
               /\ IsOf(m, k) /\ ~Has(inbox', k) => m.level = l
  BY <1>1, <1>2, LastTail
<1> HIDE DEF m
<1>7. /\ k \in mislaid \/ Followed(k)
      /\ k \in seen \/ Unseen(k)
  BY DEF FollowInv
<1>. QED
  BY <1>1, <1>4, <1>5, <1>6, <1>7 DEF Followed, Unseen

LEMMA FollowNext == TypeOK /\ FollowInv /\ [Next]_vars => FollowInv'
<1> SUFFICES ASSUME TypeOK, FollowInv, [Next]_vars PROVE FollowInv'
  OBVIOUS
<1>1. CASE Lose
  BY <1>1, FollowMislay DEF Lose, sinkVars
<1>2. CASE BridgeEnds
  <2>1. /\ inbox' = <<>> /\ UNCHANGED <<seen, level, queue, told>>
        /\ mislaid' = mislaid \union
                        {k \in Agent!Keys : Has(inbox, k) /\ ~Has(queue, k)}
    BY <1>2 DEF BridgeEnds, Sink!Forgets
  <2>. QED
    BY <2>1, HasEmpty DEF FollowInv, Followed, Unseen
<1>3. CASE BridgeStarts \/ UNCHANGED vars
  <2>1. UNCHANGED <<seen, level, queue, mislaid, inbox, told>>
    BY <1>3 DEF BridgeStarts, vars, agentVars, sinkVars
  <2>. QED
    BY <2>1 DEF FollowInv, Followed, Unseen
<1>. QED
  BY <1>1, <1>2, <1>3, FollowObserve, FollowCount, FollowForward,
     FollowArrive, FollowHandle DEF Next

(***************************************************************************)
(* For every condition whose last event was not refused or lost and is not *)
(* on its way, the last level the bridge logged is the one the agent has   *)
(* recorded: no older event is processed after a newer one, and the silent *)
(* first observation of a service is what a consumer assumes.              *)
(***************************************************************************)
THEOREM LogLevel == Spec => []LogTellsLevel
<1>1. FollowInv => LogTellsLevel
  BY DEF FollowInv, Followed, LogTellsLevel
<1>. QED
  BY <1>1, TypeCorrect, FollowInit, FollowNext, PTL DEF Spec

-----------------------------------------------------------------------------
(* Unsupported capabilities are announced *)

\* A capability the bridge has in its set was announced since last measured.
SupportInv ==
  \A s \in Nodes \X Capabilities :
    latest[s] = "unsupported" \/ s[2] \in unsupported => s \in announced

LEMMA SupportInit == Init => SupportInv
BY DEF Init, Sink!Init, SupportInv

\* With one node, the key without the node stands for the series.
LEMMA SupportRecord ==
  ASSUME \A m, n \in Nodes : m = n,
         TypeOK, SupportInv, NEW p \in Messages, p.kind = "point",
         Sink!Record(p)
  PROVE  SupportInv'
<1> DEFINE series == <<p.node, p.capability>>
<1>1. /\ p.node \in Nodes /\ p.capability \in Capabilities
      /\ p.quality \in {"measured", "unsupported", "error"}
  BY MessageKinds DEF Sink!Qualities
<1>2. /\ series \in Nodes \X Capabilities
      /\ latest \in [Nodes \X Capabilities -> Sink!Qualities]
      /\ latest' = [latest EXCEPT ![series] = p.quality]
  BY <1>1 DEF TypeOK, Sink!Record
<1>3. \A s \in Nodes \X Capabilities : s[2] = p.capability <=> s = series
  BY <1>1
<1>4. \A s \in Nodes \X Capabilities :
        latest'[s] = IF s = series THEN p.quality ELSE latest[s]
  BY <1>2
<1>5. series[2] = p.capability
  OBVIOUS
<1>6. CASE p.quality = "measured"
  <2>1. /\ unsupported' = unsupported \ {p.capability}
        /\ announced' = announced \ {series}
    BY <1>6 DEF Sink!Record, Sink!Rearmed, Sink!CapabilityKey
  <2> HIDE DEF series
  <2>. QED
    BY <1>3, <1>4, <1>6, <2>1 DEF SupportInv
<1>7. CASE p.quality = "unsupported"
  <2>1. /\ unsupported' = unsupported \union {p.capability}
        /\ announced' = IF p.capability \notin unsupported
                          THEN announced \union {series} ELSE announced
    BY <1>7 DEF Sink!Record, Sink!Logged, Sink!CapabilityKey
  <2> HIDE DEF series
  <2>. QED
    BY <1>2, <1>3, <1>4, <1>5, <2>1 DEF SupportInv
<1>8. CASE p.quality = "error"
  <2>1. UNCHANGED <<unsupported, announced>>
    BY <1>8 DEF Sink!Record
  <2> HIDE DEF series
  <2>. QED
    BY <1>4, <1>8, <2>1 DEF SupportInv
<1>. QED
  BY <1>1, <1>6, <1>7, <1>8

LEMMA SupportNext ==
  ASSUME \A m, n \in Nodes : m = n
  PROVE  TypeOK /\ SupportInv /\ [Next]_vars => SupportInv'
<1> SUFFICES ASSUME TypeOK, SupportInv, [Next]_vars PROVE SupportInv'
  OBVIOUS
<1>1. CASE Handle
  <2> DEFINE m == Head(inbox)
  <2>1. m \in Messages
    BY <1>1, HeadTailProperties DEF Handle, Sink!Process, TypeOK
  <2>2. CASE m.kind = "point"
    <3>1. Sink!Record(m)
      BY <1>1, <2>2 DEF Handle, Sink!Process
    <3>. QED
      BY <2>1, <2>2, <3>1, SupportRecord
  <2>3. CASE m.kind # "point"
    <3>1. UNCHANGED <<unsupported, latest, announced>>
      BY <1>1, <2>3 DEF Handle, Sink!Process, Sink!EmitHealth
    <3>. QED
      BY <3>1 DEF SupportInv
  <2>. QED
    BY <2>2, <2>3
<1>2. CASE BridgeEnds
  BY <1>2 DEF BridgeEnds, Sink!Forgets, SupportInv
<1>3. CASE \/ \E k \in Agent!Keys : \E l \in 0..2 : Observe(k, l)
           \/ ObserveCount \/ Lose \/ Forward \/ BridgeStarts
           \/ \E m \in Points \union {Sink!Other} : Arrive(m)
           \/ UNCHANGED vars
  <2>1. UNCHANGED <<unsupported, latest, announced>>
    BY <1>3 DEF Observe, ObserveCount, Lose, Forward, BridgeStarts, Arrive,
                Sink!Receive, vars, sinkVars
  <2>. QED
    BY <2>1 DEF SupportInv
<1>. QED
  BY <1>1, <1>2, <1>3 DEF Next

(***************************************************************************)
(* With one node behind the bridge, a capability whose last processed      *)
(* point was unsupported has been announced since it was last measured,    *)
(* across restarts of the bridge.  The key of the code leaves the node     *)
(* out, so the hypothesis is needed: with two nodes it is not so (the run  *)
(* pipeline_nodes).                                                        *)
(***************************************************************************)
THEOREM UnsupportedLogged ==
  ASSUME \A m, n \in Nodes : m = n
  PROVE  Spec => []UnsupportedAnnounced
<1>1. SupportInv => UnsupportedAnnounced
  BY DEF SupportInv, UnsupportedAnnounced
<1>2. TypeOK /\ SupportInv /\ [Next]_vars => SupportInv'
  BY SupportNext
<1>. QED
  BY <1>1, <1>2, TypeCorrect, SupportInit, PTL DEF Spec

-----------------------------------------------------------------------------
(* The bridge that runs has a fit target *)

Passed(f) ==
  /\ f \in Files
  /\ Process!MetadataFit(f)
  /\ Process!ContentFit(f)

(***************************************************************************)
(* How far the checks of the start have got in each phase: which facts the *)
(* step into the next phase relies on, although the operator may replace   *)
(* the file in between.                                                    *)
(***************************************************************************)
StartInv ==
  /\ phase # "down" => environment.target \in {"standard", "maple"}
  /\ phase \in {"down", "selected", "trusted", "opened"} => credential = NoFile
  /\ phase \in {"selected", "trusted", "opened"}
       /\ environment.target = "maple" => file \in Files
  /\ phase \in {"trusted", "opened"}
       => environment.target = "maple" /\ ~environment.overrides
  /\ phase = "opened" => descriptor \in Files
  /\ phase \in {"dropped", "running"} => ~root
  /\ phase \in {"prepared", "dropped", "running"} =>
       /\ environment.target = "standard" => credential = NoFile
       /\ environment.target = "maple" =>
            Passed(credential) /\ ~environment.overrides

LEMMA StartInvInit == Init => StartInv
BY DEF Init, Process!StartInit, StartInv

LEMMA StartInvProcess == StartInv /\ Process!Preparation => StartInv'
<1> SUFFICES ASSUME StartInv, Process!Preparation PROVE StartInv'
  OBVIOUS
<1> USE DEF StartInv
<1>1. CASE Process!Start
  BY <1>1 DEF Process!Start, Process!Selectable
<1>2. CASE Process!Replace
  BY <1>2 DEF Process!Replace
<1>3. CASE Process!PrepareStandard
  BY <1>3 DEF Process!PrepareStandard
<1>4. CASE Process!TrustPath
  BY <1>4 DEF Process!TrustPath
<1>5. CASE Process!Open
  BY <1>5 DEF Process!Open
<1>6. CASE Process!Load
  <2>1. Passed(credential')
    BY <1>6 DEF Process!Load, Process!Bytes, Passed
  <2>. QED
    BY <1>6, <2>1 DEF Process!Load
<1>7. CASE Process!Drop
  BY <1>7 DEF Process!Drop
<1>8. CASE Process!Connect
  BY <1>8 DEF Process!Connect
<1>. QED
  BY <1>1, <1>2, <1>3, <1>4, <1>5, <1>6, <1>7, <1>8 DEF Process!Preparation

LEMMA StartInvNext == StartInv /\ [Next]_vars => StartInv'
<1> SUFFICES ASSUME StartInv, [Next]_vars PROVE StartInv'
  OBVIOUS
<1>1. CASE BridgeStarts
  BY <1>1, StartInvProcess DEF BridgeStarts
<1>2. CASE BridgeEnds
  BY <1>2 DEF BridgeEnds, Process!Exit, StartInv
<1>3. CASE UNCHANGED startVars
  BY <1>3 DEF startVars, StartInv
<1>4. BridgeStarts \/ BridgeEnds \/ UNCHANGED startVars
  BY DEF Next, Observe, ObserveCount, Lose, Forward, Arrive, Handle, vars
<1>. QED
  BY <1>1, <1>2, <1>3, <1>4

(***************************************************************************)
(* A bridge that runs has the target it was configured for and none of     *)
(* root's rights; with maple, its credential is one version of the file    *)
(* whose metadata and content passed, whatever the operator puts at the    *)
(* path between two steps of the start.                                    *)
(***************************************************************************)
THEOREM RunsFit == Spec => []TargetFit
<1>1. StartInv => TargetFit
  BY DEF StartInv, Passed, TargetFit, Process!TargetFit
<1>. QED
  BY <1>1, StartInvInit, StartInvNext, PTL DEF Spec
=============================================================================
