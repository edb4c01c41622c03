----------------------------- MODULE AgentProofs -----------------------------
(***************************************************************************)
(* Proofs about the agent's loop and the Xid workers it drains.            *)
(***************************************************************************)
EXTENDS Agent, SequenceTheorems, TLAPS

-----------------------------------------------------------------------------
(* Sequences *)

(***************************************************************************)
(* What follows a sequence stands behind all of it.                        *)
(***************************************************************************)
LEMMA Concat ==
  ASSUME NEW r \in Seq(Nat), NEW e \in Seq(Nat)
  PROVE  /\ Len(r) \in Nat /\ Len(e) \in Nat
         /\ r \o e \in Seq(Nat)
         /\ Len(r \o e) = Len(r) + Len(e)
         /\ \A i \in 1 .. Len(r) + Len(e) :
              (r \o e)[i] = IF i <= Len(r) THEN r[i] ELSE e[i - Len(r)]
<1>1. Len(r) \in Nat /\ Len(e) \in Nat
  BY LenProperties
<1> QED
  BY <1>1, ConcatProperties

(***************************************************************************)
(* Numbers 1, 2, ... followed by the next ones are numbers 1, 2, ...       *)
(***************************************************************************)
LEMMA OrderedConcat ==
  ASSUME NEW r \in Seq(Nat), NEW e \in Seq(Nat),
         \A i \in 1 .. Len(r) : r[i] = i,
         \A i \in 1 .. Len(e) : e[i] = Len(r) + i
  PROVE  \A i \in 1 .. Len(r) + Len(e) : (r \o e)[i] = i
<1> SUFFICES ASSUME NEW i \in 1 .. Len(r) + Len(e)
             PROVE  (r \o e)[i] = i
  OBVIOUS
<1>0. Len(r) \in Nat /\ Len(e) \in Nat
  BY LenProperties
<1>1. (r \o e)[i] = IF i <= Len(r) THEN r[i] ELSE e[i - Len(r)]
  BY Concat
<1>2. CASE i <= Len(r)
  BY <1>0, <1>1, <1>2
<1>3. CASE ~ (i <= Len(r))
  <2>1. i - Len(r) \in 1 .. Len(e)
    BY <1>0, <1>3
  <2>2. e[i - Len(r)] = Len(r) + (i - Len(r))
    BY <2>1
  <2> QED
    BY <1>0, <1>1, <1>3, <2>2
<1> QED
  BY <1>2, <1>3

(***************************************************************************)
(* One more number behind those of a sequence.                             *)
(***************************************************************************)
LEMMA OrderedAppend ==
  ASSUME NEW e \in Seq(Nat), NEW k \in Nat,
         \A i \in 1 .. Len(e) : e[i] = k + i
  PROVE  /\ Len(Append(e, k + Len(e) + 1)) = Len(e) + 1
         /\ \A i \in 1 .. Len(e) + 1 : Append(e, k + Len(e) + 1)[i] = k + i
<1>0. Len(e) \in Nat
  BY LenProperties
<1>1. k + Len(e) + 1 \in Nat
  BY <1>0
<1>2. /\ Len(Append(e, k + Len(e) + 1)) = Len(e) + 1
      /\ \A i \in 1 .. Len(e) : Append(e, k + Len(e) + 1)[i] = e[i]
      /\ Append(e, k + Len(e) + 1)[Len(e) + 1] = k + Len(e) + 1
  BY <1>1, AppendProperties
<1> QED
  BY <1>0, <1>2

(***************************************************************************)
(* A natural number plus a rise is one.                                    *)
(***************************************************************************)
LEMMA Rises ==
  ASSUME NEW a \in Nat, NEW m \in Nat, NEW n \in Nat, m <= n
  PROVE  a + n - m \in Nat
OBVIOUS

(***************************************************************************)
(* A sequence that holds 1, ..., n is that function.                       *)
(***************************************************************************)
LEMMA IsIdentity ==
  ASSUME NEW s \in Seq(Nat), \A i \in 1 .. Len(s) : s[i] = i
  PROVE  s = [i \in 1 .. Len(s) |-> i]
<1>1. s \in [1 .. Len(s) -> Nat]
  BY LenProperties
<1> QED
  BY <1>1

-----------------------------------------------------------------------------
(* Steps *)

\* What a step of the whole is to each of its two parts.
LoopStep == \/ Sleep \/ Hangup \/ HardwareChanges
            \/ \E t \in 0 .. MaxWork : Tick(t)
            \/ \E t \in 0 .. MaxService : Services(t)
            \/ \E t \in 0 .. Timeout : Ask(t)
            \/ \E t \in 0 .. MaxInventory : EndTick(t)
            \/ \E c \in Configs, fault \in Faults, t \in 0 .. MaxReload :
                 Reload(c, fault, t)
            \/ UNCHANGED loopVars

XidStep == \/ \E g \in Gpus : WorkerStep(g)
           \/ CollectXids
           \/ SkipXids
           \/ UNCHANGED xidVars

(***************************************************************************)
(* A step of the agent is a step of the loop and one of the Xid monitor.   *)
(***************************************************************************)
LEMMA Steps == [Next]_vars => LoopStep /\ XidStep
BY DEF Next, vars, Advance, Disturbance, LoopStep, XidStep, CollectingTick,
       OtherTick, Stopped, loopVars, timeVars, parts, inventoryVars, signalVars,
       xidVars, monitorVars, channel, pointVars

-----------------------------------------------------------------------------
(* Types *)

(***************************************************************************)
(* The next deadline lies within the interval after now.                   *)
(***************************************************************************)
LEMMA RearmedInInterval ==
  ASSUME untilDue \in Int
  PROVE  Rearmed \in 1 .. Interval
<1> DEFINE late == 0 - untilDue
<1>1. Interval \in Nat \ {0}
  BY CadenceAssumption
<1>2. late % Interval \in 0 .. (Interval - 1)
  BY <1>1
<1> QED
  BY <1>1, <1>2 DEF Rearmed

(***************************************************************************)
(* The loop keeps its types.                                               *)
(***************************************************************************)
LEMMA LoopTypeStep == LoopType /\ LoopStep => LoopType'
<1> SUFFICES ASSUME LoopType, LoopStep
             PROVE  LoopType'
  OBVIOUS
<1> USE LoopAssumption DEF LoopType
<1>0. Interval \in Nat
  BY CadenceAssumption
<1>a. ASSUME NEW t \in Nat, Elapse(t)
      PROVE  /\ untilDue' \in Int /\ untilEnd' \in Nat
             /\ hotAge' \in Nat /\ storageAge' \in Nat
  BY <1>a DEF Elapse
<1>1. CASE Sleep
  BY <1>1, <1>a DEF Sleep, parts, inventoryVars, signalVars
<1>2. CASE Hangup
  BY <1>2 DEF Hangup, timeVars, parts, inventoryVars
<1>3. CASE HardwareChanges
  BY <1>3 DEF HardwareChanges, timeVars, parts, inventoryVars, signalVars
<1>4. ASSUME NEW t \in 0 .. MaxInventory, EndTick(t)
      PROVE  LoopType'
  BY <1>4, <1>a DEF EndTick, parts, signalVars, Groups
<1>5. ASSUME NEW t \in 0 .. Timeout, Ask(t)
      PROVE  LoopType'
  BY <1>5, <1>a DEF Ask, parts, inventoryVars, signalVars
<1>b. ASSUME NEW t \in 0 .. MaxService, Services(t)
      PROVE  LoopType'
  BY <1>b, <1>a DEF Services, parts, inventoryVars, signalVars, Groups
<1>6. ASSUME NEW c \in Configs, NEW fault \in Faults,
             NEW t \in 0 .. MaxReload, Reload(c, fault, t)
      PROVE  LoopType'
  <2>1. hup' = FALSE /\ reloads' \in 0 .. MaxReloads
    BY <1>6 DEF Reload
  <2>2. /\ config' \in Configs /\ llm' \in Configs /\ emitter' \in Configs
        /\ capabilities' \in Configs
    BY <1>6 DEF Reload
  <2>3. lastInventory' \in Inventories /\ inventory' \in Inventories
    BY <1>6 DEF Reload, inventoryVars
  <2>4. hup' \in BOOLEAN /\ (hup' => reloads' < MaxReloads)
    BY <2>1, Zenon
  <2>5. UNCHANGED <<mode, pc, ticks, asked, hardware, collected>>
    BY <1>6 DEF Reload
  <2>6. Elapse(t)
    BY <1>6 DEF Reload
  <2> QED
    BY <1>a, <2>1, <2>2, <2>3, <2>4, <2>5, <2>6
<1>7. ASSUME NEW t \in 0 .. MaxWork, Tick(t)
      PROVE  LoopType'
  <2>1. Rearmed \in 1 .. Interval
    BY RearmedInInterval
  <2>2. ticks' \in Nat
    BY <1>7 DEF Tick, NextTick
  <2>3. untilDue' \in Int /\ untilEnd' \in Nat
    BY <1>0, <1>7, <2>1 DEF Tick
  <2>4. lastInventory' \in Inventories /\ inventory' \in Inventories
    BY <1>7 DEF Tick, PublishIfChanged
  <2>5. hotAge' \in Nat /\ storageAge' \in Nat
    BY <1>7 DEF Tick
  <2>6. collected' \in SUBSET Groups
    BY <1>7 DEF Tick, Groups
  <2>7. hup' = hup /\ reloads' = 0 /\ 0 < MaxReloads
    BY <1>7 DEF Tick
  <2> QED
    BY <1>7, <2>2, <2>3, <2>4, <2>5, <2>6, <2>7 DEF Tick, parts
<1>8. CASE UNCHANGED loopVars
  BY <1>8 DEF loopVars, timeVars, parts, inventoryVars, signalVars
<1> QED
  BY <1>1, <1>2, <1>3, <1>4, <1>5, <1>b, <1>6, <1>7, <1>8 DEF LoopStep

(***************************************************************************)
(* The workers and the collector keep the types of the monitor.            *)
(***************************************************************************)
LEMMA XidTypeStep == XidType /\ XidStep => XidType'
<1> SUFFICES ASSUME XidType, XidStep
             PROVE  XidType'
  OBVIOUS
<1> USE XidAssumption DEF XidType
<1>1. ASSUME NEW g \in Gpus, WorkerStep(g)
      PROVE  XidType'
  <2> USE <1>1 DEF WorkerStep, pointVars
  <2>1. CASE StartSilently(g)
    BY <2>1 DEF StartSilently, Becomes, channel
  <2>2. CASE StartUnsupported(g)
    BY <2>2 DEF StartUnsupported, Becomes
  <2>3. CASE StartReady(g)
    BY <2>3 DEF StartReady, Becomes
  <2>4. CASE Raise(g)
    BY <2>4 DEF Raise, channel
  <2>5. CASE Wait(g)
    BY <2>5 DEF Wait
  <2>6. CASE WaitFails(g)
    BY <2>6 DEF WaitFails, Becomes, channel
  <2> QED
    BY <2>1, <2>2, <2>3, <2>4, <2>5, <2>6
<1>2. CASE CollectXids
  BY <1>2 DEF CollectXids, Drained, Quiet, EventPoints
<1>3. CASE SkipXids
  BY <1>3 DEF SkipXids, monitorVars, channel
<1>4. CASE UNCHANGED xidVars
  BY <1>4 DEF xidVars, monitorVars, channel, pointVars
<1> QED
  BY <1>1, <1>2, <1>3, <1>4 DEF XidStep

(***************************************************************************)
(* The types of loop, monitor and alarms: a tick adds as many alarms as it *)
(* reports Xids (main).                                                    *)
(***************************************************************************)
THEOREM AgentTypes == Spec => []TypeOK
<1>1. Init => TypeOK
  <2> SUFFICES ASSUME Init
               PROVE  TypeOK
    OBVIOUS
  <2>1. LoopType
    <3>1. hup \in BOOLEAN /\ hup = FALSE
      BY Zenon DEF Init, LoopInit
    <3>2. reloads \in 0 .. MaxReloads /\ untilEnd \in Nat /\ asked \in 0 .. Endpoints
      BY LoopAssumption DEF Init, LoopInit
    <3>3. mode \in {"normal", "once", "discover"} /\ pc = "wait"
      BY DEF Init, LoopInit
    <3> QED
      BY <3>1, <3>2, <3>3 DEF Init, LoopInit, LoopType, Groups
  <2>2. XidType
    BY XidAssumption DEF Init, XidInit, XidType
  <2>3. alarms \in [Gpus -> Nat]
    BY DEF Init
  <2> QED
    BY <2>1, <2>2, <2>3 DEF TypeOK
<1>2. TypeOK /\ [Next]_vars => TypeOK'
  <2> SUFFICES ASSUME TypeOK, [Next]_vars
               PROVE  TypeOK'
    OBVIOUS
  <2>1. LoopType'
    BY Steps, LoopTypeStep DEF TypeOK
  <2>2. XidType'
    BY Steps, XidTypeStep DEF TypeOK
  <2>3. alarms' \in [Gpus -> Nat]
    <3>1. ASSUME CollectXids, RaiseAlarms
          PROVE  alarms' \in [Gpus -> Nat]
      <4>1. \A g \in Gpus : reported'[g] = reported[g] \o eventsSent[g]
        BY <3>1 DEF CollectXids, EventPoints
      <4>2. \A g \in Gpus : /\ Len(reported'[g]) \in Nat /\ Len(reported[g]) \in Nat
                           /\ Len(reported[g]) <= Len(reported'[g])
        <5> SUFFICES ASSUME NEW g \in Gpus
                     PROVE  /\ Len(reported'[g]) \in Nat /\ Len(reported[g]) \in Nat
                            /\ Len(reported[g]) <= Len(reported'[g])
          OBVIOUS
        <5> DEFINE r == reported[g]
                   e == eventsSent[g]
                   r2 == reported'[g]
        <5>1. r \in Seq(Nat) /\ e \in Seq(Nat) /\ r2 = r \o e
          BY <4>1 DEF TypeOK, XidType
        <5> HIDE DEF r, e, r2
        <5>2. /\ Len(r) \in Nat /\ Len(e) \in Nat
              /\ Len(r2) = Len(r) + Len(e)
          BY <5>1, Concat
        <5>3. Len(r2) \in Nat /\ Len(r) \in Nat /\ Len(r) <= Len(r2)
          BY <5>2
        <5> QED
          BY <5>3 DEF r, r2
      <4>3. \A g \in Gpus : alarms[g] + Len(reported'[g]) - Len(reported[g]) \in Nat
        <5> SUFFICES ASSUME NEW g \in Gpus
                     PROVE  alarms[g] + Len(reported'[g]) - Len(reported[g]) \in Nat
          OBVIOUS
        <5>1. alarms[g] \in Nat
          BY DEF TypeOK
        <5> QED
          BY <4>2, <5>1, Rises
      <4> QED
        BY <3>1, <4>3 DEF RaiseAlarms
    <3>2. (CollectXids /\ RaiseAlarms) \/ UNCHANGED alarms
      BY Zenon DEF Next, Advance, Disturbance, CollectingTick, OtherTick, vars
    <3> QED
      BY <3>1, <3>2 DEF TypeOK
  <2> QED
    BY <2>1, <2>2, <2>3 DEF TypeOK
<1> QED
  BY <1>1, <1>2, PTL DEF Spec

-----------------------------------------------------------------------------
(* The loop *)

(***************************************************************************)
(* A SIGHUP replaces configuration, LLM probe, emitter and capabilities    *)
(* together or leaves them all alone (main, the closure given to and_then).*)
(***************************************************************************)
THEOREM ReloadIsJoint == Spec => []JointReload
<1>1. Init => JointReload
  BY DEF Init, LoopInit, JointReload
<1>2. JointReload /\ LoopStep => JointReload'
  BY DEF JointReload, LoopStep, Sleep, Hangup, HardwareChanges, Services, Ask,
         EndTick, Reload, Committed, Tick, loopVars, parts
<1>3. JointReload /\ [Next]_vars => JointReload'
  BY <1>2, Steps
<1> QED
  BY <1>1, <1>3, PTL DEF Spec

(***************************************************************************)
(* What may lie between the publications of two ticks, the interval apart: *)
(* services, endpoints and inventory of a tick, and the reloads after it.  *)
(***************************************************************************)
Busy == MaxService + Endpoints * Timeout + MaxInventory
Slack == IF Interval >= Busy THEN Interval ELSE Busy
Reloading == MaxReloads * MaxReload

(***************************************************************************)
(* How old the hot batches get: until the next deadline, or for as long as *)
(* the tick has been busy since, and the loop with signals after it.       *)
(***************************************************************************)
HotInv ==
  /\ hotAge + untilDue <= Interval
  /\ pc \in {"service", "end"} => hotAge = 0
  /\ pc = "llm" => hotAge <= MaxService + asked * Timeout
  /\ pc = "wait" => hotAge <= Slack + reloads * MaxReload

(***************************************************************************)
(* A product grows with a factor.                                          *)
(***************************************************************************)
LEMMA Products ==
  ASSUME NEW n \in Nat, NEW k \in 0 .. n, NEW x \in Nat
  PROVE  /\ k * x \in Nat /\ n * x \in Nat
         /\ k * x <= n * x
         /\ (k + 1) * x = k * x + x
<1>1. PICK d \in Nat : n = k + d
  <2>1. n - k \in Nat /\ n = k + (n - k)
    OBVIOUS
  <2> QED
    BY <2>1
<1>2. n * x = k * x + d * x
  BY <1>1
<1>3. d * x \in Nat /\ k * x \in Nat
  BY <1>1
<1> QED
  BY <1>2, <1>3

LEMMA SlackType ==
  /\ Interval \in Nat \ {0} /\ Timeout \in Nat /\ Endpoints \in Nat
  /\ MaxWork \in Nat /\ MaxService \in Nat /\ MaxInventory \in Nat
  /\ MaxReload \in Nat /\ MaxReloads \in Nat \ {0}
  /\ Endpoints * Timeout \in Nat
  /\ Slack \in Nat /\ Reloading \in Nat
  /\ Interval <= Slack /\ MaxService + Endpoints * Timeout + MaxInventory <= Slack
<1>1. /\ Interval \in Nat \ {0} /\ Timeout \in Nat /\ Endpoints \in Nat
      /\ MaxWork \in Nat /\ MaxService \in Nat /\ MaxInventory \in Nat
      /\ MaxReload \in Nat /\ MaxReloads \in Nat \ {0}
  BY CadenceAssumption, LoopAssumption
<1>2. Endpoints * Timeout \in Nat /\ MaxReloads * MaxReload \in Nat
  BY <1>1
<1>3. Busy \in Nat
  BY <1>1, <1>2 DEF Busy
<1>4. Slack \in Nat /\ Interval <= Slack /\ Busy <= Slack
  BY <1>1, <1>3 DEF Slack
<1> QED
  BY <1>1, <1>2, <1>4 DEF Busy, Reloading

(***************************************************************************)
(* Every step keeps the bound on the age of the hot batches.               *)
(***************************************************************************)
LEMMA HotStep == LoopType /\ HotInv /\ LoopStep => HotInv'
<1> SUFFICES ASSUME LoopType, HotInv, LoopStep
             PROVE  HotInv'
  OBVIOUS
<1>0. /\ asked \in 0 .. Endpoints /\ reloads \in 0 .. MaxReloads
      /\ hotAge \in Nat /\ untilDue \in Int
  BY DEF LoopType
<1>a. /\ asked * Timeout \in Nat /\ asked * Timeout <= Endpoints * Timeout
      /\ (asked + 1) * Timeout = asked * Timeout + Timeout
  BY <1>0, SlackType, Products
<1>b. /\ reloads * MaxReload \in Nat
      /\ (reloads + 1) * MaxReload = reloads * MaxReload + MaxReload
  BY <1>0, SlackType, Products
<1>c. ASSUME UNCHANGED <<pc, untilDue, hotAge, asked, reloads>>
      PROVE  HotInv'
  BY <1>c DEF HotInv
<1> USE SlackType
<1>1. CASE Sleep
  <2>1. /\ pc = "wait" /\ pc' = "wait" /\ untilDue > 0 /\ reloads' = reloads
        /\ untilDue' = untilDue - 1 /\ hotAge' = hotAge + 1
    BY <1>1 DEF Sleep, Elapse, signalVars
  <2> QED
    BY <1>0, <1>b, <2>1 DEF HotInv
<1>2. CASE Hangup
  BY <1>2, <1>c DEF Hangup, timeVars
<1>3. CASE HardwareChanges
  BY <1>3, <1>c DEF HardwareChanges, timeVars, signalVars
<1>4. ASSUME NEW t \in 0 .. MaxInventory, EndTick(t)
      PROVE  HotInv'
  <2>1. /\ pc \in {"end", "llm"} /\ pc' \in {"wait", "done"}
        /\ reloads' = reloads /\ asked' = asked
        /\ untilDue' = untilDue - t /\ hotAge' = hotAge + t
    BY <1>4 DEF EndTick, Elapse, signalVars
  <2>2. hotAge <= MaxService + Endpoints * Timeout
    BY <1>0, <1>a, <2>1 DEF HotInv
  <2>3. hotAge' <= Slack
    BY <1>0, <2>1, <2>2
  <2> QED
    BY <1>0, <1>b, <2>1, <2>3 DEF HotInv
<1>5. ASSUME NEW t \in 0 .. Timeout, Ask(t)
      PROVE  HotInv'
  <2>1. asked' = asked + 1 /\ hotAge' = hotAge + t /\ untilDue' = untilDue - t
        /\ pc = "llm" /\ pc' = "llm"
    BY <1>5 DEF Ask, Elapse
  <2>2. asked' * Timeout = asked * Timeout + Timeout
    BY <1>a, <2>1
  <2> QED
    BY <1>0, <1>a, <2>1, <2>2 DEF HotInv
<1>6. ASSUME NEW t \in 0 .. MaxService, Services(t)
      PROVE  HotInv'
  <2>1. asked' = asked /\ hotAge' = hotAge + t /\ untilDue' = untilDue - t
        /\ pc = "service" /\ pc' = "llm"
    BY <1>6 DEF Services, Elapse
  <2> QED
    BY <1>0, <1>a, <2>1 DEF HotInv
<1>7. ASSUME NEW c \in Configs, NEW fault \in Faults,
             NEW t \in 0 .. MaxReload, Reload(c, fault, t)
      PROVE  HotInv'
  <2>1. /\ reloads' = reloads + 1 /\ hotAge' = hotAge + t
        /\ untilDue' = untilDue - t /\ pc = "wait" /\ pc' = "wait"
    BY <1>7 DEF Reload, Elapse
  <2>2. reloads' * MaxReload = reloads * MaxReload + MaxReload
    BY <1>b, <2>1
  <2> QED
    BY <1>0, <1>b, <2>1, <2>2 DEF HotInv
<1>8. ASSUME NEW t \in 0 .. MaxWork, Tick(t)
      PROVE  HotInv'
  <2>1. Rearmed \in 1 .. Interval
    BY <1>0, RearmedInInterval
  <2>2. hotAge' = 0 /\ untilDue' = Rearmed - t /\ asked' = 0
        /\ pc' \in {"service", "end"}
    BY <1>8 DEF Tick
  <2> QED
    BY <2>1, <2>2 DEF HotInv
<1>9. CASE UNCHANGED loopVars
  BY <1>9, <1>c DEF loopVars, timeVars, signalVars
<1> QED
  BY <1>1, <1>2, <1>3, <1>4, <1>5, <1>6, <1>7, <1>8, <1>9 DEF LoopStep

HotFresh == pc # "done" => hotAge + MaxWork <= HotValidity

(***************************************************************************)
(* The hot half of ValidUntilReplaced, for every cadence and every duration*)
(* of the blocking work: hot batches are replaced before they lapse if the *)
(* longer of the interval and the work after a publication, the reloads    *)
(* between two ticks and the next collection together take no more than    *)
(* three intervals (main, valid_for of the hot groups).                    *)
(***************************************************************************)
THEOREM HotSamplesFresh ==
  ASSUME Slack + Reloading + MaxWork <= 3 * Interval
  PROVE  Spec => []HotFresh
<1>1. Init => HotInv
  <2> SUFFICES ASSUME Init
               PROVE  HotInv
    OBVIOUS
  <2>1. pc = "wait" /\ hotAge = 0 /\ untilDue = 0 /\ reloads = 0
    BY DEF Init, LoopInit
  <2> QED
    BY <2>1, SlackType DEF HotInv
<1>2. TypeOK /\ HotInv /\ [Next]_vars => HotInv'
  BY Steps, HotStep DEF TypeOK
<1>3. TypeOK /\ HotInv => HotFresh
  <2> SUFFICES ASSUME TypeOK, HotInv, pc # "done"
               PROVE  hotAge + MaxWork <= HotValidity
    BY DEF HotFresh
  <2>1. /\ hotAge \in Nat /\ asked \in 0 .. Endpoints
        /\ reloads \in 0 .. MaxReloads
        /\ pc \in {"wait", "service", "llm", "end"}
    BY DEF TypeOK, LoopType
  <2>2. asked * Timeout \in Nat /\ asked * Timeout <= Endpoints * Timeout
    BY <2>1, SlackType, Products
  <2>3. reloads * MaxReload <= Reloading
    BY <2>1, SlackType, Products DEF Reloading
  <2>4. hotAge <= Slack + Reloading
    <3>1. reloads * MaxReload \in Nat
      BY <2>1, SlackType, Products
    <3> QED
      BY <2>1, <2>2, <2>3, <3>1, SlackType DEF HotInv
  <2> QED
    BY <2>1, <2>4, SlackType DEF HotValidity
<1> QED
  BY <1>1, <1>2, <1>3, AgentTypes, PTL DEF Spec

-----------------------------------------------------------------------------
(* The storage batches *)

(***************************************************************************)
(* A tick count is so many whole medium cadences and a rest; it is due     *)
(* when there is no rest.                                                  *)
(***************************************************************************)
LEMMA NoRest ==
  ASSUME NEW m \in Nat \ {0}, NEW q \in Nat
  PROVE  (q * m) % m = 0
<1> DEFINE d == (q * m) \div m
           rest == (q * m) % m
<1>1. q * m \in Nat
  OBVIOUS
<1>2. d \in Int /\ rest \in 0 .. (m - 1) /\ q * m = m * d + rest
  BY <1>1
<1> HIDE DEF d, rest
<1>3. rest = (q - d) * m
  BY <1>2
<1>4. CASE q - d >= 1
  <2>1. (q - d) * m >= m
    BY <1>2, <1>4
  <2> QED
    BY <1>2, <1>3, <2>1
<1>5. CASE q - d <= 0
  <2>1. (q - d) * m <= 0
    BY <1>2, <1>5
  <2> QED
    BY <1>2, <1>3, <2>1 DEF rest
<1> QED
  BY <1>2, <1>4, <1>5

LEMMA Divided ==
  ASSUME NEW m \in Nat \ {0}, NEW n \in Nat
  PROVE  \E q \in Nat, r \in 0 .. (m - 1) : n = q * m + r
<1> DEFINE d == n \div m
           rest == n % m
<1>1. d \in Int /\ rest \in 0 .. (m - 1) /\ n = m * d + rest
  OBVIOUS
<1> HIDE DEF d, rest
<1>2. CASE d <= -1
  <2>1. m * d <= -m
    BY <1>1, <1>2
  <2> QED
    BY <1>1, <2>1
<1>3. CASE d >= 0
  <2>1. d \in Nat /\ n = d * m + rest
    BY <1>1, <1>3
  <2> QED
    BY <1>1, <2>1
<1> QED
  BY <1>1, <1>2, <1>3

(***************************************************************************)
(* One tick after whole cadences the rest is one.                          *)
(***************************************************************************)
LEMMA RestOfOne ==
  ASSUME NEW m \in Nat \ {0, 1}, NEW n \in Nat, NEW q \in Nat,
         NEW r \in 0 .. (m - 1), n * m + 1 = q * m + r
  PROVE  r = 1
<1> DEFINE k == n - q
<1>1. k \in Int /\ r = k * m + 1
  OBVIOUS
<1> HIDE DEF k
<1>2. CASE k >= 1
  <2>1. k * m >= m
    BY <1>1, <1>2
  <2> QED
    BY <1>1, <2>1
<1>3. CASE k <= -1
  <2>1. k * m <= -m
    BY <1>1, <1>3
  <2> QED
    BY <1>1, <2>1
<1>4. CASE k = 0
  BY <1>1, <1>4
<1> QED
  BY <1>1, <1>2, <1>3, <1>4

(***************************************************************************)
(* The cadences in ticks, and how much of the medium one can pass before   *)
(* its next tick.                                                          *)
(***************************************************************************)
LEMMA CadenceInTicks ==
  /\ MediumTicks \in Nat \ {0} /\ SlowTicks \in Nat /\ Cycle \in Nat
  /\ (MediumTicks - 1) * Interval <= Medium - 1
<1>1. Interval \in Nat \ {0} /\ Medium \in Nat \ {0} /\ Slow \in Nat
      /\ Interval <= Medium /\ Interval <= Slow
  BY CadenceAssumption
<1>2. ASSUME NEW a \in Nat, Interval <= a
      PROVE  /\ DivCeil(a, Interval) \in Nat \ {0}
             /\ (DivCeil(a, Interval) - 1) * Interval <= a - 1
  <2> DEFINE n == a + Interval - 1
             d == n \div Interval
             rest == n % Interval
  <2>1. n \in Nat /\ n >= Interval
    BY <1>1, <1>2
  <2> HIDE DEF n
  <2>2. d \in Int /\ rest \in 0 .. (Interval - 1) /\ n = Interval * d + rest
    BY <1>1, <2>1
  <2> HIDE DEF d, rest
  <2>3. d >= 1
    <3>1. CASE d <= 0
      <4>1. Interval * d <= 0
        BY <1>1, <2>2, <3>1
      <4> QED
        BY <1>1, <2>1, <2>2, <4>1
    <3> QED
      BY <2>2, <3>1
  <2>4. (d - 1) * Interval = Interval * d - Interval
    BY <1>1, <2>2
  <2>5. Interval * d <= n
    BY <1>1, <2>2
  <2>6. (d - 1) * Interval <= a - 1
    BY <1>1, <1>2, <2>2, <2>4, <2>5 DEF n
  <2>7. d = DivCeil(a, Interval)
    BY DEF d, n, DivCeil
  <2> QED
    BY <2>2, <2>3, <2>6, <2>7
<1>3. MediumTicks \in Nat \ {0} /\ SlowTicks \in Nat \ {0}
      /\ (MediumTicks - 1) * Interval <= Medium - 1
  BY <1>1, <1>2 DEF MediumTicks, SlowTicks
<1>4. Cycle \in Nat
  BY <1>3 DEF Cycle
<1> QED
  BY <1>3, <1>4

(***************************************************************************)
(* The bounds r ticks after the last multiple of the medium cadence: each  *)
(* tick that does not replace the storage batch adds an interval and the   *)
(* reloads before it.                                                      *)
(***************************************************************************)
AgeBound(r) == Slack + r * (Interval + Reloading)

SinceMedium(r) ==
  /\ storageAge + untilDue <= AgeBound(r)
  /\ storageAge <= AgeBound(r) + reloads * MaxReload
  /\ pc = "end" => storageAge + MaxInventory <= AgeBound(r)

(***************************************************************************)
(* The storage batch ages with each tick that does not replace it, after   *)
(* services and endpoints of the tick that did.  One-shot runs only ever   *)
(* wait for their first tick.                                              *)
(***************************************************************************)
StorageInv ==
  /\ pc = "service" => storageAge = 0
  /\ pc = "llm" => storageAge <= MaxService + asked * Timeout
  /\ mode = "once" /\ pc = "wait" => ticks = 0
  /\ \E q \in Nat, r \in 0 .. (MediumTicks - 1) :
       ticks = q * MediumTicks + r /\ SinceMedium(r)

LEMMA BoundType ==
  ASSUME NEW r \in Nat
  PROVE  /\ AgeBound(r) \in Nat /\ Slack <= AgeBound(r)
         /\ AgeBound(r + 1) = AgeBound(r) + Interval + Reloading
<1> DEFINE k == Interval + Reloading
<1>1. k \in Nat /\ Slack \in Nat
  BY SlackType
<1> HIDE DEF k
<1>2. r * k \in Nat /\ (r + 1) * k = r * k + k
  BY <1>1
<1>3. AgeBound(r) = Slack + r * k /\ AgeBound(r + 1) = Slack + (r + 1) * k
  BY DEF AgeBound, k
<1>4. AgeBound(r + 1) = AgeBound(r) + k
  BY <1>1, <1>2, <1>3
<1> QED
  BY <1>1, <1>2, <1>3, <1>4, SlackType DEF k

(***************************************************************************)
(* A tick that is not due is one further from the last multiple.           *)
(***************************************************************************)
LEMMA NotDue ==
  ASSUME NEW n \in Nat, NEW q \in Nat, NEW r \in 0 .. (MediumTicks - 1),
         n = q * MediumTicks + r, NEW next,
         next = IF n = Cycle + 1 THEN 2 ELSE n + 1, ~MediumDue(next)
  PROVE  /\ r + 1 \in 0 .. (MediumTicks - 1)
         /\ \E p \in Nat : next = p * MediumTicks + (r + 1)
<1> DEFINE m == MediumTicks
<1>1. m \in Nat \ {0} /\ SlowTicks \in Nat /\ Cycle = m * SlowTicks
      /\ Cycle \in Nat
  BY CadenceInTicks DEF Cycle
<1>2. next % m # 0
  BY DEF MediumDue
<1> HIDE DEF m
<1>3. CASE n # Cycle + 1
  <2>1. next = q * m + (r + 1)
    BY <1>1, <1>3 DEF m
  <2>2. r + 1 # m
    <3>1. CASE r + 1 = m
      <4>1. next = (q + 1) * m
        BY <1>1, <2>1, <3>1
      <4>2. next % m = 0
        BY <1>1, <4>1, NoRest
      <4> QED
        BY <1>2, <4>2
    <3> QED
      BY <3>1
  <2> QED
    BY <1>1, <2>1, <2>2 DEF m
<1>4. CASE n = Cycle + 1
  <2>1. next = 2
    BY <1>4
  <2>2. m # 1
    <3>1. 2 * 1 = 2 /\ (2 * 1) % 1 = 0
      BY NoRest
    <3> QED
      BY <1>2, <2>1, <3>1
  <2>3. m # 2
    <3>1. 1 * 2 = 2 /\ (1 * 2) % 2 = 0
      BY NoRest
    <3> QED
      BY <1>2, <2>1, <3>1
  <2>4. SlowTicks * m + 1 = q * m + r
    BY <1>1, <1>4 DEF m
  <2>5. r = 1
    BY <1>1, <2>2, <2>4, RestOfOne DEF m
  <2>6. next = 0 * m + (r + 1)
    BY <1>1, <2>1, <2>5
  <2> QED
    BY <1>1, <2>2, <2>3, <2>5, <2>6 DEF m
<1> QED
  BY <1>3, <1>4

LEMMA StorageTick ==
  ASSUME LoopType, StorageInv, NEW t \in 0 .. MaxWork, Tick(t),
         MaxWork + MaxInventory <= Interval
  PROVE  StorageInv'
<1> DEFINE m == MediumTicks
<1>1. m \in Nat \ {0}
  BY CadenceInTicks
<1>2. /\ storageAge \in Nat /\ untilDue \in Int /\ ticks \in Nat
      /\ reloads \in 0 .. MaxReloads
      /\ asked' = 0 /\ reloads' = 0 /\ ticks' \in Nat
      /\ pc' \in {"service", "end"}
      /\ untilDue' = Rearmed - t
      /\ storageAge' = IF MediumDue(ticks') THEN 0 ELSE storageAge + t
      /\ ticks' = IF ticks = Cycle + 1 THEN 2 ELSE ticks + 1
  BY DEF LoopType, Tick, NextTick
<1>3. Rearmed \in 1 .. Interval
  BY RearmedInInterval DEF LoopType
<1>4. PICK q \in Nat, r \in 0 .. (m - 1) :
        ticks = q * m + r /\ SinceMedium(r)
  BY DEF StorageInv
<1>5. CASE MediumDue(ticks')
  <2>1. PICK p \in Nat, s \in 0 .. (m - 1) : ticks' = p * m + s
    BY <1>1, <1>2, Divided
  <2>2. AgeBound(s) \in Nat /\ Interval <= AgeBound(s)
    BY <1>1, <2>1, BoundType, SlackType
  <2>3. pc' = "service" /\ storageAge' = 0
    BY <1>2, <1>5 DEF Tick, ProbesDue
  <2>4. /\ storageAge' + untilDue' <= AgeBound(s)
        /\ storageAge' <= AgeBound(s) + reloads' * MaxReload
    BY <1>2, <1>3, <2>2, <2>3, SlackType
  <2>5. SinceMedium(s)'
    BY <2>3, <2>4 DEF SinceMedium, AgeBound, Slack, Busy, Reloading
  <2> QED
    BY <2>1, <2>3, <2>5 DEF StorageInv
<1>6. CASE ~MediumDue(ticks')
  <2>1. pc' = "end"
    <3>1. mode # "once"
      <4>1. mode = "once" => ticks' = 1
        BY <1>2, CadenceInTicks DEF StorageInv, Tick
      <4> QED
        BY <1>6, <4>1 DEF MediumDue
    <3> QED
      BY <1>6, <3>1 DEF Tick, ProbesDue
  <2>2. r + 1 \in 0 .. (m - 1) /\ \E p \in Nat : ticks' = p * m + (r + 1)
    BY <1>2, <1>4, <1>6, NotDue
  <2>3. AgeBound(r) \in Nat /\ AgeBound(r + 1) = AgeBound(r) + Interval + Reloading
    BY <1>1, <1>4, BoundType
  <2>4. reloads * MaxReload \in Nat /\ reloads * MaxReload <= Reloading
    BY <1>2, SlackType, Products DEF Reloading
  <2>5. storageAge' = storageAge + t /\ storageAge <= AgeBound(r) + Reloading
    BY <1>2, <1>4, <1>6, <2>3, <2>4, SlackType DEF SinceMedium
  <2>6. /\ storageAge' + untilDue' <= AgeBound(r + 1)
        /\ storageAge' + MaxInventory <= AgeBound(r + 1)
        /\ storageAge' <= AgeBound(r + 1) + reloads' * MaxReload
    BY <1>2, <1>3, <2>3, <2>5, SlackType
  <2>7. SinceMedium(r + 1)'
    BY <2>6 DEF SinceMedium, AgeBound, Slack, Busy, Reloading
  <2>8. mode' = mode /\ pc' # "llm" /\ pc' # "service" /\ pc' # "wait"
    BY <2>1 DEF Tick
  <2> QED
    BY <2>2, <2>7, <2>8 DEF StorageInv
<1> QED
  BY <1>5, <1>6

(***************************************************************************)
(* Every step keeps the bounds on the age of the storage batch.            *)
(***************************************************************************)
LEMMA StorageStep ==
  ASSUME MaxWork + MaxInventory <= Interval
  PROVE  LoopType /\ StorageInv /\ LoopStep => StorageInv'
<1> SUFFICES ASSUME LoopType, StorageInv, LoopStep
             PROVE  StorageInv'
  OBVIOUS
<1>0. /\ asked \in 0 .. Endpoints /\ reloads \in 0 .. MaxReloads
      /\ storageAge \in Nat /\ untilDue \in Int /\ MediumTicks \in Nat \ {0}
  BY CadenceInTicks DEF LoopType
<1>1. PICK q \in Nat, r \in 0 .. (MediumTicks - 1) :
        ticks = q * MediumTicks + r /\ SinceMedium(r)
  BY DEF StorageInv
<1> DEFINE a == AgeBound(r)
<1>2. a \in Nat /\ Slack <= a
  BY <1>0, <1>1, BoundType
<1>3. /\ storageAge + untilDue <= a
      /\ storageAge <= a + reloads * MaxReload
      /\ pc = "end" => storageAge + MaxInventory <= a
  BY <1>1 DEF SinceMedium
<1>4. ASSUME ticks' = ticks,
             storageAge' + untilDue' <= a,
             storageAge' <= a + reloads' * MaxReload,
             pc' = "end" => storageAge' + MaxInventory <= a,
             pc' = "service" => storageAge' = 0,
             pc' = "llm" => storageAge' <= MaxService + asked' * Timeout,
             mode' = "once" /\ pc' = "wait" => ticks' = 0
      PROVE  StorageInv'
  <2>1. SinceMedium(r)'
    BY <1>4 DEF SinceMedium, AgeBound, Slack, Busy, Reloading
  <2> QED
    BY <1>1, <1>4, <2>1 DEF StorageInv
<1>5. ASSUME UNCHANGED <<mode, pc, ticks, asked, reloads, untilDue, storageAge>>
      PROVE  StorageInv'
  BY <1>5 DEF StorageInv, SinceMedium, AgeBound, Slack, Busy, Reloading
<1> HIDE DEF a
<1>6. /\ asked * Timeout \in Nat /\ asked * Timeout <= Endpoints * Timeout
      /\ (asked + 1) * Timeout = asked * Timeout + Timeout
      /\ reloads * MaxReload \in Nat
      /\ (reloads + 1) * MaxReload = reloads * MaxReload + MaxReload
  BY <1>0, SlackType, Products
<1>7. mode = "once" /\ pc = "wait" => ticks = 0
  BY DEF StorageInv
<1>8. CASE Sleep
  <2>1. /\ pc = "wait" /\ pc' = "wait" /\ mode' = mode /\ ticks' = ticks
        /\ reloads' = reloads /\ untilDue > 0
        /\ untilDue' = untilDue - 1 /\ storageAge' = storageAge + 1
    BY <1>8 DEF Sleep, Elapse, signalVars
  <2>2. storageAge' + untilDue' <= a /\ storageAge' <= a + reloads' * MaxReload
    BY <1>0, <1>2, <1>3, <1>6, <2>1
  <2> QED
    BY <1>4, <1>7, <2>1, <2>2
<1>9. CASE Hangup
  BY <1>5, <1>9 DEF Hangup, timeVars
<1>10. CASE HardwareChanges
  BY <1>5, <1>10 DEF HardwareChanges, timeVars, signalVars
<1>11. ASSUME NEW t \in 0 .. MaxInventory, EndTick(t)
       PROVE  StorageInv'
  <2>1. /\ pc \in {"end", "llm"} /\ pc' \in {"wait", "done"} /\ ticks' = ticks
        /\ reloads' = reloads /\ mode' = mode
        /\ untilDue' = untilDue - t /\ storageAge' = storageAge + t
        /\ mode = "once" => pc' = "done"
    BY <1>11 DEF EndTick, Elapse, signalVars
  <2>2. storageAge + MaxInventory <= a
    <3>1. CASE pc = "end"
      BY <1>3, <3>1
    <3>2. CASE pc = "llm"
      <4>1. storageAge <= MaxService + asked * Timeout
        BY <3>2 DEF StorageInv
      <4> QED
        BY <1>0, <1>2, <1>6, <4>1, SlackType
    <3> QED
      BY <2>1, <3>1, <3>2
  <2>3. storageAge' + untilDue' <= a /\ storageAge' <= a + reloads' * MaxReload
    BY <1>0, <1>2, <1>3, <1>6, <2>1, <2>2, SlackType
  <2> QED
    BY <1>4, <2>1, <2>3
<1>12. ASSUME NEW t \in 0 .. Timeout, Ask(t)
       PROVE  StorageInv'
  <2>1. /\ asked < Endpoints /\ asked' = asked + 1 /\ reloads' = reloads
        /\ storageAge' = storageAge + t /\ untilDue' = untilDue - t
        /\ pc = "llm" /\ pc' = "llm" /\ ticks' = ticks
    BY <1>12 DEF Ask, Elapse, signalVars
  <2>2. storageAge <= MaxService + asked * Timeout
    BY <2>1 DEF StorageInv
  <2>3. storageAge' <= MaxService + asked' * Timeout
    BY <1>0, <1>6, <2>1, <2>2, SlackType
  <2>4. asked' * Timeout \in Nat /\ asked' * Timeout <= Endpoints * Timeout
    BY <1>0, <2>1, SlackType, Products
  <2>5. storageAge' + untilDue' <= a /\ storageAge' <= a + reloads' * MaxReload
    BY <1>0, <1>2, <1>3, <1>6, <2>1, <2>3, <2>4, SlackType
  <2> QED
    BY <1>4, <2>1, <2>3, <2>5
<1>13. ASSUME NEW t \in 0 .. MaxService, Services(t)
       PROVE  StorageInv'
  <2>1. /\ asked' = asked /\ reloads' = reloads
        /\ storageAge' = storageAge + t /\ untilDue' = untilDue - t
        /\ pc = "service" /\ pc' = "llm" /\ ticks' = ticks
    BY <1>13 DEF Services, Elapse, signalVars
  <2>2. storageAge = 0
    BY <2>1 DEF StorageInv
  <2>3. storageAge' <= MaxService + asked' * Timeout
    BY <1>0, <1>6, <2>1, <2>2, SlackType
  <2>4. storageAge' + untilDue' <= a /\ storageAge' <= a + reloads' * MaxReload
    BY <1>0, <1>2, <1>3, <1>6, <2>1, <2>2, SlackType
  <2> QED
    BY <1>4, <2>1, <2>3, <2>4
<1>14. ASSUME NEW c \in Configs, NEW fault \in Faults,
              NEW t \in 0 .. MaxReload, Reload(c, fault, t)
       PROVE  StorageInv'
  <2>1. /\ pc = "wait" /\ pc' = "wait" /\ mode' = mode /\ ticks' = ticks
        /\ reloads' = reloads + 1
        /\ untilDue' = untilDue - t /\ storageAge' = storageAge + t
    BY <1>14 DEF Reload, Elapse
  <2>2. reloads' * MaxReload = reloads * MaxReload + MaxReload
    BY <1>6, <2>1
  <2>3. storageAge' + untilDue' <= a /\ storageAge' <= a + reloads' * MaxReload
    BY <1>0, <1>2, <1>3, <1>6, <2>1, <2>2, SlackType
  <2> QED
    BY <1>4, <1>7, <2>1, <2>3
<1>15. ASSUME NEW t \in 0 .. MaxWork, Tick(t)
       PROVE  StorageInv'
  BY <1>15, StorageTick
<1>16. CASE UNCHANGED loopVars
  BY <1>5, <1>16 DEF loopVars, timeVars, signalVars
<1> QED
  BY <1>8, <1>9, <1>10, <1>11, <1>12, <1>13, <1>14, <1>15, <1>16 DEF LoopStep

(***************************************************************************)
(* Samples are replaced before they lapse, for every pair of cadences and  *)
(* every duration of the blocking work, if what stands between two hot     *)
(* publications fits into three intervals, and that together with the      *)
(* reloads of a medium cadence into two of those (main, valid_for of the   *)
(* hot and storage groups).                                                *)
(***************************************************************************)
THEOREM SamplesFresh ==
  ASSUME MaxWork + MaxInventory <= Interval,
         Slack + Reloading + MaxWork <= 3 * Interval,
         Slack + MediumTicks * Reloading + MaxWork <= 2 * Medium
  PROVE  Spec => []ValidUntilReplaced
<1>1. Init => StorageInv
  <2> SUFFICES ASSUME Init
               PROVE  StorageInv
    OBVIOUS
  <2>1. /\ ticks = 0 /\ storageAge = 0 /\ untilDue = 0 /\ pc = "wait"
        /\ reloads = 0
    BY DEF Init, LoopInit
  <2>2. 0 \in 0 .. (MediumTicks - 1) /\ 0 = 0 * MediumTicks + 0
    BY CadenceInTicks
  <2>3. AgeBound(0) \in Nat
    BY BoundType
  <2>4. SinceMedium(0)
    BY <2>1, <2>3, SlackType DEF SinceMedium
  <2> QED
    BY <2>1, <2>2, <2>4 DEF StorageInv
<1>2. TypeOK /\ StorageInv /\ [Next]_vars => StorageInv'
  BY Steps, StorageStep DEF TypeOK
<1>3. TypeOK /\ StorageInv /\ HotFresh => ValidUntilReplaced
  <2> SUFFICES ASSUME TypeOK, StorageInv, HotFresh, pc # "done"
               PROVE  /\ hotAge + MaxWork <= HotValidity
                      /\ storageAge + MaxWork <= StorageValidity
    BY DEF ValidUntilReplaced
  <2> DEFINE m == MediumTicks
             k == Interval + Reloading
  <2>1. /\ Medium \in Nat /\ m \in Nat \ {0} /\ storageAge \in Nat
        /\ reloads \in 0 .. MaxReloads /\ k \in Nat
        /\ (m - 1) * Interval <= Medium - 1
    BY CadenceAssumption, CadenceInTicks, SlackType DEF TypeOK, LoopType
  <2>2. PICK r \in 0 .. (m - 1) :
          storageAge <= AgeBound(r) + reloads * MaxReload
    BY DEF StorageInv, SinceMedium
  <2>3. /\ reloads * MaxReload \in Nat /\ reloads * MaxReload <= Reloading
    BY <2>1, SlackType, Products DEF Reloading
  <2>4. AgeBound(r) = Slack + r * k
    BY DEF AgeBound
  <2> HIDE DEF m, k
  <2>5. r * k <= (m - 1) * k /\ r * k \in Nat /\ (m - 1) * k \in Nat
    BY <2>1, <2>2, Products
  <2>6. (m - 1) * k + Reloading = (m - 1) * Interval + m * Reloading
    BY <2>1, SlackType DEF k
  <2>7. m * Reloading \in Nat /\ (m - 1) * Interval \in Nat
    BY <2>1, SlackType
  <2>8. Slack + m * Reloading + MaxWork <= 2 * Medium
    BY DEF m
  <2>9. storageAge + MaxWork <= 3 * Medium
    BY <2>1, <2>2, <2>3, <2>4, <2>5, <2>6, <2>7, <2>8, SlackType
  <2> QED
    BY <2>9 DEF HotFresh, StorageValidity
<1>4. Spec => []HotFresh
  BY HotSamplesFresh
<1> QED
  BY <1>1, <1>2, <1>3, <1>4, AgentTypes, PTL DEF Spec

-----------------------------------------------------------------------------
(* The ends of a run *)

(***************************************************************************)
(* The first tick is due for every group and leaves only services and      *)
(* endpoints.                                                              *)
(***************************************************************************)
CollectedInv ==
  /\ collected \subseteq Groups
  /\ ticks = 0 => pc = "wait"
  /\ ticks # 0 => {"hot", "storage"} \subseteq collected
  /\ ticks # 0 /\ pc # "service" => "service" \in collected
  /\ ticks # 0 /\ pc \notin {"service", "llm"} => "llm" \in collected

CompleteAtEnd == pc = "done" => collected = Groups

LEMMA CollectedStep == LoopType /\ CollectedInv /\ LoopStep => CollectedInv'
<1> SUFFICES ASSUME LoopType, CollectedInv, LoopStep
             PROVE  CollectedInv'
  OBVIOUS
<1> USE DEF CollectedInv
<1>1. ASSUME UNCHANGED <<pc, ticks, collected>>
      PROVE  CollectedInv'
  BY <1>1
<1>2. CASE Sleep \/ Hangup \/ HardwareChanges \/ UNCHANGED loopVars
  BY <1>1, <1>2 DEF Sleep, Hangup, HardwareChanges, loopVars
<1>3. ASSUME NEW t \in 0 .. MaxInventory, EndTick(t)
      PROVE  CollectedInv'
  BY <1>3 DEF EndTick, Groups
<1>4. ASSUME NEW t \in 0 .. Timeout, Ask(t)
      PROVE  CollectedInv'
  BY <1>4 DEF Ask
<1>5. ASSUME NEW t \in 0 .. MaxService, Services(t)
      PROVE  CollectedInv'
  BY <1>5 DEF Services, Groups
<1>6. ASSUME NEW c \in Configs, NEW fault \in Faults,
             NEW t \in 0 .. MaxReload, Reload(c, fault, t)
      PROVE  CollectedInv'
  BY <1>1, <1>6 DEF Reload
<1>7. ASSUME NEW t \in 0 .. MaxWork, Tick(t)
      PROVE  CollectedInv'
  <2>1. ticks' # 0 /\ (ticks = 0 => ticks' = 1)
    BY <1>7, CadenceInTicks DEF Tick, NextTick, LoopType
  <2>2. /\ collected \subseteq collected' /\ collected' \subseteq Groups
        /\ "hot" \in collected'
    BY <1>7 DEF Tick, Groups
  <2>3. CASE ticks = 0
    <3>1. MediumDue(ticks') /\ ProbesDue(ticks')
      BY <2>1, <2>3 DEF MediumDue, ProbesDue
    <3>2. "storage" \in collected' /\ pc' = "service"
      BY <1>7, <3>1 DEF Tick
    <3> QED
      BY <2>1, <2>2, <3>2
  <2>4. CASE ticks # 0
    <3>1. pc = "wait"
      BY <1>7 DEF Tick
    <3> QED
      BY <2>1, <2>2, <2>4, <3>1
  <2> QED
    BY <2>3, <2>4
<1> QED
  BY <1>2, <1>3, <1>4, <1>5, <1>6, <1>7 DEF LoopStep

(***************************************************************************)
(* The safety half of RunsComplete: a one-shot or discovery run, however   *)
(* short, does not end before every group has been collected (main, the    *)
(* exception of the first tick from the cadences).                         *)
(***************************************************************************)
THEOREM NothingLeftOut == Spec => []CompleteAtEnd
<1>1. Init => CollectedInv
  BY DEF Init, LoopInit, CollectedInv
<1>2. TypeOK /\ CollectedInv /\ [Next]_vars => CollectedInv'
  BY Steps, CollectedStep DEF TypeOK
<1>3. CollectedInv => CompleteAtEnd
  BY DEF CollectedInv, CompleteAtEnd, Groups
<1> QED
  BY <1>1, <1>2, <1>3, AgentTypes, PTL DEF Spec

-----------------------------------------------------------------------------
(* The Xid monitor *)

(***************************************************************************)
(* The Xids reported and those in the channel, entry by entry.             *)
(***************************************************************************)
InOrder(g) ==
  /\ Len(reported[g]) + Len(eventsSent[g]) = taken[g]
  /\ \A i \in 1 .. Len(reported[g]) : reported[g][i] = i
  /\ \A i \in 1 .. Len(eventsSent[g]) : eventsSent[g][i] = Len(reported[g]) + i

XidInv == \A g \in Gpus : InOrder(g)

(***************************************************************************)
(* Workers and collector keep the order: a worker appends the next number, *)
(* a drain moves all that was sent behind what was reported.               *)
(***************************************************************************)
LEMMA XidInvStep == XidType /\ XidInv /\ XidStep => XidInv'
<1> SUFFICES ASSUME XidType, XidInv, XidStep, NEW h \in Gpus
             PROVE  InOrder(h)'
  BY DEF XidInv
<1>0. /\ taken[h] \in Nat /\ reported[h] \in Seq(Nat) /\ eventsSent[h] \in Seq(Nat)
      /\ InOrder(h)
  BY DEF XidType, XidInv
<1>1. ASSUME NEW g \in Gpus, Wait(g), UNCHANGED pointVars
      PROVE  InOrder(h)'
  <2>1. CASE g = h
    <3>1. /\ taken'[h] = taken[h] + 1 /\ reported'[h] = reported[h]
          /\ eventsSent'[h] = Append(eventsSent[h], taken[h] + 1)
      BY <1>1, <2>1 DEF Wait, XidType, pointVars
    <3> DEFINE r == reported[h]
               e == eventsSent[h]
               e2 == eventsSent'[h]
    <3>2. /\ r \in Seq(Nat) /\ e \in Seq(Nat) /\ Len(r) \in Nat /\ Len(e) \in Nat
          /\ taken[h] = Len(r) + Len(e)
          /\ \A i \in 1 .. Len(r) : r[i] = i
          /\ \A i \in 1 .. Len(e) : e[i] = Len(r) + i
      BY <1>0, LenProperties DEF InOrder
    <3>3. e2 = Append(e, Len(r) + Len(e) + 1)
      BY <3>1, <3>2
    <3>4. taken'[h] = Len(r) + Len(e) + 1
      BY <3>1, <3>2
    <3>5. InOrder(h)' = /\ Len(r) + Len(e2) = taken'[h]
                        /\ \A i \in 1 .. Len(r) : r[i] = i
                        /\ \A i \in 1 .. Len(e2) : e2[i] = Len(r) + i
      BY <3>1 DEF InOrder
    <3> HIDE DEF r, e, e2
    <3>6. /\ Len(e2) = Len(e) + 1
          /\ \A i \in 1 .. Len(e) + 1 : e2[i] = Len(r) + i
      BY <3>2, <3>3, OrderedAppend
    <3> QED
      BY <3>2, <3>4, <3>5, <3>6
  <2>2. CASE g # h
    <3>1. /\ taken'[h] = taken[h] /\ reported'[h] = reported[h]
          /\ eventsSent'[h] = eventsSent[h]
      BY <1>1, <2>2 DEF Wait, XidType, pointVars
    <3> QED
      BY <1>0, <3>1 DEF InOrder
  <2> QED
    BY <2>1, <2>2
<1>2. CASE CollectXids
  <2>1. /\ taken'[h] = taken[h] /\ eventsSent'[h] = <<>>
        /\ reported'[h] = reported[h] \o eventsSent[h]
    BY <1>2 DEF CollectXids, Drained, EventPoints
  <2> DEFINE r == reported[h]
             e == eventsSent[h]
             r2 == reported'[h]
  <2>2. /\ r \in Seq(Nat) /\ e \in Seq(Nat) /\ Len(r) \in Nat /\ Len(e) \in Nat
        /\ taken[h] = Len(r) + Len(e)
        /\ \A i \in 1 .. Len(r) : r[i] = i
        /\ \A i \in 1 .. Len(e) : e[i] = Len(r) + i
    BY <1>0, LenProperties DEF InOrder
  <2>3. r2 = r \o e /\ taken'[h] = Len(r) + Len(e)
    BY <2>1, <2>2
  <2>4. InOrder(h)' = /\ Len(r2) + Len(<<>>) = taken'[h]
                      /\ \A i \in 1 .. Len(r2) : r2[i] = i
                      /\ \A i \in 1 .. Len(<<>>) : <<>>[i] = Len(r2) + i
    BY <2>1 DEF InOrder
  <2> HIDE DEF r, e, r2
  <2>5. /\ Len(r2) = Len(r) + Len(e)
        /\ \A i \in 1 .. Len(r) + Len(e) : r2[i] = i
    BY <2>2, <2>3, Concat, OrderedConcat
  <2> QED
    BY <2>2, <2>3, <2>4, <2>5
<1>3. CASE UNCHANGED <<taken, eventsSent, reported>>
  BY <1>0, <1>3 DEF InOrder
<1>4. \/ \E g \in Gpus : Wait(g) /\ UNCHANGED pointVars
      \/ CollectXids
      \/ UNCHANGED <<taken, eventsSent, reported>>
  BY DEF XidStep, WorkerStep, StartSilently, StartUnsupported, StartReady, Raise,
         WaitFails, SkipXids, xidVars, monitorVars, channel, pointVars
<1> QED
  BY <1>1, <1>2, <1>3, <1>4

LEMMA XidInvariant == Spec => [](TypeOK /\ XidInv)
<1>1. Init => XidInv
  BY DEF Init, XidInit, XidInv, InOrder
<1>2. TypeOK /\ XidInv /\ [Next]_vars => XidInv'
  BY Steps, XidInvStep DEF TypeOK
<1> QED
  BY <1>1, <1>2, AgentTypes, PTL DEF Spec

(***************************************************************************)
(* Each Xid that a worker got becomes one point, in the order in which the *)
(* driver raised them (XidMonitor::collect, start_xid_workers).            *)
(***************************************************************************)
THEOREM XidsOnce == Spec => []XidsInOrderOnce
<1>1. TypeOK /\ XidInv => XidsInOrderOnce
  <2> SUFFICES ASSUME TypeOK, XidInv, NEW g \in Gpus
               PROVE  reported[g] \o eventsSent[g] = [i \in 1 .. taken[g] |-> i]
    BY DEF XidsInOrderOnce
  <2>1. /\ taken[g] \in Nat /\ reported[g] \in Seq(Nat) /\ eventsSent[g] \in Seq(Nat)
        /\ InOrder(g)
    BY DEF TypeOK, XidType, XidInv
  <2> DEFINE r == reported[g]
             e == eventsSent[g]
             n == taken[g]
  <2>2. /\ r \in Seq(Nat) /\ e \in Seq(Nat)
        /\ Len(r) + Len(e) = n
        /\ \A i \in 1 .. Len(r) : r[i] = i
        /\ \A i \in 1 .. Len(e) : e[i] = Len(r) + i
    BY <2>1 DEF InOrder
  <2> HIDE DEF r, e, n
  <2>3. r \o e \in Seq(Nat) /\ Len(r \o e) = n
    BY <2>2, Concat
  <2>4. \A i \in 1 .. n : (r \o e)[i] = i
    BY <2>2, OrderedConcat
  <2>5. r \o e = [i \in 1 .. n |-> i]
    BY <2>3, <2>4, IsIdentity
  <2> QED
    BY <2>5 DEF r, e, n
<1> QED
  BY <1>1, XidInvariant, PTL

(***************************************************************************)
(* A measured 0 for a GPU stands beside no event of it, and comes only     *)
(* when everything its worker sent has been reported (XidMonitor::collect).*)
(***************************************************************************)
THEOREM ZeroMeansQuiet == Spec => ZeroOnlyWhenQuiet
<1> DEFINE A == zeros' # zeros \/ reported' # reported =>
                  \A g \in zeros' : reported'[g] = reported[g]
                                    /\ Len(reported[g]) = taken[g]
<1>1. TypeOK /\ XidInv /\ [Next]_vars => [A]_xidVars
  <2> SUFFICES ASSUME TypeOK, XidInv, [Next]_vars,
                      zeros' # zeros \/ reported' # reported, NEW g \in zeros'
               PROVE  reported'[g] = reported[g] /\ Len(reported[g]) = taken[g]
    OBVIOUS
  <2>1. CollectXids \/ SkipXids
    BY Steps DEF XidStep, WorkerStep, pointVars, xidVars
  <2>2. CollectXids
    BY <2>1 DEF SkipXids
  <2>3. g \in Gpus /\ eventsSent[g] = <<>>
    BY <2>2 DEF CollectXids, Quiet, TypeOK, XidType
  <2>4. reported'[g] = reported[g] \o <<>>
    BY <2>2, <2>3 DEF CollectXids, EventPoints
  <2>5. reported[g] \in Seq(Nat) /\ taken[g] \in Nat /\ InOrder(g)
    BY <2>3 DEF TypeOK, XidType, XidInv
  <2> QED
    BY <2>3, <2>4, <2>5 DEF InOrder
<1> QED
  BY <1>1, XidInvariant, PTL DEF Spec, ZeroOnlyWhenQuiet
=============================================================================
