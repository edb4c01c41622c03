-------------------------------- MODULE Agent --------------------------------
(***************************************************************************)
(* The main loop together with the Xid workers it drains once per tick,    *)
(* and the health events it raises for what it finds.                      *)
(***************************************************************************)
EXTENDS AgentLoop, XidMonitor

VARIABLE alarms    \* NVIDIA_XID events raised, per GPU

vars == <<loopVars, xidVars, alarms>>

TypeOK == LoopType /\ XidType /\ alarms \in [Gpus -> Nat]

Init == LoopInit /\ XidInit /\ alarms = [g \in Gpus |-> 0]

\* An event for each Xid point with a positive value.
RaiseAlarms ==
  alarms' = [g \in Gpus |-> alarms[g] + Len(reported'[g]) - Len(reported[g])]

\* A tick whose NVML collection gets as far as the Xid monitor.
CollectingTick(t) == Tick(t) /\ CollectXids /\ RaiseAlarms

OtherTick(t) == Tick(t) /\ SkipXids /\ UNCHANGED alarms

\* What the loop does by itself, whatever signals come; in each state one of
\* these is next.
Advance ==
  \/ /\ \/ Sleep
        \/ \E t \in 0 .. MaxService : Services(t)
        \/ \E t \in 0 .. Timeout : Ask(t)
        \/ \E t \in 0 .. MaxInventory : EndTick(t)
     /\ UNCHANGED <<xidVars, alarms>>
  \/ \E t \in 0 .. MaxWork : CollectingTick(t) \/ OtherTick(t)

\* What reaches it from outside.
Disturbance ==
  /\ \/ Hangup \/ HardwareChanges \/ Stopped
     \/ \E c \in Configs, fault \in Faults, t \in 0 .. MaxReload :
          Reload(c, fault, t)
  /\ UNCHANGED <<xidVars, alarms>>

Next ==
  \/ Advance
  \/ Disturbance
  \/ pc # "done" /\ UNCHANGED <<loopVars, alarms>>
     /\ \E g \in Gpus : WorkerStep(g)

Spec == Init /\ [][Next]_vars

\* The loop goes on: a request returns within its timeout, systemctl and the
\* system calls return.  NVML answers device_count some day.
LoopFairness ==
  /\ WF_vars(Advance)
  /\ SF_vars(\E t \in 0 .. MaxWork : CollectingTick(t))

\* Worker threads run: wait returns an event that is there.
WorkerFairness ==
  \A g \in Gpus : WF_vars(pc # "done" /\ Wait(g)
                          /\ UNCHANGED <<nvml, pointVars, loopVars, alarms>>)

FairSpec == Spec /\ LoopFairness /\ WorkerFairness

-----------------------------------------------------------------------------
(* Properties *)

(***************************************************************************)
(* With NVML there at start, the health events raised for a GPU catch up   *)
(* with the Xids its driver raised, again and again for as long as the loop*)
(* runs and the worker does not end.                                       *)
(***************************************************************************)
XidsReported ==
  \A g \in Gpus :
    []<>(nvml => alarms[g] = raised[g] \/ worker[g] = "ended" \/ pc = "done")
=============================================================================
