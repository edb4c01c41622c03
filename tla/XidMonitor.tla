----------------------------- MODULE XidMonitor -----------------------------
(***************************************************************************)
(* XidMonitor of spark-nvidia: one worker thread per GPU waits for         *)
(* critical Xid events and sends what it learns through an unbounded       *)
(* channel; the collector drains the channel once per tick and turns it    *)
(* into points.  The Xids of a GPU are numbered in the order the driver    *)
(* raised them for the worker's event set.                                 *)
(*                                                                         *)
(* The channel appears as the messages it holds of each kind and GPU: a    *)
(* drain takes them all, and only the order of a GPU's events shows in     *)
(* what it returns.                                                        *)
(***************************************************************************)
EXTENDS Integers, Sequences

CONSTANTS
  Gpus,      \* a GPU stands for the uuid its worker read (or "index-N")
  MaxXids    \* bound: Xids raised per GPU

ASSUME XidAssumption == MaxXids \in Nat

VARIABLES
  nvml,         \* NvidiaCollector.nvml is Some: decided once, at start
  worker,       \* "starting", "watching" (in the wait loop), "ended"
  raised,       \* Xids the driver has queued for the worker's event set
  taken,        \* Xids the worker has got from it, hence sent
  readySent,    \* Ready messages in the channel, by GPU
  unsupportedSent, \* Unsupported messages in the channel, by GPU
  eventsSent,   \* Event messages in the channel, a sequence per GPU
  ready,        \* XidMonitor.ready
  unsupported,  \* XidMonitor.unsupported
  zeros,        \* GPUs for which collect last returned a measured 0
  reported      \* history: the Xids of each GPU in the order of their points

channel == <<readySent, unsupportedSent, eventsSent>>
monitorVars == <<worker, raised, taken, channel, ready, unsupported>>
pointVars == <<zeros, reported>>
xidVars == <<nvml, monitorVars, pointVars>>

XidType ==
  /\ nvml \in BOOLEAN
  /\ worker \in [Gpus -> {"starting", "watching", "ended"}]
  /\ raised \in [Gpus -> 0 .. MaxXids]
  /\ taken \in [Gpus -> Nat]
  /\ readySent \in SUBSET Gpus /\ unsupportedSent \in SUBSET Gpus
  /\ eventsSent \in [Gpus -> Seq(Nat)]
  /\ ready \in SUBSET Gpus
  /\ unsupported \in SUBSET Gpus
  /\ zeros \in SUBSET Gpus
  /\ reported \in [Gpus -> Seq(Nat)]

\* NvidiaCollector::new: NVML loads or not; XidMonitor::start spawns the
\* workers, which load NVML on their own.
XidInit ==
  /\ nvml \in BOOLEAN
  /\ worker = [g \in Gpus |-> "starting"]
  /\ raised = [g \in Gpus |-> 0]
  /\ taken = [g \in Gpus |-> 0]
  /\ readySent = {} /\ unsupportedSent = {}
  /\ eventsSent = [g \in Gpus |-> <<>>]
  /\ ready = {} /\ unsupported = {}
  /\ zeros = {}
  /\ reported = [g \in Gpus |-> <<>>]

-----------------------------------------------------------------------------
(* Workers *)

Becomes(g, state) == worker' = [worker EXCEPT ![g] = state]

\* Without NVML or the device the thread returns and nobody hears of it.
StartSilently(g) ==
  /\ worker[g] = "starting"
  /\ Becomes(g, "ended")
  /\ UNCHANGED <<raised, taken, channel, ready, unsupported>>

\* Xids cannot be had from this device: not offered, or not registered.
StartUnsupported(g) ==
  /\ worker[g] = "starting"
  /\ Becomes(g, "ended")
  /\ unsupportedSent' = unsupportedSent \union {g}
  /\ UNCHANGED <<raised, taken, readySent, eventsSent, ready, unsupported>>

StartReady(g) ==
  /\ worker[g] = "starting"
  /\ Becomes(g, "watching")
  /\ readySent' = readySent \union {g}
  /\ UNCHANGED <<raised, taken, unsupportedSent, eventsSent, ready, unsupported>>

\* The driver raises an Xid; without an event set nobody would keep it.
Raise(g) ==
  /\ worker[g] = "watching"
  /\ raised[g] < MaxXids
  /\ raised' = [raised EXCEPT ![g] = @ + 1]
  /\ UNCHANGED <<worker, taken, channel, ready, unsupported>>

\* set.wait returns the oldest event.  (Timeouts change nothing; send fails
\* only when the collector is gone.)
Wait(g) ==
  /\ worker[g] = "watching"
  /\ taken[g] < raised[g]
  /\ taken' = [taken EXCEPT ![g] = @ + 1]
  /\ eventsSent' = [eventsSent EXCEPT ![g] = Append(@, taken[g] + 1)]
  /\ UNCHANGED <<worker, raised, readySent, unsupportedSent, ready, unsupported>>

\* set.wait fails otherwise: the thread ends; the GPU stays in `ready`.
WaitFails(g) ==
  /\ worker[g] = "watching"
  /\ Becomes(g, "ended")
  /\ UNCHANGED <<raised, taken, channel, ready, unsupported>>

WorkerStep(g) ==
  /\ \/ StartSilently(g) \/ StartUnsupported(g) \/ StartReady(g)
     \/ Raise(g) \/ Wait(g) \/ WaitFails(g)
  /\ UNCHANGED <<nvml, pointVars>>

-----------------------------------------------------------------------------
(* Collector *)

KeptChannel == UNCHANGED channel            \* mutant of Drained

\* receiver.try_iter until it is empty.
Drained ==
  /\ readySent' = {} /\ unsupportedSent' = {}
  /\ eventsSent' = [g \in Gpus |-> <<>>]

\* mutant of Quiet: only the `ready` set decides
AllReady == ready'

\* A ready GPU without an event in this drain gets a measured 0.
Quiet == {g \in ready' : eventsSent[g] = <<>>}

LatestOnly(g) ==    \* mutant of EventPoints: one point per GPU and drain
  IF eventsSent[g] = <<>> THEN <<>> ELSE <<eventsSent[g][Len(eventsSent[g])]>>

\* One counter_delta of 1 per event message, in the order of the channel.
EventPoints(g) == eventsSent[g]

\* XidMonitor::collect.  (The GPUs of `unsupported` get an unsupported point.)
CollectXids ==
  /\ nvml
  /\ Drained
  /\ ready' = ready \union readySent
  /\ unsupported' = unsupported \union unsupportedSent
  /\ zeros' = Quiet
  /\ reported' = [g \in Gpus |-> reported[g] \o EventPoints(g)]
  /\ UNCHANGED <<nvml, worker, raised, taken>>

\* NvidiaCollector::collect returns before it asks the monitor: no NVML
\* (nvidia-smi is used instead), or device_count fails.
SkipXids ==
  /\ zeros' = {}
  /\ UNCHANGED <<nvml, monitorVars, reported>>

-----------------------------------------------------------------------------
(* Properties *)

(***************************************************************************)
(* Every Xid the worker got becomes one point, in order: what was reported *)
(* is 1, 2, 3, ..., and what is missing up to the last one taken is in the *)
(* channel, in that order.                                                 *)
(***************************************************************************)
XidsInOrderOnce ==
  \A g \in Gpus : reported[g] \o eventsSent[g] = [i \in 1 .. taken[g] |-> i]

(***************************************************************************)
(* A step that reports a measured 0 for a GPU reports no event of it, and  *)
(* leaves none that was sent before.                                       *)
(***************************************************************************)
ZeroOnlyWhenQuiet ==
  [][zeros' # zeros \/ reported' # reported =>
       \A g \in zeros' : reported'[g] = reported[g]
                         /\ Len(reported[g]) = taken[g]]_xidVars
=============================================================================
