-------------------------- MODULE CounterBaselines --------------------------
(***************************************************************************)
(* The previous values that the Linux collectors and the probes keep, to   *)
(* turn cumulative counters into the deltas they publish.  The collectors  *)
(* share the subtraction and differ in what a failed or missing read does  *)
(* to the previous values: see the actions.                                *)
(*                                                                         *)
(* A counter counts events: `real` of them took place, `counter` is what   *)
(* the kernel or the server says.  It may restart from 0 (a unit, a server *)
(* or a driver restarts) and be absent meanwhile.                          *)
(***************************************************************************)
EXTENDS Integers, FiniteSets

CONSTANTS
  Cpu,        \* context switches, /proc/stat
  Vmstat,     \* fields of /proc/vmstat
  Network,    \* interfaces: byte, packet and error counters of /proc/net/dev
  Carrier,    \* interfaces: carrier_changes, a sysfs file of its own
  Disk,       \* devices of /sys/block
  Cgroup,     \* memory events of a service's cgroup
  Llm,        \* token totals of an endpoint
  Starts,     \* values a counter may have when the agent starts
  MaxSteps    \* bound: events, restarts, disappearances and misreadings

BootCounters == Cpu \union Vmstat
RestartingCounters == Network \union Carrier \union Disk \union Cgroup \union Llm
Counters == BootCounters \union RestartingCounters

ASSUME CountersAssumption ==
  /\ BootCounters \cap RestartingCounters = {}
  /\ Carrier \cap (Network \union Disk \union Cgroup \union Llm) = {}
  /\ Llm \cap (Network \union Disk \union Cgroup) = {}
  /\ Disk \cap (Network \union Cgroup) = {}
  /\ Network \cap Cgroup = {}
  /\ Cpu \cap Vmstat = {}
  /\ Starts \subseteq Nat
  /\ MaxSteps \in Nat

VARIABLES
  present,     \* counters that the kernel or the server offers
  counter,
  known,       \* counters with a previous value
  baseline,    \* and what it is
  deltas,      \* counters whose delta the last collection published
  \* history
  steps,       \* for the bound
  real,        \* events that took place
  reported,    \* sum of the deltas published
  last,        \* `real` at the last reading taken as a baseline
  restarted,   \* restarted since that reading
  misread      \* counters ever taken as 0 because they could not be read

worldVars == <<present, counter, steps, real, restarted>>
collectorVars == <<known, baseline, deltas, reported, last, misread>>
vars == <<worldVars, collectorVars>>

TypeOK ==
  /\ present \in SUBSET Counters
  /\ counter \in [Counters -> Nat]
  /\ known \in SUBSET Counters
  /\ baseline \in [Counters -> Nat]
  /\ deltas \in SUBSET Counters
  /\ steps \in Nat
  /\ real \in [Counters -> Nat]
  /\ reported \in [Counters -> Nat]
  /\ last \in [Counters -> Nat]
  /\ restarted \in SUBSET Counters
  /\ misread \in SUBSET Counters

\* A kernel may lack fields of /proc/vmstat.
Init ==
  /\ \E missing \in SUBSET Vmstat : present = Counters \ missing
  /\ counter \in [Counters -> Starts]
  /\ known = {}
  /\ baseline = [c \in Counters |-> 0]
  /\ deltas = {}
  /\ steps = 0
  /\ real = [c \in Counters |-> 0]
  /\ reported = [c \in Counters |-> 0]
  /\ last = [c \in Counters |-> 0]
  /\ restarted = {}
  /\ misread = {}

-----------------------------------------------------------------------------
(* The counters *)

Happens(c) ==
  /\ c \in present
  /\ steps < MaxSteps
  /\ steps' = steps + 1
  /\ counter' = [counter EXCEPT ![c] = @ + 1]
  /\ real' = [real EXCEPT ![c] = @ + 1]
  /\ UNCHANGED <<present, restarted, collectorVars>>

Restarts(c) ==
  /\ steps < MaxSteps
  /\ steps' = steps + 1
  /\ present' = present \union {c}
  /\ counter' = [counter EXCEPT ![c] = 0]
  /\ restarted' = restarted \union {c}
  /\ UNCHANGED <<real, collectorVars>>

Vanishes(c) ==
  /\ c \in present
  /\ steps < MaxSteps
  /\ steps' = steps + 1
  /\ present' = present \ {c}
  /\ UNCHANGED <<counter, real, restarted, collectorVars>>

-----------------------------------------------------------------------------
(* Collection *)

Wrapping(v, old) == v - old    \* mutant of Grown

\* saturating_sub
Grown(v, old) == IF v >= old THEN v - old ELSE 0

OnlyFirst(got, value) ==    \* mutant of Remembered
  [c \in Counters |-> IF c \in got \ known THEN value[c] ELSE baseline[c]]

Remembered(got, value) ==
  [c \in Counters |-> IF c \in got THEN value[c] ELSE baseline[c]]

(* The counters in `got` are taken as `value`; `kept` are the others that  *)
(* keep their previous value.  A counter without a previous value is stale *)
(* (BASELINE_INITIALIZING), as is one of `stale`.                          *)
Take(got, value, kept, stale) ==
  LET published == (got \cap known) \ stale IN
  /\ deltas' = published
  /\ reported' = [c \in Counters |->
                    IF c \in published
                      THEN reported[c] + Grown(value[c], baseline[c])
                      ELSE reported[c]]
  /\ baseline' = Remembered(got, value)
  /\ known' = got \union kept
  /\ last' = [c \in Counters |-> IF c \in got THEN real[c] ELSE last[c]]
  /\ restarted' = restarted \ got
  /\ UNCHANGED <<present, counter, real>>

\* All that was taken has been read.
AllRead == UNCHANGED <<steps, misread>>

\* unwrap_or(0) stands for what has not been read.
ZeroUnless(read) ==
  [c \in Counters |-> IF c \in (Cpu \union Carrier) \ read THEN 0 ELSE counter[c]]

TakenAsZero(unread) ==
  /\ unread # {} => steps < MaxSteps
  /\ steps' = IF unread = {} THEN steps ELSE steps + 1
  /\ misread' = misread \union unread

\* A source that cannot be read publishes no delta and keeps what it has.
ReadFails ==
  /\ deltas' = {}
  /\ UNCHANGED <<worldVars, known, baseline, reported, last, misread>>

\* collect_cpu: without its cpu row the read has failed; a ctxt row that is
\* missing or cannot be parsed counts as 0.
CollectCpu(read) ==
  /\ Take(Cpu, ZeroUnless(read), known \ Cpu, {})
  /\ TakenAsZero(Cpu \ read)

\* collect_vmstat: the map is replaced by the fields the file has.  (Of
\* pages reclaimed, a sum of two fields, a missing one counts as 0.)
CollectVmstat ==
  /\ Take(Vmstat \cap present, counter, known \ Vmstat, {})
  /\ AllRead

\* collect_network: the map is replaced by the interfaces the file has, each
\* with a carrier_changes of 0 when that cannot be read.
CollectNetwork(read) ==
  /\ Take((Network \union Carrier) \cap present, ZeroUnless(read),
          known \ (Network \union Carrier), {})
  /\ TakenAsZero((Carrier \cap present) \ read)

ReadableOrZero(read, c) == IF c \in read THEN counter[c] ELSE 0

DevicesZeroed(read) ==    \* mutant of Devices: an unreadable one counts as 0
  [got |-> Disk \cap present, value |-> [c \in Counters |-> ReadableOrZero(read, c)]]

\* collect_block: a device whose stat cannot be read is skipped.
Devices(read) == [got |-> Disk \cap present \cap read, value |-> counter]

\* The map is replaced by the devices read.
CollectBlock(read) ==
  /\ Take(Devices(read).got, Devices(read).value, known \ Disk, {})
  /\ AllRead

\* collect_cgroup on one unit: an insertion for each event the files have.
CollectCgroup(read) ==
  /\ Take(Cgroup \cap present \cap read, counter,
          known \ (Cgroup \cap present \cap read), {})
  /\ AllRead

\* LlmProbe::collect: an insertion; a total below the previous one is a new
\* baseline.
CollectLlm(read) ==
  LET got == Llm \cap present \cap read IN
  /\ Take(got, counter, known \ got, {c \in got : counter[c] < baseline[c]})
  /\ AllRead

\* SIGHUP builds a new LlmProbe without baselines.
ReloadLlm ==
  /\ known' = known \ Llm
  /\ deltas' = {}
  /\ UNCHANGED <<worldVars, baseline, reported, last, misread>>

Next ==
  \/ \E c \in Counters : Happens(c)
  \/ \E c \in RestartingCounters : Restarts(c)
  \/ \E c \in RestartingCounters : Vanishes(c)
  \/ ReadFails
  \/ \E read \in SUBSET Cpu : CollectCpu(read)
  \/ CollectVmstat
  \/ \E read \in SUBSET Carrier : CollectNetwork(read)
  \/ \E read \in SUBSET Disk : CollectBlock(read)
  \/ \E read \in SUBSET Cgroup : CollectCgroup(read)
  \/ \E read \in SUBSET Llm : CollectLlm(read)
  \/ ReloadLlm

Spec == Init /\ [][Next]_vars

-----------------------------------------------------------------------------
(* Properties *)

\* What the next delta of c would be.
Pending(c) == IF c \in known THEN Grown(counter[c], baseline[c]) ELSE 0

(***************************************************************************)
(* Deltas never report more than happened: over any sequence of failed     *)
(* reads, restarts, disappearances and reloads, the deltas of a counter,   *)
(* with the next one, add up to no more than the events that took place.   *)
(* (Unless it was once taken as 0 because it could not be read: the next   *)
(* reading then reports the whole count since boot.)                       *)
(***************************************************************************)
NoInventedEvents ==
  \A c \in Counters \ misread : reported[c] + Pending(c) <= real[c]

(***************************************************************************)
(* A delta covers everything since the last reading that was published or  *)
(* taken as a baseline, however many reads failed in between, unless the   *)
(* counter restarted since or was once taken as 0 unread.                  *)
(***************************************************************************)
DeltasComplete ==
  [][\A c \in deltas' \ (misread' \union restarted) :
        collectorVars' # collectorVars
          => reported'[c] - reported[c] = real[c] - last[c]]_vars
=============================================================================
