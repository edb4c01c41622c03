------------------------------ MODULE AgentLoop ------------------------------
(***************************************************************************)
(* The main loop of spark-agent: a ticker, collection groups of different  *)
(* cadence, LLM endpoints asked one after another inside the tick, SIGHUP, *)
(* the inventory that is published on change and on slow ticks, and the    *)
(* two ways the loop ends.  Time is relative: how long until the next      *)
(* deadline, how old the last sample.                                      *)
(***************************************************************************)
EXTENDS Integers

CONSTANTS
  Interval, Medium, Slow,  \* --interval-seconds and the two slower cadences
  Endpoints,               \* number of [[llm]] endpoints
  Timeout,                 \* request timeout of an endpoint (3 s in the code)
  (* how long blocking work may take that has no timeout *)
  MaxWork,                 \* collection up to the publication of a tick
  MaxService,              \* systemctl for all the services
  MaxInventory,            \* the inventory of a slow tick
  MaxReload,               \* loading a configuration on SIGHUP
  MaxReloads,              \* bound: SIGHUPs taken between two ticks
  DiscoveryDuration,
  Configs,                 \* contents the configuration may have
  Inventories              \* NVIDIA inventories that may be read

\* main refuses other cadences; div_ceil gives the ticks.
ASSUME CadenceAssumption ==
  /\ Interval \in Nat \ {0} /\ Medium \in Nat /\ Slow \in Nat
  /\ Interval <= Medium /\ Medium <= Slow

ASSUME LoopAssumption ==
  /\ Endpoints \in Nat /\ Timeout \in Nat /\ DiscoveryDuration \in Nat
  /\ MaxWork \in Nat /\ MaxService \in Nat /\ MaxInventory \in Nat
  /\ MaxReload \in Nat /\ MaxReloads \in Nat \ {0}

DivCeil(a, b) == (a + b - 1) \div b
MediumTicks == DivCeil(Medium, Interval)
SlowTicks == DivCeil(Slow, Interval)

\* Bound: past a multiple of both cadences the tick count goes on from 2.
Cycle == MediumTicks * SlowTicks

Groups == {"hot", "storage", "service", "llm"}

VARIABLES
  mode,           \* "normal", "once", "discover"
  pc,             \* "wait" (select!), "service", "llm" (a request), "end", "done"
  ticks,          \* tick_count
  untilDue,       \* time until the ticker's deadline, negative if missed
  untilEnd,       \* time until discovery_deadline, 0 once it is reached
  asked,          \* endpoints asked in this tick
  hup,            \* a SIGHUP is pending
  reloads,        \* SIGHUPs taken since the last tick
  config, llm, emitter, capabilities,  \* the configuration each part is from
  hardware,       \* what nvidia.inventory() would read now
  lastInventory,  \* last_nvidia_inventory
  inventory,      \* NVIDIA part of the inventory published last
  \* history
  hotAge,         \* time since the hot groups were published
  storageAge,     \* time since the storage group was published
  collected       \* groups collected so far

timeVars == <<untilDue, untilEnd, hotAge, storageAge>>
parts == <<config, llm, emitter, capabilities>>
inventoryVars == <<lastInventory, inventory>>
signalVars == <<hup, reloads>>
loopVars == <<mode, pc, ticks, timeVars, asked, signalVars, parts, hardware,
              inventoryVars, collected>>

LoopType ==
  /\ mode \in {"normal", "once", "discover"}
  /\ pc \in {"wait", "service", "llm", "end", "done"}
  /\ ticks \in Nat
  /\ untilDue \in Int /\ untilEnd \in Nat
  /\ asked \in 0 .. Endpoints
  /\ hup \in BOOLEAN /\ reloads \in 0 .. MaxReloads
  /\ hup => reloads < MaxReloads
  /\ config \in Configs /\ llm \in Configs
  /\ emitter \in Configs /\ capabilities \in Configs
  /\ hardware \in Inventories
  /\ lastInventory \in Inventories /\ inventory \in Inventories
  /\ hotAge \in Nat /\ storageAge \in Nat
  /\ collected \in SUBSET Groups

\* main up to the loop: everything is loaded from one configuration, and the
\* inventory is published.  The ticker is due at once; the jitter before it is
\* first polled is less than half a second, below the unit of time.
LoopInit ==
  /\ mode \in {"normal", "once", "discover"}
  /\ pc = "wait" /\ ticks = 0 /\ asked = 0
  /\ hup = FALSE /\ reloads = 0
  /\ untilDue = 0
  /\ untilEnd = IF mode = "discover" THEN DiscoveryDuration ELSE 0
  /\ config \in Configs
  /\ llm = config /\ emitter = config /\ capabilities = config
  /\ hardware \in Inventories
  /\ lastInventory = hardware /\ inventory = hardware
  /\ hotAge = 0 /\ storageAge = 0
  /\ collected = {}

-----------------------------------------------------------------------------
(* Time and the world outside *)

Elapse(t) == /\ untilDue' = untilDue - t
             /\ untilEnd' = IF t < untilEnd THEN untilEnd - t ELSE 0
             /\ hotAge' = hotAge + t
             /\ storageAge' = storageAge + t

\* The loop sleeps until the ticker or a SIGHUP wakes it.
Sleep ==
  /\ pc = "wait" /\ untilDue > 0
  /\ Elapse(1)
  /\ UNCHANGED <<mode, pc, ticks, asked, signalVars, parts, hardware,
                 inventoryVars, collected>>

\* Signals of one kind do not queue up.
Hangup ==
  /\ pc # "done" /\ ~hup
  /\ reloads < MaxReloads
  /\ hup' = TRUE
  /\ UNCHANGED <<mode, pc, ticks, timeVars, asked, reloads, parts, hardware,
                 inventoryVars, collected>>

\* A driver is loaded, a property stops or starts answering.
HardwareChanges ==
  /\ pc # "done"
  /\ hardware' \in Inventories \ {hardware}
  /\ UNCHANGED <<mode, pc, ticks, timeVars, asked, signalVars, parts,
                 inventoryVars, collected>>

-----------------------------------------------------------------------------
(* One tick *)

\* MissedTickBehavior::Skip: the next deadline is the first multiple of the
\* interval after now, not one for each missed tick.
Rearmed == Interval - ((0 - untilDue) % Interval)

MultiplesOnly(n) == n % MediumTicks = 0        \* mutant of MediumDue
MediumDue(n) == n = 1 \/ n % MediumTicks = 0

FirstOnly(n) == n = 1                          \* mutant of SlowDue
SlowDue(n) == n % SlowTicks = 0

NextTick == IF ticks = Cycle + 1 THEN 2 ELSE ticks + 1

\* The services and the LLM endpoints are due.
ProbesDue(n) == mode = "once" \/ MediumDue(n)

\* Compared with what the last comparison read, whatever a slow tick has
\* published since.
PublishIfChanged ==
  /\ lastInventory' = hardware
  /\ inventory' = IF hardware # lastInventory THEN hardware ELSE inventory

\* The tick up to the publication of the hot groups and the storage: t is the
\* time its blocking collections take.
Tick(t) ==
  /\ pc = "wait" /\ untilDue <= 0
  /\ ticks' = NextTick
  /\ untilDue' = Rearmed - t
  /\ untilEnd' = IF t < untilEnd THEN untilEnd - t ELSE 0
  /\ PublishIfChanged
  /\ hotAge' = 0
  /\ storageAge' = IF MediumDue(ticks') THEN 0 ELSE storageAge + t
  /\ collected' = collected \union {"hot"}
       \union (IF MediumDue(ticks') THEN {"storage"} ELSE {})
  /\ asked' = 0 /\ reloads' = 0
  /\ pc' = IF ProbesDue(ticks') THEN "service" ELSE "end"
  /\ UNCHANGED <<mode, hup, parts, hardware>>

\* ServiceProbe::collect waits for one systemctl after another.
Services(t) ==
  /\ pc = "service" /\ pc' = "llm"
  /\ collected' = collected \union {"service"}
  /\ Elapse(t)
  /\ UNCHANGED <<mode, ticks, asked, signalVars, parts, hardware, inventoryVars>>

\* mutant of Ask: an endpoint is tried twice before it is given up
AskAgain(t) ==
  /\ pc = "llm" /\ asked <= Endpoints
  /\ asked' = asked + 1
  /\ Elapse(t)
  /\ UNCHANGED <<mode, pc, ticks, signalVars, parts, hardware, inventoryVars,
                 collected>>

\* LlmProbe::collect awaits one endpoint after another; a stopped one takes
\* up to its timeout.
Ask(t) ==
  /\ pc = "llm" /\ asked < Endpoints
  /\ asked' = asked + 1
  /\ Elapse(t)
  /\ UNCHANGED <<mode, pc, ticks, signalVars, parts, hardware, inventoryVars,
                 collected>>

\* The rest of the tick: a slow one reads the inventory again, and discovery
\* looks at the time after that.  (It writes its policy here.)
EndTick(t) ==
  /\ \/ pc = "end"
     \/ pc = "llm" /\ asked = Endpoints
  /\ t = 0 \/ SlowDue(ticks)
  /\ Elapse(t)
  /\ collected' = collected \union (IF pc = "llm" THEN {"llm"} ELSE {})
  /\ inventory' = IF SlowDue(ticks) THEN hardware ELSE inventory
  /\ pc' = IF mode = "once" \/ (mode = "discover" /\ untilEnd' = 0)
             THEN "done" ELSE "wait"
  /\ UNCHANGED <<mode, ticks, asked, signalVars, parts, hardware, lastInventory>>

-----------------------------------------------------------------------------
(* SIGHUP *)

\* The fallible steps in their order, or none of them fails.
Faults == {"config", "probe", "emitter", "capabilities", "none"}

\* mutant of Committed: reload_capabilities before SignalEmitter::load
CommittedEarly(fault) == fault \in {"emitter", "none"}

\* reload_capabilities is the last fallible step: it takes effect only when
\* all the others have succeeded.
Committed(fault) == fault = "none"

\* The select! takes the signal, also when the ticker is ready, and loads for
\* t.  Without a configuration path it is ignored, as if the load had failed.
Reload(c, fault, t) ==
  /\ pc = "wait" /\ hup
  /\ hup' = FALSE /\ reloads' = reloads + 1
  /\ capabilities' = IF Committed(fault) THEN c ELSE capabilities
  /\ IF fault = "none"
       THEN /\ config' = c /\ llm' = c /\ emitter' = c
            /\ lastInventory' = hardware /\ inventory' = hardware
       ELSE UNCHANGED <<config, llm, emitter, inventoryVars>>
  /\ Elapse(t)
  /\ UNCHANGED <<mode, pc, ticks, asked, hardware, collected>>

\* The loop is over.
Stopped == pc = "done" /\ UNCHANGED loopVars

-----------------------------------------------------------------------------
(* Properties *)

(***************************************************************************)
(* After a SIGHUP the services probed, the LLM probe, the emission rules   *)
(* and the capability rules all come from the same configuration, whichever*)
(* step of the reload fails.                                               *)
(***************************************************************************)
JointReload == config = llm /\ llm = emitter /\ emitter = capabilities

OneInterval == Interval          \* mutant of HotValidity
HotValidity == 3 * Interval      \* valid_for of the hot groups
StorageValidity == 3 * Medium    \* valid_for of the storage group

(***************************************************************************)
(* Routine samples are replaced before they lapse: while the loop runs the *)
(* age of the hot and storage batches stays within the valid_for that they *)
(* were published with, also when the collection that replaces them takes  *)
(* longest, although services, LLM requests, inventories and reloads hold  *)
(* the loop up and make it miss ticks.                                     *)
(***************************************************************************)
ValidUntilReplaced ==
  pc # "done" => /\ hotAge + MaxWork <= HotValidity
                 /\ storageAge + MaxWork <= StorageValidity

(***************************************************************************)
(* "A failed endpoint never blocks Linux or NVIDIA collection"             *)
(* (docs/llm-adapters.md:36-37): no collection comes due while the loop is *)
(* busy with the endpoints.                                                *)
(***************************************************************************)
EndpointsNeverBlock == pc = "llm" => untilDue >= 0

(***************************************************************************)
(* One-shot and discovery runs come to an end, and not before every group  *)
(* has been collected.                                                     *)
(***************************************************************************)
RunsComplete == <>[](mode # "normal" => pc = "done" /\ collected = Groups)

(***************************************************************************)
(* When the hardware stops changing, the published inventory becomes and   *)
(* stays what it is, although hot ticks compare with what they read last   *)
(* and slow ticks publish what they read without remembering it.           *)
(***************************************************************************)
InventorySettles ==
  \A v \in Inventories :
    <>[](mode = "normal" /\ hardware = v) => <>[](inventory = v)
=============================================================================
