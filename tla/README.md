# A verification model of Spark Signals

TLA+ models of the parts of Spark Signals where order, loss, partial failure
and memory matter, the TLC runs that check them on small instances, and proofs
of their central invariants for every value of the constants. Paths below are
relative to the repository.

## 1. The system

`spark-agent` runs on each node. Every tick it collects points from Linux,
NVML, LLM endpoints and systemd services, filters them through signal policies,
packs them into envelopes, and publishes them to NATS. `spark-otel-bridge`
subscribes to all nodes and records what it receives as OpenTelemetry metrics
and logs.

| Component | Source | State it keeps | Operations |
|---|---|---|---|
| Main loop | `spark-agent/src/main.rs` 160-730 | envelope sequence, reported reconnects and drops, previous levels of the health conditions, tick count and cadences, last inventory, what the configuration was made into, discovery deadline | tick, SIGHUP, `--once`, publish a state, send an event |
| Publisher task | `main.rs` 905-1030 | watch receiver, event queue (128), `sent`, client events (32) | connect, publish_latest, forward an event, replay on Connected |
| Signal policies | `signal_policy.rs` | rules, last emitted observation, last availability | load, should_emit |
| Discovery | `discovery.rs` | successful values per series | observe, output, write_policy |
| Capability profiles | `spark-nvidia/src/capabilities.rs` | identity, resolved rules, NotSupported cache | load, update_identity, should_query, observe |
| NVML collector | `spark-nvidia/src/lib.rs` | capability runtime, Xid workers and their channel | collect, reload |
| Linux collectors | `spark-linux/src/lib.rs` | counter baselines per CPU, vmstat field, interface, device | collect |
| Probes | `spark-probes/src/lib.rs` | LLM and cgroup baselines, last success | collect, rebuild on SIGHUP |
| Bridge | `spark-otel-bridge/src/main.rs`, `unavailable_log.rs` | receive queue (256), last time per node, unavailable keys | receive, record, tick |
| Bridge plugins | `spark-otel-bridge/src/plugins/` | what they were selected with | select, prepare: check environment, path, metadata and content of a credential file |
| Schema | `spark-schema/src/lib.rs` | none | encode, validate |
| Deployment scripts | `deploy/` | none in the program | install, rotate a password |

How they interact: the main loop calls the collectors, the policies and
discovery one after the other on its own task. It reaches the publisher only
through a `tokio::sync::watch` channel (one latest batch per subject), a
bounded `mpsc` queue of health events and two atomic counters (reconnects,
drops). The NATS client runs its own connection handler and calls back on every
client event; the callback does `try_send` into a bounded channel that the
publisher polls in its `select!`. The bridge sees only what the server got.

What is hard here:

- the loop, the publisher, the client and the callback run concurrently, and
  the publisher awaits in the middle of a snapshot while the latest state
  moves under it;
- connections are lost with what was written to them, what was only buffered
  survives, and a client may die with both;
- every queue is bounded and every overflow policy is different (coalesce,
  count, ignore, wait);
- emission and caching decisions rest on memories that must be forgotten at
  the right moment: reload, new hardware, new connection, counter reset;
- a file that another run of the agent will load is written while the process
  or the machine may stop;
- services, LLM requests, slow inventories and reloads hold up the one task that
  collects, after the samples they delay were published, while Xid workers go on
  sending to a collector that is late or skips a tick;
- a reload has five fallible steps and must take effect as a whole;
- a batch is refused as a whole for one bad point, and a restarted bridge
  knows nothing;
- the bridge checks a credential file with rights it is about to give up,
  while an operator may replace the file;
- rules are found by specificity, and "no precedence by file order" is a claim
  about all pairs of rules and all points.

Each hazard, at its line, is listed in `PROJECT.json` with the properties that
cover it, or the reason why none does.

What makes each component correct:

- publication: the server's view of a subject only moves forward; state is
  sent in sequence order; after a connection the view becomes complete;
  accepted events are never duplicated, reordered or silently mislaid; a
  refused event stays owed to the operator;
- policies: what is emitted determines the last observation, and the bridge's
  gauges and log tell it through skipped and repeated batches, unless its last
  emission was lost or refused or is not a number; file order never decides;
- main loop: a reload is joint; batches are replaced before they lapse;
  one-shot and discovery runs collect everything and end; the published
  inventory becomes what the hardware is;
- Xid workers: an Xid is reported once, in order; a measured zero stands beside
  no Xid and leaves none behind, as long as the worker of the GPU runs;
- bridge start: a bridge that runs has no root rights and a credential that
  passed every check as one version;
- discovery: the output is complete or absent, its rules never collide, and it
  disables exactly the series that its rules cover;
- capabilities: the most specific profile decides; a cached answer dies with
  its lifecycle; a `disabled` call is not made;
- counter baselines: the deltas of a counter never add up to more than
  happened, and a delta covers all that happened since the reading before it,
  through failed, skipped and restarted readings; two readings that the code
  takes for 0 when they are missing break this and are excepted (3.4).

## 2. Modules

| Module | Models | Used by |
|---|---|---|
| `LatestValue` | abstract promise of routine state: one register per subject, a view that may skip but never goes back | refined by `Publisher` |
| `Publisher` | main loop's numbering and reporting, watch channel, event queue, `nats_publisher`, client and server | `MCPublisher`, `PublisherProofs` |
| `PolicyRules` | selectors, overlap, loading, the deciding rule (no state) | `SignalEmitter`, `Discovery` |
| `Schema` | how a value is encoded, which batches `decode_v1` refuses (no state) | `SignalEmitter`, `EmissionPath` |
| `SignalEmitter` | `should_emit`, its two memories, reload | `EmissionPath`, `SignalEmitterProofs` |
| `EmissionPath` | composition: collectors, emission filter, batches on their way, what the bridge has recorded | `MCEmissionPath`, `EmissionPathProofs` |
| `AgentLoop` | the main loop: ticker, groups, LLM requests, SIGHUP, inventories, one-shot and discovery runs | `Agent` |
| `XidMonitor` | the Xid workers, their channel and its reader | `Agent` |
| `Agent` | composition of the two and the health events for Xids | `MCAgent`, `AgentProofs` |
| `Discovery` | `DiscoveryTracker` and `write_policy` with kills, power losses and later runs | `MCDiscovery`, `DiscoveryProofs` |
| `CapabilityProfiles` | profile matching and `load_directory`'s selection (no state) | `Capabilities` |
| `Capabilities` | `CapabilityRuntime` and the clock queries of `NvidiaCollector::collect` | `MCCapabilities`, `CapabilitiesProofs` |
| `HealthEvents` | levels the agent remembers and the events it raises when they move | `Pipeline` |
| `Bridge` | receive queue and logs of `spark-otel-bridge` | `Pipeline` |
| `BridgeStart` | selection and preparation of an OTLP target, privileges | `Pipeline` |
| `Pipeline` | composition: a node's conditions and points, a lossy network, the bridge with its starts and ends | `MCPipeline`, `PipelineProofs` |
| `CounterBaselines` | the previous values the collectors keep for cumulative counters | `MCCounterBaselines`, `CounterBaselinesProofs` |

Definitions whose comment begins with "mutant of" are variants with a plausible
bug; no specification uses them. `PROJECT.json` pairs each checked property
with one that it must reject.

### 2.1 Publisher

`mainPc` says where the main task is between its awaits: `idle` in the
`select!`, `report` between the two reports a tick may make, `collect` in the
rest of the tick. `pc` does the same for `nats_publisher`: `connect` (retry
loop), `publish` (inside `publish_latest`), `select`, `send` (between
`events.recv` and the end of `client.publish`). Payloads are left out; a
message is its subject and its envelope sequence.

| TLA+ | Code |
|---|---|
| `state`, `unseen` | watch value and its changed flag |
| `events`, `dropped`, `reconnects` | event `mpsc`, `dropped_events`, `reconnects` |
| `sent`, `snapshot`, `inHand`, `connectedEvents` | locals of `nats_publisher` |
| `clientBuf`, `wire`, `link`, `emitted` | the NATS client: accepted commands, bytes written, connection, events raised |
| `natsEvents` | client-event channel fed by `event_callback` |
| `PublishState`, `SendEvent` | `publish_state`, `send_event` |
| `TickReconnected`, `ReportDropped` | the two reports; the drop count is loaded before either |
| `PublishNext`, `Flush` | the loop and the flush of `publish_latest` |
| `OnChanged`, `OnEvent`, `OnConnected`, `OnOtherEvent`, `OnClosed` | the branches of the `select!` |

The client and the server are not in the repository. They are modelled from
what the code configures and relies on: commands are buffered in order while
the link is down, `flush` completes when everything has been written, an
established connection delivers in order, `Event::Connected` is raised for the
first connection too, reconnection is retried for ever (`max_reconnects` is
`None`). `delivered`, `onLink`, `accepted`, `received`, `lost`, `missed` and
`announced` are history: no action reads them.

### 2.2 PolicyRules and SignalEmitter

A metric stands for the pair of a source and a name. An attribute map is a
function on a set of names. `Loads` is the outcome of
`load_policy_directory`; `Deciding` the set of most specific matching rules;
`PolicyFor` takes the last of them, as `max_by_key` does. One step of
`Filter` is one point through `should_emit`; the memory is written before the
verdict is used, as in the code. `Reload` is the SIGHUP path with a directory
that loads or does not. Observations are compared by their bits, so that a
reading that is not a number equals itself (`ObservationState`).

`EmissionPath` follows a series further. `Collect` passes a point through the
filter into the batch of the tick, `Publish` sends the batch, empty or not,
`Deliver`, `Lose` and `Replay` are what `LatestValue` allows on the way (and
`Publisher` is proved to do no more), plus the bridge's full receive queue.
`Take` decodes a batch or refuses it (`Schema!Decodes`: too large, or an
attribute that is not valid). `Record` is `Instruments::record` on each of its
points:

| TLA+ | Code |
|---|---|
| `Sent` | the point as the bridge decodes it: NaN has become `null` (`OnWire`) |
| `gauge` | what the instrument exports: the value recorded last, which a point without a value leaves alone |
| `Logged`, `notice` | `UnavailableLogEmitter::emit`: a point without a value is logged if it has an error code, an unsupported one only if its key is new to the set; `notice` is the last such log since a value was recorded |
| `unsupported`, `Rearmed` | `unsupported_capabilities` and `observe_available` |

So a NaN, which has neither a value on the wire nor an error code, changes
nothing at the bridge. `BridgeRestarts` forgets it all. `missing` is the history
of what the code gives up: series whose last emission was lost, refused, or
known to an earlier bridge process.

### 2.3 Discovery

`Observe` is one point through `observe`; `Deadline`, `Open`, `WriteSome`,
`WriteAll`, `SyncAll`, `Rename` are the statements of `write_policy`. `Kill`
leaves the files alone, `PowerLoss` cuts any file that was not synced, and
`Restart` is a later run whose process id may have been used before, so that
`create_new` can meet an old temporary file. Attribute values are written as they
were collected; `RefusedValues` are those that `PolicyEntry::validate` refuses
when the file is loaded (empty, or over 256 bytes), so that a generated rule can
be one that does not load (`Validates`). Metric, source and attribute names come
from the same catalogue that the loader checks them against.

### 2.4 CapabilityProfiles and Capabilities

`Selection` follows `load_directory` entry by entry, in file order, because
ambiguity is judged against what is selected so far. `Readings` are the
identities `hardware_identity` may return: each field is read on its own and
may fail. `StartCollection` updates the identity and lists the queries to
make; `SkipQuery`, `QueryNotSupported`, `QueryOther` are the loop's outcomes.

### 2.5 CounterBaselines

A counter is a number that grows, may restart from zero, and may be absent or
unreadable; `real` is the number of events that took place and `reported` the
sum of the deltas published. All collectors subtract with saturation, the first
reading is a baseline (`stale`, `BASELINE_INITIALIZING`), and `Take` is that
common part. They differ in what happens to the previous values:

| Action | Collector | Absent or unreadable counter |
|---|---|---|
| `CollectCpu` | `collect_cpu` | the whole read fails: previous values stay (`ReadFails`); a missing or unparsable `ctxt` row is taken as 0 |
| `CollectVmstat` | `collect_vmstat` | the map is replaced: a missing field loses its baseline |
| `CollectNetwork` | `collect_network` | the map is replaced: a missing interface loses its baseline; an unreadable `carrier_changes` is taken as 0 |
| `CollectBlock` | `collect_block` | the map is replaced by the devices that could be read |
| `CollectCgroup` | `collect_cgroup` | insertion: what could not be read keeps its baseline |
| `CollectLlm` | `LlmProbe::collect` | insertion; a total below its baseline is `stale` and the new baseline |
| `ReloadLlm` | SIGHUP | a new probe: no baselines |

`ZeroUnless` is the value of the two readings that default to 0, and `misread`
the history of the counters to which that ever happened: the zero becomes the
baseline, so that the next delta is the whole count since boot.

### 2.6 HealthEvents, Bridge and Pipeline

| TLA+ | Code |
|---|---|
| `level`, `seen` | `system_health_states`, `service_states`, `collector_had_errors` |
| `Observe` | one reading of a link, mount, sensor, unit, or of the collectors' errors |
| `ObserveCount` | a positive delta of OOM kills or an Xid: an event each time |
| `Raise`, `queue` | `send_event` and its queue of 128 |
| `Forward`, `Lose` | everything between that queue and the bridge's subscription |
| `inbox`, `Receive` | the bridge's queue of 256 and the `try_send` that fills it |
| `Record`, `unsupported` | `Instruments::record`, `UnavailableLogEmitter` |
| `EmitHealth` | `emit_health` |

`Publisher` shows what can happen between the queue and the server: events keep
their order, none is duplicated, and those in flight die with a connection.
`Pipeline` keeps just that of it: the oldest event arrives or is lost. `told`,
`latest`, `announced` and `mislaid` are history. `BridgeEnds` forgets the
receive queue and the set of announced capabilities (`Forgets`). A service's first
observation raises no event, so a consumer takes its level from the metrics;
`told` starts from there.

### 2.7 AgentLoop, XidMonitor and Agent

Time is relative: `untilDue` to the ticker's next deadline, negative when it was
missed, `hotAge` and `storageAge` since a batch was published. `pc` says where
the task is: `wait` in the `select!`, `service` inside `ServiceProbe::collect`,
`llm` inside `LlmProbe::collect`, `end` in the rest of the tick. Whatever blocks
the loop takes time in the model, chosen up to a constant for each: the
collection before the publication (`MaxWork`), systemctl (`MaxService`), an
endpoint (`Timeout`), the slow inventory (`MaxInventory`), the loading of a
configuration (`MaxReload`). Only the third has a limit in the code.

| TLA+ | Code |
|---|---|
| `MediumDue`, `SlowDue`, `ProbesDue`, `ticks` | the conditions on `tick_count`, which goes round at `Cycle` |
| `Rearmed` | `MissedTickBehavior::Skip` |
| `Tick` | a tick up to the publication of the hot groups and the storage |
| `Services` | `services.collect`, one systemctl per unit |
| `Ask` | a request to one endpoint; they are awaited one after another |
| `PublishIfChanged`, `EndTick` | the two ways an inventory is published, of which one compares and the other does not remember; `EndTick` also ends a one-shot run, and a discovery run (`mode`) whose deadline has passed |
| `Reload`, `Committed` | the SIGHUP branch: its fallible steps in order |
| `worker`, `raised`, `taken` | a worker thread, its NVML event set, what `set.wait` returned |
| `readySent`, `unsupportedSent`, `eventsSent` | the messages in the channel, by kind and GPU |
| `CollectXids`, `Quiet`, `EventPoints` | `XidMonitor::collect` |
| `SkipXids` | a collection that returns before it asks the monitor |
| `RaiseAlarms` | the NVIDIA_XID events |

`docs/llm-adapters.md:36-37` says that "a failed endpoint never blocks Linux or
NVIDIA collection". The requests are awaited inside the tick (`main.rs:671`), so
an endpoint that does not answer holds the loop for its timeout of 3 s, longer
than the default interval of 2 s: `agent_blocked` shows the collection that is
late (3.4). `ValidUntilReplaced` says what is left of the promise: the samples
are replaced before they lapse, under the conditions of section 4.

### 2.8 BridgeStart

A bridge process is `down`, or has `selected` its plugin, `trusted` the path,
`opened` the file, `prepared`, `dropped` its rights, or is `running`. A step
that fails is `Exit`, and systemd starts the process again. `Replace` is the
operator renaming a file to the path between any two of these steps.
A credential file is a record of what the checks look at.

## 3. What the runs check

Each run is a row; "pass" means that TLC explored every state of the instance.
State counts are of distinct states.

| Run | Question | States |
|---|---|---|
| `publisher` | What may the server see, and where can an event be, under every interleaving of loop, publisher, client and callback with a lost connection, a failed reconnection and a dead client? Once faults end, does the server end up current and the queue empty? | 1,860,034 |
| `publisher_missed` | Does every connection carry the complete latest state? | violation |
| `emission` | Do the bridge's gauges and log tell what was collected, across filtering, reloads, skipped, repeated and refused batches, and its own restarts? | 777,208 |
| `discovery` | Is the output of discovery complete, free of colliding rules and as classified, across kills, power losses and reused process ids? | 6,906,000 |
| `discovery_subset` | Does loading it keep every changing series? | violation |
| `capabilities` | Do rules and cache match the directory and the hardware lifecycle? | 202,752 |
| `capabilities_order` | Are equally specific profiles always rejected? | violation |
| `counters` | Do deltas add up to what happened? | 3,040,507 |
| `pipeline` | Does the log tell the levels and the unsupported capabilities, and is a bridge that runs fit to, across its restarts? | 772,776 |
| `pipeline_nodes` | Also with two nodes? | violation |
| `agent` | Does the loop keep its promises in its three modes, with endpoints slower than the interval, blocking work everywhere else, failing reloads, changing hardware and Xids arriving at any time? | 550,264 |
| `agent_blocked` | Does a stopped endpoint leave the collections alone? | violation |

### 3.1 Properties

*Publication.* `ViewIsLatestValue` (refinement of `LatestValue`): the server's
view of a subject never goes back, although `sent` is cleared, snapshots age
while they are published and the client replays its buffer.
`StateInSequenceOrder`: sequences increase across subjects between two resets
of `sent`, though each `publish_latest` sorts only its own snapshot. (In the run
one subject changes beside one that is published once; for several that change,
the theorem `SequenceOrder` has to stand in.)
`CompleteUnlessMissed`: a quiet publisher means that the current connection
carried everything, unless the callback's channel refused the `Connected` event
(which `publisher_missed` shows can happen). `EventsAccounted`,
`EventsInOrderOnce`: accepted health events are in exactly the places the code
can hold them and arrive in order without duplicates. `DropsStayOwed`: a
refused event stays reportable, even when `RECONNECTED` and `EVENTS_DROPPED`
are themselves refused. `EventuallyCurrent`: see 3.3.

*Signal policies.* `ConsumerInSync`: the last emitted point of a series tells
the last observation as far as its policy lets it; a failed reload keeps the
memory, a successful one clears it. `ConsumerCurrent` is about the other
end: once nothing is under way, the bridge tells the last observation of a
series. If that is a value, the gauge has it and no log of unavailability came
after it; if it is unavailable, the log says so, although the gauge goes on
exporting the value before it; an unsupported reading may stand under the error
logged before it, since it is logged once only. What is `missing` is excepted,
and NaN, which the bridge neither records nor logs. `enabled` and state-change
are exact, availability-change may show an earlier unavailable reading.
`OneRuleDecides`: a directory that loads never leaves the outcome to file order.

*Discovery.* `TargetComplete`: the file is absent or complete after any stop.
`TargetLoads`: a complete file loads, for the attribute names the collectors use
(section 4 says what that takes), unless one of its attribute values is refused:
the rules of a run never collide. `FileDecides`: if it loads, it disables exactly
what the classification and the subset matching imply.

*Capabilities.* `RulesMostSpecific` compares the entry-by-entry selection with
the definition of "most specific". `CacheOfLifecycle`: a cached NotSupported
was answered in the current GPU/driver lifecycle. `SuppressedForOneReason`: the
inventory never lists a key both as disabled and as unsupported.

*Counters.* `NoInventedEvents`: the deltas of a counter, with the next one, add
up to no more than happened. It is about counting too much: events that no delta
covers (a cgroup counter that restarted, the tokens before a SIGHUP) violate
nothing. `DeltasComplete`: a delta covers everything since the last reading,
unless the counter restarted. Both except counters that were once taken as 0
without being read (`misread`).

*Health and logs.* `LogTellsLevel`: unless its last event was refused or lost,
a condition's last logged level is the agent's. The exception is the code's: a
refused event is not repeated, so the property bounds what a full queue can do
and does not exclude it. `UnsupportedAnnounced`: an unsupported capability has
been announced since it was last measured. Both across restarts of the bridge.

*Bridge start.* `TargetFit`: a bridge that runs has no root rights; with maple,
what it uses is one version of a file that passed the checks of metadata and
content, although the file may be replaced between any two steps.

*Main loop.* `JointReload`: configuration, LLM probe, emission rules and
capability rules always come from the same file. `ValidUntilReplaced`: hot and
storage batches are replaced before their `valid_for` ends, also when all that
blocks the loop in between takes longest. `RunsComplete`: one-shot and discovery
runs end, with every group collected.
`InventorySettles`: when the hardware stops changing, the published inventory
becomes and stays right, although a change back and forth between two
comparisons is published by a slow tick that does not remember it.

*Xids.* `XidsInOrderOnce`: what was reported and what is in the channel are the
Xids the worker got, in order. `ZeroOnlyWhenQuiet`: a measured zero stands beside
no event and leaves none behind that was sent. It says nothing of a GPU whose
worker ended, which goes on reporting zeros (section 6).
`XidsReported`: the health events of a GPU catch up with its Xids again and
again, unless its worker ends or NVML was absent at start.

### 3.2 Bounds

| Bound | Value | Why it is enough |
|---|---|---|
| `EventCapacity` (128 in the code), `CallbackCapacity` (32), `ClientCapacity` | 1, 1, 1 (`publisher_missed`: callback 2) | the code tells only full from not full; at 1 every overflow happens within a few steps |
| `MaxSequence` | 4 (3 in `publisher_missed`) | one envelope per subject and a newer one or an event: the least at which a snapshot can be overtaken |
| `MaxDisconnects`, `MaxFailures`, `MaxDeaths` | 1 each (missed: 2 failures, no deaths) | one outage before, during and after each publisher step; two failures fill a callback channel of 2 |
| `SampleSubjects` | 0 | samples are published as the inventory is, only more often; two state subjects already make a snapshot that can be half sent. The proofs hold for any number |
| `Keys`, `Readings`, `RuleFiles` of `MCEmissionPath` | 2 series with 3 readings each, 4 files | a general rule, a specific one, an overlapping pair, an invalid one, every policy; of one series two values that a gauge may confuse and NaN, of the other a value, an error and unsupported |
| `MaxPoints` | 1 | a batch with both series is refused, one with either is not. In the code an attribute that is not valid refuses a batch more easily than its size; it has the same effect, and the proofs treat both |
| `MaxAhead` | 1 | a batch is lost or delivered while the next one is collected, and replayed at any time; the proofs hold for any number |
| `Interval`, `Medium`, `Slow` of `agent` | 2, 4, 4 | storage, services and endpoints are due at the first and every second tick, the inventory at every second; a tick between them is hot only |
| `Endpoints`, `Timeout` of `agent` | 1, 3 | interval and timeout are those of the code, in seconds; an endpoint that does not answer makes the loop miss a tick, with the other blocking work two |
| `MaxService`, `MaxInventory`, `MaxReload`, `MaxReloads` | 1 each | everything that blocks between two publications of the hot groups does, up to the 6 s that they are valid for: one more unit anywhere breaks `ValidUntilReplaced` |
| `MaxWork` | 0 | would be that unit. The theorems have it as a parameter |
| `DiscoveryDuration` | 3 | the deadline passes in the first tick or after it |
| `agent_blocked` | 2, 10, 60, one endpoint, 3 | the defaults of the code, in seconds, and nothing else that blocks |
| `Configs`, `Inventories`, GPUs of `MCAgent`, `MaxXids` | 2, 2, 1, 2 | a change and a change back; GPUs do not interact, a second Xid shows order |
| `Environments`, `Files` of `MCPipeline` | 4, 3 | each target, right and wrong; a fit file, one with a wrong mode, one of another producer |
| `Keys`, `Values`, `Pids`, `MaxRuns` of `MCDiscovery` | 4, 2, 2, 3 | two runs whose ids collide and one after them; one series without attributes, one with a value that is refused |
| `Gpus`, `Directories` of `MCCapabilities` | 2, 9 | all orders of a product, a PCI and a combined profile that matter; one key |
| counters per kind, `MaxSteps`, `Starts` | 1, 3, {1} | grow, vanish, restart and be misread in any three steps; counters of different kinds interact only through the shared steps. `carrier_changes` stands for the other counters of an interface, which behave as it does when it is read (`Network` is empty) |
| `Sensors`, `Services`, `QueueCapacity`, `InboxCapacity`, `Nodes`, `Capabilities` | 1, 1, 2, 1, 1, 1 | three levels and a silent first reading; a second slot lets two events of a key wait, a third be in the receive queue; links, mounts and the collectors are a sensor with fewer levels |

No run uses symmetry. Deadlock is checked in every run.

### 3.3 Fairness

Two runs assume some.

`publisher`: each step of the publisher, the client and the callback is weakly
fair: Tokio's runtime keeps polling tasks that are ready, `select!` polls its
branches in random order, so that none that stays ready is passed over for
ever, and `max_reconnects` is `None`, so that the client retries without end.
Nothing is assumed of the main loop, which may stop collecting at any point, nor
of the faults, which the bounds make finite. A client that dies stays dead until
the publisher sees the closed channel and builds a new one, which `OnClosed` and
`Connect` do.

`agent`: `LoopFairness` says that the loop's task runs on (weak fairness of
`Advance`): time passes while it sleeps, a tick that is due is taken, a request
returns within its timeout, systemctl and the system calls return. SIGHUPs come
between ticks, but not without end (`MaxReloads`): `select!` polls its branches
in random order and so does not choose the signal for ever. Strong fairness of
`CollectingTick` assumes that NVML answers `device_count` again and again: a
collector that fails for ever drains nothing. `WorkerFairness`: a thread whose
wait would return an event is scheduled. A worker may end at any time, and
`XidsReported` excepts those whose worker did.

`ValidUntilReplaced` is safety, but depends on constants, as the code does: on
how long the loop is busy after a publication, with services, endpoints and
inventory, or the interval if that is longer (`Slack`); on the reloads between
two ticks (`Reloading`); and on the collection that comes next (`MaxWork`). The
three together must stay within three intervals; `SamplesFresh` proves it from
such conditions. With the default interval of 2 s two stopped endpoints (3 s
each) use up all of the 6 s for which hot samples are valid, and a hanging
systemctl has no limit at all: there the code does not keep what it publishes.

### 3.4 Disagreements with the documentation

Five runs end in a violation of a sentence of the documentation; the details are
in `PROJECT.json` under "findings".

- `publisher_missed`: "on connection and reconnection, the publisher sends its
  complete latest state". The replay hangs on one `Connected` event, which is
  dropped when failed attempts have filled the channel of 32 while the
  publisher waits in `flush`.
- `discovery_subset`: a changing series is "omitted from the generated file".
  The rule of an idle series without attributes disables every series of its
  metric.
- `capabilities_order`: equally specific matches "reject the complete reload
  instead of being resolved by file order". A more specific one between them
  hides the tie.
- `agent_blocked`: "a failed endpoint never blocks Linux or NVIDIA collection".
  With the default interval one stopped endpoint holds the tick past the next
  deadline; its 3 s are also time without a hot collection.
- `pipeline_nodes`: unsupported state is "deduplicated until the same
  capability is measured again", with node identity. The key of the
  deduplication has no node.

Two more were met that no run reports; the models have the behaviour and the
properties except it:

- a missing measurement "is never encoded as a plausible zero"
  (`docs/schema-v1.md:10-12`): a `carrier_changes` that cannot be read
  (`spark-linux/src/lib.rs:329`) and a `ctxt` row that is missing or not a number
  (`:1110`) are 0, both as a point and as the next baseline (`TakenAsZero`).
- a generated file is "directly loadable" (`docs/signal-policies.md:42`): one with
  an empty attribute value or one over 256 bytes is not (`Validates`).

## 4. What is proved

`tlapm` proves the following for every value of the constants; the bounds of 3.2
play no part.

| Module | Theorem | Shows |
|---|---|---|
| `PublisherProofs` | `TypeCorrect` | `TypeOK`, the queue limits included |
| | `DropsOwed` | `DropsStayOwed` |
| | `SequenceOrder` | `StateInSequenceOrder` |
| | `LatestValueView` | `Publisher` implements `LatestValue` |
| | `EventsAccountedFor`, `EventsOrdered` | `EventsAccounted`, `EventsInOrderOnce` |
| | `CompleteState` | `CompleteUnlessMissed` |
| `SignalEmitterProofs` | `EmitterTypes`, `NoOrderDependence`, `ConsumerKnows` | `EmitterType`, `OneRuleDecides`, `ConsumerInSync`, of `EmitterSpec` |
| `EmissionPathProofs` | `PathImplementsFilter` | `EmissionPath` implements `EmitterSpec`, so the three above hold of it |
| | `BridgeCurrent`, `TypeCorrect` | `ConsumerCurrent`, `TypeOK` |
| `DiscoveryProofs` | `TypeCorrect`, `OutputComplete`, `FileFollowsRun` | `TypeOK`, `TargetComplete`, `FileDecides` |
| | `OutputLoads` | `TargetLoads`, under `NamesTellApart` |
| `CapabilitiesProofs` | `RuleSelection` | `RulesMostSpecific` |
| | `TypeCorrect`, `CacheLifecycle`, `OneReason` | `TypeOK`, `CacheOfLifecycle`, `SuppressedForOneReason` |
| `CounterBaselinesProofs` | `TypeCorrect`, `NothingInvented`, `NothingSkipped` | `TypeOK`, `NoInventedEvents`, `DeltasComplete` |
| `PipelineProofs` | `TypeCorrect`, `LogLevel`, `RunsFit` | `TypeOK`, `LogTellsLevel`, `TargetFit` |
| | `UnsupportedLogged` | `UnsupportedAnnounced`, for one node |
| `AgentProofs` | `AgentTypes`, `ReloadIsJoint` | `TypeOK`, `JointReload` |
| | `HotSamplesFresh`, `SamplesFresh` | the hot half of `ValidUntilReplaced`, and all of it, from conditions on the constants |
| | `NothingLeftOut` | the safety half of `RunsComplete`: no run ends before every group was collected |
| | `XidsOnce`, `ZeroMeansQuiet` | `XidsInOrderOnce`, `ZeroOnlyWhenQuiet` |

So every invariant and every action property that a passing run checks is also
a theorem.

Assumptions are the `ASSUME`s of each module: distinct subjects, positive
capacities, natural bounds, disjoint kinds of counters, an absent value that is
no value, keys with finitely many attributes, directories that are sequences of
entries. TLC evaluates them in every run. Four theorems have hypotheses of
their own:

- `UnsupportedLogged` is about a bridge with one node behind it, since the code
  leaves the node out of the key; `pipeline_nodes` shows that two are too many.
- `HotSamplesFresh` and `SamplesFresh` need bounds on what blocks the loop, since
  the code does all of it on the task that collects. For the hot half:
  `Slack + Reloading + MaxWork <= 3 * Interval`. For the storage half also
  `Slack + MediumTicks * Reloading + MaxWork <= 2 * Medium`, and
  `MaxWork + MaxInventory <= Interval`, by which a tick that is not
  medium ends before the next is due. `Slack` is the longer of the interval and
  `MaxService + Endpoints * Timeout + MaxInventory`.
- `OutputLoads` needs `NamesTellApart`: two series of a metric with equally many
  attributes have the same attribute names, or differ in one they share. That
  is how the collectors name series, with the exception in section 6. Attribute
  values that the loader refuses are excepted by `TargetLoads` itself.

Why each theorem needs more than its property:

- `DropsInv` adds that a queued EVENTS_DROPPED covers at most what the loop has
  reported, and the loop has reported at most what was refused.
- `OrderInv`: `sent` trails the snapshot and the snapshot trails the watch
  value; what the watch value holds beyond the snapshot is newer than all of
  the snapshot, and what the snapshot still has to publish is newer than all
  that was sent. This is what makes a snapshot sorted on its own continue the
  one before it.
- `FlightInv`: per subject, what is in the client's buffer and on the
  connection lies between what the server has and the snapshot, and does not
  decrease along the way. It survives clearing `sent`, since what is published
  again is the snapshot.
- `EmitterInv` relates the two memories of the emitter to what was observed and
  emitted. `DecidingUnique` is the lemma behind `NoOrderDependence`: two rules
  of equal specificity that match a point overlap, so they cannot both be
  loaded.
- `CacheInv` adds that the runtime holds the last identity read.
- `CountersInv`: a counter that was never misread and has a baseline that did not
  restart has grown, since that reading, by exactly what happened since. `Take` is treated once (`TakeStep`) and each
  collector is an instance of it.
- `PathInv`: the newest batch that has a point of a series holds its last
  emission, be it the batch of this tick, one under way, or the one that may be
  sent again; once it is past, the bridge tells the emission or the series is
  missing. `Announced` adds that a key in the set of unsupported ones stands in
  the log, so that the silence of the deduplication does not hide it.
- `HotInv`: the age of the hot batches and the time to the next deadline add up
  to at most an interval; while requests run the age is bounded by the services
  and the timeouts of the endpoints asked; while the loop waits, by `Slack` and
  the reloads taken since the tick.
- `StorageInv` counts from the last multiple of the medium cadence: `ticks` is
  that multiple and r more, and the storage batch is no older than `Slack` and r
  times an interval with its reloads (`AgeBound`).
- `CollectedInv`: the first tick is due for every group, so that after it only
  the services and the endpoints are outstanding, and a run cannot end before
  both have been asked.
- `InOrder`: the Xids reported and those in the channel, entry by entry. A
  step of `Agent` is one of the loop and one of the monitor (`Steps`), so
  each part is treated on its own.
- `AccountInv` adds that the task connects only when no client is left and that
  a client that is not there holds nothing, so that building a new one discards
  no message.
- `ChainInv` puts the places of an event in a row, from the server back to the
  queue: what is at one is older than what is at those behind it. A step moves
  an event from one place to the next.
- `CompleteInv`: unless a `Connected` event is owed, what was sent is at the
  server over this connection or still in flight. A new connection breaks this
  and owes the event in the same step; `OnConnected`, which takes the event,
  clears `sent` and so restores it.
- `InstallInv`: the temporary file that is about to replace the output is the
  complete, synced file of this run's own tracker, even when an earlier process
  had the same id.
- `LoadInv`: the rules in force are the selection from the last directory that
  loaded. The selection is a recursive function over the entries; `Tells` says
  what it has found after n of them, and the induction over n is an argument
  about the least counterexample (`Least`, `UpTo`), which the prover can follow
  where it cannot apply an induction theorem. An entry as specific as what it
  meets would have kept the directory from loading, so each one selected is
  more specific than all before it.
- `FollowInv`: the level the agent remembers is that of the last event of the
  condition in its own queue; if there is none, in the bridge's queue; if there
  is none, in the log. A condition not seen before is in no queue.
- `SupportInv`: what the bridge holds in its set of unsupported keys was
  announced, which a restart, that empties the set, cannot undo.
- `StartInv`: which checks the start has behind it in each phase, and of which
  version of the file: those of the content are of the opened descriptor.

## 5. Only model-checked

Liveness: `EventuallyCurrent`, `RunsComplete`, `InventorySettles` and
`XidsReported` rest on fairness and so on ENABLED, which the prover does not
treat. Of `RunsComplete`, `NothingLeftOut` proves what is safety.

## 6. What is not modelled

- Parsing of `/proc`, `/sys`, configuration, and HTTP answers, gauges, host
  inventory, ages of collectors and responses: reads without memory, or a
  timestamp that is published.
- OTEL instruments and exporters: libraries. `Instruments` is modelled by the
  value it is given last (`EmissionPath`) and by its logs (`Bridge`).
- Deployment scripts: run by an operator.

Behaviour seen while reading that no property covers, because no text of the
repository promises otherwise:

- a reconnect replays the last batch, counter deltas included, and the bridge
  adds them again;
- levels of health conditions live in memory, so a restarted agent raises no
  event for what changed in between; OOM kills of a service raise none at all;
- the capability key does not name the GPU: one GPU's NotSupported stops the
  query on all;
- NVML that is absent when the agent starts is never tried again;
- an Xid worker that ends leaves its GPU among those that report zero: such a
  zero says nothing about the GPU;
- a NaN of a Prometheus endpoint is published as measured, encoded as `null` and
  dropped by the bridge without a log, so that a gauge keeps its old value;
- service and LLM batches are valid for 30 s whatever the medium cadence, and
  `status.agent` for 10 s although it is published once;
- two LLM endpoints with the same id share baselines and keys;
- SIGHUP resets the response ages of the LLM probe and its token baselines;
- `--once` ends without waiting for the publisher;
- two hwmon devices of one name whose channels have one label, one with only a
  maximum and one with only a critical limit, are two series that one point can
  match with equally specific rules; if both are idle, discovery writes a file
  that does not load (`NamesTellApart`, the hypothesis of `OutputLoads`, excludes
  this; the other way to an unloadable file is in 3.4);
- a temporary file left by a killed discovery run makes a later run with the
  same process id fail (`Discovery` has it: `create_new`);
- the bridge ends cleanly on ctrl_c only; any other signal kills it
  (`BridgeEnds` does not tell the two apart).

## 7. Plan

Modules were written in the order `Publisher`, `SignalEmitter`, `Discovery`,
`Capabilities`, `CounterBaselines`, `Pipeline`, `AgentLoop`, `XidMonitor`,
`EmissionPath`, `BridgeStart`. What is left:

1. Counters and the bridge composed, with batches that are recorded again.
2. The hazards of `PROJECT.json` that no property covers, where the repository
   says what should happen.
