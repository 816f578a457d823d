# Verification of the Gazebo VRPN bridge

TLA+ models of `gazebo_sim_vrpn_bridge`, checked with TLC on small instances
and, for the safety properties, proved with TLAPS for every value of the
constants. Paths are relative to the repository; `MD` is
`include/gazebo_sim_vrpn_bridge/measurement_delay.h`, `TS` is
`src/vrpn_tracker_server.cpp`, `SP` is `src/gazebo_vrpn_system_plugin.cpp`, `SC`
is `src/server_config.cpp`.

## 1. The system

The bridge makes simulated models look like rigid bodies of a motion capture
system. It reads model poses from Gazebo, and reports each as a VRPN tracker.

    Gazebo thread                      worker thread
    onWorldUpdateEnd  --(mailbox)-->   workerLoop --> VrpnTrackerServer --> VRPN clients
      model handles    latest snapshot   pacing         samples, derivatives,
      capture pacing   + sequence no.                   MeasurementDelay, noise

| Component | State | Operations | Hard behaviour | What makes it correct |
| --- | --- | --- | --- | --- |
| `TrackerSampleHistory` (MD:68-134) | ring of samples, next index, size | `reset` `push` `latest` `nearest` | wrap-around, a ring that is not full, wall times out of order | it is the window of the most recent samples; `nearest` returns a held sample closest to the target, the youngest if several are |
| `MeasurementDelay` (MD:136-346) | random components, cached per publish cycle | `startPublishCycle` `delaySecondsForTracker` `historyCapacityForTracker` `validate` | the cache is keyed by the time of the cycle | a delay is in `0..max`; the trackers of a cycle share its common part; the history reaches back to the longest delay |
| `VrpnTrackerServer` (TS) | tracked models, tracker names, derivative and filter state, the time base | `processSnapshot` `publish` | simulation reset, change of time source, pauses and jumps, models that come and go, several models per name | nothing measured before a reset is reported after it; names and models stay one-to-one; stamps advance |
| `GazeboVrpnSystemPlugin` (SP) | model handles, capture schedule; the mailbox; the worker's schedule; `stopping_` | `onWorldCreated` `onWorldUpdateEnd` `workerLoop` `stop` | two threads, a mailbox that is overwritten, a lost wakeup, late cycles and bursts of updates, exceptions, stale handles | no snapshot is processed twice, out of order or half-moved; the newest is soon processed; the schedules recover; `stop` returns; models are served, and fall silent, in time |
| `GazeboVrpnServerNode` (`src/gazebo_vrpn_server_node.cpp`) | the latest `ModelStates` message, its wall time and number; the number last processed | `modelStatesCallback` `processLatestModelStates` `spin` | messages that are lost, rejected or absent; a simulation clock that is zero before `/clock`, with the wall time in its place | messages are processed in order and none twice; the two clocks never mix in a derivative; nothing is reset without a cause |
| `ServerConfig` (SC) | the configuration | `load` and its parsers, `validate`, `trackerNameForGazeboModel`, `bodyToTrackerFor` | blocks that overwrite each other: YAML and launch arguments, robots, manual, automatic and pattern mapping, extrinsics and defaults | launch arguments win; explicit mappings win; the mode that is off has no influence; the right transform |
| `MocapNoise`, filters, transforms | generators and filter memory | pure arithmetic on reals | | |

Around them: launch and configuration files, Python end-to-end tests, the
offline tool `tools/compare_vrpn_backends.py`, and release scripts.

## 2. Modules

| Module | What it is |
| --- | --- |
| `RecentSamples` | abstract: a window of the at most `limit` most recent samples, and the newest of them |
| `RingHistory` | the operators of `TrackerSampleHistory`: one per method, with the index arithmetic of the code |
| `SampleHistory` | one history under any sequence of `push` and `reset`; implements `RecentSamples` (`RefinesRecent`) |
| `TrackerServer` | `VrpnTrackerServer`; every tracked model has a `RingHistory` |
| `SnapshotHandOver` | abstract: what both adapters promise the server about the snapshots they hand over |
| `SystemPlugin` | `GazeboVrpnSystemPlugin`, both threads; implements `SnapshotHandOver` |
| `Bridge` | the plugin composed with the `TrackerServer` its worker owns |
| `ServerNode` | `GazeboVrpnServerNode` composed with its `TrackerServer`; implements `SnapshotHandOver` |
| `WireTime` | `secondsToTimeval`, the time stamps that VRPN sends |
| `DelayConfig` | the configuration of the delay, the capacities that follow from it, `validate` |
| `MeasurementDelay` | `MeasurementDelay` |
| `ServerConfig` | `loadServerConfig`, step by step, and the selection of models |
| `MC*` | the instances for TLC |
| `*Proofs` | the theorems about the module of that name (`WireTime`: in `TrackerServerProofs`) |

Operators introduced by a comment "Mutant of X" are faulty variants of `X`, each
a bug that could plausibly be made there. They take no part in any
specification; putting one in the place of `X` makes the property that
`PROJECT.json` names for it fail, which is how the properties themselves are
tested.

### TrackerServer

Actions: `ProcessSnapshot(snap)` and `Publish(sendWall, delay)`, each the whole
method. `tracked` is `tracked_models_` (a record is a `TrackedModel`),
`trackerNames` is `tracker_names_`, and `source`, `lastSampleTime`, `lastScan`
are the members of those names. `seenSnapshot` stands for
`have_wire_timestamp_source_` and `have_sample_time_`, which are both set by
every snapshot and never cleared. `sent` is what the last report of a tracker
carried.

What is abstracted:

- Time is counted in publish periods, and the epsilon of the comparisons of
  doubles is below that resolution. The simulation clock and the wall clock are
  independent; the simulation clock may stand still, jump and go back.
- A pose is a token. A velocity or an acceleration is the *set of poses it was
  computed from*: a filter that is updated keeps what it had and adds the new
  ones, and a filter that is reset starts empty. That is what the properties
  need: not the number that is reported, but which measurements have a share
  in it.
- A delay is any value in `0..MaxDelay[t]`, which the clamp of
  `delaySecondsForTracker` (MD:185) guarantees whatever the random components are.
- The unordered maps are functions, and a snapshot's models are a sequence
  because the order in which a scan meets them decides who gets a name.

A name is registered as in the code: the guard is that of `ensureTrackedModel`, which skips a
name that is taken (TS:331, in `Registered`), and the entry of `tracker_names_`
is then overwritten (TS:347, in `ProcessSnapshot`). That no owner is ever replaced
(`RegistrationIsPermanent`) is therefore a consequence of the guard and of
`TrackerNamesUnique`, and not of the assignment.

Either adapter of the repository gives the same `source` in all its snapshots; the
model also has adapters that change it, since the code handles that (TS:150).

`delivered` and `reported` are history variables. A *timeline* is what was
received since the sample time last moved backwards or the source changed.

### SystemPlugin

Each action is a stretch of code between two points where the other thread can
interfere: a lock, a read or write of an atomic, or the end of a callback.
`gazebo` and `worker` are the program counters. `onWorldUpdateEnd` is `Capture`
(or `CaptureFails`, for the exception it catches) and then `StoreSnapshot`,
which is the part under `snapshot_mutex_`; `stop` is `Stop`, `Notify`,
`StopReturns`; `workerLoop` is `StartServer`, then
`CheckStopping`, `TakeSnapshot`, `ProcessTaken`, `PublishCycle`,
`CheckPredicate`, `FallAsleep`, `Wake` in a loop. The wait
is split into `CheckPredicate` and `FallAsleep` because `stop` sets the flag
and notifies without `worker_wait_mutex_` (SP:213): the notification can fall
between them and be lost.

Clocks are kept relative to now: `due` is `next_cycle - now` and `captureIn` is
`next_capture_time_ - now`. A step of a thread takes any number of `Tick`s, so
slow cycles, late callbacks and bursts of updates are all there. A clock that is
more than three periods behind is kept where it is, because from there on the code
only asks *whether* it is late (SP:195), and `captureIn` is kept in
its class modulo the period, because the code only asks for the next point of its grid.

External, modelled from how the code uses it: models are created and deleted
between callbacks (`WorldChanges`); Gazebo calls the callbacks and destroys the
plugin one after the other, so `Stop` needs an idle Gazebo thread; an object
a handle refers to stays alive; a condition variable may wake up spuriously.

`Contract` maps the plugin to `SnapshotHandOver`: `latest_sequence_` counts what was
stored, the worker is busy while the server has a snapshot, and what the
server processed last is known by the number of its capture. An exception
in the server, or `stop`, closes the contract. `HandsOverSnapshots` includes its fairness:
until it is closed no snapshot stays in the mailbox unless a newer one replaces it.

### Bridge

`TrackerServer` extended by what drives it in the plugin. Actions: `Capture`
and `CaptureFails` (`onWorldUpdateEnd`, with `refreshTrackedModels` in
`Refresh`), `TakeAndProcess` and `PublishCycle` (the body of `workerLoop`), and
around them `TimePasses`, `ClockIsSet`, `SimulationReset` and `WorldChanges`.

`SystemPlugin` has the hand-over step by step with a server that is a number;
here a capture and the storing of its snapshot are one step, and so are the taking and
the processing of it. Between the parts of either step nothing is read that
the other thread writes: a capture works on Gazebo's thread until it stores
under the mutex, and the worker owns what it took. The start, `stop` and exceptions of the
server, which end the worker, are left to `SystemPlugin`.

There are three clocks: `elapsed` is the steady clock that paces the captures
(`captureDue`), in periods; `wall` is the system clock, by which *both* scans are
paced and which may be set at any time; `simTime` advances by at most `MaxSpeed` per
period, stands still, and starts again in another `run`. A snapshot carries, as
history, when it was captured and what the world was then.

### ServerNode

The legacy node with its `TrackerServer`. `loop` is where `main` and `spin`
are. `ModelStatesCallback` runs while spinning; `TakeLatest` and `ProcessLatest` are
`processLatestModelStates` before and after it reads the time, `PublishCycle`
and `WakeUp` the rest of the loop; `Throws` is an exception that `main`
catches. The messages are numbered as the node accepts them, and a pose is known by
that number.

External: the subscription keeps one message (`MessageArrives` replaces it);
`/clock` arrives on a thread of its own, at any moment, with any time, zero
included, and `clock` is what `ros::Time::now()` returns. `wall` is the system clock,
which `ros::WallTime` reads: it advances (`TimePasses`), and it may be set to any
of `WallTimes` at any moment (`WallIsSet`), forward or back. All it is
assumed to do is to stay further from the simulation times than the timeout of the
derivatives, as a clock that counts from 1970 is from one that counts from the start of a
simulation. `setBackAfter` records, as history, after which messages it was
set back: while the wall time of a message stands in for `/clock`, a message
that arrives after that has an earlier sample time than the one before, and the server
takes it for a reset of the simulation. `ResetsHaveACause` names this among the causes, and says
that it is none while the samples are on `/clock`.

### WireTime

One action, a call of `secondsToTimeval` with any time. A time is counted in
parts of a microsecond and a second has few microseconds in the instance, so that
every rounding and both carries are there. Times beyond `time_t` are not.

### MeasurementDelay

Actions: `Reset`, `StartPublishCycle`, and `DelayForTracker` (or
`NoDelayForTracker`, while the delay is disabled), each the whole method,
called in any order with any times. `common` and
`states` are `common_state_` and `tracker_states_`. In a component
`last_time_s` and `cycle_time_s` are one field, and `have_time` and `have_cycle_delay`
another, because `sampleComponentForCycle` sets both together.
The generator is a choice among all values a draw can have, in whole
milliseconds, a normal distribution being cut off at `Sigmas` deviations; the
drift, an autoregressive process, may take any value of its stationary
distribution once time has passed and keeps its value otherwise. `answers`
holds what was answered for the current time.

### ServerConfig

One action per step of `load()`, in its order; `step` names the next. The
parameter tree is a function with the members that are set, so a chain of
`hasMember` is `Override` or `Given`. `Params` is the tree after
`vrpn_server.launch` has put its arguments over the file. Strings are atoms;
trimming, matching, the order of the keys of a `std::map` and the validity of an
expression are constants. A value of a wrong type, at any depth of a block, is
`Malformed`: the methods throw on it and the configuration is never used.

The model shows a behaviour that is easily missed: a robot that is disabled loses its
mapping and its transform, but its model is exported all the same if the
automatic mode or a pattern selects it.

## 3. What TLC checks

| Run | Instance | Shows |
| --- | --- | --- |
| `history_ring` | requested capacities zero to three, six samples with times 0, 1, 2, two of each | the ring implements the window, `latest` reads the last of it, the indices stay in range, no blank slot is ever read, and the scan of `nearest`, which goes from the youngest sample to the oldest, finds the youngest of the closest |
| `server_names` | four models, two of them with one name and one not exported; every order of every subset in a snapshot | names and models stay one-to-one, and a name is never taken from its model, nor the model's record replaced by one of another name |
| `server_timelines` | one model, a delay of up to a period, up to five snapshots with simulation times 0, 1, 2, 4 in any order, and up to one reset or change of the source | no sample, filter or report has a share of what was measured before the reset; velocities are measured, over the reported interval; stamps advance |
| `server_sample_time` | one model, a delay of up to four periods, stamps by `sample_time`, up to eight snapshots | the history reaches back to the longest delay |
| `plugin_threads` | period of two ticks, three snapshots, any interleaving | the hand-over contract, safety and liveness; the pacing of the worker, and the shutdown |
| `delay_cycles` | two trackers, times 1 and 2 in any order, the accepted ones of 156 configurations: enabled or not, three global and four own maxima (beyond the limit too), drift down, jitter, bursts of probability 50 and 100 | the cache, the clamp, the capacities and the drift |
| `config_loading` | eleven strings, two of them with slashes; all combinations of the blocks that interact, in five families (mappings, transforms, delay, parameters with launch arguments, noise), and each block with a wrong type; 5739 setups | the precedence of blocks, modes and arguments |
| `config_noise` | the same setups | a finding: see below |
| `plugin_capture` | one model with two possible objects, a scan interval of three ticks, three snapshots; Gazebo's thread alone | the pacing of the captures, bursts at one instant included, and the age of the handles |
| `server_node` | one model, in some messages and not in others, three of them accepted, any number lost or invalid; `/clock` tells 0, 1 or 2 in any order; a system clock that shows 5, then 6, and is set back to 5 once | the hand-over contract for the node; samples belong to their messages; what a change between the two clocks, or one of them going back, resets, and that nothing else does |
| `bridge` | one model, created or deleted once; a scan interval of two periods, five periods; the system clock set back by one; one reset of the simulation | how late a model is registered or falls silent, and when a reset goes unnoticed |
| `wire_time` | 301 times, from a second before zero to five seconds after, in fifths of a microsecond, a second having ten microseconds | the stamp sent is the nearest valid one |

**Why these bounds.** A ring of three wraps twice, with reads before, at and
after the wrap. One model is enough where the records of different models do
not touch, which is everywhere but in the names (`server_names`); one reset is
enough because the properties speak about what is held before it and after it;
the times 0, 1, 2, 4 contain a repeated time, a step, a gap beyond the timeout
and a step back. `server_sample_time` needs more than seven snapshots to fill
the ring that a delay of four asks for, and a ring of the
minimal capacity would already fail there. With three snapshots in the mailbox
each can replace, be replaced and be missed; a period of two ticks is the
shortest in which a cycle can be late by part of a period, and by one and two.
`plugin_capture` leaves the worker out because Gazebo's thread reads
nothing the worker writes before `stop`. `server_node` has the messages for a sample, its
successor and the one that is lost between them, and clock times for a step forward and
back and the zero between; its timeout of two periods separates only the two clocks.
Two wall times, one of them reached twice, are a step forward, a pause and a step
back of the clock that stands in for `/clock`; a second setting back would only repeat the
first, since the server compares the times of two messages and no more.
Five periods of `bridge` hold two scans of two periods, one after the other, and
the period that setting the clock back adds; that a model is deleted, or created, once is
enough as the properties speak of the time since the last change. The theorems below do not depend on any of these bounds.

In `MCTrackerServer` captures are a period apart and in the order of
the wall clock, as both adapters make them; the module itself, and the theorems
about it, allow any snapshots in any order. For `HistoryReachesMaxDelay` this
matters: two captures of neighbouring periods may be less than a period
apart (`CapturesArePaced` states what holds), which the three spare samples
of the capacity absorb. The model counts a capture by the period it falls in.

`delay_cycles` needs two trackers to share a common part and two times to
go back and forth; longer sequences of times only repeat
those, since a component remembers one time. In
`config_loading` the families contain together every pair of blocks of which
one may overwrite what the other has set.

Deadlock is checked everywhere but in `ServerConfig`, where `load()` ends: a server
can always be called again, and time always passes.

**Finding.** `config_noise` checks, for the measurement noise, what
`config/vrpn_server.yaml:2` says: "Launch arguments can override top-level
values". It does not hold: `load()` reads
`mocap_noise_enabled` and `mocap_noise_seed` first (SC:159), and
`parseMocapNoise` then overwrites them with the block of the YAML file. The automatic
mode and the delay had the same order and are applied again after the blocks
(SC:165); the noise is not. With `vrpn_server.yaml`, the default, and with
`vrpn_server_hybrid.yaml`, `vrpn_server_delay_simple.yaml` and
`vrpn_server_delay_complex.yaml`, which have such a block,
`mocap_noise_enabled:=false` has no effect; with `fs150_uav_vrpn_server.yaml` and
`fs150_ugv_vrpn_server.yaml`, which have none, it works.

**Fairness.** `MCFairSpec` of the plugin: weak fairness of the worker, of the
steps that end a callback or `stop` once begun, and of `Tick`: the operating
system runs a thread that can run, and time passes. Nothing makes Gazebo call back, nothing
makes it destroy the plugin, and no spurious wakeup or exception is ever
needed. `StopTerminates` (without the timeout of the wait the lost notification would hang
`join` forever) and `HandsOverSnapshots` rest on it. `NodeFairness` of the
node: weak fairness of its thread, and of the end of `spinOnce`, which
processes what was queued when it was called and does not wait for more.
`HandsOverMessages` rests on it; no message, clock or signal is needed.
In the contract itself only the steps of an adapter that is not closed are fair.

## 4. What is proved

All theorems hold for every value of the constants under the named assumptions
of the module: non-zero periods, sentinels that are not ordinary values, a
mapping into the tracker names, snapshots without repeated model names, and, for
the loader (`SetupsAssumption`), mappings with finitely many keys, which are strings.

**RingHistoryProofs, SampleHistoryProofs.** `IsHistory`, the type of a ring, is
not inductive alone; `WellFilled` adds which slots have been written: all of
them in a full ring, those below `next` in any other. Two lemmas carry everything: where the k-th oldest
sample lies, and how a push moves it. From them: a read
returns a sample pushed since the reset (`ReadsAreOfPushedSamples`), each step
maps to a step of the window whose newest sample is what `latest` reads (`RingImplementsWindow`), and `NearestIsHeld`: what `nearest` returns is held, and nothing held is closer.
`ScanIsOfNearest` proves the loop of `nearest` itself, as the recursive function
that walks from the youngest sample to the oldest: of the offsets at which
the scan would be wrong the one it meets first does not exist, since the
scan is right one step before it. So the result is the *youngest* of the closest, although
the wall times come in any order.

**TrackerServerProofs.** `InvariantOfSpec` proves an inductive invariant:
`TypeOK`, `TrackerNamesUnique`, `PosedModelHasSample`, and the properties of
samples strengthened from the samples held to the *derivative state of the
record*, since the next sample is computed from that. A
report is a sample of the history at the time of `Publish`, so
`ReportsOfThisTimeline` follows from the corresponding property of samples and
the monotonicity of `delivered` within a timeline. `HistoriesFollowTime` (for
`HistoryFollowsSimulationTime`) adds that the last sample of a record is the
derivative state's. Proved from it:
`TypeCorrect`, `NamesStayUnique`, `PosedModelsHaveSamples`,
`NothingOutlivesItsTimeline`, `ReportsStayInTheirTimeline`,
`DerivativesAlwaysMeasured`, and the action properties `StampsOnlyAdvance` and
`RegistrationStays`. Since a scan overwrites entries of `tracker_names_`, the latter needs
that no order of the models in a snapshot registers the name of an owner a second time
(`OwnersKeepTheirNames`), and `TrackerNamesUnique` for the owner's record. The module also has the theorem about `WireTime`, the other module of
the component: `WireTimeIsNearest`, for any number of microseconds in a
second and parts in a microsecond.

**SystemPluginProofs.** The invariant has a part for each concern, and a lemma
for each part. `Attachment`: a worker exists only if a world was attached, so
a second is never started. `Pacing`: each cycle published since the
last tick has moved `due` by a period, so a fourth would need a cycle that is not due.
`HandOver`: the sequence numbers of `built`, the mailbox,
`taken` and the server are ordered, and a snapshot that differs in number from
`processed_sequence` is whole. `Stopping`: the cycles after the
flag. `HandlesCurrent`: a handle is wrong only for a model that changed since
the last scan. `CaptureGrid`: the ages of the last three captures, and the sum of an age and the time to the next
capture, which no tick decreases. Theorems: `TypeCorrect`, `ServerSeesWholeSnapshots`,
`HandOverKept` (the safety half of `HandsOverSnapshots`: every step maps to a step or a
stutter of the contract), `SnapshotsWaitOneCycle`, `CatchUpBounded`,
`StopIsPrompt`, `OneWorkerOnly`, `CaptureCadence`, `SnapshotsFollowTheWorld`.

**MeasurementDelayProofs.** The invariant adds to `TypeOK` that the configuration is an
accepted one and that the answers of the current time agree with the state
they came from: the common component as long as the cycle is current, and
each tracker's own. From it: `TypeCorrect`, `DelaysStayInRange`,
`DelaysAgreeInCycle`, `CapacitiesAreBounded` and the action property
`DriftOnlyWithTime`, for every set of configurations, trackers and times.

**BridgeProofs.** A theorem about the server alone holds in the bridge
because the plugin drives it as any adapter may (`PluginDrivesServer`:
`BridgeSpec` implies `Spec` of `TrackerServer`). Its hypothesis `AnyAdapter`, and that of
the theorems below, is that the constants `Snapshots` and `SendTimes`
are the widest sets the assumptions allow, since a bridge delivers what is
captured and not a member of a set chosen beforehand.
The argument for the times: `wall - elapsed + setBack` never decreases
(`Drift`). So from a scan to any later moment the steady clock advances by no more than
the system clock and what it was set back by, and a scan is never more than
`ScanInterval + setBack` old when it is consulted. The invariant relates moments by
`Older`: of two moments the later has drifted no less, and a model that did not
change after the earlier is in both worlds or in neither. It holds between the server's snapshot, the
mailbox and the present, and gives `ModelsGetTrackers` (the
two scans one after the other), `DeletedModelsAreSilent`, and `ResetsAreSeen`, from
how far a run can get in the time between two snapshots.

`DelaysAreCovered` proves `HistoryReachesMaxDelay`, which is false of a server whose
adapter may capture at any pace. Its invariant has two parts. `CapturesPaced`: of
the snapshot that was processed, the one in the mailbox and the capture that is due,
no two belong to one period. `HistoriesReach`: the samples of a ring are spaced, so that the
k-th before the latest is at least k periods older, and the latest is no younger than
the last snapshot. The spacing of a full ring of `historyCapacityForTracker` samples is the
longest delay and its margin. The theorem is about executions in which the system clock was
not set back (`setBack = 0`), because the history is kept by that clock:
a clock set back by a minute puts the next minute's samples on times the ring already holds.
That it is set *forward* is allowed.

**ServerNodeProofs.** The hypothesis `EveryMessage` numbers the messages
without a bound. The invariant adds to the node's own state what each sample is: of a
message that was served, at its wall time, in the order of the messages,
and with derivatives on one clock (`NodeModel`); the derivative state is on the clock of
its pose (`OnClock`), so that the two are further apart than the timeout and
`CanDifferentiate` refuses them; and the server's last time is not ahead of the clock
it came from unless that went back: `/clock` since (`LastTimeIsPast`), or the system
clock after the message it came from (`WallInOrder`: the arrivals of two messages
are in order if no setting back lies between them). From it:
`SamplesAreOfTheirMessages`, `DerivativesOnOneClock`, `NoResetIsSpurious`,
`MessagesAreHandedOver` (the safety half of `HandsOverMessages`) and
`NodeDrivesServer`, the counterpart of `PluginDrivesServer`.

**ServerConfigProofs.** `LoadInv` says of each step of `load()` what the
steps before it have decided and no later step may decide again:
`MappingGood` (the robots, then `manual_mapping`), `TransformsGood` (the
default, the robots, then extrinsics) and `ArgumentsGood` (what the launch file
has set, from the step that reads it last). `NoiseInv` does the same for the noise, whose
arguments are read first and hold only where the `mocap_noise` block is silent. `Moves` is what the steps have in common:
on to the next with all other members of the configuration as they were. Below it
lie lemmas about the maps that a block makes of its entries, which need that a
`std::map` has a last key among any of its keys (`LastOfIsOne`, by a minimal
counterexample among the finite sets). From it: `ExplicitMappingHolds`,
`ModesStayExclusive`, `TransformsFollowPrecedence` and `LaunchArgumentsHold`, for
any strings, any way of trimming and matching them, and whatever the two files
set. `LoadedIsAccepted` proves of a loaded configuration what `MeasurementDelay`
and `TrackerServer` assume of theirs.

**Only model-checked:**

- Liveness, out of the prover's reach: `StopTerminates` and the fairness of
  the contract in `HandsOverSnapshots` and `HandsOverMessages`.

Every invariant and every action property of the passing runs is proved.

## 5. Not modelled

- Parameters that the loader only copies, and the comparison of strings.
- Noise, filters and transforms: arithmetic on reals. Which measurements a
  filter has seen is modelled, what it computes is not.
- The VRPN library and its connections: an exception of either is
  `WorkerThrows`, or `Throws` in the node.
- roscpp and Gazebo, but for the order in which they deliver messages, clock
  times and callbacks.
- Release scripts, CI, configuration and launch files, the Python tools.

## 6. Plan

1. Histories, tracker server, plugin; their safety theorems (done).
2. `MeasurementDelay` and its theorems (done).
3. `ServerConfig`: precedence of blocks, modes and arguments (done).
4. The legacy node, the hand-over contract of both adapters, the
   composition of plugin and server, and their theorems (done).
5. The conversion of stamps to `timeval` (done).
6. `TrackerServer` with the mapping of a loaded `ServerConfig` and with the
   delays of `MeasurementDelay` in the place of its constants: what each of the
   two guarantees is checked in its own module, and what `TrackerServer` assumes of them is
   a named assumption; of the delay and its policy `LoadedIsAccepted` proves it. The
   configuration does not change once it is loaded, so nothing else passes between them.
7. `HistoryReachesMaxDelay` in `Bridge`, where captures are paced, and the properties of
   `ServerConfig` and of the scan of `nearest` (proved).
