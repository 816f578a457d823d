--------------------------- MODULE TrackerServer ---------------------------
(***************************************************************************)
(* VrpnTrackerServer (vrpn_tracker_server.cpp): the measurement core that  *)
(* both adapters, the Gazebo plugin and the ROS node, drive from one owner *)
(* thread.  processSnapshot() takes in the model poses of one simulation   *)
(* step, publish() reports one pose per tracker to its VRPN clients.       *)
(*                                                                         *)
(* Time is counted in publish periods, so publish_rate is one per tick and *)
(* the epsilons of the double comparisons are below the resolution.  Wall  *)
(* time and simulation time are two independent clocks.  A pose is a value *)
(* that identifies where a measurement comes from; a velocity or an        *)
(* acceleration is the set of the poses it was computed from, which is     *)
(* what its filters have seen since they were last initialised.            *)
(***************************************************************************)
EXTENDS RingHistory, Sequences

CONSTANTS Models,          \* Gazebo model names
          Trackers,        \* VRPN tracker names
          NoTracker,       \* the empty tracker name: not exported
          TrackerNameFor,  \* config_.trackerNameForGazeboModel
          Poses, NoPose,
          Snapshots,       \* the snapshots that may be processed
          SendTimes,       \* the wall times publish() may be called at
          DelayEnabled, TimestampPolicy, HistoryMargin,
          MaxDelay,        \* maxDelayMsForTracker(), per tracker
          ScanInterval, DerivativeResetTimeout,
          NoReport         \* nothing was sent to this tracker yet

Sources == {"wall_time", "simulation_time"}

ASSUME NamesAssumption == /\ NoTracker \notin Trackers
                          /\ TrackerNameFor \in [Models -> Trackers \cup {NoTracker}]
                          /\ NoPose \notin Poses
ASSUME ConfigAssumption == /\ DelayEnabled \in BOOLEAN
                           /\ TimestampPolicy \in {"send_time", "sample_time"}
                           /\ MaxDelay \in [Trackers -> Nat] /\ HistoryMargin \in Nat
                           /\ ScanInterval \in Nat /\ DerivativeResetTimeout \in Nat
\* What an adapter delivers: Gazebo model names are unique in a world.
ASSUME SnapshotsAssumption ==
    \A snap \in Snapshots :
        /\ snap.source \in Sources
        /\ snap.sampleTime \in Int /\ snap.captureWall \in Int
        /\ snap.models \in Seq([name : Models, pose : Poses])
        /\ \A i, j \in DOMAIN snap.models :
               snap.models[i].name = snap.models[j].name => i = j
ASSUME SendTimesAssumption == SendTimes \subseteq Int

VARIABLES
    tracked,         \* tracked_models_, by the name of the Gazebo model
    trackerNames,    \* tracker_names_: the model that owns a tracker name
    seenSnapshot,    \* have_wire_timestamp_source_ and have_sample_time_
    source,          \* wire_timestamp_source_
    lastSampleTime,  \* last_sample_time_s_
    lastScan,        \* last_scan_wall_time_s_, 0 before the first scan
    sent             \* the last report given to each tracker's VRPN object

\* History variables, not in the code.  A timeline is what the server has
\* received since the sample time last moved backwards or the source changed.
VARIABLES
    delivered,       \* the poses of each model delivered in this timeline
    reported         \* the trackers reported in this timeline

serverVars == <<tracked, trackerNames, seenSnapshot, source, lastSampleTime,
                lastScan, sent>>
vars == <<serverVars, delivered, reported>>
-----------------------------------------------------------------------------
(* Derivatives: the part of TrackedModel that velocities come from.  The   *)
(* pose is latest_pose and last_tracker_transform, always the same pose;   *)
(* haveVelocity is also have_raw_velocity, set and cleared with it.        *)

\* have_derivative_state is FALSE: nothing else is read before it is set.
NoMotion == [known |-> FALSE, pose |-> NoPose, time |-> 0, dt |-> 0,
             velocity |-> {}, acceleration |-> {},
             haveVelocity |-> FALSE, haveAcceleration |-> FALSE]

InitializedMotion(pose, time) ==
    [known |-> TRUE, pose |-> pose, time |-> time, dt |-> 0,
     velocity |-> {}, acceleration |-> {},
     haveVelocity |-> FALSE, haveAcceleration |-> FALSE]

\* The raw velocity comes from the previous and the present pose; an
\* acceleration needs a previous raw velocity as well.
DifferentiatedMotion(motion, pose, time) ==
    LET raw == {motion.pose, pose}
    IN [known |-> TRUE, pose |-> pose, time |-> time, dt |-> time - motion.time,
        velocity |-> motion.velocity \cup raw,
        acceleration |-> IF motion.haveVelocity
                         THEN motion.acceleration \cup motion.velocity \cup raw
                         ELSE motion.acceleration,
        haveVelocity |-> TRUE,
        haveAcceleration |-> motion.haveVelocity \/ motion.haveAcceleration]

\* Mutant of CanDifferentiate: no derivative reset timeout.
CanDifferentiateAcrossGaps(motion, time) == motion.known /\ time - motion.time > 0

CanDifferentiate(motion, time) ==
    /\ motion.known
    /\ time - motion.time > 0
    /\ time - motion.time <= DerivativeResetTimeout

\* Mutant of NextMotion: a repeated sample time leaves the derivatives alone.
NextMotionSkippingRepeats(motion, pose, time) ==
    IF motion.known /\ time = motion.time THEN motion
    ELSE IF CanDifferentiate(motion, time) THEN DifferentiatedMotion(motion, pose, time)
                                           ELSE InitializedMotion(pose, time)

NextMotion(motion, pose, time) ==
    IF CanDifferentiate(motion, time) THEN DifferentiatedMotion(motion, pose, time)
                                      ELSE InitializedMotion(pose, time)
-----------------------------------------------------------------------------
(* Tracked models and their samples.                                       *)

\* Mutant of HistoryCapacity: the minimum, whatever the delay.
HistoryCapacityOfFour(tracker) == 4

\* Three samples more than the longest delay and the margin take, at least 4.
HistoryCapacity(tracker) ==
    LET window == MaxDelay[tracker] + HistoryMargin
    IN IF DelayEnabled /\ window + 3 >= 4 THEN window + 3 ELSE 4

NewTrackedModel(model) ==
    [tracker |-> TrackerNameFor[model], havePose |-> FALSE, motion |-> NoMotion,
     history |-> ClearedHistory(HistoryCapacity(TrackerNameFor[model]))]

\* Mutant of ResetMeasurement: the samples are kept.
ResetMeasurementKeepingHistory(r) ==
    [tracker |-> r.tracker, havePose |-> FALSE, motion |-> NoMotion, history |-> r.history]

\* resetMeasurementState(), of one model.
ResetMeasurement(r) ==
    [tracker |-> r.tracker, havePose |-> FALSE, motion |-> NoMotion,
     history |-> ClearedHistory(r.history.cap)]

TimeInSource(src, simulationTime, wallTime) ==
    IF src = "simulation_time" THEN simulationTime ELSE wallTime

\* Mutant of SampleOf: without the fallback for an interval not yet measured.
SampleWithRawInterval(motion, wall, sourceTime) ==
    [wall |-> wall, source |-> sourceTime, pose |-> motion.pose,
     velocity |-> motion.velocity, acceleration |-> motion.acceleration,
     haveVelocity |-> motion.haveVelocity,
     haveAcceleration |-> motion.haveAcceleration, interval |-> motion.dt]

\* The report interval is the measured one, or else the publish period.
SampleOf(motion, wall, sourceTime) ==
    [wall |-> wall, source |-> sourceTime, pose |-> motion.pose,
     velocity |-> motion.velocity, acceleration |-> motion.acceleration,
     haveVelocity |-> motion.haveVelocity,
     haveAcceleration |-> motion.haveAcceleration,
     interval |-> IF motion.dt > 0 THEN motion.dt ELSE 1]

UpdateTrackedModel(r, pose, snap) ==
    LET motion == NextMotion(r.motion, pose, snap.sampleTime)
        sourceTime == TimeInSource(snap.source, snap.sampleTime, snap.captureWall)
    IN [tracker |-> r.tracker, havePose |-> TRUE, motion |-> motion,
        history |-> Push(r.history, SampleOf(motion, snap.captureWall, sourceTime))]
-----------------------------------------------------------------------------
(* processSnapshot().                                                      *)

NamesIn(snap) == {snap.models[i].name : i \in DOMAIN snap.models}

PoseIn(snap, model) ==
    snap.models[CHOOSE i \in DOMAIN snap.models : snap.models[i].name = model].pose

\* Mutant of SourceChanged: the new source is adopted without a reset.
SourceChangeIgnored(snap) == FALSE

\* Mutant of TimeMovedBackwards: a repeated sample time counts as one.
TimeStoodStill(snap) == seenSnapshot /\ snap.sampleTime <= lastSampleTime

\* Both reset the measurement state.
SourceChanged(snap) == seenSnapshot /\ snap.source # source
TimeMovedBackwards(snap) == seenSnapshot /\ snap.sampleTime < lastSampleTime

ShouldScan(snap) ==
    lastScan = 0 \/ snap.captureWall - lastScan >= ScanInterval

\* Mutant of Registered: a tracker name is not looked up in tracker_names_.
RegisteredUnderTakenNames(snap) ==
    {snap.models[i].name : i \in {k \in DOMAIN snap.models :
        LET name == snap.models[k].name
            tracker == TrackerNameFor[name]
        IN /\ tracker # NoTracker
           /\ name \notin DOMAIN tracked
           /\ \A j \in 1 .. k - 1 : TrackerNameFor[snap.models[j].name] # tracker}}

\* The models a scan registers: of the models that ask for a free tracker
\* name, the first one in the snapshot gets it.
Registered(snap) ==
    {snap.models[i].name : i \in {k \in DOMAIN snap.models :
        LET name == snap.models[k].name
            tracker == TrackerNameFor[name]
        IN /\ tracker # NoTracker
           /\ name \notin DOMAIN tracked
           /\ tracker \notin DOMAIN trackerNames
           /\ \A j \in 1 .. k - 1 : TrackerNameFor[snap.models[j].name] # tracker}}

Newcomers(snap) == IF ShouldScan(snap) THEN Registered(snap) ELSE {}

\* Mutant of AfterSnapshot: have_pose is not cleared first.
AfterSnapshotKeepingPose(snap, model) ==
    LET before == IF model \notin DOMAIN tracked THEN NewTrackedModel(model)
                  ELSE IF SourceChanged(snap) \/ TimeMovedBackwards(snap)
                       THEN ResetMeasurement(tracked[model]) ELSE tracked[model]
    IN IF model \in NamesIn(snap)
       THEN UpdateTrackedModel(before, PoseIn(snap, model), snap)
       ELSE before

\* A model's record once the snapshot is in: reset if its time base is gone,
\* and with a pose only if the snapshot has one.
AfterSnapshot(snap, model) ==
    LET before == IF model \notin DOMAIN tracked THEN NewTrackedModel(model)
                  ELSE IF SourceChanged(snap) \/ TimeMovedBackwards(snap)
                       THEN ResetMeasurement(tracked[model]) ELSE tracked[model]
    IN IF model \in NamesIn(snap)
       THEN UpdateTrackedModel(before, PoseIn(snap, model), snap)
       ELSE [tracker |-> before.tracker, havePose |-> FALSE,
             motion |-> before.motion, history |-> before.history]

\* History variables: a timeline ends where the snapshot does not continue it.
EndsTimeline(snap) ==
    seenSnapshot /\ (snap.source # source \/ snap.sampleTime < lastSampleTime)

RecordTimeline(snap) ==
    LET posesOf(model) == {p \in Poses : \E i \in DOMAIN snap.models :
                               snap.models[i] = [name |-> model, pose |-> p]}
    IN /\ delivered' = [model \in Models |->
              IF EndsTimeline(snap) THEN posesOf(model)
                                    ELSE delivered[model] \cup posesOf(model)]
       /\ reported' = IF EndsTimeline(snap) THEN {} ELSE reported

ProcessSnapshot(snap) ==
    /\ tracked' = [model \in DOMAIN tracked \cup Newcomers(snap) |->
                       AfterSnapshot(snap, model)]
    /\ trackerNames' =
           [t \in DOMAIN trackerNames \cup {TrackerNameFor[m] : m \in Newcomers(snap)} |->
                IF \E m \in Newcomers(snap) : TrackerNameFor[m] = t
                THEN CHOOSE m \in Newcomers(snap) : TrackerNameFor[m] = t
                ELSE trackerNames[t]]
    /\ seenSnapshot' = TRUE
    /\ source' = snap.source
    /\ lastSampleTime' = snap.sampleTime
    /\ lastScan' = IF ShouldScan(snap) THEN snap.captureWall ELSE lastScan
    /\ RecordTimeline(snap)
    /\ UNCHANGED sent
-----------------------------------------------------------------------------
(* publish().                                                              *)

\* The delays of one cycle, one per tracker: MeasurementDelay clamps each.
Delays ==
    LET range(t) == IF DelayEnabled THEN 0 .. MaxDelay[t] ELSE {0}
    IN {delay \in [Trackers -> UNION {range(t) : t \in Trackers}] :
            \A t \in Trackers : delay[t] \in range(t)}

SampleForPublish(r, sendWall, delay) ==
    IF DelayEnabled THEN Nearest(r.history, sendWall - delay) ELSE Latest(r.history)

\* Mutant of Stamp: the sample's time whatever the policy.
StampOfSample(sample, sendWall) == IF sample.source >= 0 THEN sample.source ELSE 0

Stamp(sample, sendWall) ==
    LET t == IF TimestampPolicy = "sample_time" THEN sample.source
             ELSE TimeInSource(source, lastSampleTime, sendWall)
    IN IF t >= 0 THEN t ELSE 0     \* secondsToTimeval()

\* The trackers a publish reports.
Reportable == {t \in DOMAIN trackerNames :
                   /\ tracked[trackerNames[t]].havePose
                   /\ ~IsEmpty(tracked[trackerNames[t]].history)}

Publish(sendWall, delay) ==
    /\ sent' = [t \in Trackers |->
           IF t \in Reportable
           THEN LET sample == SampleForPublish(tracked[trackerNames[t]], sendWall, delay[t])
                IN [stamp |-> Stamp(sample, sendWall), sample |-> sample]
           ELSE sent[t]]
    /\ reported' = reported \cup Reportable
    /\ UNCHANGED <<tracked, trackerNames, seenSnapshot, source, lastSampleTime,
                   lastScan, delivered>>
-----------------------------------------------------------------------------
(* The server, called in any order with any arguments.                     *)

EmptyFunction == [x \in {} |-> x]

Init == /\ tracked = EmptyFunction
        /\ trackerNames = EmptyFunction
        /\ seenSnapshot = FALSE
        /\ source = "wall_time"
        /\ lastSampleTime = 0
        /\ lastScan = 0
        /\ sent = [t \in Trackers |-> NoReport]
        /\ delivered = [model \in Models |-> {}]
        /\ reported = {}

Next == \/ \E snap \in Snapshots : ProcessSnapshot(snap)
        \/ \E sendWall \in SendTimes, delay \in Delays : Publish(sendWall, delay)

Spec == Init /\ [][Next]_vars
-----------------------------------------------------------------------------
(* Properties.                                                             *)

SampleSet == [wall : Int, source : Int, pose : Poses,
              velocity : SUBSET Poses, acceleration : SUBSET Poses,
              haveVelocity : BOOLEAN, haveAcceleration : BOOLEAN,
              interval : Nat \ {0}]

MotionSet == [known : BOOLEAN, pose : Poses \cup {NoPose}, time : Int, dt : Nat,
              velocity : SUBSET Poses, acceleration : SUBSET Poses,
              haveVelocity : BOOLEAN, haveAcceleration : BOOLEAN]

IsTrackedModel(r) ==
    /\ r = [tracker |-> r.tracker, havePose |-> r.havePose,
            motion |-> r.motion, history |-> r.history]
    /\ r.tracker \in Trackers
    /\ r.havePose \in BOOLEAN
    /\ r.motion \in MotionSet
    /\ IsHistory(r.history, SampleSet \cup {BlankSample})

\* Type invariant.
TypeOK ==
    /\ DOMAIN tracked \subseteq Models
    /\ \A m \in DOMAIN tracked : IsTrackedModel(tracked[m])
    /\ DOMAIN trackerNames \subseteq Trackers
    /\ \A t \in DOMAIN trackerNames : trackerNames[t] \in Models
    /\ seenSnapshot \in BOOLEAN
    /\ source \in Sources
    /\ lastSampleTime \in Int /\ lastScan \in Int
    /\ sent \in [Trackers -> [stamp : Nat, sample : SampleSet] \cup {NoReport}]
    /\ delivered \in [Models -> SUBSET Poses]
    /\ reported \subseteq Trackers

\* tracked_models_ and tracker_names_ stay inverse to each other: no two
\* models report under one VRPN tracker name and no name is held by a model
\* that is not tracked, whichever models a scan meets and in which order.
TrackerNamesUnique ==
    /\ \A m \in DOMAIN tracked : /\ tracked[m].tracker \in DOMAIN trackerNames
                                /\ trackerNames[tracked[m].tracker] = m
    /\ \A t \in DOMAIN trackerNames : /\ trackerNames[t] \in DOMAIN tracked
                                     /\ tracked[trackerNames[t]].tracker = t

\* A tracker stays with the model it was registered for, and the model with the
\* tracker: a model that is deleted and created again resumes its tracker, and
\* another model that asks for the same name in the meantime, whose assignment
\* to tracker_names_ would overwrite the entry, does not take it over.
RegistrationIsPermanent ==
    [][\A t \in DOMAIN trackerNames :
           LET model == trackerNames[t]
           IN /\ t \in DOMAIN trackerNames' /\ trackerNames'[t] = model
              /\ model \in DOMAIN tracked' /\ tracked'[model].tracker = t]_vars

\* A model that has a pose has it as the latest sample of its history, taken
\* from the last snapshot: publish() never meets an empty history there.
PosedModelHasSample ==
    \A m \in DOMAIN tracked :
        LET r == tracked[m]
        IN r.havePose =>
            /\ ~IsEmpty(r.history)
            /\ r.motion.known /\ r.motion.time = lastSampleTime
            /\ Latest(r.history).pose = r.motion.pose
            /\ source = "simulation_time" => Latest(r.history).source = lastSampleTime

\* What a sample was computed from.
Origins(s) == {s.pose} \cup s.velocity \cup s.acceleration

\* Once the simulation was reset, or the source changed, nothing measured
\* before is left in any history: neither a pose nor, through the filters, a
\* share in a velocity or an acceleration.
SamplesOfThisTimeline ==
    \A m \in DOMAIN tracked :
        \A s \in Held(tracked[m].history) : Origins(s) \subseteq delivered[m]

\* The same of the reports, whatever delay selects them; and on simulation
\* time no report carries a time the simulation has not reached.
ReportsOfThisTimeline ==
    \A t \in reported :
        /\ t \in DOMAIN trackerNames
        /\ Origins(sent[t].sample) \subseteq delivered[trackerNames[t]]
        /\ source = "simulation_time" => sent[t].stamp <= lastSampleTime
                                          \/ sent[t].stamp = 0

\* A velocity is only ever reported over a measured interval that is no longer
\* than the derivative reset timeout, an acceleration only with a velocity;
\* after a gap or a pause no derivative survives from before it.
DerivativesAreMeasured ==
    \A m \in DOMAIN tracked : \A s \in Held(tracked[m].history) :
        /\ s.haveVelocity <=> s.velocity # {}
        /\ s.haveAcceleration <=> s.acceleration # {}
        /\ s.haveAcceleration => s.haveVelocity
        /\ s.haveVelocity => s.interval \in 1 .. DerivativeResetTimeout

\* In a history on simulation time the samples are in the order of their
\* times, and the interval reported with a velocity is the time between its
\* sample and the one before: no snapshot is differentiated twice or skipped.
HistoryFollowsSimulationTime ==
    source = "simulation_time" =>
        \A m \in DOMAIN tracked :
            LET h == tracked[m].history
            IN \A k \in 1 .. h.size - 1 :
                LET gap == SampleAt(h, k).source - SampleAt(h, k - 1).source
                IN /\ gap >= 0
                   /\ IF SampleAt(h, k).haveVelocity
                      THEN gap = SampleAt(h, k).interval
                      ELSE gap = 0 \/ gap > DerivativeResetTimeout

\* Where each report is stamped with the newest simulation time, by policy or
\* because there is no delay, the stamps of a tracker only move backwards
\* when the simulation was reset.
StampsAdvance ==
    [][source = "simulation_time" /\ (TimestampPolicy = "send_time" \/ ~DelayEnabled)
         => \A t \in reported : sent'[t].stamp >= sent[t].stamp]_vars

\* A full history reaches back at least as far as the longest delay, so that
\* a delayed report is never cut short by the capacity of the ring.
HistoryReachesMaxDelay ==
    DelayEnabled =>
        \A m \in DOMAIN tracked :
            LET h == tracked[m].history
            IN h.size = h.cap =>
                   SampleAt(h, 0).wall <= Latest(h).wall - MaxDelay[tracked[m].tracker]
=============================================================================
