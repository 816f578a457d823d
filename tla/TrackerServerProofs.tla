------------------------ MODULE TrackerServerProofs ------------------------
(***************************************************************************)
(* Theorems about TrackerServer, for every set of models, names, poses and *)
(* snapshots and every configuration the assumptions allow, and for any    *)
(* order of calls: the wall clock may jump, snapshots may arrive in any    *)
(* order, publish() may run at any time.  The last part is about WireTime, *)
(* the time stamps that the server's reports carry.                        *)
(***************************************************************************)
EXTENDS TrackerServer, WireTime, RingHistoryProofs

\* The instance that leaves an adapter free: it may deliver whatever is a
\* snapshot, and publish at any time.
EverySnapshot ==
    {snap \in [source : Sources, sampleTime : Int, captureWall : Int,
               models : Seq([name : Models, pose : Poses])] :
        \A i, j \in DOMAIN snap.models : snap.models[i].name = snap.models[j].name => i = j}

AnyAdapter == Snapshots = EverySnapshot /\ SendTimes = Int

\* The derivatives of m as the filters hold them: computed from poses in D
\* only, and the flags agree with what has been computed.
GoodMotion(motion, D) ==
    /\ motion \in MotionSet
    /\ motion.known => motion.pose \in D
    /\ motion.velocity \subseteq D /\ motion.acceleration \subseteq D
    /\ motion.haveVelocity <=> motion.velocity # {}
    /\ motion.haveAcceleration <=> motion.acceleration # {}
    /\ motion.haveAcceleration => motion.haveVelocity
    /\ motion.haveVelocity => motion.dt \in 1 .. DerivativeResetTimeout

\* The samples that may be in a history: computed from D, no later than `last`
\* on simulation time, with a velocity only over a measured interval.
GoodSamples(D, src, last) ==
    {s \in SampleSet :
        /\ Origins(s) \subseteq D
        /\ s.haveVelocity <=> s.velocity # {}
        /\ s.haveAcceleration <=> s.acceleration # {}
        /\ s.haveAcceleration => s.haveVelocity
        /\ s.haveVelocity => s.interval \in 1 .. DerivativeResetTimeout
        /\ src = "simulation_time" => s.source <= last}

GoodModel(m, r, D, src, last) ==
    /\ r = [tracker |-> r.tracker, havePose |-> r.havePose,
            motion |-> r.motion, history |-> r.history]
    /\ r.tracker \in Trackers /\ r.tracker = TrackerNameFor[m]
    /\ r.havePose \in BOOLEAN
    /\ GoodMotion(r.motion, D)
    /\ WellFilled(r.history, GoodSamples(D, src, last))

\* A model with a pose has it from the last snapshot, in its latest sample.
FreshPose(r, src, last) ==
    r.havePose =>
        /\ ~IsEmpty(r.history)
        /\ r.motion.known /\ r.motion.time = last
        /\ Latest(r.history).pose = r.motion.pose
        /\ src = "simulation_time" => Latest(r.history).source = last

-----------------------------------------------------------------------------
(* One model.                                                              *)

LEMMA NewModelIsGood ==
    ASSUME NEW m \in Models, TrackerNameFor[m] # NoTracker, NEW D, NEW src, NEW last
    PROVE  /\ GoodModel(m, NewTrackedModel(m), D, src, last)
           /\ NewTrackedModel(m).havePose = FALSE
<1>1. TrackerNameFor[m] \in Trackers
  BY NamesAssumption
<1>2. HistoryCapacity(TrackerNameFor[m]) \in Nat
  BY <1>1, ConfigAssumption DEF HistoryCapacity
<1>3. WellFilled(ClearedHistory(HistoryCapacity(TrackerNameFor[m])), GoodSamples(D, src, last))
  BY <1>2, ClearedIsWellFilled
<1>4. GoodMotion(NoMotion, D)
  BY DEF GoodMotion, NoMotion, MotionSet
<1>. QED  BY <1>1, <1>3, <1>4 DEF GoodModel, NewTrackedModel

LEMMA ResetModelIsGood ==
    ASSUME NEW m, NEW r, NEW C, NEW src1, NEW last1, GoodModel(m, r, C, src1, last1),
           NEW D, NEW src, NEW last
    PROVE  /\ GoodModel(m, ResetMeasurement(r), D, src, last)
           /\ ResetMeasurement(r).havePose = FALSE
<1>1. r.history.cap \in Nat
  BY DEF GoodModel, WellFilled, IsHistory
<1>2. WellFilled(ClearedHistory(r.history.cap), GoodSamples(D, src, last))
  BY <1>1, ClearedIsWellFilled
<1>3. GoodMotion(NoMotion, D)
  BY DEF GoodMotion, NoMotion, MotionSet
<1>. QED  BY <1>2, <1>3 DEF GoodModel, ResetMeasurement

LEMMA GoodModelIsMonotone ==
    ASSUME NEW m, NEW r, NEW C, NEW D, C \subseteq D, NEW src,
           NEW last1 \in Int, NEW last2 \in Int, last1 <= last2,
           GoodModel(m, r, C, src, last1)
    PROVE  GoodModel(m, r, D, src, last2)
<1>1. GoodSamples(C, src, last1) \subseteq GoodSamples(D, src, last2)
  BY DEF GoodSamples, SampleSet
<1>2. GoodMotion(r.motion, D)
  BY DEF GoodModel, GoodMotion
<1>3. WellFilled(r.history, GoodSamples(D, src, last2))
  <2>1. WellFilled(r.history, GoodSamples(C, src, last1))
    BY DEF GoodModel
  <2>. QED  BY <1>1, <2>1 DEF WellFilled, IsHistory
<1>. QED  BY <1>2, <1>3 DEF GoodModel

LEMMA NextMotionIsGood ==
    ASSUME NEW D \in SUBSET Poses, NEW motion, GoodMotion(motion, D),
           NEW pose \in D, NEW time \in Int
    PROVE  /\ GoodMotion(NextMotion(motion, pose, time), D)
           /\ NextMotion(motion, pose, time).known
           /\ NextMotion(motion, pose, time).time = time
           /\ NextMotion(motion, pose, time).pose = pose
<1>1. CASE CanDifferentiate(motion, time)
  <2>. DEFINE next == DifferentiatedMotion(motion, pose, time)
  <2>1. /\ motion.pose \in D /\ motion.time \in Int
        /\ time - motion.time \in 1 .. DerivativeResetTimeout
        /\ motion.haveVelocity \in BOOLEAN /\ motion.haveAcceleration \in BOOLEAN
        /\ motion.velocity \subseteq D /\ motion.acceleration \subseteq D
    BY <1>1, ConfigAssumption DEF CanDifferentiate, GoodMotion, MotionSet
  <2>2. next.velocity = motion.velocity \cup {motion.pose, pose}
    BY DEF DifferentiatedMotion
  <2>3. next.acceleration = IF motion.haveVelocity
                            THEN motion.acceleration \cup motion.velocity \cup {motion.pose, pose}
                            ELSE motion.acceleration
    BY DEF DifferentiatedMotion
  <2>4. next \in MotionSet
    BY <2>1, ConfigAssumption DEF DifferentiatedMotion, MotionSet
  <2>5. /\ next.haveVelocity = TRUE
        /\ next.haveAcceleration = (motion.haveVelocity \/ motion.haveAcceleration)
        /\ next.dt = time - motion.time
        /\ next.known /\ next.pose = pose /\ next.time = time
    BY DEF DifferentiatedMotion
  <2>6. /\ next.velocity \subseteq D /\ next.acceleration \subseteq D
        /\ next.haveAcceleration <=> next.acceleration # {}
    BY <2>1, <2>2, <2>3, <2>5 DEF GoodMotion
  <2>7. NextMotion(motion, pose, time) = next
    BY <1>1 DEF NextMotion
  <2>. HIDE DEF next
  <2>. QED  BY <2>1, <2>2, <2>4, <2>5, <2>6, <2>7 DEF GoodMotion
<1>2. CASE ~CanDifferentiate(motion, time)
  BY <1>2 DEF NextMotion, InitializedMotion, GoodMotion, MotionSet
<1>. QED  BY <1>1, <1>2

LEMMA UpdatedModelIsGood ==
    ASSUME NEW D \in SUBSET Poses, NEW snap \in Snapshots, NEW pose \in D,
           NEW m, NEW r, GoodModel(m, r, D, snap.source, snap.sampleTime)
    PROVE  LET u == UpdateTrackedModel(r, pose, snap)
           IN /\ GoodModel(m, u, D, snap.source, snap.sampleTime)
              /\ FreshPose(u, snap.source, snap.sampleTime)
              /\ u.havePose
<1>. DEFINE u == UpdateTrackedModel(r, pose, snap)
            motion == NextMotion(r.motion, pose, snap.sampleTime)
            time == TimeInSource(snap.source, snap.sampleTime, snap.captureWall)
            sample == SampleOf(motion, snap.captureWall, time)
            Good == GoodSamples(D, snap.source, snap.sampleTime)
<1>1. /\ snap.source \in Sources /\ snap.sampleTime \in Int /\ snap.captureWall \in Int
  BY SnapshotsAssumption
<1>2. /\ GoodMotion(motion, D) /\ motion.known
      /\ motion.time = snap.sampleTime /\ motion.pose = pose
  BY <1>1, NextMotionIsGood DEF GoodModel
<1>3. time \in Int /\ (snap.source = "simulation_time" => time = snap.sampleTime)
  BY <1>1 DEF TimeInSource
<1>. HIDE DEF motion, time
<1>4. sample \in Good
  <2>1. sample \in SampleSet
    BY <1>1, <1>2, <1>3 DEF SampleOf, SampleSet, GoodMotion, MotionSet
  <2>2. Origins(sample) \subseteq D
    BY <1>2 DEF Origins, SampleOf, GoodMotion
  <2>3. /\ sample.haveVelocity = motion.haveVelocity /\ sample.velocity = motion.velocity
        /\ sample.haveAcceleration = motion.haveAcceleration
        /\ sample.acceleration = motion.acceleration
        /\ sample.interval = (IF motion.dt > 0 THEN motion.dt ELSE 1)
        /\ sample.source = time
    BY DEF SampleOf
  <2>. HIDE DEF sample
  <2>. QED  BY <1>1, <1>2, <1>3, <2>1, <2>2, <2>3, ConfigAssumption DEF GoodSamples, GoodMotion
<1>5. sample.pose = pose /\ sample.source = time
  BY <1>2 DEF SampleOf
<1>6. u = [tracker |-> r.tracker, havePose |-> TRUE, motion |-> motion,
           history |-> Push(r.history, sample)]
  BY DEF UpdateTrackedModel, motion, time
<1>. HIDE DEF u, sample, Good
<1>7. /\ WellFilled(u.history, Good) /\ ~IsEmpty(u.history)
      /\ Latest(u.history) = sample
  <2>1. WellFilled(r.history, Good)
    BY DEF GoodModel, Good
  <2>. QED  BY <1>4, <1>6, <2>1, PushIsWellFilled, PushHeld
<1>8. GoodModel(m, u, D, snap.source, snap.sampleTime)
  BY <1>2, <1>6, <1>7 DEF GoodModel, Good
<1>9. FreshPose(u, snap.source, snap.sampleTime) /\ u.havePose
  BY <1>2, <1>3, <1>5, <1>6, <1>7 DEF FreshPose
<1>. QED  BY <1>8, <1>9 DEF u

-----------------------------------------------------------------------------
(* The inductive invariant.                                                *)

SourceAndTimes ==
    /\ seenSnapshot \in BOOLEAN
    /\ source \in Sources
    /\ lastSampleTime \in Int /\ lastScan \in Int
    /\ ~seenSnapshot => DOMAIN tracked = {} /\ reported = {}

ModelsGood ==
    /\ DOMAIN tracked \subseteq Models
    /\ \A m \in DOMAIN tracked :
           /\ GoodModel(m, tracked[m], delivered[m], source, lastSampleTime)
           /\ FreshPose(tracked[m], source, lastSampleTime)

NamesGood ==
    /\ DOMAIN trackerNames \subseteq Trackers
    /\ \A t \in DOMAIN trackerNames : trackerNames[t] \in Models
    /\ TrackerNamesUnique

ReportsGood ==
    /\ sent \in [Trackers -> [stamp : Nat, sample : SampleSet] \cup {NoReport}]
    /\ reported \subseteq DOMAIN trackerNames
    /\ \A t \in reported :
           /\ sent[t] \in [stamp : Nat, sample : SampleSet]
           /\ Origins(sent[t].sample) \subseteq delivered[trackerNames[t]]
           /\ source = "simulation_time" => sent[t].stamp <= lastSampleTime
                                             \/ sent[t].stamp = 0

IInv == /\ SourceAndTimes
        /\ ModelsGood
        /\ NamesGood
        /\ ReportsGood
        /\ delivered \in [Models -> SUBSET Poses]

LEMMA InitIInv == Init => IInv
<1>. SUFFICES ASSUME Init
              PROVE  IInv
  OBVIOUS
<1>1. DOMAIN tracked = {} /\ DOMAIN trackerNames = {}
  BY DEF Init, EmptyFunction
<1>2. SourceAndTimes
  <2>1. seenSnapshot \in BOOLEAN /\ source \in Sources /\ reported = {}
    BY DEF Init, Sources
  <2>2. lastSampleTime \in Int /\ lastScan \in Int
    BY DEF Init
  <2>. QED  BY <1>1, <2>1, <2>2 DEF SourceAndTimes
<1>3. ModelsGood /\ NamesGood
  BY <1>1 DEF ModelsGood, NamesGood, TrackerNamesUnique
<1>4. ReportsGood /\ delivered \in [Models -> SUBSET Poses]
  BY DEF Init, ReportsGood
<1>. QED  BY <1>2, <1>3, <1>4 DEF IInv
-----------------------------------------------------------------------------
(* processSnapshot().                                                      *)

\* The models of a snapshot.
LEMMA SnapshotModels ==
    ASSUME NEW snap \in Snapshots
    PROVE  /\ DOMAIN snap.models \subseteq Nat \ {0}
           /\ \A i \in DOMAIN snap.models : /\ snap.models[i].name \in Models
                                           /\ snap.models[i].pose \in Poses
                                           /\ snap.models[i] = [name |-> snap.models[i].name,
                                                              pose |-> snap.models[i].pose]
<1>. DEFINE entries == [name : Models, pose : Poses]
            seq == snap.models
<1>1. seq \in Seq(entries)
  BY SnapshotsAssumption
<1>. HIDE DEF entries, seq
<1>2. DOMAIN seq \subseteq Nat \ {0} /\ \A i \in DOMAIN seq : seq[i] \in entries
  BY <1>1
<1>. USE DEF entries, seq
<1>. QED  BY <1>2

\* What a snapshot delivers, and what stays of the timeline.
LEMMA DeliveredAfter ==
    ASSUME IInv, NEW snap \in Snapshots, ProcessSnapshot(snap)
    PROVE  /\ delivered' \in [Models -> SUBSET Poses]
           /\ \A m \in NamesIn(snap) \cap Models : PoseIn(snap, m) \in delivered'[m]
           /\ ~EndsTimeline(snap) =>
                 /\ \A m \in Models : delivered[m] \subseteq delivered'[m]
                 /\ reported' = reported
                 /\ seenSnapshot => snap.source = source /\ lastSampleTime <= snap.sampleTime
           /\ EndsTimeline(snap) => reported' = {}
<1>1. snap.sampleTime \in Int
  BY SnapshotsAssumption
<1>2. RecordTimeline(snap) /\ delivered \in [Models -> SUBSET Poses]
  BY DEF ProcessSnapshot, IInv
<1>3. lastSampleTime \in Int
  BY DEF IInv, SourceAndTimes
<1>4. ASSUME NEW m \in NamesIn(snap) \cap Models
      PROVE  PoseIn(snap, m) \in delivered'[m]
  <2>1. PICK i \in DOMAIN snap.models :
           /\ snap.models[i].name = m
           /\ PoseIn(snap, m) = snap.models[i].pose
    BY <1>4 DEF NamesIn, PoseIn
  <2>2. /\ snap.models[i].pose \in Poses
        /\ snap.models[i] = [name |-> snap.models[i].name, pose |-> snap.models[i].pose]
    BY SnapshotModels
  <2>3. snap.models[i] = [name |-> m, pose |-> PoseIn(snap, m)] /\ PoseIn(snap, m) \in Poses
    BY <2>1, <2>2
  <2>. QED  BY <1>2, <2>3 DEF RecordTimeline
<1>5. delivered' \in [Models -> SUBSET Poses]
  BY <1>2 DEF RecordTimeline
<1>6. ~EndsTimeline(snap) => /\ \A m \in Models : delivered[m] \subseteq delivered'[m]
                             /\ reported' = reported
  BY <1>2 DEF RecordTimeline
<1>7. ~EndsTimeline(snap) /\ seenSnapshot =>
        snap.source = source /\ lastSampleTime <= snap.sampleTime
  BY <1>1, <1>3 DEF EndsTimeline
<1>8. EndsTimeline(snap) => reported' = {}
  BY <1>2 DEF RecordTimeline
<1>. QED  BY <1>4, <1>5, <1>6, <1>7, <1>8

\* The models a scan adds are new, and so are the names they get, one each.
LEMMA NewcomersGetFreeNames ==
    ASSUME NEW snap \in Snapshots
    PROVE  /\ \A m \in Newcomers(snap) :
                 /\ m \in Models /\ m \notin DOMAIN tracked
                 /\ TrackerNameFor[m] \in Trackers
                 /\ TrackerNameFor[m] \notin DOMAIN trackerNames
           /\ \A m, n \in Newcomers(snap) : TrackerNameFor[m] = TrackerNameFor[n] => m = n
<1>1. DOMAIN snap.models \subseteq Nat \ {0} /\ \A i \in DOMAIN snap.models : snap.models[i].name \in Models
  BY SnapshotModels
<1>2. \A m \in Newcomers(snap) : \E k \in DOMAIN snap.models :
          /\ snap.models[k].name = m
          /\ m \in Models /\ TrackerNameFor[m] # NoTracker
          /\ m \notin DOMAIN tracked
          /\ TrackerNameFor[m] \notin DOMAIN trackerNames
          /\ \A j \in 1 .. k - 1 : TrackerNameFor[snap.models[j].name] # TrackerNameFor[m]
  BY <1>1 DEF Newcomers, Registered
<1>3. ASSUME NEW m \in Newcomers(snap), NEW n \in Newcomers(snap),
             TrackerNameFor[m] = TrackerNameFor[n]
      PROVE  m = n
  <2>1. PICK k \in DOMAIN snap.models :
          /\ snap.models[k].name = m
          /\ \A j \in 1 .. k - 1 : TrackerNameFor[snap.models[j].name] # TrackerNameFor[m]
    BY <1>2
  <2>2. PICK l \in DOMAIN snap.models :
          /\ snap.models[l].name = n
          /\ \A j \in 1 .. l - 1 : TrackerNameFor[snap.models[j].name] # TrackerNameFor[n]
    BY <1>2
  <2>3. k \in Nat /\ l \in Nat /\ k >= 1 /\ l >= 1
    BY <1>1, <2>1, <2>2
  <2>4. ~(k < l) /\ ~(l < k)
    BY <1>3, <2>1, <2>2, <2>3
  <2>. QED  BY <2>1, <2>2, <2>3, <2>4
<1>4. \A m \in Newcomers(snap) : TrackerNameFor[m] \in Trackers
  BY <1>2, NamesAssumption
<1>. QED  BY <1>2, <1>3, <1>4

\* A scan overwrites no entry of tracker_names_.
LEMMA OwnersKeepTheirNames ==
    ASSUME NEW snap \in Snapshots, ProcessSnapshot(snap), NEW t \in DOMAIN trackerNames
    PROVE  t \in DOMAIN trackerNames' /\ trackerNames'[t] = trackerNames[t]
<1>1. ~\E m \in Newcomers(snap) : TrackerNameFor[m] = t
  BY NewcomersGetFreeNames
<1>. QED  BY <1>1 DEF ProcessSnapshot

LEMMA ModelsGoodAfterSnapshot ==
    ASSUME IInv, NEW snap \in Snapshots, ProcessSnapshot(snap)
    PROVE  /\ ModelsGood'
           /\ \A m \in DOMAIN tracked' : tracked'[m].tracker = TrackerNameFor[m]
<1>1. /\ snap.source \in Sources /\ snap.sampleTime \in Int
  BY SnapshotsAssumption
<1>2. /\ source' = snap.source /\ lastSampleTime' = snap.sampleTime
      /\ DOMAIN tracked' = DOMAIN tracked \cup Newcomers(snap)
      /\ \A m \in DOMAIN tracked' : tracked'[m] = AfterSnapshot(snap, m)
  BY DEF ProcessSnapshot
<1>3. DOMAIN tracked' \subseteq Models
  BY <1>2, NewcomersGetFreeNames DEF IInv, ModelsGood
<1>4. ASSUME NEW m \in DOMAIN tracked'
      PROVE  /\ GoodModel(m, tracked'[m], delivered'[m], snap.source, snap.sampleTime)
             /\ FreshPose(tracked'[m], snap.source, snap.sampleTime)
  <2>. DEFINE D == delivered'[m]
              before == IF m \notin DOMAIN tracked THEN NewTrackedModel(m)
                        ELSE IF SourceChanged(snap) \/ TimeMovedBackwards(snap)
                             THEN ResetMeasurement(tracked[m]) ELSE tracked[m]
  <2>1. D \in SUBSET Poses /\ m \in Models
    BY <1>3, DeliveredAfter
  <2>2. GoodModel(m, before, D, snap.source, snap.sampleTime)
    <3>. HIDE DEF D
    <3>1. CASE m \notin DOMAIN tracked
      <4>1. TrackerNameFor[m] # NoTracker
        BY <1>2, <3>1, NewcomersGetFreeNames, NamesAssumption
      <4>. QED  BY <2>1, <3>1, <4>1, NewModelIsGood
    <3>2. CASE m \in DOMAIN tracked /\ (SourceChanged(snap) \/ TimeMovedBackwards(snap))
      BY <3>2, ResetModelIsGood DEF IInv, ModelsGood
    <3>3. CASE m \in DOMAIN tracked /\ ~(SourceChanged(snap) \/ TimeMovedBackwards(snap))
      <4>1. /\ before = tracked[m] /\ lastSampleTime \in Int /\ seenSnapshot
            /\ GoodModel(m, tracked[m], delivered[m], source, lastSampleTime)
        BY <3>3 DEF IInv, ModelsGood, SourceAndTimes
      <4>2. /\ delivered[m] \subseteq D /\ source = snap.source
            /\ lastSampleTime <= snap.sampleTime
        BY <2>1, <3>3, <4>1, DeliveredAfter
           DEF EndsTimeline, SourceChanged, TimeMovedBackwards, D
      <4>. QED  BY <1>1, <4>1, <4>2, GoodModelIsMonotone
    <3>. QED  BY <3>1, <3>2, <3>3
  <2>. HIDE DEF D, before
  <2>3. tracked'[m] = IF m \in NamesIn(snap)
                      THEN UpdateTrackedModel(before, PoseIn(snap, m), snap)
                      ELSE [tracker |-> before.tracker, havePose |-> FALSE,
                            motion |-> before.motion, history |-> before.history]
    BY <1>2 DEF AfterSnapshot, before
  <2>4. CASE m \in NamesIn(snap)
    <3>1. PoseIn(snap, m) \in D
      BY <2>1, <2>4, DeliveredAfter DEF D
    <3>. QED  BY <2>1, <2>2, <2>3, <2>4, <3>1, UpdatedModelIsGood DEF D
  <2>5. CASE m \notin NamesIn(snap)
    BY <2>2, <2>3, <2>5 DEF GoodModel, FreshPose, D
  <2>. QED  BY <2>4, <2>5
<1>. QED  BY <1>2, <1>3, <1>4 DEF ModelsGood, GoodModel

LEMMA NamesGoodAfterSnapshot ==
    ASSUME IInv, NEW snap \in Snapshots, ProcessSnapshot(snap)
    PROVE  NamesGood'
<1>. DEFINE new == Newcomers(snap)
<1>1. /\ DOMAIN tracked' = DOMAIN tracked \cup new
      /\ DOMAIN trackerNames' = DOMAIN trackerNames \cup {TrackerNameFor[m] : m \in new}
      /\ \A t \in DOMAIN trackerNames' \ DOMAIN trackerNames :
             trackerNames'[t] = CHOOSE m \in new : TrackerNameFor[m] = t
  BY DEF ProcessSnapshot
<1>1a. \A t \in DOMAIN trackerNames : trackerNames'[t] = trackerNames[t]
  BY OwnersKeepTheirNames
<1>2. \A m \in DOMAIN tracked' : tracked'[m].tracker = TrackerNameFor[m]
  BY ModelsGoodAfterSnapshot
<1>3. /\ DOMAIN trackerNames \subseteq Trackers
      /\ \A t \in DOMAIN trackerNames : trackerNames[t] \in Models
      /\ \A m \in DOMAIN tracked : /\ TrackerNameFor[m] \in DOMAIN trackerNames
                                  /\ trackerNames[TrackerNameFor[m]] = m
      /\ \A t \in DOMAIN trackerNames : /\ trackerNames[t] \in DOMAIN tracked
                                       /\ TrackerNameFor[trackerNames[t]] = t
  BY DEF IInv, ModelsGood, GoodModel, NamesGood, TrackerNamesUnique
<1>. HIDE DEF new
<1>4. /\ \A m \in new : /\ m \in Models /\ m \notin DOMAIN tracked
                        /\ TrackerNameFor[m] \in Trackers
                        /\ TrackerNameFor[m] \notin DOMAIN trackerNames
      /\ \A m, n \in new : TrackerNameFor[m] = TrackerNameFor[n] => m = n
  BY NewcomersGetFreeNames DEF new
<1>5. \A m \in new : trackerNames'[TrackerNameFor[m]] = m
  BY <1>1, <1>4
<1>6. DOMAIN trackerNames' \subseteq Trackers
  BY <1>1, <1>3, <1>4
<1>7. \A t \in DOMAIN trackerNames' :
         trackerNames'[t] \in Models \cap DOMAIN tracked' /\ TrackerNameFor[trackerNames'[t]] = t
  BY <1>1a, <1>1, <1>3, <1>4, <1>5
<1>8. \A m \in DOMAIN tracked' : /\ TrackerNameFor[m] \in DOMAIN trackerNames'
                               /\ trackerNames'[TrackerNameFor[m]] = m
  BY <1>1a, <1>1, <1>3, <1>5
<1>. QED  BY <1>2, <1>6, <1>7, <1>8 DEF NamesGood, TrackerNamesUnique

LEMMA SnapshotIInv ==
    ASSUME IInv, NEW snap \in Snapshots, ProcessSnapshot(snap)
    PROVE  IInv'
<1>1. /\ snap.source \in Sources /\ snap.sampleTime \in Int /\ snap.captureWall \in Int
  BY SnapshotsAssumption
<1>2. SourceAndTimes'
  BY <1>1 DEF ProcessSnapshot, SourceAndTimes, IInv
<1>3. ReportsGood'
  <2>1. /\ sent' = sent /\ lastSampleTime' = snap.sampleTime /\ source' = snap.source
        /\ \A t \in DOMAIN trackerNames : t \in DOMAIN trackerNames'
                                          /\ trackerNames'[t] = trackerNames[t]
    BY OwnersKeepTheirNames DEF ProcessSnapshot
  <2>2. CASE EndsTimeline(snap)
    BY <2>1, <2>2, DeliveredAfter DEF ReportsGood, IInv
  <2>3. CASE ~EndsTimeline(snap)
    <3>. SUFFICES ASSUME NEW t \in reported'
                  PROVE  /\ t \in DOMAIN trackerNames'
                         /\ sent'[t] \in [stamp : Nat, sample : SampleSet]
                         /\ Origins(sent'[t].sample) \subseteq delivered'[trackerNames'[t]]
                         /\ source' = "simulation_time" =>
                               sent'[t].stamp <= lastSampleTime' \/ sent'[t].stamp = 0
      BY <2>1 DEF ReportsGood, IInv
    <3>1. /\ reported' = reported /\ t \in reported /\ seenSnapshot
          /\ \A m \in Models : delivered[m] \subseteq delivered'[m]
          /\ snap.source = source /\ lastSampleTime <= snap.sampleTime
      BY <2>3, DeliveredAfter DEF IInv, SourceAndTimes
    <3>2. /\ t \in DOMAIN trackerNames /\ trackerNames[t] \in Models
          /\ sent[t] \in [stamp : Nat, sample : SampleSet]
          /\ Origins(sent[t].sample) \subseteq delivered[trackerNames[t]]
          /\ source = "simulation_time" => sent[t].stamp <= lastSampleTime
                                            \/ sent[t].stamp = 0
          /\ lastSampleTime \in Int
      BY <3>1 DEF ReportsGood, NamesGood, SourceAndTimes, IInv
    <3>3. sent[t].stamp \in Nat
      BY <3>2
    <3>. QED  BY <1>1, <2>1, <3>1, <3>2, <3>3
  <2>. QED  BY <2>2, <2>3
<1>. QED
  BY <1>2, <1>3, ModelsGoodAfterSnapshot, NamesGoodAfterSnapshot, DeliveredAfter DEF IInv
-----------------------------------------------------------------------------
(* publish().                                                              *)

\* The sample publish() selects for a model is one of its history.
LEMMA SampleForPublishIsHeld ==
    ASSUME NEW m, NEW r, NEW D, NEW src, NEW last, GoodModel(m, r, D, src, last),
           ~IsEmpty(r.history), NEW sendWall \in Int, NEW delay \in Int
    PROVE  SampleForPublish(r, sendWall, delay) \in GoodSamples(D, src, last)
<1>1. WellFilled(r.history, GoodSamples(D, src, last))
  BY DEF GoodModel
<1>2. \A s \in GoodSamples(D, src, last) : s.wall \in Int
  BY DEF GoodSamples, SampleSet
<1>3. Held(r.history) \subseteq GoodSamples(D, src, last) /\ Latest(r.history) \in Held(r.history)
  BY <1>1, ReadsPushed
<1>4. sendWall - delay \in Int
  OBVIOUS
<1>. DEFINE target == sendWall - delay
<1>5. target \in Int
  BY <1>4
<1>. HIDE DEF target
<1>6. Nearest(r.history, target) \in Held(r.history)
  BY <1>1, <1>2, <1>5, NearestIsHeld
<1>. QED  BY <1>3, <1>6 DEF SampleForPublish, target

\* A stamp is a time VRPN can carry, and the newest simulation time bounds it.
LEMMA StampIsBounded ==
    ASSUME IInv, NEW sendWall \in Int, NEW sample, sample.source \in Int,
           source = "simulation_time" => sample.source <= lastSampleTime
    PROVE  LET stamp == Stamp(sample, sendWall)
           IN /\ stamp \in Nat
              /\ source = "simulation_time" => stamp <= lastSampleTime \/ stamp = 0
<1>1. lastSampleTime \in Int /\ source \in Sources
  BY DEF IInv, SourceAndTimes
<1>. QED  BY <1>1, ConfigAssumption DEF Stamp, TimeInSource, Sources

\* What publish() leaves in `sent` for one tracker.
LEMMA PublishedReport ==
    ASSUME IInv, NEW sendWall \in SendTimes, NEW delay \in Delays, Publish(sendWall, delay),
           NEW t \in Reportable
    PROVE  LET r == tracked[trackerNames[t]]
               sample == SampleForPublish(r, sendWall, delay[t])
           IN /\ t \in Trackers /\ trackerNames[t] \in Models
              /\ sent'[t] = [stamp |-> Stamp(sample, sendWall), sample |-> sample]
              /\ sent'[t] \in [stamp : Nat, sample : SampleSet]
              /\ Origins(sent'[t].sample) \subseteq delivered[trackerNames[t]]
              /\ source = "simulation_time" => sent'[t].stamp <= lastSampleTime
                                                \/ sent'[t].stamp = 0
              /\ FreshPose(r, source, lastSampleTime) /\ r.havePose
<1>. DEFINE m == trackerNames[t]
            r == tracked[m]
            sample == SampleForPublish(r, sendWall, delay[t])
            Good == GoodSamples(delivered[m], source, lastSampleTime)
<1>1. /\ t \in Trackers /\ m \in Models /\ m \in DOMAIN tracked
      /\ r.havePose /\ ~IsEmpty(r.history)
  BY DEF Reportable, IInv, NamesGood, TrackerNamesUnique
<1>2. GoodModel(m, r, delivered[m], source, lastSampleTime) /\ FreshPose(r, source, lastSampleTime)
  BY <1>1 DEF IInv, ModelsGood
<1>3. sendWall \in Int /\ delay[t] \in Int
  BY <1>1, SendTimesAssumption, ConfigAssumption DEF Delays
<1>4. sent'[t] = [stamp |-> Stamp(sample, sendWall), sample |-> sample]
  BY <1>1 DEF Publish
<1>. HIDE DEF m, r
<1>5. sample \in Good
  BY <1>1, <1>2, <1>3, SampleForPublishIsHeld
<1>. HIDE DEF sample
<1>6. /\ sample \in SampleSet /\ Origins(sample) \subseteq delivered[m]
      /\ source = "simulation_time" => sample.source <= lastSampleTime
  BY <1>5 DEF GoodSamples
<1>7. sample.source \in Int
  BY <1>6 DEF SampleSet
<1>. DEFINE stamp == Stamp(sample, sendWall)
<1>8. /\ stamp \in Nat
      /\ source = "simulation_time" => stamp <= lastSampleTime \/ stamp = 0
  BY <1>3, <1>6, <1>7, StampIsBounded
<1>. HIDE DEF stamp
<1>9. sent'[t] = [stamp |-> stamp, sample |-> sample]
  BY <1>4 DEF stamp
<1>10. /\ sent'[t] \in [stamp : Nat, sample : SampleSet]
       /\ sent'[t].stamp = stamp /\ sent'[t].sample = sample
  BY <1>6, <1>8, <1>9
<1>. QED  BY <1>1, <1>2, <1>4, <1>6, <1>8, <1>10 DEF m, r, sample

LEMMA PublishIInv ==
    ASSUME IInv, NEW sendWall \in SendTimes, NEW delay \in Delays, Publish(sendWall, delay)
    PROVE  IInv'
<1>1. /\ tracked' = tracked /\ trackerNames' = trackerNames /\ delivered' = delivered
      /\ seenSnapshot' = seenSnapshot /\ source' = source
      /\ lastSampleTime' = lastSampleTime /\ lastScan' = lastScan
      /\ reported' = reported \cup Reportable
  BY DEF Publish
<1>2. \A t \in Trackers \ Reportable : sent'[t] = sent[t]
  BY DEF Publish
<1>3. SourceAndTimes'
  BY <1>1 DEF IInv, SourceAndTimes, NamesGood, TrackerNamesUnique, Reportable
<1>4. ModelsGood' /\ NamesGood'
  BY <1>1 DEF IInv, ModelsGood, NamesGood, TrackerNamesUnique
<1>5. sent' \in [Trackers -> [stamp : Nat, sample : SampleSet] \cup {NoReport}]
  <2>1. sent' = [t \in Trackers |-> sent'[t]]
    BY DEF Publish
  <2>2. \A t \in Trackers : sent'[t] \in [stamp : Nat, sample : SampleSet] \cup {NoReport}
    BY <1>2, PublishedReport DEF IInv, ReportsGood
  <2>. QED  BY <2>1, <2>2
<1>6. reported' \subseteq DOMAIN trackerNames'
  BY <1>1 DEF Reportable, IInv, ReportsGood
<1>7. ASSUME NEW t \in reported'
      PROVE  /\ sent'[t] \in [stamp : Nat, sample : SampleSet]
             /\ Origins(sent'[t].sample) \subseteq delivered[trackerNames[t]]
             /\ source = "simulation_time" => sent'[t].stamp <= lastSampleTime
                                               \/ sent'[t].stamp = 0
  <2>1. CASE t \in Reportable
    BY <2>1, PublishedReport
  <2>2. CASE t \notin Reportable
    <3>1. t \in reported /\ sent'[t] = sent[t]
      BY <1>1, <1>2, <2>2 DEF IInv, ReportsGood, NamesGood
    <3>. QED  BY <3>1 DEF IInv, ReportsGood
  <2>. QED  BY <2>1, <2>2
<1>8. ReportsGood'
  BY <1>1, <1>5, <1>6, <1>7 DEF ReportsGood
<1>. QED  BY <1>1, <1>3, <1>4, <1>8 DEF IInv

LEMMA NextIInv == IInv /\ [Next]_vars => IInv'
<1>. SUFFICES ASSUME IInv, [Next]_vars
              PROVE  IInv'
  OBVIOUS
<1>1. ASSUME NEW snap \in Snapshots, ProcessSnapshot(snap)
      PROVE  IInv'
  BY <1>1, SnapshotIInv
<1>2. ASSUME NEW sendWall \in SendTimes, NEW delay \in Delays, Publish(sendWall, delay)
      PROVE  IInv'
  BY <1>2, PublishIInv
<1>3. CASE UNCHANGED vars
  BY <1>3 DEF vars, serverVars, IInv, SourceAndTimes, ModelsGood, NamesGood,
              TrackerNamesUnique, ReportsGood
<1>. QED  BY <1>1, <1>2, <1>3 DEF Next

\* IInv holds in every state the server can be in.
THEOREM InvariantOfSpec == Spec => []IInv
<1>. QED  BY InitIInv, NextIInv, PTL DEF Spec
-----------------------------------------------------------------------------
(* What the invariant implies.                                             *)

\* Every field of the server has its type: the rings of all tracked models
\* stay within their capacity and every stamp is one VRPN can carry.
THEOREM TypeCorrect == Spec => []TypeOK
<1>1. IInv => TypeOK
  <2>. SUFFICES ASSUME IInv
                PROVE  TypeOK
    OBVIOUS
  <2>1. ASSUME NEW m \in DOMAIN tracked
        PROVE  IsTrackedModel(tracked[m])
    <3>. DEFINE r == tracked[m]
                Good == GoodSamples(delivered[m], source, lastSampleTime)
    <3>1. GoodModel(m, r, delivered[m], source, lastSampleTime)
      BY DEF IInv, ModelsGood
    <3>. HIDE DEF r
    <3>2. Good \subseteq SampleSet
      BY DEF GoodSamples
    <3>. HIDE DEF Good
    <3>3. IsHistory(r.history, SampleSet \cup {BlankSample})
      <4>1. WellFilled(r.history, Good)
        BY <3>1 DEF GoodModel, Good
      <4>. QED  BY <3>2, <4>1 DEF WellFilled, IsHistory
    <3>4. r.motion \in MotionSet
      BY <3>1 DEF GoodModel, GoodMotion
    <3>. QED  BY <3>1, <3>3, <3>4 DEF GoodModel, IsTrackedModel, r
  <2>2. reported \subseteq Trackers
    BY DEF IInv, ReportsGood, NamesGood
  <2>. QED
    BY <2>1, <2>2 DEF IInv, SourceAndTimes, ModelsGood, NamesGood, ReportsGood, TypeOK
<1>. QED  BY <1>1, InvariantOfSpec, PTL

\* tracked_models_ and tracker_names_ stay inverse to each other, for any
\* mapping of models to tracker names and any order of models in a scan.
THEOREM NamesStayUnique == Spec => []TrackerNamesUnique
<1>1. IInv => TrackerNamesUnique
  BY DEF IInv, NamesGood
<1>. QED  BY <1>1, InvariantOfSpec, PTL

\* publish() finds a sample for every model that has a pose, and it is the one
\* of the last snapshot.
THEOREM PosedModelsHaveSamples == Spec => []PosedModelHasSample
<1>1. IInv => PosedModelHasSample
  BY DEF IInv, ModelsGood, FreshPose, PosedModelHasSample
<1>. QED  BY <1>1, InvariantOfSpec, PTL

\* The samples of a tracked model are those the invariant allows.
LEMMA HeldSamples ==
    ASSUME IInv, NEW m \in DOMAIN tracked
    PROVE  Held(tracked[m].history) \subseteq GoodSamples(delivered[m], source, lastSampleTime)
<1>. DEFINE r == tracked[m]
            Good == GoodSamples(delivered[m], source, lastSampleTime)
<1>1. WellFilled(r.history, Good)
  BY DEF IInv, ModelsGood, GoodModel
<1>. HIDE DEF r, Good
<1>2. Held(r.history) \subseteq Good
  BY <1>1, ReadsPushed
<1>. QED  BY <1>2 DEF r, Good

\* After a reset of the simulation or a change of source, no history holds a
\* sample that was measured, even in part, before it.
THEOREM NothingOutlivesItsTimeline == Spec => []SamplesOfThisTimeline
<1>1. IInv => SamplesOfThisTimeline
  BY HeldSamples DEF GoodSamples, SamplesOfThisTimeline
<1>. QED  BY <1>1, InvariantOfSpec, PTL

\* Neither does a report, whichever delay selects its sample; and no report on
\* simulation time is stamped with a time the simulation has not reached.
THEOREM ReportsStayInTheirTimeline == Spec => []ReportsOfThisTimeline
<1>1. IInv => ReportsOfThisTimeline
  BY DEF IInv, ReportsGood, ReportsOfThisTimeline
<1>. QED  BY <1>1, InvariantOfSpec, PTL

\* A velocity is measured over a positive interval within the derivative reset
\* timeout, and an acceleration comes with a velocity.
THEOREM DerivativesAlwaysMeasured == Spec => []DerivativesAreMeasured
<1>1. IInv => DerivativesAreMeasured
  BY HeldSamples DEF GoodSamples, DerivativesAreMeasured
<1>. QED  BY <1>1, InvariantOfSpec, PTL

\* A tracker name stays with the model it was registered for, and the model
\* with the name: no scan lets another model overwrite the entry.
THEOREM RegistrationStays == Spec => RegistrationIsPermanent
<1>. DEFINE Stays(t) == LET model == trackerNames[t]
                        IN /\ t \in DOMAIN trackerNames' /\ trackerNames'[t] = model
                           /\ model \in DOMAIN tracked' /\ tracked'[model].tracker = t
            AllStay == \A t \in DOMAIN trackerNames : Stays(t)
<1>1. IInv /\ [Next]_vars => [AllStay]_vars
  <2>. SUFFICES ASSUME IInv, [Next]_vars, NEW t \in DOMAIN trackerNames
                PROVE  Stays(t)
    OBVIOUS
  <2>1. trackerNames[t] \in DOMAIN tracked /\ tracked[trackerNames[t]].tracker = t
    BY DEF IInv, NamesGood, TrackerNamesUnique
  <2>2. ASSUME NEW snap \in Snapshots, ProcessSnapshot(snap)
        PROVE  Stays(t)
    <3>1. t \in DOMAIN trackerNames' /\ trackerNames'[t] = trackerNames[t]
      BY <2>2, OwnersKeepTheirNames
    <3>2. trackerNames[t] \in DOMAIN tracked'
      BY <2>1, <2>2 DEF ProcessSnapshot
    <3>3. tracked'[trackerNames[t]].tracker = t
      BY <2>1, <2>2, <3>2, ModelsGoodAfterSnapshot DEF IInv, ModelsGood, GoodModel
    <3>. QED  BY <3>1, <3>2, <3>3
  <2>3. CASE UNCHANGED <<tracked, trackerNames>>
    BY <2>1, <2>3
  <2>4. ASSUME NEW wall \in SendTimes, NEW delay \in Delays, Publish(wall, delay)
        PROVE  UNCHANGED <<tracked, trackerNames>>
    BY <2>4 DEF Publish
  <2>. QED  BY <2>2, <2>3, <2>4 DEF Next, vars, serverVars
<1>. HIDE DEF AllStay
<1>2. Spec => [][AllStay]_vars
  BY <1>1, InvariantOfSpec, PTL DEF Spec
<1>. QED  BY <1>2 DEF AllStay, RegistrationIsPermanent

\* With the stamps of publish() on simulation time, by policy or because
\* nothing is delayed, the stamps of a tracker never move backwards.
THEOREM StampsOnlyAdvance == Spec => StampsAdvance
<1>. DEFINE Advance ==
        source = "simulation_time" /\ (TimestampPolicy = "send_time" \/ ~DelayEnabled)
            => \A t \in reported : sent'[t].stamp >= sent[t].stamp
<1>1. IInv /\ [Next]_vars => [Advance]_vars
  <2>. SUFFICES ASSUME IInv, [Next]_vars, source = "simulation_time",
                       TimestampPolicy = "send_time" \/ ~DelayEnabled,
                       NEW t \in reported
                PROVE  sent'[t].stamp >= sent[t].stamp
    OBVIOUS
  <2>1. /\ t \in DOMAIN trackerNames /\ t \in Trackers
        /\ sent[t].stamp \in Nat /\ lastSampleTime \in Int
        /\ sent[t].stamp <= lastSampleTime \/ sent[t].stamp = 0
    BY DEF IInv, ReportsGood, NamesGood, SourceAndTimes
  <2>2. ASSUME NEW snap \in Snapshots, ProcessSnapshot(snap)
        PROVE  sent'[t].stamp >= sent[t].stamp
    BY <2>1, <2>2 DEF ProcessSnapshot
  <2>3. ASSUME NEW sendWall \in SendTimes, NEW delay \in Delays, Publish(sendWall, delay)
        PROVE  sent'[t].stamp >= sent[t].stamp
    <3>1. CASE t \notin Reportable
      BY <2>1, <2>3, <3>1 DEF Publish
    <3>2. CASE t \in Reportable
      <4>. DEFINE r == tracked[trackerNames[t]]
                  sample == SampleForPublish(r, sendWall, delay[t])
      <4>1. /\ sent'[t] = [stamp |-> Stamp(sample, sendWall), sample |-> sample]
            /\ FreshPose(r, source, lastSampleTime) /\ r.havePose
        BY <2>3, <3>2, PublishedReport
      <4>2. ~DelayEnabled => sample.source = lastSampleTime
        BY <4>1 DEF FreshPose, SampleForPublish
      <4>. HIDE DEF sample
      <4>3. Stamp(sample, sendWall) = IF lastSampleTime >= 0 THEN lastSampleTime ELSE 0
        BY <4>2, ConfigAssumption DEF Stamp, TimeInSource
      <4>4. sent'[t].stamp = IF lastSampleTime >= 0 THEN lastSampleTime ELSE 0
        BY <4>1, <4>3
      <4>. QED  BY <2>1, <4>4
    <3>. QED  BY <3>1, <3>2
  <2>4. CASE UNCHANGED vars
    BY <2>1, <2>4 DEF vars, serverVars
  <2>. QED  BY <2>2, <2>3, <2>4 DEF Next
<1>. HIDE DEF Advance
<1>2. Spec => [][Advance]_vars
  BY <1>1, InvariantOfSpec, PTL DEF Spec
<1>. QED  BY <1>2 DEF Advance, StampsAdvance
-----------------------------------------------------------------------------
(* Samples one after the other.                                            *)

\* What HistoryFollowsSimulationTime says of two neighbours.
Follows(before, s) ==
    LET gap == s.source - before.source
    IN /\ gap >= 0
       /\ IF s.haveVelocity THEN gap = s.interval
          ELSE gap = 0 \/ gap > DerivativeResetTimeout

InSteps(h) == \A k \in 1 .. h.size - 1 : Follows(SampleAt(h, k - 1), SampleAt(h, k))

\* The derivative state is that of the newest sample, so that the next velocity
\* is measured from there.
TimedModel(r, last) ==
    /\ ~IsEmpty(r.history) => r.motion.known /\ Latest(r.history).source = r.motion.time
    /\ r.motion.known => r.motion.time <= last
    /\ InSteps(r.history)

TimesGood ==
    source = "simulation_time" => \A m \in DOMAIN tracked : TimedModel(tracked[m], lastSampleTime)

LEMMA PushInSteps ==
    ASSUME NEW S, NEW h, WellFilled(h, S), NEW sample \in S, InSteps(h),
           ~IsEmpty(h) => Follows(Latest(h), sample)
    PROVE  InSteps(Push(h, sample))
<1>. DEFINE g == Push(h, sample)
            dropped == IF h.size < h.cap THEN 0 ELSE 1
<1>1. /\ g.size = h.size + 1 - dropped
      /\ \A o \in 0 .. g.size - 2 : /\ o + dropped \in Offsets(h)
                                    /\ SampleAt(g, o) = SampleAt(h, o + dropped)
      /\ SampleAt(g, g.size - 1) = sample
  BY PushShifts
<1>2. /\ h.size \in Nat /\ h.cap \in Nat \ {0} /\ h.size <= h.cap
      /\ Offsets(h) = 0 .. h.size - 1
  BY DEF WellFilled, IsHistory, Offsets
<1>3. dropped \in Nat /\ dropped <= h.size
  BY <1>2
<1>. HIDE DEF g, dropped
<1>. SUFFICES ASSUME NEW k \in 1 .. g.size - 1
              PROVE  Follows(SampleAt(g, k - 1), SampleAt(g, k))
  BY DEF InSteps, g
<1>4. /\ k - 1 \in 0 .. g.size - 2 /\ (k - 1) + dropped \in Offsets(h)
      /\ SampleAt(g, k - 1) = SampleAt(h, (k - 1) + dropped)
  BY <1>1, <1>2, <1>3
<1>5. CASE k = g.size - 1
  <2>1. (k - 1) + dropped = h.size - 1 /\ h.size # 0
    <3>1. /\ k \in Int /\ g.size - 1 = h.size - dropped
          /\ (k - 1) + dropped \in 0 .. h.size - 1
      BY <1>1, <1>2, <1>3, <1>4
    <3>. QED  BY <1>2, <1>3, <1>5, <3>1
  <2>2. ~IsEmpty(h) /\ Latest(h) = SampleAt(h, h.size - 1)
    BY <2>1, ReadSlots DEF IsEmpty
  <2>. QED  BY <1>1, <1>4, <1>5, <2>1, <2>2
<1>6. CASE k # g.size - 1
  <2>1. k \in 0 .. g.size - 2
    BY <1>1, <1>2, <1>3, <1>6
  <2>2. k + dropped \in Offsets(h) /\ SampleAt(g, k) = SampleAt(h, k + dropped)
    BY <1>1, <2>1
  <2>3. k + dropped \in 1 .. h.size - 1 /\ (k + dropped) - 1 = (k - 1) + dropped
    BY <1>2, <1>3, <2>2
  <2>. QED  BY <1>4, <2>2, <2>3 DEF InSteps
<1>. QED  BY <1>5, <1>6

LEMMA UpdatedModelIsTimed ==
    ASSUME NEW S, NEW r, WellFilled(r.history, S), r.motion \in MotionSet,
           NEW snap \in Snapshots, snap.source = "simulation_time",
           TimedModel(r, snap.sampleTime), NEW pose
    PROVE  TimedModel(UpdateTrackedModel(r, pose, snap), snap.sampleTime)
<1>. DEFINE motion == NextMotion(r.motion, pose, snap.sampleTime)
            sample == SampleOf(motion, snap.captureWall, snap.sampleTime)
            u == UpdateTrackedModel(r, pose, snap)
            h == r.history
            S2 == S \cup {sample}
<1>1. snap.sampleTime \in Int /\ DerivativeResetTimeout \in Nat
  BY SnapshotsAssumption, ConfigAssumption
<1>2. u.motion = motion /\ u.history = Push(h, sample)
  BY DEF UpdateTrackedModel, TimeInSource
<1>3. motion.known /\ motion.time = snap.sampleTime
  BY DEF NextMotion, DifferentiatedMotion, InitializedMotion
<1>4. sample.source = snap.sampleTime
  BY DEF SampleOf
<1>5. ASSUME ~IsEmpty(h)
      PROVE  Follows(Latest(h), sample)
  <2>1. /\ r.motion.known /\ r.motion.time \in Int /\ Latest(h).source = r.motion.time
        /\ r.motion.time <= snap.sampleTime
    BY <1>5 DEF TimedModel, MotionSet
  <2>2. CASE CanDifferentiate(r.motion, snap.sampleTime)
    <3>1. motion.haveVelocity = TRUE /\ motion.dt = snap.sampleTime - r.motion.time
      BY <2>2 DEF NextMotion, DifferentiatedMotion
    <3>2. motion.dt > 0
      BY <2>2, <3>1 DEF CanDifferentiate
    <3>. HIDE DEF motion
    <3>3. sample.haveVelocity = TRUE /\ sample.interval = motion.dt
      BY <3>1, <3>2 DEF SampleOf
    <3>. QED  BY <1>1, <1>4, <2>1, <3>1, <3>2, <3>3 DEF Follows
  <2>3. CASE ~CanDifferentiate(r.motion, snap.sampleTime)
    <3>1. motion.haveVelocity = FALSE
      BY <2>3 DEF NextMotion, InitializedMotion
    <3>2. \/ snap.sampleTime - r.motion.time = 0
          \/ snap.sampleTime - r.motion.time > DerivativeResetTimeout
      BY <1>1, <2>1, <2>3 DEF CanDifferentiate
    <3>. HIDE DEF motion
    <3>3. sample.haveVelocity = FALSE
      BY <3>1 DEF SampleOf
    <3>. QED  BY <1>1, <1>4, <2>1, <3>2, <3>3 DEF Follows
  <2>. QED  BY <2>2, <2>3
<1>. HIDE DEF motion, sample, u
<1>6. WellFilled(h, S2) /\ sample \in S2
  BY DEF WellFilled, IsHistory
<1>. HIDE DEF S2
<1>7. InSteps(Push(h, sample)) /\ Latest(Push(h, sample)) = sample
  <2>1. InSteps(h)
    BY DEF TimedModel
  <2>. QED  BY <1>5, <1>6, <2>1, PushInSteps, PushHeld
<1>8. TimedModel(u, snap.sampleTime)
  BY <1>1, <1>2, <1>3, <1>4, <1>7 DEF TimedModel
<1>. QED  BY <1>8 DEF u

\* A history without a sample has no times.
LEMMA ClearedIsTimed ==
    ASSUME NEW capacity \in Nat, NEW r, r.motion = NoMotion,
           r.history = ClearedHistory(capacity), NEW last
    PROVE  /\ TimedModel(r, last) /\ r.motion \in MotionSet
           /\ WellFilled(r.history, SampleSet)
<1>1. IsEmpty(r.history) /\ WellFilled(r.history, SampleSet)
  BY ClearedIsWellFilled
<1>2. InSteps(r.history)
  BY DEF InSteps, ClearedHistory
<1>3. r.motion.known = FALSE /\ r.motion \in MotionSet
  BY DEF NoMotion, MotionSet
<1>. QED  BY <1>1, <1>2, <1>3 DEF TimedModel

LEMMA SnapshotKeepsTimes ==
    ASSUME IInv, TimesGood, NEW snap \in Snapshots, ProcessSnapshot(snap)
    PROVE  TimesGood'
<1>. SUFFICES ASSUME snap.source = "simulation_time", NEW m \in DOMAIN tracked'
              PROVE  TimedModel(tracked'[m], snap.sampleTime)
  BY DEF TimesGood, ProcessSnapshot
<1>. DEFINE reset == SourceChanged(snap) \/ TimeMovedBackwards(snap)
            before == IF m \notin DOMAIN tracked THEN NewTrackedModel(m)
                      ELSE IF reset THEN ResetMeasurement(tracked[m]) ELSE tracked[m]
<1>1. /\ snap.sampleTime \in Int /\ lastSampleTime \in Int
      /\ m \in DOMAIN tracked \/ m \in Newcomers(snap)
      /\ tracked'[m] = AfterSnapshot(snap, m)
  BY SnapshotsAssumption DEF IInv, SourceAndTimes, ProcessSnapshot
<1>2. m \in DOMAIN tracked =>
          /\ seenSnapshot /\ tracked[m].motion \in MotionSet
          /\ WellFilled(tracked[m].history, GoodSamples(delivered[m], source, lastSampleTime))
  BY DEF IInv, SourceAndTimes, ModelsGood, GoodModel, GoodMotion
<1>3. \E S : /\ WellFilled(before.history, S) /\ before.motion \in MotionSet
             /\ TimedModel(before, snap.sampleTime)
  <2>1. CASE m \notin DOMAIN tracked
    <3>1. TrackerNameFor[m] # NoTracker /\ m \in Models
      <4>1. m \in Newcomers(snap)
        BY <1>1, <2>1
      <4>. QED  BY <4>1, SnapshotModels DEF Newcomers, Registered
    <3>2. TrackerNameFor[m] \in Trackers
      BY <3>1, NamesAssumption
    <3>3. HistoryCapacity(TrackerNameFor[m]) \in Nat
      BY <3>2, ConfigAssumption DEF HistoryCapacity
    <3>. QED  BY <2>1, <3>3, ClearedIsTimed DEF NewTrackedModel
  <2>2. CASE m \in DOMAIN tracked /\ reset
    <3>1. tracked[m].history.cap \in Nat
      BY <1>2, <2>2 DEF WellFilled, IsHistory
    <3>. QED  BY <2>2, <3>1, ClearedIsTimed DEF ResetMeasurement
  <2>3. CASE m \in DOMAIN tracked /\ ~reset
    <3>1. source = "simulation_time" /\ lastSampleTime <= snap.sampleTime
      BY <1>1, <1>2, <2>3 DEF SourceChanged, TimeMovedBackwards
    <3>2. TimedModel(tracked[m], lastSampleTime)
      BY <2>3, <3>1 DEF TimesGood
    <3>3. tracked[m].motion.time \in Int
      BY <1>2, <2>3 DEF MotionSet
    <3>4. TimedModel(tracked[m], snap.sampleTime)
      BY <1>1, <3>1, <3>2, <3>3 DEF TimedModel
    <3>. QED  BY <1>2, <2>3, <3>4
  <2>. QED  BY <2>1, <2>2, <2>3
<1>4. tracked'[m] = IF m \in NamesIn(snap)
                    THEN UpdateTrackedModel(before, PoseIn(snap, m), snap)
                    ELSE [tracker |-> before.tracker, havePose |-> FALSE,
                          motion |-> before.motion, history |-> before.history]
  BY <1>1 DEF AfterSnapshot
<1>. HIDE DEF before
<1>5. CASE m \in NamesIn(snap)
  BY <1>3, <1>4, <1>5, UpdatedModelIsTimed
<1>6. CASE m \notin NamesIn(snap)
  BY <1>3, <1>4, <1>6 DEF TimedModel
<1>. QED  BY <1>5, <1>6

\* The samples of a model on simulation time are in its order, and the interval
\* that goes with a velocity is the time since the sample before it, in any
\* order of pauses, jumps, resets and models that come and go.
THEOREM HistoriesFollowTime == Spec => []HistoryFollowsSimulationTime
<1>1. Init => TimesGood
  BY DEF Init, TimesGood
<1>2. IInv /\ TimesGood /\ [Next]_vars => TimesGood'
  <2>. SUFFICES ASSUME IInv, TimesGood, [Next]_vars
                PROVE  TimesGood'
    OBVIOUS
  <2>1. ASSUME NEW snap \in Snapshots, ProcessSnapshot(snap)
        PROVE  TimesGood'
    BY <2>1, SnapshotKeepsTimes
  <2>2. ASSUME \/ \E sendWall \in SendTimes, delay \in Delays : Publish(sendWall, delay)
               \/ UNCHANGED vars
        PROVE  TimesGood'
    BY <2>2 DEF TimesGood, Publish, vars, serverVars
  <2>. QED  BY <2>1, <2>2 DEF Next
<1>3. TimesGood => HistoryFollowsSimulationTime
  <2>. SUFFICES ASSUME TimesGood, source = "simulation_time", NEW m \in DOMAIN tracked,
                       NEW k \in 1 .. tracked[m].history.size - 1
                PROVE  Follows(SampleAt(tracked[m].history, k - 1),
                               SampleAt(tracked[m].history, k))
    BY DEF HistoryFollowsSimulationTime, Follows
  <2>. QED  BY DEF TimesGood, TimedModel, InSteps
<1>. QED  BY <1>1, <1>2, <1>3, InvariantOfSpec, PTL DEF Spec
-----------------------------------------------------------------------------
(* The time stamps on the wire, for every resolution.                      *)

\* Division with a remainder.
LEMMA DivisionWithRemainder ==
    ASSUME NEW n \in Nat, NEW d \in Nat \ {0}
    PROVE  /\ n \div d \in Nat /\ n % d \in 0 .. d - 1
           /\ n = d * (n \div d) + (n % d)
  BY Z3

\* A multiple of a natural number grows with its factor.
LEMMA ProductsGrow ==
    ASSUME NEW g \in Nat, NEW a \in Int, NEW b \in Int, a <= b
    PROVE  g * a <= g * b
  BY Z3

\* Rounding is to the nearest microsecond, and a fraction of a second rounds
\* to a second at the most.
LEMMA RoundedIsNearest ==
    ASSUME NEW r \in 0 .. Second - 1
    PROVE  /\ Rounded(r) \in 0 .. Million
           /\ 2 * (Grain * Rounded(r) - r) <= Grain
           /\ 2 * (r - Grain * Rounded(r)) <= Grain
  <1> DEFINE u == Rounded(r)
             v == (2 * r + Grain) % (2 * Grain)
  <1>1. Grain \in Nat \ {0} /\ Million \in Nat \ {0} /\ Million * Grain \in Nat
    BY WireTimeAssumption, Z3
  <1>2. r \in Nat /\ r <= Million * Grain - 1
    BY <1>1 DEF Second
  <1>3. u \in Nat /\ v \in 0 .. 2 * Grain - 1 /\ 2 * r + Grain = (2 * Grain) * u + v
    <2> DEFINE n == 2 * r + Grain
               d == 2 * Grain
    <2>1. n \in Nat /\ d \in Nat \ {0}
      BY <1>1, <1>2
    <2>2. u = n \div d /\ v = n % d
      BY DEF Rounded
    <2> HIDE DEF n, d, u, v
    <2>3. u \in Nat /\ v \in 0 .. d - 1 /\ n = d * u + v
      BY <2>1, <2>2, DivisionWithRemainder
    <2> QED BY <2>3 DEF n, d
  <1> HIDE DEF u, v
  <1>4. Grain * u \in Nat /\ (2 * Grain) * u = 2 * (Grain * u)
    BY <1>1, <1>3, Z3
  <1>5. 2 * r + Grain = 2 * (Grain * u) + v
    BY <1>3, <1>4
  <1>6. u <= Million
    <2>1. SUFFICES ASSUME Million + 1 <= u PROVE FALSE
      BY <1>1, <1>3
    <2>2. Grain * (Million + 1) <= Grain * u
      BY <1>1, <1>3, <2>1, ProductsGrow
    <2>3. Grain * (Million + 1) = Million * Grain + Grain
      BY <1>1, Z3
    <2> QED BY <1>1, <1>2, <1>3, <1>4, <1>5, <2>2, <2>3
  <1>7. 2 * (Grain * u - r) <= Grain /\ 2 * (r - Grain * u) <= Grain
    BY <1>1, <1>2, <1>3, <1>4, <1>5
  <1> QED BY <1>3, <1>6, <1>7, <1>1 DEF u

\* Carrying changes the form of a time, not the time.
LEMMA CarriedIsSame ==
    ASSUME NEW sec \in Nat, NEW usec \in 0 .. Million
    PROVE  /\ Carried(sec, usec).sec \in Nat
           /\ Carried(sec, usec).usec \in 0 .. Million - 1
           /\ Million * Carried(sec, usec).sec + Carried(sec, usec).usec = Million * sec + usec
  <1>1. Million \in Nat \ {0}
    BY WireTimeAssumption
  <1>2. CASE usec >= Million
    <2>1. Carried(sec, usec) = [sec |-> sec + 1, usec |-> usec - Million]
      BY <1>2 DEF Carried
    <2>2. Million * (sec + 1) = Million * sec + Million
      BY <1>1, Z3
    <2>3. usec - Million \in 0 .. Million - 1
      BY <1>1, <1>2
    <2>4. Million * sec \in Int
      BY <1>1
    <2> QED BY <1>1, <2>1, <2>2, <2>3, <2>4
  <1>3. CASE ~(usec >= Million)
    BY <1>1, <1>3 DEF Carried
  <1> QED BY <1>2, <1>3

\* The timeval of a time is valid and nearest to it, whatever the time.
LEMMA SecondsToTimevalIsNearest ==
    ASSUME NEW t \in Int
    PROVE  LET onWire == Grain * (Million * SecondsToTimeval(t).sec + SecondsToTimeval(t).usec)
               wanted == IF t > 0 THEN t ELSE 0
           IN /\ SecondsToTimeval(t).usec \in 0 .. Million - 1
              /\ 2 * (onWire - wanted) <= Grain /\ 2 * (wanted - onWire) <= Grain
  <1> DEFINE wanted == IF t > 0 THEN t ELSE 0
             q == wanted \div Second
             r == wanted % Second
             u == Rounded(r)
             tv == Carried(q, u)
  <1>1. wanted \in Nat
    OBVIOUS
  <1>2. SecondsToTimeval(t) = tv
    BY DEF SecondsToTimeval
  <1>3. Grain \in Nat \ {0} /\ Million \in Nat \ {0} /\ Second \in Nat \ {0}
    BY WireTimeAssumption, Z3 DEF Second
  <1> HIDE DEF wanted
  <1>4. q \in Nat /\ r \in 0 .. Second - 1 /\ wanted = Second * q + r
    BY <1>1, <1>3, DivisionWithRemainder
  <1> HIDE DEF q, r
  <1>5. /\ u \in 0 .. Million
        /\ 2 * (Grain * u - r) <= Grain /\ 2 * (r - Grain * u) <= Grain
    BY <1>4, RoundedIsNearest
  <1> HIDE DEF u
  <1>6. /\ tv.sec \in Nat /\ tv.usec \in 0 .. Million - 1
        /\ Million * tv.sec + tv.usec = Million * q + u
    BY <1>4, <1>5, CarriedIsSame
  <1> HIDE DEF tv
  <1>7. Grain * (Million * q + u) = Second * q + Grain * u
    <2> DEFINE a == Million * q
    <2>1. a \in Int
      BY <1>3, <1>4
    <2>2. Grain * (a + u) = Grain * a + Grain * u
      <3> HIDE DEF a
      <3> QED BY <1>3, <1>5, <2>1, Z3
    <2>3. Grain * a = Second * q
      BY <1>3, <1>4, Z3 DEF Second
    <2> QED BY <2>2, <2>3
  <1>8. Grain * (Million * tv.sec + tv.usec) - wanted = Grain * u - r
    <2>1. Second * q \in Int /\ Grain * u \in Int
      BY <1>3, <1>4, <1>5
    <2> QED BY <1>4, <1>5, <1>6, <1>7, <2>1
  <1>9. Grain * (Million * tv.sec + tv.usec) \in Int /\ Grain * u \in Int
    BY <1>3, <1>4, <1>5, <1>6, <1>7
  <1> QED BY <1>1, <1>2, <1>3, <1>4, <1>5, <1>6, <1>8, <1>9 DEF wanted

\* What is on the wire was made from the time it stands for.
TimestampOfTime == reportTime \in Int /\ timestamp = SecondsToTimeval(reportTime)

\* Every time is sent as a valid timeval nearest to it, carry or not
\* (secondsToTimeval()).
THEOREM WireTimeIsNearest == WireSpec => []TimestampIsNearest
  <1>1. WireInit => TimestampOfTime
    BY DEF WireInit, TimestampOfTime
  <1>2. TimestampOfTime /\ [WireNext]_<<reportTime, timestamp>> => TimestampOfTime'
    BY WireTimeAssumption DEF TimestampOfTime, WireNext, Report
  <1>3. TimestampOfTime => TimestampIsNearest
    BY SecondsToTimevalIsNearest DEF TimestampOfTime, TimestampIsNearest
  <1> QED BY <1>1, <1>2, <1>3, PTL DEF WireSpec
=============================================================================
