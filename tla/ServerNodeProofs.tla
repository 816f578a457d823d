-------------------------- MODULE ServerNodeProofs --------------------------
(***************************************************************************)
(* Proofs about the legacy node and its server, for every configuration,   *)
(* every set of models and clock times, and any number of messages:        *)
(* EveryMessage lets them be numbered without a bound.                     *)
(***************************************************************************)
EXTENDS ServerNode, TrackerServerProofs, SequenceTheorems

EveryMessage == Poses = Nat \ {0}

ModelStates == [valid : BOOLEAN, names : States]

\* The system clock started at or was set to a time that is not later.
OnWall(time) == \E t \in WallTimes : t <= time

\* What the node holds.  The clocks it reads are far apart, and what it is about
\* to process is newer than what the server has.
NodeGood ==
    /\ wall \in Nat /\ OnWall(wall)
    /\ clock \in Nat /\ (clock # 0 => clock \in ClockTimes)
    /\ inbox \in ModelStates \cup {NoMessage}
    /\ latestSequence \in Nat /\ processedSequence \in Nat /\ served \in Nat
    /\ served <= processedSequence /\ processedSequence <= latestSequence
    /\ latestWall \in Nat
    /\ IF latestSequence = 0 THEN latest = NoMessage
       ELSE latest \in ModelStates /\ OnWall(latestWall)
    /\ latestSequence > 0 => latestWall = arrival[latestSequence]
    /\ loop = "processing" => served < processedSequence /\ processedSequence = latestSequence
    /\ arrival \in [Poses -> Nat] /\ basis \in [Poses -> {"none", "clock", "wall"}]
    /\ source = "wall_time" /\ seenSnapshot \in BOOLEAN
    /\ setBackAfter \subseteq Nat

\* A time is on the clock that it was read from.
OnClock(time, clockName) ==
    \/ clockName = "clock" /\ time \in ClockTimes
    \/ clockName = "wall" /\ OnWall(time)

\* The samples of the first n messages, that arrived at A and are timed by B.
NodeSamples(n, A, B) ==
    {s \in SampleSet :
        /\ s.pose \in 1 .. n /\ s.wall = A[s.pose]
        /\ s.velocity \cup s.acceleration \subseteq 1 .. n
        /\ \A p, q \in s.velocity \cup s.acceleration : B[p] = B[q]}

InOrder(h) ==
    \A k \in Offsets(h) : k > 0 => SampleAt(h, k - 1).pose < SampleAt(h, k).pose

NodeMotion(motion, n, B) ==
    /\ GoodMotion(motion, 1 .. n)
    /\ motion.known => OnClock(motion.time, B[motion.pose])
    /\ \A p \in motion.velocity \cup motion.acceleration :
           motion.known /\ B[p] = B[motion.pose]

NodeModel(r, n, A, B) ==
    /\ NodeMotion(r.motion, n, B)
    /\ WellFilled(r.history, NodeSamples(n, A, B))
    /\ InOrder(r.history) /\ r.history.cap >= 4

ModelsOfNode ==
    \A m \in DOMAIN tracked : m \in Models /\ NodeModel(tracked[m], served, arrival, basis)

\* The wall times of the messages are in order, but where the system clock was
\* set back between them.
WallInOrder ==
    /\ latestWall <= wall \/ latestSequence \in setBackAfter
    /\ served > 0 =>
           /\ arrival[served] <= latestWall \/ SetBackBetween(served, latestSequence)
           /\ arrival[served] <= wall \/ SetBackBetween(served, latestSequence + 1)

\* What the server has last is the time of a message, or not ahead of /clock,
\* but if that went back.
LastTimeIsPast ==
    seenSnapshot =>
        /\ served > 0 /\ lastSampleTime \in Nat
        /\ basis[served] = "clock" => lastSampleTime <= clock \/ clockWentBack
        /\ basis[served] = "wall" => lastSampleTime = arrival[served]
        /\ basis[served] \in {"clock", "wall"}

NodeInv == NodeGood /\ ModelsOfNode /\ LastTimeIsPast /\ WallInOrder
-----------------------------------------------------------------------------
(* One model.                                                              *)

LEMMA LaterMessagesKeepModel ==
    ASSUME NEW r, NEW n \in Nat, NEW n2 \in Nat, n <= n2, NEW A, NEW B, NEW A2, NEW B2,
           \A p \in 1 .. n : A2[p] = A[p] /\ B2[p] = B[p],
           NodeModel(r, n, A, B)
    PROVE  NodeModel(r, n2, A2, B2)
<1>1. 1 .. n \subseteq 1 .. n2
  OBVIOUS
<1>2. GoodMotion(r.motion, 1 .. n)
  BY DEF NodeModel, NodeMotion
<1>3. GoodMotion(r.motion, 1 .. n2)
  BY <1>1, <1>2 DEF GoodMotion
<1>4. /\ r.motion.known => r.motion.pose \in 1 .. n
      /\ r.motion.velocity \cup r.motion.acceleration \subseteq 1 .. n
  BY <1>2 DEF GoodMotion
<1>5. NodeMotion(r.motion, n2, B2)
  BY <1>3, <1>4 DEF NodeModel, NodeMotion
<1>6. NodeSamples(n, A, B) \subseteq NodeSamples(n2, A2, B2)
  <2>1. ASSUME NEW s \in NodeSamples(n, A, B)
        PROVE  s \in NodeSamples(n2, A2, B2)
    <3>. DEFINE D == s.velocity \cup s.acceleration
    <3>1. /\ s \in SampleSet /\ s.pose \in 1 .. n /\ s.wall = A[s.pose]
          /\ D \subseteq 1 .. n /\ \A p, q \in D : B[p] = B[q]
      BY DEF NodeSamples
    <3>. HIDE DEF D
    <3>2. /\ s.pose \in 1 .. n2 /\ s.wall = A2[s.pose]
          /\ D \subseteq 1 .. n2 /\ \A p, q \in D : B2[p] = B2[q]
      BY <1>1, <3>1
    <3>. QED  BY <3>1, <3>2 DEF NodeSamples, D
  <2>. QED  BY <2>1
<1>7. WellFilled(r.history, NodeSamples(n2, A2, B2))
  <2>1. WellFilled(r.history, NodeSamples(n, A, B))
    BY DEF NodeModel
  <2>. QED  BY <1>6, <2>1 DEF WellFilled, IsHistory
<1>. QED  BY <1>5, <1>7 DEF NodeModel

\* Every history has room for the last sample and the one before.
LEMMA EmptyHistoryOfNode ==
    ASSUME NEW capacity \in Nat, capacity >= 4, NEW n \in Nat, NEW A, NEW B, NEW r,
           r.motion = NoMotion, r.history = ClearedHistory(capacity)
    PROVE  NodeModel(r, n, A, B)
<1>1. WellFilled(r.history, NodeSamples(n, A, B)) /\ r.history.cap = capacity
  BY ClearedIsWellFilled
<1>2. InOrder(r.history)
  BY DEF InOrder, Offsets, ClearedHistory
<1>3. NodeMotion(r.motion, n, B)
  BY DEF NodeMotion, GoodMotion, NoMotion, MotionSet
<1>. QED  BY <1>1, <1>2, <1>3 DEF NodeModel

LEMMA NewModelOfNode ==
    ASSUME NEW m \in Models, TrackerNameFor[m] # NoTracker, NEW n \in Nat, NEW A, NEW B
    PROVE  NodeModel(NewTrackedModel(m), n, A, B)
<1>1. TrackerNameFor[m] \in Trackers
  BY NamesAssumption
<1>2. HistoryCapacity(TrackerNameFor[m]) \in Nat /\ HistoryCapacity(TrackerNameFor[m]) >= 4
  BY <1>1, ConfigAssumption DEF HistoryCapacity
<1>. QED  BY <1>2, EmptyHistoryOfNode DEF NewTrackedModel

LEMMA ResetModelOfNode ==
    ASSUME NEW r, NEW n \in Nat, NEW A, NEW B, NodeModel(r, n, A, B)
    PROVE  NodeModel(ResetMeasurement(r), n, A, B)
<1>1. r.history.cap \in Nat /\ r.history.cap >= 4
  BY DEF NodeModel, WellFilled, IsHistory
<1>. QED  BY <1>1, EmptyHistoryOfNode DEF ResetMeasurement

\* The two clocks are further apart than the derivatives reach.
LEMMA WallIsAhead ==
    ASSUME NEW c \in ClockTimes, NEW time \in Int, OnWall(time)
    PROVE  /\ c \in Nat /\ DerivativeResetTimeout \in Nat
           /\ c + DerivativeResetTimeout < time
<1>1. PICK w \in WallTimes : w <= time
  BY DEF OnWall
<1>2. /\ c \in Nat /\ w \in Nat /\ DerivativeResetTimeout \in Nat
      /\ c + DerivativeResetTimeout < w
  BY ClockAssumption, ConfigAssumption
<1>. QED  BY <1>1, <1>2

\* A derivative is computed only from two times on one clock.
LEMMA NextMotionOfNode ==
    ASSUME EveryMessage, NEW motion, NEW n \in Nat, NEW p \in Nat, n < p, NEW B,
           NodeMotion(motion, n, B), NEW time \in Int, OnClock(time, B[p])
    PROVE  NodeMotion(NextMotion(motion, p, time), p, B)
<1>. DEFINE next == NextMotion(motion, p, time)
<1>1. 1 .. p \subseteq Poses /\ 1 .. n \subseteq 1 .. p /\ p \in 1 .. p
  BY DEF EveryMessage
<1>2. GoodMotion(motion, 1 .. n)
  BY DEF NodeMotion
<1>3. GoodMotion(motion, 1 .. p)
  BY <1>1, <1>2 DEF GoodMotion
<1>4. GoodMotion(next, 1 .. p) /\ next.known /\ next.time = time /\ next.pose = p
  <2>. DEFINE D == 1 .. p
  <2>1. D \in SUBSET Poses /\ p \in D /\ GoodMotion(motion, D)
    BY <1>1, <1>3
  <2>. HIDE DEF D
  <2>2. GoodMotion(NextMotion(motion, p, time), D)
    BY <2>1, NextMotionIsGood
  <2>3. NextMotion(motion, p, time).known
    BY <2>1, NextMotionIsGood, Zenon
  <2>4. NextMotion(motion, p, time).time = time /\ NextMotion(motion, p, time).pose = p
    BY DEF NextMotion, DifferentiatedMotion, InitializedMotion
  <2>. QED  BY <2>2, <2>3, <2>4 DEF D
<1>5. ASSUME NEW q \in next.velocity \cup next.acceleration
      PROVE  B[q] = B[p]
  <2>1. CASE CanDifferentiate(motion, time)
    <3>1. /\ motion.known /\ motion.time \in Int
          /\ time - motion.time > 0 /\ time - motion.time <= DerivativeResetTimeout
      BY <1>2, <2>1 DEF CanDifferentiate, GoodMotion, MotionSet
    <3>2. B[motion.pose] = B[p]
      <4>1. OnClock(motion.time, B[motion.pose])
        BY <3>1 DEF NodeMotion
      <4>2. ASSUME motion.time \in ClockTimes, OnWall(time)
            PROVE  FALSE
        BY <3>1, <4>2, WallIsAhead
      <4>3. ASSUME OnWall(motion.time), time \in ClockTimes
            PROVE  FALSE
        BY <3>1, <4>3, WallIsAhead
      <4>. QED  BY <4>1, <4>2, <4>3 DEF OnClock
    <3>3. q \in motion.velocity \cup motion.acceleration \cup {motion.pose, p}
      BY <1>5, <2>1 DEF NextMotion, DifferentiatedMotion
    <3>. QED  BY <3>2, <3>3 DEF NodeMotion
  <2>2. CASE ~CanDifferentiate(motion, time)
    BY <1>5, <2>2 DEF NextMotion, InitializedMotion
  <2>. QED  BY <2>1, <2>2
<1>. HIDE DEF next
<1>6. NodeMotion(next, p, B)
  <2>1. next.known => OnClock(next.time, B[next.pose])
    BY <1>4
  <2>2. ASSUME NEW q \in next.velocity \cup next.acceleration
        PROVE  next.known /\ B[q] = B[next.pose]
    BY <1>4, <1>5
  <2>. QED  BY <1>4, <2>1, <2>2 DEF NodeMotion
<1>. QED  BY <1>6 DEF next

LEMMA UpdatedModelOfNode ==
    ASSUME EveryMessage, NEW r, NEW n \in Nat, NEW p \in Nat, n < p, NEW A, NEW B,
           NodeModel(r, n, A, B), NEW snap, snap.sampleTime \in Int,
           snap.captureWall \in Int, snap.captureWall = A[p], snap.source = "wall_time",
           OnClock(snap.sampleTime, B[p])
    PROVE  LET u == UpdateTrackedModel(r, p, snap)
           IN /\ NodeModel(u, p, A, B)
              /\ ~IsEmpty(r.history) => Latest(r.history) \in Held(u.history)
<1>. DEFINE motion == NextMotion(r.motion, p, snap.sampleTime)
            time == TimeInSource(snap.source, snap.sampleTime, snap.captureWall)
            sample == SampleOf(motion, snap.captureWall, time)
            u == UpdateTrackedModel(r, p, snap)
            h == r.history
            g == Push(h, sample)
            S == NodeSamples(p, A, B)
<1>1. NodeModel(r, p, A, B)
  BY LaterMessagesKeepModel
<1>2. NodeMotion(motion, p, B) /\ GoodMotion(r.motion, 1 .. n)
  BY NextMotionOfNode DEF NodeModel, NodeMotion
<1>3. motion.pose = p /\ GoodMotion(motion, 1 .. p)
  <2>1. motion.pose = p
    BY DEF NextMotion, DifferentiatedMotion, InitializedMotion
  <2>. QED  BY <1>2, <2>1 DEF NodeMotion
<1>4. u.motion = motion /\ u.history = g
  BY DEF UpdateTrackedModel
<1>5. time \in Int
  BY DEF TimeInSource
<1>. HIDE DEF motion, time
<1>6. /\ sample.pose = p /\ sample.wall = A[p]
      /\ sample.velocity = motion.velocity /\ sample.acceleration = motion.acceleration
  BY <1>3 DEF SampleOf
<1>7. sample \in S
  <2>1. sample \in SampleSet
    <3>1. motion \in MotionSet /\ p \in Poses
      BY <1>3 DEF GoodMotion, EveryMessage
    <3>. QED  BY <1>3, <1>5, <3>1 DEF SampleOf, SampleSet, MotionSet
  <2>2. /\ motion.velocity \cup motion.acceleration \subseteq 1 .. p
        /\ \A q \in motion.velocity \cup motion.acceleration : B[q] = B[p]
    BY <1>2, <1>3 DEF NodeMotion, GoodMotion
  <2>. HIDE DEF sample
  <2>3. /\ sample.velocity \cup sample.acceleration \subseteq 1 .. p
        /\ \A q \in sample.velocity \cup sample.acceleration : B[q] = B[p]
    BY <1>6, <2>2
  <2>. QED  BY <1>6, <2>1, <2>3 DEF NodeSamples
<1>. HIDE DEF sample
<1>8. /\ WellFilled(h, S) /\ WellFilled(h, NodeSamples(n, A, B))
      /\ InOrder(h) /\ h.cap >= 4
  BY <1>1 DEF NodeModel
<1>9. WellFilled(g, S) /\ g.cap = h.cap
  BY <1>7, <1>8, PushIsWellFilled
<1>10. /\ h.size \in Nat /\ h.size <= h.cap /\ h.cap \in Nat
       /\ g.size \in Nat
  BY <1>8, <1>9 DEF WellFilled, IsHistory
<1>. DEFINE dropped == IF h.size < h.cap THEN 0 ELSE 1
<1>11. /\ g.size = h.size + 1 - dropped
       /\ \A o \in 0 .. g.size - 2 : /\ o + dropped \in Offsets(h)
                                     /\ SampleAt(g, o) = SampleAt(h, o + dropped)
       /\ SampleAt(g, g.size - 1) = sample
  BY <1>7, <1>8, PushShifts
<1>12. dropped \in Nat /\ (h.size < h.cap => dropped = 0) /\ (h.size >= h.cap => dropped = 1)
  BY <1>10
<1>. HIDE DEF g, dropped
<1>13. InOrder(g)
  <2>. SUFFICES ASSUME NEW k \in Offsets(g), k > 0
                PROVE  SampleAt(g, k - 1).pose < SampleAt(g, k).pose
    BY DEF InOrder
  <2>1. k \in 1 .. g.size - 1 /\ k - 1 \in 0 .. g.size - 2
    BY <1>10 DEF Offsets
  <2>2. /\ (k - 1) + dropped \in Offsets(h)
        /\ SampleAt(g, k - 1) = SampleAt(h, (k - 1) + dropped)
    BY <1>11, <2>1
  <2>3. CASE k = g.size - 1
    <3>1. SampleAt(h, (k - 1) + dropped) \in NodeSamples(n, A, B)
      BY <1>8, <2>2, ReadsPushed DEF Held
    <3>2. SampleAt(h, (k - 1) + dropped).pose \in 1 .. n
      BY <3>1 DEF NodeSamples
    <3>. QED  BY <1>6, <1>11, <2>2, <2>3, <3>2
  <2>4. CASE k # g.size - 1
    <3>1. k \in 0 .. g.size - 2
      BY <1>10, <2>1, <2>4
    <3>2. /\ k + dropped \in Offsets(h) /\ SampleAt(g, k) = SampleAt(h, k + dropped)
      BY <1>11, <3>1
    <3>3. k + dropped > 0 /\ (k + dropped) - 1 = (k - 1) + dropped
      BY <1>12, <2>1
    <3>4. SampleAt(h, (k + dropped) - 1).pose < SampleAt(h, k + dropped).pose
      BY <1>8, <3>2, <3>3 DEF InOrder
    <3>. QED  BY <2>2, <3>2, <3>3, <3>4
  <2>. QED  BY <2>3, <2>4
<1>14. ASSUME ~IsEmpty(h)
       PROVE  Latest(h) \in Held(g)
  <2>. DEFINE o == g.size - 2
  <2>1. h.size >= 1
    BY <1>10, <1>14 DEF IsEmpty
  <2>2. o \in 0 .. g.size - 2 /\ o \in Offsets(g) /\ o + dropped = h.size - 1
    BY <1>8, <1>10, <1>11, <1>12, <2>1 DEF Offsets
  <2>. HIDE DEF o
  <2>3. SampleAt(g, o) = SampleAt(h, h.size - 1)
    BY <1>11, <2>2
  <2>4. Latest(h) = SampleAt(h, h.size - 1)
    BY <1>8, <1>14, ReadSlots
  <2>. QED  BY <2>2, <2>3, <2>4 DEF Held
<1>15. NodeModel(u, p, A, B)
  <2>. HIDE DEF u, S
  <2>. QED  BY <1>2, <1>4, <1>8, <1>9, <1>13 DEF NodeModel, S
<1>. HIDE DEF u, h
<1>. QED  BY <1>4, <1>14, <1>15 DEF u, h
-----------------------------------------------------------------------------
(* The steps.                                                              *)

LEMMA NodeStartsGood == EveryMessage /\ NodeInit => NodeInv
<1>. SUFFICES ASSUME EveryMessage, NodeInit
              PROVE  NodeInv
  OBVIOUS
<1>1. DOMAIN tracked = {} /\ source = "wall_time" /\ seenSnapshot = FALSE
  BY DEF NodeInit, Init, EmptyFunction
<1>2. NodeGood
  <2>1. wall \in Nat /\ OnWall(wall)
    BY ClockAssumption DEF NodeInit, OnWall
  <2>2. arrival \in [Poses -> Nat] /\ basis \in [Poses -> {"none", "clock", "wall"}]
    BY DEF NodeInit
  <2>3. /\ clock = 0 /\ latestWall = 0 /\ latestSequence = 0
        /\ processedSequence = 0 /\ served = 0
        /\ inbox = NoMessage /\ latest = NoMessage /\ loop # "processing"
    BY DEF NodeInit
  <2>4. /\ wall \in Nat /\ OnWall(wall)
        /\ clock \in Nat /\ (clock # 0 => clock \in ClockTimes)
        /\ inbox \in ModelStates \cup {NoMessage}
        /\ latestSequence \in Nat /\ processedSequence \in Nat /\ served \in Nat
        /\ served <= processedSequence /\ processedSequence <= latestSequence
        /\ latestWall \in Nat
    BY <2>1, <2>3
  <2>5. IF latestSequence = 0 THEN latest = NoMessage
        ELSE latest \in ModelStates /\ OnWall(latestWall)
    BY <2>3
  <2>6. /\ latestSequence > 0 => latestWall = arrival[latestSequence]
        /\ loop = "processing" => served < processedSequence /\ processedSequence = latestSequence
    BY <2>3
  <2>7. source = "wall_time" /\ seenSnapshot \in BOOLEAN /\ setBackAfter \subseteq Nat
    BY <1>1 DEF NodeInit
  <2>. QED  BY <2>2, <2>4, <2>5, <2>6, <2>7 DEF NodeGood
<1>3. WallInOrder
  <2>1. wall \in Nat /\ latestWall = 0 /\ served = 0
    BY ClockAssumption DEF NodeInit
  <2>. QED  BY <2>1 DEF WallInOrder
<1>. QED  BY <1>1, <1>2, <1>3 DEF NodeInv, ModelsOfNode, LastTimeIsPast

\* What the node is about to process, and the time it reads for it.
LEMMA SnapshotOfNode ==
    ASSUME NodeInv, ProcessLatest
    PROVE  /\ latestSequence \in Nat /\ served < latestSequence
           /\ SampleTime \in Nat /\ OnClock(SampleTime, Basis)
           /\ latestWall \in Nat /\ latestWall = arrival[latestSequence]
           /\ NodeSnapshot.sampleTime = SampleTime
           /\ NodeSnapshot.captureWall = latestWall
           /\ NodeSnapshot.source = "wall_time"
           /\ latest.names \in States
           /\ \A m \in NamesIn(NodeSnapshot) :
                  m \in Models /\ PoseIn(NodeSnapshot, m) = latestSequence
<1>1. /\ latestSequence \in Nat /\ served \in Nat /\ served < latestSequence
      /\ latestSequence > 0
  BY DEF NodeInv, NodeGood, ProcessLatest
<1>2. /\ clock \in Nat /\ (clock # 0 => clock \in ClockTimes)
      /\ latestWall \in Nat /\ OnWall(latestWall)
      /\ latestWall = arrival[latestSequence] /\ latest \in ModelStates
  BY <1>1 DEF NodeInv, NodeGood
<1>3. SampleTime \in Nat /\ OnClock(SampleTime, Basis)
  BY <1>2, ClockAssumption DEF SampleTime, Basis, ClockIsKnown, OnClock
<1>4. latest.names \in States
  BY <1>2 DEF ModelStates
<1>5. ASSUME NEW m \in NamesIn(NodeSnapshot)
      PROVE  m \in Models /\ PoseIn(NodeSnapshot, m) = latestSequence
  <2>1. latest.names \in Seq(Models)
    BY <1>4, StatesAssumption
  <2>2. /\ DOMAIN NodeSnapshot.models = DOMAIN latest.names
        /\ \A i \in DOMAIN latest.names : /\ NodeSnapshot.models[i].name = latest.names[i]
                                         /\ NodeSnapshot.models[i].pose = latestSequence
    BY DEF NodeSnapshot
  <2>3. PICK i \in DOMAIN latest.names : latest.names[i] = m
    BY <2>2 DEF NamesIn
  <2>4. PoseIn(NodeSnapshot, m) = latestSequence
    <3>1. \E j \in DOMAIN NodeSnapshot.models : NodeSnapshot.models[j].name = m
      BY <2>2, <2>3
    <3>. QED  BY <2>2, <3>1 DEF PoseIn
  <2>5. \A j \in DOMAIN latest.names : latest.names[j] \in Models
    BY <2>1
  <2>. QED  BY <2>3, <2>4, <2>5
<1>. QED  BY <1>1, <1>2, <1>3, <1>4, <1>5 DEF NodeSnapshot

\* The models that a scan of a message adds.
LEMMA NewcomersOfNode ==
    ASSUME NodeInv, ProcessLatest, NEW m \in Newcomers(NodeSnapshot)
    PROVE  m \in Models /\ TrackerNameFor[m] # NoTracker
<1>1. m \in NamesIn(NodeSnapshot) /\ TrackerNameFor[m] # NoTracker
  BY DEF Newcomers, Registered, NamesIn
<1>. QED  BY <1>1, SnapshotOfNode

\* Processing a message keeps each model good, and without a reset its newest
\* sample.
LEMMA ProcessedModel ==
    ASSUME EveryMessage, NodeInv, ProcessLatest, NEW m \in DOMAIN tracked'
    PROVE  /\ m \in Models /\ NodeModel(tracked'[m], served', arrival', basis')
           /\ (/\ m \in DOMAIN tracked /\ ~IsEmpty(tracked[m].history)
               /\ ~SourceChanged(NodeSnapshot) /\ ~TimeMovedBackwards(NodeSnapshot))
                 => Latest(tracked[m].history) \in Held(tracked'[m].history)
<1>. DEFINE n == latestSequence
            snap == NodeSnapshot
            reset == SourceChanged(snap) \/ TimeMovedBackwards(snap)
            before == IF m \notin DOMAIN tracked THEN NewTrackedModel(m)
                      ELSE IF reset THEN ResetMeasurement(tracked[m]) ELSE tracked[m]
<1>1. /\ n \in Nat /\ served \in Nat /\ served < n /\ n \in Poses
      /\ basis \in [Poses -> {"none", "clock", "wall"}]
  BY SnapshotOfNode DEF NodeInv, NodeGood, EveryMessage
<1>2. /\ served' = n /\ arrival' = arrival /\ basis' = [basis EXCEPT ![n] = Basis]
      /\ DOMAIN tracked' = DOMAIN tracked \cup Newcomers(snap)
      /\ tracked'[m] = AfterSnapshot(snap, m)
  BY DEF ProcessLatest, ProcessSnapshot
<1>3. \A p \in 1 .. served : p \in Poses /\ p # n /\ basis'[p] = basis[p]
  BY <1>1, <1>2 DEF EveryMessage
<1>4. basis'[n] = Basis
  BY <1>1, <1>2
<1>5. m \in Models /\ (m \notin DOMAIN tracked => TrackerNameFor[m] # NoTracker)
  BY <1>2, NewcomersOfNode DEF NodeInv, ModelsOfNode
<1>6. NodeModel(before, served, arrival, basis')
  <2>1. m \in DOMAIN tracked => NodeModel(tracked[m], served, arrival, basis')
    <3>1. m \in DOMAIN tracked => NodeModel(tracked[m], served, arrival, basis)
      BY DEF NodeInv, ModelsOfNode
    <3>. QED  BY <1>1, <1>3, <3>1, LaterMessagesKeepModel
  <2>2. CASE m \notin DOMAIN tracked
    BY <1>1, <1>5, <2>2, NewModelOfNode
  <2>3. CASE m \in DOMAIN tracked /\ reset
    BY <1>1, <2>1, <2>3, ResetModelOfNode
  <2>4. CASE m \in DOMAIN tracked /\ ~reset
    BY <2>1, <2>4
  <2>. QED  BY <2>2, <2>3, <2>4
<1>7. m \in DOMAIN tracked /\ ~reset => before = tracked[m]
  OBVIOUS
<1>8. tracked'[m] = IF m \in NamesIn(snap)
                    THEN UpdateTrackedModel(before, PoseIn(snap, m), snap)
                    ELSE [tracker |-> before.tracker, havePose |-> FALSE,
                          motion |-> before.motion, history |-> before.history]
  BY <1>2 DEF AfterSnapshot
<1>. HIDE DEF before
<1>9. CASE m \in NamesIn(snap)
  <2>1. /\ snap.sampleTime \in Int /\ snap.captureWall \in Int
        /\ snap.captureWall = arrival[n] /\ snap.source = "wall_time"
        /\ OnClock(snap.sampleTime, basis'[n]) /\ PoseIn(snap, m) = n
    BY <1>4, <1>9, SnapshotOfNode
  <2>. HIDE DEF n, snap
  <2>2. tracked'[m] = UpdateTrackedModel(before, n, snap)
    BY <1>8, <1>9, <2>1
  <2>3. /\ NodeModel(tracked'[m], n, arrival, basis')
        /\ ~IsEmpty(before.history) => Latest(before.history) \in Held(tracked'[m].history)
    BY <1>1, <1>6, <2>1, <2>2, UpdatedModelOfNode
  <2>. QED  BY <1>2, <1>5, <1>7, <2>3 DEF snap
<1>10. CASE m \notin NamesIn(snap)
  <2>1. tracked'[m].motion = before.motion /\ tracked'[m].history = before.history
    BY <1>8, <1>10
  <2>2. NodeModel(tracked'[m], served, arrival, basis')
    BY <1>6, <2>1 DEF NodeModel
  <2>3. NodeModel(tracked'[m], n, arrival, basis')
    <3>. HIDE DEF n
    <3>. QED  BY <1>1, <2>2, LaterMessagesKeepModel
  <2>4. ~IsEmpty(before.history) => Latest(before.history) \in Held(tracked'[m].history)
    <3>. DEFINE S == NodeSamples(n, arrival, basis')
    <3>1. WellFilled(before.history, S)
      BY <2>1, <2>3 DEF NodeModel
    <3>. HIDE DEF S
    <3>. QED  BY <2>1, <3>1, ReadsPushed
  <2>. QED  BY <1>2, <1>5, <1>7, <2>3, <2>4
<1>. QED  BY <1>9, <1>10

LEMMA ProcessKeepsNodeInv ==
    ASSUME EveryMessage, NodeInv, ProcessLatest
    PROVE  NodeInv'
<1>1. ModelsOfNode'
  BY ProcessedModel DEF ModelsOfNode
<1>2. NodeGood'
  <2>1. Basis \in {"none", "clock", "wall"}
    BY DEF Basis
  <2>2. basis' \in [Poses -> {"none", "clock", "wall"}]
    BY <2>1 DEF ProcessLatest, NodeInv, NodeGood
  <2>3. source' = "wall_time" /\ seenSnapshot' \in BOOLEAN
    BY SnapshotOfNode DEF ProcessLatest, ProcessSnapshot
  <2>. QED  BY <2>2, <2>3 DEF NodeInv, NodeGood, ProcessLatest, nodeVars
<1>3. LastTimeIsPast'
  <2>1. /\ latestSequence \in Nat \ {0} /\ latestSequence \in Poses
        /\ basis \in [Poses -> {"none", "clock", "wall"}]
        /\ SampleTime \in Nat /\ clock \in Nat /\ latestWall \in Nat
    BY SnapshotOfNode DEF NodeInv, NodeGood, EveryMessage
  <2>2. /\ served' = latestSequence /\ basis'[served'] = Basis
        /\ lastSampleTime' = SampleTime /\ clock' = clock
        /\ arrival'[served'] = latestWall
    BY <2>1, SnapshotOfNode DEF ProcessLatest, ProcessSnapshot, nodeVars
  <2>. QED  BY <2>1, <2>2 DEF LastTimeIsPast, Basis, SampleTime, ClockIsKnown
<1>4. WallInOrder'
  <2>1. /\ latestSequence \in Nat /\ latestWall \in Nat /\ arrival[latestSequence] = latestWall
        /\ latestWall <= wall \/ latestSequence \in setBackAfter
    BY SnapshotOfNode DEF NodeInv, WallInOrder
  <2>2. /\ served' = latestSequence
        /\ UNCHANGED <<wall, setBackAfter, arrival, latestWall, latestSequence>>
    BY DEF ProcessLatest, nodeVars
  <2>. QED  BY <2>1, <2>2 DEF WallInOrder, SetBackBetween
<1>. QED  BY <1>1, <1>2, <1>3, <1>4 DEF NodeInv

LEMMA AcceptKeepsNodeInv ==
    ASSUME EveryMessage, NodeInv, ModelStatesCallback
    PROVE  NodeInv'
<1>. DEFINE n == latestSequence + 1
<1>1. /\ latestSequence \in Nat /\ served \in Nat /\ served <= latestSequence
      /\ wall \in Nat /\ OnWall(wall) /\ inbox \in ModelStates
      /\ arrival \in [Poses -> Nat] /\ n \in Poses /\ setBackAfter \subseteq Nat
  BY DEF NodeInv, NodeGood, ModelStatesCallback, EveryMessage
<1>2. /\ UNCHANGED <<tracked, served, basis, seenSnapshot, source, lastSampleTime, clock, wall,
                     clockWentBack, setBackAfter, processedSequence, loop>>
      /\ loop = "spinning" /\ inbox' = NoMessage
  BY DEF ModelStatesCallback, vars, serverVars, clockVars
<1>3. CASE inbox.valid
  <2>1. /\ latest' = inbox /\ latestWall' = wall /\ latestSequence' = n
        /\ arrival' = [arrival EXCEPT ![n] = wall]
    BY <1>3 DEF ModelStatesCallback
  <2>2. arrival' \in [Poses -> Nat] /\ arrival'[n] = wall
    BY <1>1, <2>1
  <2>3. NodeGood'
    BY <1>1, <1>2, <2>1, <2>2 DEF NodeInv, NodeGood
  <2>4. ASSUME NEW m \in DOMAIN tracked
        PROVE  m \in Models /\ NodeModel(tracked[m], served, arrival', basis)
    <3>1. \A p \in 1 .. served : arrival'[p] = arrival[p]
      BY <1>1, <2>1 DEF EveryMessage
    <3>2. m \in Models /\ NodeModel(tracked[m], served, arrival, basis)
      BY DEF NodeInv, ModelsOfNode
    <3>. QED  BY <1>1, <3>1, <3>2, LaterMessagesKeepModel
  <2>5. ModelsOfNode'
    BY <1>2, <2>4 DEF ModelsOfNode
  <2>6. served > 0 => arrival'[served] = arrival[served]
    BY <1>1, <2>1 DEF EveryMessage
  <2>7. LastTimeIsPast'
    BY <1>1, <1>2, <2>1, <2>6 DEF NodeInv, LastTimeIsPast
  <2>8. WallInOrder'
    <3>1. served > 0 => arrival[served] <= wall \/ SetBackBetween(served, latestSequence + 1)
      BY DEF NodeInv, WallInOrder
    <3>2. SetBackBetween(served, n) => SetBackBetween(served, n + 1)
      BY <1>1 DEF SetBackBetween
    <3>. QED  BY <1>1, <1>2, <2>1, <2>6, <3>1, <3>2 DEF WallInOrder, SetBackBetween
  <2>. QED  BY <2>3, <2>5, <2>7, <2>8 DEF NodeInv
<1>4. CASE ~inbox.valid
  <2>1. UNCHANGED <<latest, latestWall, latestSequence, arrival>>
    BY <1>4 DEF ModelStatesCallback
  <2>. QED
    BY <1>2, <2>1 DEF NodeInv, NodeGood, ModelsOfNode, LastTimeIsPast, WallInOrder, SetBackBetween
<1>. QED  BY <1>3, <1>4

\* The wall clock advances, is set, or stays.
LEMMA WallStepKeepsOrder ==
    ASSUME EveryMessage, NodeInv,
           UNCHANGED <<latestWall, latestSequence, arrival, served>>,
           \/ UNCHANGED <<wall, setBackAfter>>
           \/ TimePasses
           \/ \E t \in WallTimes : WallIsSet(t)
    PROVE  WallInOrder'
<1>1. /\ wall \in Nat /\ latestWall \in Nat /\ latestSequence \in Nat /\ served \in Nat
      /\ served <= latestSequence /\ WallInOrder
      /\ (served > 0 => arrival[served] \in Nat)
  BY DEF NodeInv, NodeGood, EveryMessage
<1>2. wall' \in Nat /\ setBackAfter \subseteq setBackAfter'
      /\ (wall <= wall' \/ latestSequence \in setBackAfter')
  BY <1>1, ClockAssumption DEF TimePasses, WallIsSet
<1>3. CASE latestSequence \in setBackAfter'
  <2>1. SetBackBetween(served, latestSequence + 1)'
    BY <1>1, <1>3 DEF SetBackBetween
  <2>2. SetBackBetween(served, latestSequence) => SetBackBetween(served, latestSequence)'
    BY <1>2 DEF SetBackBetween
  <2>. QED  BY <1>1, <1>3, <2>1, <2>2 DEF WallInOrder
<1>4. CASE wall <= wall' /\ latestSequence \notin setBackAfter'
  <2>1. latestWall <= wall'
    BY <1>1, <1>2, <1>4 DEF WallInOrder
  <2>2. /\ SetBackBetween(served, latestSequence) => SetBackBetween(served, latestSequence)'
        /\ SetBackBetween(served, latestSequence + 1)
             => SetBackBetween(served, latestSequence + 1)'
    BY <1>2 DEF SetBackBetween
  <2>3. served > 0 => \/ arrival[served] <= wall'
                      \/ SetBackBetween(served, latestSequence + 1)
    <3>. DEFINE a == arrival[served]
    <3>1. ASSUME served > 0, a <= wall
          PROVE  a <= wall'
      <4>1. a \in Nat
        BY <1>1, <3>1
      <4>. HIDE DEF a
      <4>. QED  BY <1>1, <1>2, <1>4, <3>1, <4>1
    <3>. QED  BY <1>1, <3>1 DEF WallInOrder
  <2>. QED  BY <1>1, <2>1, <2>2, <2>3 DEF WallInOrder
<1>. QED  BY <1>2, <1>3, <1>4

\* The steps that leave the server, the messages and what is known of them.
LEMMA OtherKeepsNodeInv ==
    ASSUME NodeInv, UNCHANGED <<vars, latest, latestWall, latestSequence, arrival, basis, served>>,
           NodeGood', WallInOrder',
           \/ clock' = clock /\ clockWentBack' = clockWentBack
           \/ \E t \in ClockTimes : ClockArrives(t)
    PROVE  NodeInv'
<1>. USE DEF vars, serverVars
<1>1. ModelsOfNode'
  BY DEF NodeInv, ModelsOfNode
<1>2. LastTimeIsPast'
  <2>1. CASE clock' = clock /\ clockWentBack' = clockWentBack
    BY <2>1 DEF NodeInv, LastTimeIsPast
  <2>2. ASSUME NEW t \in ClockTimes, ClockArrives(t)
        PROVE  LastTimeIsPast'
    <3>1. clock \in Nat /\ t \in Nat /\ clock' = t
      BY <2>2, ClockAssumption DEF NodeInv, NodeGood, ClockArrives
    <3>2. (clockWentBack => clockWentBack') /\ (t < clock => clockWentBack')
      BY <2>2, Zenon DEF ClockArrives
    <3>3. ASSUME seenSnapshot, basis[served] = "clock"
          PROVE  lastSampleTime <= clock' \/ clockWentBack'
      <4>1. CASE clockWentBack
        BY <3>2, <4>1
      <4>2. CASE ~clockWentBack
        <5>1. lastSampleTime \in Nat /\ lastSampleTime <= clock
          BY <3>3, <4>2 DEF NodeInv, LastTimeIsPast
        <5>2. t < clock \/ lastSampleTime <= clock'
          BY <3>1, <5>1
        <5>. QED  BY <3>2, <5>2
      <4>. QED  BY <4>1, <4>2
    <3>. QED  BY <3>3 DEF NodeInv, LastTimeIsPast
  <2>. QED  BY <2>1, <2>2
<1>. QED  BY <1>1, <1>2 DEF NodeInv

LEMMA NextKeepsNodeInv == EveryMessage /\ NodeInv /\ [NodeNext]_allVars => NodeInv'
<1>. SUFFICES ASSUME EveryMessage, NodeInv, [NodeNext]_allVars
              PROVE  NodeInv'
  OBVIOUS
<1>. USE DEF externalVars, clockVars, nodeVars, traceVars
<1>1. CASE ProcessLatest
  BY <1>1, ProcessKeepsNodeInv
<1>2. CASE ModelStatesCallback
  BY <1>2, AcceptKeepsNodeInv
<1>3. CASE TimePasses
  <2>1. NodeGood'
    <3>1. wall' \in Nat /\ OnWall(wall')
      <4>1. /\ wall \in Nat /\ wall' = wall + 1
            /\ \E t \in WallTimes : t \in Nat /\ t <= wall
        BY <1>3, ClockAssumption DEF TimePasses, NodeInv, NodeGood, OnWall
      <4>. QED  BY <4>1 DEF OnWall
    <3>. QED  BY <1>3, <3>1 DEF TimePasses, NodeInv, NodeGood, OnWall, vars, serverVars
  <2>2. WallInOrder'
    BY <1>3, WallStepKeepsOrder DEF TimePasses
  <2>. QED  BY <1>3, <2>1, <2>2, OtherKeepsNodeInv DEF TimePasses
<1>3a. ASSUME NEW t \in WallTimes, WallIsSet(t)
       PROVE  NodeInv'
  <2>1. NodeGood'
    <3>1. wall' \in Nat /\ OnWall(wall')
      BY <1>3a, ClockAssumption DEF WallIsSet, OnWall
    <3>2. setBackAfter' \subseteq Nat
      BY <1>3a DEF WallIsSet, NodeInv, NodeGood
    <3>. QED  BY <1>3a, <3>1, <3>2 DEF WallIsSet, NodeInv, NodeGood, OnWall, vars, serverVars
  <2>2. WallInOrder'
    BY <1>3a, WallStepKeepsOrder DEF WallIsSet
  <2>. QED  BY <1>3a, <2>1, <2>2, OtherKeepsNodeInv DEF WallIsSet
<1>4. ASSUME NEW t \in ClockTimes, ClockArrives(t)
      PROVE  NodeInv'
  <2>1. t \in Nat
    BY ClockAssumption
  <2>2. NodeGood'
    BY <1>4, <2>1 DEF ClockArrives, NodeInv, NodeGood, OnWall, vars, serverVars
  <2>3. WallInOrder'
    BY <1>4, WallStepKeepsOrder DEF ClockArrives
  <2>. QED  BY <1>4, <2>2, <2>3, OtherKeepsNodeInv DEF ClockArrives
<1>5. ASSUME NEW names \in States, NEW valid \in BOOLEAN, MessageArrives(names, valid)
      PROVE  NodeInv'
  <2>1. inbox' \in ModelStates
    BY <1>5 DEF MessageArrives, ModelStates
  <2>2. NodeGood'
    BY <1>5, <2>1 DEF MessageArrives, NodeInv, NodeGood, OnWall, vars, serverVars
  <2>3. WallInOrder'
    BY <1>5, WallStepKeepsOrder DEF MessageArrives
  <2>. QED  BY <1>5, <2>2, <2>3, OtherKeepsNodeInv DEF MessageArrives
<1>6. CASE TakeLatest
  <2>1. NodeGood'
    <3>1. /\ UNCHANGED <<vars, externalVars, latest, latestWall, latestSequence, traceVars>>
          /\ HaveMessage => loop' = "processing" /\ processedSequence' = latestSequence
          /\ ~HaveMessage => loop' = "publishing" /\ processedSequence' = processedSequence
      BY <1>6 DEF TakeLatest
    <3>2. /\ served <= processedSequence /\ processedSequence <= latestSequence
          /\ latestSequence \in Nat /\ processedSequence \in Nat /\ served \in Nat
          /\ HaveMessage => served < latestSequence
      BY DEF NodeInv, NodeGood, HaveMessage
    <3>. QED  BY <3>1, <3>2 DEF NodeInv, NodeGood, OnWall, vars, serverVars
  <2>2. WallInOrder'
    BY <1>6, WallStepKeepsOrder DEF TakeLatest
  <2>. QED  BY <1>6, <2>1, <2>2, OtherKeepsNodeInv DEF TakeLatest
<1>7. ASSUME NEW delay \in Delays, PublishCycle(delay)
      PROVE  NodeInv'
  <2>1. /\ UNCHANGED <<tracked, seenSnapshot, source, lastSampleTime>>
        /\ UNCHANGED <<externalVars, nodeVars, traceVars>> /\ loop' = "sleeping"
    BY <1>7 DEF PublishCycle, Publish
  <2>2. NodeGood'
    BY <2>1 DEF NodeInv, NodeGood, OnWall
  <2>3. WallInOrder'
    BY <2>1, WallStepKeepsOrder
  <2>. QED  BY <2>1, <2>2, <2>3 DEF NodeInv, ModelsOfNode, LastTimeIsPast
<1>8. CASE Signal \/ Construct \/ CheckRunning \/ EndSpinOnce \/ WakeUp \/ Throws
           \/ UNCHANGED allVars
  <2>1. /\ UNCHANGED <<vars, externalVars, latest, latestWall, latestSequence,
                       processedSequence, traceVars>>
        /\ loop' = "processing" => loop = "processing"
    BY <1>8 DEF Signal, Construct, CheckRunning, EndSpinOnce, WakeUp, Throws, allVars
  <2>2. NodeGood'
    BY <2>1 DEF NodeInv, NodeGood, vars, serverVars
  <2>3. WallInOrder'
    BY <2>1, WallStepKeepsOrder
  <2>. QED  BY <2>1, <2>2, <2>3, OtherKeepsNodeInv
<1>. QED
  BY <1>1, <1>2, <1>3, <1>3a, <1>4, <1>5, <1>6, <1>7, <1>8 DEF NodeNext, Node, External

\* NodeInv holds in every state of the node.
LEMMA NodeInvariant == EveryMessage => (NodeSpec => []NodeInv)
<1>. SUFFICES ASSUME EveryMessage
              PROVE  NodeSpec => []NodeInv
  OBVIOUS
<1>1. NodeInit => NodeInv
  BY NodeStartsGood
<1>2. NodeInv /\ [NodeNext]_allVars => NodeInv'
  BY NextKeepsNodeInv
<1>. QED  BY <1>1, <1>2, PTL DEF NodeSpec
-----------------------------------------------------------------------------
(* The properties.                                                         *)

\* Every sample has the wall time of its own message, and those of a model are
\* in the order of the messages: however many are lost, rejected or kept
\* waiting before modelStatesCallback() accepts one.
THEOREM SamplesAreOfTheirMessages == EveryMessage => (NodeSpec => []SamplesAreArrivals)
<1>. SUFFICES ASSUME EveryMessage
              PROVE  NodeSpec => []SamplesAreArrivals
  OBVIOUS
<1>1. NodeInv => SamplesAreArrivals
  <2>. SUFFICES ASSUME NodeInv, NEW m \in DOMAIN tracked,
                       NEW k \in Offsets(tracked[m].history)
                PROVE  LET h == tracked[m].history
                       IN /\ SampleAt(h, k).wall = arrival[SampleAt(h, k).pose]
                          /\ k > 0 => SampleAt(h, k - 1).pose < SampleAt(h, k).pose
    BY DEF SamplesAreArrivals
  <2>. DEFINE S == NodeSamples(served, arrival, basis)
              h == tracked[m].history
  <2>1. WellFilled(h, S) /\ InOrder(h)
    BY DEF NodeInv, ModelsOfNode, NodeModel
  <2>2. \A s \in S : s.wall = arrival[s.pose]
    BY DEF NodeSamples
  <2>. HIDE DEF S, h
  <2>3. SampleAt(h, k) \in S
    BY <2>1, ReadsPushed DEF Held, h
  <2>. QED  BY <2>1, <2>2, <2>3 DEF InOrder, h
<1>. QED  BY <1>1, NodeInvariant, PTL

\* No derivative mixes the simulation clock and the wall time that stands in
\* for it before /clock.
THEOREM DerivativesOnOneClock == EveryMessage => (NodeSpec => []DerivativesUseOneClock)
<1>. SUFFICES ASSUME EveryMessage
              PROVE  NodeSpec => []DerivativesUseOneClock
  OBVIOUS
<1>1. NodeInv => DerivativesUseOneClock
  <2>. SUFFICES ASSUME NodeInv, NEW m \in DOMAIN tracked, NEW s \in Held(tracked[m].history)
                PROVE  \A p, q \in s.velocity \cup s.acceleration : basis[p] = basis[q]
    BY DEF DerivativesUseOneClock
  <2>. DEFINE S == NodeSamples(served, arrival, basis)
  <2>1. WellFilled(tracked[m].history, S)
    BY DEF NodeInv, ModelsOfNode, NodeModel
  <2>2. \A t \in S : \A p, q \in t.velocity \cup t.acceleration : basis[p] = basis[q]
    BY DEF NodeSamples
  <2>. HIDE DEF S
  <2>3. s \in S
    BY <2>1, ReadsPushed
  <2>. QED  BY <2>2, <2>3
<1>. QED  BY <1>1, NodeInvariant, PTL

\* A message is not behind the last one that the server processed, as long as
\* both are on one clock and that did not go back.
LEMMA NoResetWithoutCause ==
    ASSUME NodeInv, ProcessLatest, basis[served] = Basis,
           Basis = "clock" => ~clockWentBack,
           Basis = "wall" => ~SetBackBetween(served, latestSequence)
    PROVE  ~SourceChanged(NodeSnapshot) /\ ~TimeMovedBackwards(NodeSnapshot)
<1>1. ~SourceChanged(NodeSnapshot)
  BY DEF SourceChanged, NodeInv, NodeGood, NodeSnapshot
<1>2. ASSUME seenSnapshot
      PROVE  lastSampleTime \in Nat /\ lastSampleTime <= SampleTime
  BY <1>2 DEF NodeInv, LastTimeIsPast, WallInOrder, Basis, SampleTime
<1>3. SampleTime \in Nat /\ NodeSnapshot.sampleTime = SampleTime
  BY SnapshotOfNode
<1>4. ~TimeMovedBackwards(NodeSnapshot)
  BY <1>2, <1>3 DEF TimeMovedBackwards
<1>. QED  BY <1>1, <1>4

\* resetTrackedModelMeasurements() takes no history from a model but for a
\* clock that moved backwards, /clock or the system clock, whichever the sample
\* times are on, or that gave way to the other one.
THEOREM NoResetIsSpurious == EveryMessage => (NodeSpec => ResetsHaveACause)
<1>. SUFFICES ASSUME EveryMessage
              PROVE  NodeSpec => ResetsHaveACause
  OBVIOUS
<1>. DEFINE Caused ==
        \A m \in DOMAIN tracked :
            ~IsEmpty(tracked[m].history) =>
                \/ Latest(tracked[m].history) \in Held(tracked'[m].history)
                \/ basis[served] # Basis
                \/ Basis = "clock" /\ clockWentBack
                \/ Basis = "wall" /\ SetBackBetween(served, latestSequence)
<1>1. ASSUME NodeInv, [NodeNext]_allVars
      PROVE  Caused
  <2>. SUFFICES ASSUME NEW m \in DOMAIN tracked, ~IsEmpty(tracked[m].history),
                       basis[served] = Basis, Basis = "clock" => ~clockWentBack,
                       Basis = "wall" => ~SetBackBetween(served, latestSequence)
                PROVE  Latest(tracked[m].history) \in Held(tracked'[m].history)
    OBVIOUS
  <2>1. CASE ProcessLatest
    <3>1. m \in DOMAIN tracked'
      BY <2>1 DEF ProcessLatest, ProcessSnapshot
    <3>. QED  BY <1>1, <2>1, <3>1, NoResetWithoutCause, ProcessedModel
  <2>2. CASE UNCHANGED tracked
    <3>. DEFINE S == NodeSamples(served, arrival, basis)
    <3>1. WellFilled(tracked[m].history, S)
      BY <1>1 DEF NodeInv, ModelsOfNode, NodeModel
    <3>. HIDE DEF S
    <3>. QED  BY <2>2, <3>1, ReadsPushed
  <2>3. ASSUME NEW delay \in Delays, PublishCycle(delay)
        PROVE  UNCHANGED tracked
    BY <2>3 DEF PublishCycle, Publish
  <2>4. ASSUME \/ TimePasses \/ Signal \/ Construct \/ CheckRunning \/ ModelStatesCallback
               \/ EndSpinOnce \/ TakeLatest \/ WakeUp \/ Throws \/ UNCHANGED allVars
               \/ \E t \in ClockTimes : ClockArrives(t)
               \/ \E t \in WallTimes : WallIsSet(t)
               \/ \E names \in States, valid \in BOOLEAN : MessageArrives(names, valid)
        PROVE  UNCHANGED tracked
    BY <2>4 DEF TimePasses, Signal, Construct, CheckRunning, ModelStatesCallback, EndSpinOnce,
                TakeLatest, WakeUp, Throws, ClockArrives, WallIsSet, MessageArrives, allVars, vars,
                serverVars
  <2>. QED  BY <1>1, <2>1, <2>2, <2>3, <2>4 DEF NodeNext, Node, External
<1>. HIDE DEF Caused
<1>2. NodeInv /\ [NodeNext]_allVars => [Caused]_allVars
  BY <1>1
<1>3. NodeSpec => [][Caused]_allVars
  BY <1>2, NodeInvariant, PTL DEF NodeSpec
<1>. QED  BY <1>3 DEF Caused, ResetsHaveACause

\* The safety of HandsOverMessages: processLatestModelStates() gives the server
\* the messages that modelStatesCallback() accepted, in their order, none twice.
THEOREM MessagesAreHandedOver == EveryMessage => (NodeSpec => Contract!Spec)
<1>. SUFFICES ASSUME EveryMessage
              PROVE  NodeSpec => Contract!Spec
  OBVIOUS
<1>. DEFINE busy == loop = "processing"
            closed == shutdown \/ loop = "ended"
<1>1. NodeInit => Contract!Init
  BY DEF NodeInit, Contract!Init
<1>2. ASSUME NodeInv, [NodeNext]_allVars
      PROVE  [Contract!Next]_Contract!vars
  <2>. USE DEF externalVars, nodeVars, traceVars
  <2>a. /\ latestSequence \in Nat /\ processedSequence \in Nat /\ served \in Nat
        /\ served <= processedSequence /\ processedSequence <= latestSequence
        /\ busy => served < processedSequence /\ processedSequence = latestSequence
    BY <1>2 DEF NodeInv, NodeGood
  <2>b. ASSUME UNCHANGED <<latestSequence, served>>, busy' <=> busy, closed' <=> closed
        PROVE  UNCHANGED Contract!vars
    <3>1. (busy' = busy) /\ (closed' = closed)
      BY <2>b
    <3>. QED  BY <2>b, <3>1 DEF Contract!vars
  <2>1. CASE ModelStatesCallback
    <3>1. served' = served /\ (busy' <=> busy) /\ (closed' <=> closed)
      BY <2>1 DEF ModelStatesCallback
    <3>2. CASE inbox.valid
      <4>1. latestSequence' = latestSequence + 1
        BY <2>1, <3>2 DEF ModelStatesCallback
      <4>2. (busy' = busy) /\ (closed' = closed)
        BY <3>1
      <4>. QED  BY <3>1, <4>1, <4>2 DEF Contract!Next, Contract!Store
    <3>3. CASE ~inbox.valid
      BY <2>b, <2>1, <3>1, <3>3 DEF ModelStatesCallback
    <3>. QED  BY <3>2, <3>3
  <2>2. CASE TakeLatest
    <3>1. /\ UNCHANGED <<latestSequence, served, shutdown>>
          /\ loop = "taking"
          /\ loop' = IF HaveMessage THEN "processing" ELSE "publishing"
      BY <2>2 DEF TakeLatest
    <3>2. CASE HaveMessage
      <4>1. ~busy /\ busy' = TRUE /\ (closed' = closed)
        BY <3>1, <3>2
      <4>2. served < latestSequence
        BY <2>a, <3>2 DEF HaveMessage
      <4>. QED  BY <3>1, <4>1, <4>2 DEF Contract!Next, Contract!Take
    <3>3. CASE ~HaveMessage
      BY <2>b, <3>1, <3>3
    <3>. QED  BY <3>2, <3>3
  <2>3. CASE ProcessLatest
    <3>1. /\ latestSequence' = latestSequence /\ shutdown' = shutdown
          /\ served' = latestSequence /\ loop = "processing" /\ loop' = "publishing"
      BY <2>3 DEF ProcessLatest
    <3>2. busy /\ busy' = FALSE /\ (closed' = closed)
      BY <3>1
    <3>3. served' \in served + 1 .. latestSequence
      BY <2>a, <3>1
    <3>. QED  BY <3>1, <3>2, <3>3 DEF Contract!Next, Contract!Consume
  <2>4. CASE Throws
    <3>1. UNCHANGED <<latestSequence, served>> /\ loop' = "ended"
      BY <2>4 DEF Throws
    <3>2. busy' = FALSE /\ closed' = TRUE
      BY <3>1
    <3>. QED  BY <3>1, <3>2 DEF Contract!Next, Contract!Fail
  <2>5. CASE Signal
    <3>1. UNCHANGED <<latestSequence, served, loop>> /\ shutdown' = TRUE
      BY <2>5 DEF Signal
    <3>2. (busy' = busy) /\ closed' = TRUE
      BY <3>1
    <3>. QED  BY <3>1, <3>2 DEF Contract!Next, Contract!Close
  <2>6. CASE CheckRunning
    <3>1. UNCHANGED <<latestSequence, served, shutdown>> /\ loop = "running"
          /\ loop' = IF shutdown THEN "ended" ELSE "spinning"
      BY <2>6 DEF CheckRunning
    <3>. QED  BY <2>b, <3>1
  <2>7. ASSUME \/ Construct \/ EndSpinOnce \/ WakeUp
               \/ \E delay \in Delays : PublishCycle(delay)
        PROVE  UNCHANGED Contract!vars
    <3>1. /\ UNCHANGED <<latestSequence, served, shutdown>>
          /\ loop \in {"starting", "spinning", "sleeping", "publishing"}
          /\ loop' \in {"running", "taking", "sleeping"}
      BY <2>7 DEF Construct, EndSpinOnce, WakeUp, PublishCycle
    <3>. QED  BY <2>b, <3>1
  <2>8. ASSUME \/ TimePasses \/ UNCHANGED allVars
               \/ \E t \in ClockTimes : ClockArrives(t)
               \/ \E t \in WallTimes : WallIsSet(t)
               \/ \E names \in States, valid \in BOOLEAN : MessageArrives(names, valid)
        PROVE  UNCHANGED Contract!vars
    <3>1. UNCHANGED <<latestSequence, served, shutdown, loop>>
      BY <2>8 DEF TimePasses, ClockArrives, WallIsSet, MessageArrives, allVars
    <3>. QED  BY <2>b, <3>1
  <2>. QED
    BY <1>2, <2>1, <2>2, <2>3, <2>4, <2>5, <2>6, <2>7, <2>8 DEF NodeNext, Node, External
<1>. QED  BY <1>1, <1>2, NodeInvariant, PTL DEF NodeSpec, Contract!Spec
-----------------------------------------------------------------------------
(* The node and the server's own specification.                            *)

LEMMA NodeSnapshotIsDeliverable ==
    ASSUME EveryMessage, NodeInv, ProcessLatest
    PROVE  NodeSnapshot \in EverySnapshot
<1>. DEFINE names == latest.names
            entries == [i \in DOMAIN names |-> [name |-> names[i], pose |-> latestSequence]]
<1>1. /\ names \in Seq(Models) /\ latestSequence \in Poses
      /\ SampleTime \in Int /\ latestWall \in Int
      /\ \A i, j \in DOMAIN names : names[i] = names[j] => i = j
  <2>1. names \in States
    BY SnapshotOfNode
  <2>2. latestSequence \in Nat /\ served \in Nat /\ served < latestSequence
    BY SnapshotOfNode DEF NodeInv, NodeGood
  <2>3. SampleTime \in Nat /\ latestWall \in Nat
    BY SnapshotOfNode
  <2>. HIDE DEF names
  <2>. QED  BY <2>1, <2>2, <2>3, StatesAssumption DEF EveryMessage
<1>2. NodeSnapshot = [source |-> "wall_time", sampleTime |-> SampleTime,
                      captureWall |-> latestWall, models |-> entries]
  BY DEF NodeSnapshot
<1>3. /\ DOMAIN entries = DOMAIN names
      /\ \A i \in DOMAIN entries : /\ entries[i] \in [name : Models, pose : Poses]
                                   /\ entries[i].name = names[i]
  <2>. HIDE DEF names
  <2>. QED  BY <1>1
<1>4. entries \in Seq([name : Models, pose : Poses])
  <2>1. Len(names) \in Nat /\ DOMAIN names = 1 .. Len(names)
    BY <1>1
  <2>. HIDE DEF names
  <2>2. entries \in [1 .. Len(names) -> [name : Models, pose : Poses]]
    BY <1>3, <2>1
  <2>. QED  BY <2>1, <2>2, SeqDef
<1>. HIDE DEF names, entries
<1>5. "wall_time" \in Sources
  BY DEF Sources
<1>. QED  BY <1>1, <1>2, <1>3, <1>4, <1>5 DEF EverySnapshot

\* What the node does with its server is what TrackerServer allows any adapter:
\* every theorem about TrackerServer is one about the legacy process.
THEOREM NodeDrivesServer ==
    EveryMessage /\ AnyAdapter => (NodeSpec => Spec)
<1>. SUFFICES ASSUME EveryMessage, AnyAdapter
              PROVE  NodeSpec => Spec
  OBVIOUS
<1>1. NodeInit => Init
  BY DEF NodeInit
<1>2. ASSUME NodeInv, [NodeNext]_allVars
      PROVE  [Next]_vars
  <2>1. CASE ProcessLatest
    <3>1. NodeSnapshot \in Snapshots
      BY <1>2, <2>1, NodeSnapshotIsDeliverable DEF AnyAdapter
    <3>. QED  BY <2>1, <3>1 DEF ProcessLatest, Next
  <2>2. ASSUME NEW delay \in Delays, PublishCycle(delay)
        PROVE  Next
    BY <1>2, <2>2 DEF PublishCycle, Next, NodeInv, NodeGood, AnyAdapter
  <2>3. ASSUME \/ TimePasses \/ Signal \/ Construct \/ CheckRunning \/ ModelStatesCallback
               \/ EndSpinOnce \/ TakeLatest \/ WakeUp \/ Throws \/ UNCHANGED allVars
               \/ \E t \in ClockTimes : ClockArrives(t)
               \/ \E t \in WallTimes : WallIsSet(t)
               \/ \E names \in States, valid \in BOOLEAN : MessageArrives(names, valid)
        PROVE  UNCHANGED vars
    BY <2>3 DEF TimePasses, Signal, Construct, CheckRunning, ModelStatesCallback, EndSpinOnce,
                TakeLatest, WakeUp, Throws, ClockArrives, WallIsSet, MessageArrives, allVars
  <2>. QED  BY <1>2, <2>1, <2>2, <2>3 DEF NodeNext, Node, External
<1>. QED  BY <1>1, <1>2, NodeInvariant, PTL DEF NodeSpec, Spec
=============================================================================
