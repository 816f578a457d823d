---------------------------- MODULE BridgeProofs ----------------------------
(***************************************************************************)
(* Theorems about the plugin and its server together, for every set of     *)
(* models and names, every scan interval, and any behaviour of the system  *)
(* clock and of the simulation.                                            *)
(*                                                                         *)
(* The argument: wall - elapsed + setBack never decreases, so that from a  *)
(* scan to a later moment the steady clock has not advanced by more than   *)
(* the system clock and what it was set back by.                           *)
(***************************************************************************)
EXTENDS Bridge, TrackerServerProofs, FiniteSetTheorems, SequenceTheorems

\* The present, as a snapshot of no model has it.
Now == SnapshotOf(<<>>)

Drift(s) == (s.data.captureWall - s.at) + s.setBack

IsMoment(s) ==
    /\ s.at \in Nat /\ s.setBack \in Nat /\ s.run \in Nat
    /\ s.data.captureWall \in Int /\ s.data.sampleTime \in Nat
    /\ s.since \in [Models -> Nat] /\ s.world \subseteq Exported

\* What is the same, or further, at y than at x before it.
Older(x, y) ==
    /\ x.at <= y.at /\ x.setBack <= y.setBack
    /\ Drift(x) <= Drift(y)
    /\ x.run <= y.run
    /\ x.run < y.run => y.data.sampleTime <= MaxSpeed * (y.at - x.at)
    /\ \A m \in Models : /\ x.since[m] <= y.since[m]
                         /\ y.since[m] < x.at => (m \in x.world <=> m \in y.world)

\* The models in a snapshot are those of the world, but for what has changed
\* within a scan interval.
GoodSnapshot(s) ==
    /\ IsMoment(s)
    /\ s.data \in EverySnapshot /\ NamesIn(s.data) \subseteq Exported
    /\ \A i \in DOMAIN s.data.models : s.data.models[i].pose = s.run
    /\ \A m \in Models : s.since[m] + ScanInterval + s.setBack <= s.at
                             => (m \in NamesIn(s.data) <=> m \in s.world)

BridgeGood ==
    /\ IsMoment(Now) /\ wall \in Nat \ {0} /\ run \in Poses
    /\ \A m \in Models : since[m] <= elapsed

\* The plugin's scan of the world, at the time `at`.
RefreshGood ==
    /\ handles \subseteq Exported /\ lastRefresh \in Nat
    /\ lastRefresh # 0 =>
         \E at \in 0 .. elapsed, sb \in 0 .. setBack :
            /\ (lastRefresh - at) + sb <= Drift(Now)
            /\ \A m \in Models : since[m] < at => (m \in handles <=> m \in world)

HandOverGood ==
    /\ mailbox # NoSnapshot => GoodSnapshot(mailbox) /\ Older(mailbox, Now)
    /\ processed # NoSnapshot => GoodSnapshot(processed) /\ Older(processed, Now)
    /\ mailbox # NoSnapshot /\ processed # NoSnapshot => Older(processed, mailbox)

\* The server's scan of a snapshot that was captured at the time `at`.
ScanGood ==
    lastScan # 0 =>
        /\ processed # NoSnapshot
        /\ \E at \in 0 .. processed.at, sb \in 0 .. processed.setBack :
              /\ (lastScan - at) + sb <= Drift(processed)
              /\ \A m \in processed.world :
                     processed.since[m] + ScanInterval + sb < at
                         => TrackerNameFor[m] \in DOMAIN trackerNames

ServerGood ==
    /\ processed # NoSnapshot =>
         /\ seenSnapshot /\ lastSampleTime = processed.data.sampleTime
         /\ \A m \in DOMAIN tracked : tracked[m].havePose => m \in NamesIn(processed.data)
    /\ ScanGood /\ RegisteredWithinTwoScans

BridgeInv == IInv /\ BridgeGood /\ RefreshGood /\ HandOverGood /\ ServerGood
-----------------------------------------------------------------------------
(* Moments.                                                                *)

LEMMA MomentOf ==
    ASSUME NEW order
    PROVE  LET s == SnapshotOf(order)
           IN /\ s.at = elapsed /\ s.setBack = setBack /\ s.run = run
              /\ s.world = world /\ s.since = since
              /\ s.data.captureWall = wall /\ s.data.sampleTime = simTime
BY DEF SnapshotOf

LEMMA MomentNow ==
    /\ Now.at = elapsed /\ Now.setBack = setBack /\ Now.run = run
    /\ Now.world = world /\ Now.since = since
    /\ Now.data.captureWall = wall /\ Now.data.sampleTime = simTime
BY DEF Now, SnapshotOf

LEMMA MomentNext ==
    /\ Now'.at = elapsed' /\ Now'.setBack = setBack' /\ Now'.run = run'
    /\ Now'.world = world' /\ Now'.since = since'
    /\ Now'.data.captureWall = wall' /\ Now'.data.sampleTime = simTime'
BY DEF Now, SnapshotOf

\* A snapshot taken now has what the present has.
LEMMA CapturedNow ==
    ASSUME NEW order, NEW s, s = SnapshotOf(order)
    PROVE  /\ IsMoment(Now) => IsMoment(s)
           /\ \A x : Older(x, Now) => Older(x, s)
           /\ IsMoment(Now) => Older(s, Now)
<1>1. /\ s.at = Now.at /\ s.setBack = Now.setBack /\ s.run = Now.run
      /\ s.world = Now.world /\ s.since = Now.since
      /\ s.data.captureWall = Now.data.captureWall /\ s.data.sampleTime = Now.data.sampleTime
  BY MomentOf, MomentNow
<1>2. IsMoment(Now) => IsMoment(s)
  BY <1>1 DEF IsMoment
<1>3. \A x : Older(x, Now) => Older(x, s)
  BY <1>1 DEF Older, Drift
<1>4. IsMoment(Now) => Older(s, Now)
  BY <1>1 DEF Older, Drift, IsMoment
<1>. QED  BY <1>2, <1>3, <1>4

\* What happens around the bridge.
Around == \/ \E simulated \in 0 .. MaxSpeed : TimePasses(simulated)
          \/ \E time \in WallTimes : ClockIsSet(time)
          \/ \E next \in Poses : SimulationReset(next)
          \/ \E m \in Exported : WorldChanges(m)

LEMMA TimeGoesOn ==
    ASSUME BridgeGood, Around
    PROVE  /\ BridgeGood'
           /\ \A x : IsMoment(x) /\ Older(x, Now) => Older(x, Now')
<1>. USE BridgeAssumption, MomentNow, MomentNext
<1>1. /\ elapsed \in Nat /\ wall \in Nat \ {0} /\ simTime \in Nat /\ run \in Nat
      /\ run \in Poses /\ setBack \in Nat /\ world \subseteq Exported
      /\ since \in [Models -> Nat] /\ \A m \in Models : since[m] <= elapsed
  BY DEF BridgeGood, IsMoment
<1>2. ASSUME NEW simulated \in 0 .. MaxSpeed, TimePasses(simulated)
      PROVE  /\ BridgeGood'
             /\ \A x : IsMoment(x) /\ Older(x, Now) => Older(x, Now')
  <2>1. /\ elapsed' = elapsed + 1 /\ wall' = wall + 1 /\ simTime' = simTime + simulated
        /\ UNCHANGED <<run, world, setBack, since>> /\ simulated \in Nat
    BY <1>2 DEF TimePasses
  <2>2. BridgeGood'
    BY <1>1, <2>1 DEF BridgeGood, IsMoment
  <2>3. ASSUME NEW x, IsMoment(x), Older(x, Now)
        PROVE  Older(x, Now')
    <3>1. /\ x.at \in Nat /\ x.at <= elapsed /\ x.run \in Nat
          /\ x.run < run => simTime <= MaxSpeed * (elapsed - x.at)
      BY <2>3 DEF IsMoment, Older
    <3>2. MaxSpeed * ((elapsed + 1) - x.at) = MaxSpeed * (elapsed - x.at) + MaxSpeed
      BY <1>1, <3>1, Z3
    <3>3. MaxSpeed * (elapsed - x.at) \in Int
      BY <1>1, <3>1
    <3>4. x.run < run => simTime + simulated <= MaxSpeed * ((elapsed + 1) - x.at)
      <4>. DEFINE d == MaxSpeed * (elapsed - x.at)
                  e == MaxSpeed * ((elapsed + 1) - x.at)
      <4>. HIDE DEF d, e
      <4>1. e = d + MaxSpeed /\ d \in Int /\ (x.run < run => simTime <= d)
        BY <3>1, <3>2, <3>3 DEF d, e
      <4>2. x.run < run => simTime + simulated <= e
        BY <1>1, <2>1, <4>1
      <4>. QED  BY <4>2 DEF e
    <3>5. Drift(x) <= Drift(Now')
      BY <1>1, <2>1, <2>3 DEF Older, Drift, IsMoment
    <3>. QED  BY <1>1, <2>1, <2>3, <3>1, <3>4, <3>5 DEF Older, IsMoment
  <2>. QED  BY <2>2, <2>3
<1>3. ASSUME NEW time \in WallTimes, ClockIsSet(time)
      PROVE  /\ BridgeGood'
             /\ \A x : IsMoment(x) /\ Older(x, Now) => Older(x, Now')
  <2>1. PICK sb \in Nat : /\ setBack' = sb /\ setBack <= sb
                          /\ wall + setBack <= time + sb
    <3>1. setBack' = IF time < wall THEN setBack + (wall - time) ELSE setBack
      BY <1>3 DEF ClockIsSet
    <3>. QED  BY <1>1, <3>1
  <2>2. /\ wall' = time /\ time \in Nat \ {0}
        /\ UNCHANGED <<elapsed, simTime, run, world, since>>
    BY <1>3 DEF ClockIsSet
  <2>3. BridgeGood'
    BY <1>1, <2>1, <2>2 DEF BridgeGood, IsMoment
  <2>4. ASSUME NEW x, IsMoment(x), Older(x, Now)
        PROVE  Older(x, Now')
    <3>1. Drift(x) <= Drift(Now') /\ x.setBack <= setBack'
      <4>1. /\ Drift(x) \in Int /\ Drift(x) <= (wall - elapsed) + setBack
            /\ x.setBack \in Nat /\ x.setBack <= setBack
        BY <2>4 DEF Older, Drift, IsMoment
      <4>2. Drift(Now') = (time - elapsed) + sb
        BY <2>1, <2>2 DEF Drift
      <4>. QED  BY <1>1, <2>1, <2>2, <4>1, <4>2
    <3>2. /\ Now'.at = Now.at /\ Now'.run = Now.run /\ Now'.world = Now.world
          /\ Now'.since = Now.since /\ Now'.data.sampleTime = Now.data.sampleTime
      BY <2>2
    <3>. QED  BY <2>4, <3>1, <3>2 DEF Older
  <2>. QED  BY <2>3, <2>4
<1>4. ASSUME NEW next \in Poses, SimulationReset(next)
      PROVE  /\ BridgeGood'
             /\ \A x : IsMoment(x) /\ Older(x, Now) => Older(x, Now')
  <2>1. /\ next \in Nat /\ run' = next /\ next > run /\ simTime' = 0
        /\ UNCHANGED <<elapsed, wall, world, setBack, since>>
    BY <1>4 DEF SimulationReset
  <2>2. BridgeGood'
    BY <1>1, <2>1 DEF BridgeGood, IsMoment
  <2>3. ASSUME NEW x, IsMoment(x), Older(x, Now)
        PROVE  Older(x, Now')
    <3>1. elapsed - x.at \in Nat
      BY <1>1, <2>3 DEF Older, IsMoment
    <3>2. 0 <= MaxSpeed * (elapsed - x.at)
      BY <3>1, Z3
    <3>. QED  BY <1>1, <2>1, <2>3, <3>2 DEF Older, Drift, IsMoment
  <2>. QED  BY <2>2, <2>3
<1>5. ASSUME NEW n \in Exported, WorldChanges(n)
      PROVE  /\ BridgeGood'
             /\ \A x : IsMoment(x) /\ Older(x, Now) => Older(x, Now')
  <2>1. /\ n \in Models /\ world' \subseteq Exported
        /\ \A m \in Models \ {n} : m \in world' <=> m \in world
        /\ since' = [since EXCEPT ![n] = elapsed]
        /\ UNCHANGED <<elapsed, wall, simTime, run, setBack>>
    BY <1>1, <1>5 DEF WorldChanges, Exported
  <2>2. BridgeGood'
    BY <1>1, <2>1 DEF BridgeGood, IsMoment
  <2>3. ASSUME NEW x, IsMoment(x), Older(x, Now)
        PROVE  Older(x, Now')
    <3>1. x.at \in Nat /\ x.at <= elapsed /\ x.since \in [Models -> Nat]
      BY <2>3 DEF IsMoment, Older
    <3>2. ASSUME NEW m \in Models
          PROVE  /\ x.since[m] <= since'[m]
                 /\ since'[m] < x.at => (m \in x.world <=> m \in world')
      <4>1. /\ x.since[m] <= since[m]
            /\ since[m] < x.at => (m \in x.world <=> m \in world)
        BY <2>3 DEF Older
      <4>. QED  BY <1>1, <2>1, <3>1, <4>1
    <3>. QED  BY <1>1, <2>1, <2>3, <3>2 DEF Older, Drift
  <2>. QED  BY <2>2, <2>3
<1>. QED  BY <1>2, <1>3, <1>4, <1>5 DEF Around
-----------------------------------------------------------------------------
(* Gazebo's thread.                                                        *)

LEMMA OrdersAreListings ==
    ASSUME NEW S \in SUBSET Models, NEW order \in Orders(S)
    PROVE  /\ order \in [1 .. Cardinality(S) -> S] /\ Cardinality(S) \in Nat
           /\ {order[i] : i \in DOMAIN order} = S
           /\ \A i, j \in DOMAIN order : order[i] = order[j] => i = j
<1>. DEFINE n == Cardinality(S)
<1>1. IsFiniteSet(S) /\ n \in Nat
  BY BridgeAssumption, FS_Subset, FS_CardinalityType
<1>2. /\ order \in [1 .. n -> S]
      /\ \A i, j \in DOMAIN order : order[i] = order[j] => i = j
  BY DEF Orders
<1>3. order \in Injection(1 .. n, S)
  BY <1>2 DEF Injection, IsInjective
<1>4. Cardinality(1 .. n) = n
  <2>. HIDE DEF n
  <2>. QED  BY <1>1, FS_Interval
<1>5. order \in Surjection(1 .. n, S)
  <2>. HIDE DEF n
  <2>1. Cardinality(1 .. n) = Cardinality(S)
    BY <1>4 DEF n
  <2>. QED  BY <1>1, <1>3, <2>1, FS_Injection
<1>6. \A m \in S : \E i \in 1 .. n : order[i] = m
  BY <1>5 DEF Surjection
<1>. HIDE DEF n
<1>7. {order[i] : i \in DOMAIN order} = S
  BY <1>2, <1>6
<1>. QED  BY <1>1, <1>2, <1>7 DEF n

\* What a capture of these models delivers to the server.
LEMMA CapturedData ==
    ASSUME BridgeGood, NEW S \in SUBSET Exported, NEW order \in Orders(S)
    PROVE  LET s == SnapshotOf(order)
           IN /\ s.data \in EverySnapshot /\ NamesIn(s.data) = S
              /\ \A i \in DOMAIN s.data.models : s.data.models[i].pose = s.run
<1>. DEFINE s == SnapshotOf(order)
            entries == [i \in DOMAIN order |-> [name |-> order[i], pose |-> run]]
            Entry == [name : Models, pose : Poses]
<1>1. /\ s.data = [source |-> "simulation_time", sampleTime |-> simTime,
                   captureWall |-> wall, models |-> entries]
      /\ s.run = run
  BY DEF SnapshotOf
<1>2. S \subseteq Models
  BY DEF Exported
<1>3. /\ order \in [1 .. Cardinality(S) -> S] /\ Cardinality(S) \in Nat
      /\ {order[i] : i \in DOMAIN order} = S
      /\ \A i, j \in DOMAIN order : order[i] = order[j] => i = j
  BY <1>2, OrdersAreListings
<1>4. /\ DOMAIN entries = DOMAIN order
      /\ \A i \in DOMAIN order : entries[i].name = order[i] /\ entries[i].pose = run
  OBVIOUS
<1>5. entries \in Seq(Entry)
  <2>1. run \in Poses
    BY DEF BridgeGood
  <2>2. \A i \in 1 .. Cardinality(S) : [name |-> order[i], pose |-> run] \in Entry
    BY <1>2, <1>3, <2>1
  <2>3. entries \in [1 .. Cardinality(S) -> Entry]
    <3>. HIDE DEF Entry
    <3>. QED  BY <1>3, <2>2
  <2>. HIDE DEF entries, Entry
  <2>. QED  BY <1>3, <2>3, SeqDef
<1>. HIDE DEF s, entries
<1>6. s.data \in EverySnapshot
  <2>1. "simulation_time" \in Sources /\ simTime \in Int /\ wall \in Int
    BY MomentNow DEF Sources, BridgeGood, IsMoment
  <2>. QED  BY <1>1, <1>3, <1>4, <1>5, <2>1 DEF EverySnapshot
<1>7. NamesIn(s.data) = S
  BY <1>1, <1>3, <1>4 DEF NamesIn
<1>8. \A i \in DOMAIN s.data.models : s.data.models[i].pose = s.run
  BY <1>1, <1>4
<1>. QED  BY <1>6, <1>7, <1>8 DEF s

\* After refreshTrackedModels() the handles are those of the world, but for
\* what has changed within a scan interval.
LEMMA RefreshedHandles ==
    ASSUME BridgeGood, RefreshGood, Refresh, UNCHANGED externalVars
    PROVE  /\ RefreshGood'
           /\ \A m \in Models : since[m] + ScanInterval + setBack <= elapsed
                                    => (m \in handles' <=> m \in world)
<1>1. /\ elapsed \in Nat /\ wall \in Nat \ {0} /\ setBack \in Nat
      /\ world \subseteq Exported /\ since \in [Models -> Nat]
      /\ Drift(Now) = (wall - elapsed) + setBack /\ ScanInterval \in Nat
  BY MomentNow, ConfigAssumption DEF BridgeGood, IsMoment, Drift
<1>2. UNCHANGED <<elapsed, wall, setBack, world, since>> /\ Drift(Now') = Drift(Now)
  BY MomentNow, MomentNext DEF externalVars, Drift
<1>3. CASE RefreshIsDue
  <2>1. handles' = world /\ lastRefresh' = wall
    BY <1>3 DEF Refresh
  <2>2. /\ elapsed \in 0 .. elapsed /\ setBack \in 0 .. setBack
        /\ (wall - elapsed) + setBack <= Drift(Now)
    BY <1>1
  <2>. QED  BY <1>1, <1>2, <2>1, <2>2 DEF RefreshGood
<1>4. CASE ~RefreshIsDue
  <2>1. /\ handles' = handles /\ lastRefresh' = lastRefresh
        /\ lastRefresh # 0 /\ ~(wall - lastRefresh >= ScanInterval)
    BY <1>4 DEF Refresh, RefreshIsDue
  <2>2. PICK at \in 0 .. elapsed, sb \in 0 .. setBack :
            /\ (lastRefresh - at) + sb <= Drift(Now)
            /\ \A m \in Models : since[m] < at => (m \in handles <=> m \in world)
    BY <2>1 DEF RefreshGood
  <2>3. elapsed < at + ScanInterval + setBack
    BY <1>1, <2>1, <2>2 DEF RefreshGood
  <2>4. ASSUME NEW m \in Models, since[m] + ScanInterval + setBack <= elapsed
        PROVE  since[m] < at
    BY <1>1, <2>2, <2>3, <2>4
  <2>5. RefreshGood'
    BY <1>2, <2>1 DEF RefreshGood
  <2>. QED  BY <2>1, <2>2, <2>4, <2>5
<1>. QED  BY <1>3, <1>4

LEMMA RefreshKeepsInv ==
    ASSUME BridgeInv, Refresh,
           UNCHANGED <<vars, externalVars, mailbox, processed>>
    PROVE  BridgeInv'
<1>. USE DEF vars, serverVars, externalVars
<1>1. RefreshGood'
  BY RefreshedHandles DEF BridgeInv
<1>2. Now' = Now
  BY DEF Now, SnapshotOf
<1>3. BridgeGood' /\ HandOverGood'
  BY <1>2 DEF BridgeInv, BridgeGood, HandOverGood
<1>4. ServerGood'
  BY DEF BridgeInv, ServerGood, ScanGood, RegisteredWithinTwoScans
<1>5. IInv'
  <2>1. [Next]_vars
    OBVIOUS
  <2>. QED  BY <2>1, NextIInv DEF BridgeInv
<1>. QED  BY <1>1, <1>3, <1>4, <1>5 DEF BridgeInv

LEMMA CaptureKeepsInv ==
    ASSUME BridgeInv, Capture
    PROVE  BridgeInv'
<1>. USE DEF vars, serverVars, externalVars
<1>1. /\ Refresh /\ UNCHANGED <<vars, externalVars, worker, processed>>
      /\ \E order \in Orders(handles') : mailbox' = SnapshotOf(order)
  BY DEF Capture
<1>2. PICK order \in Orders(handles') : mailbox' = SnapshotOf(order)
  BY <1>1
<1>3. /\ RefreshGood' /\ handles' \subseteq Exported
      /\ \A m \in Models : since[m] + ScanInterval + setBack <= elapsed
                               => (m \in handles' <=> m \in world)
  BY <1>1, RefreshedHandles DEF BridgeInv, RefreshGood
<1>4. Now' = Now
  BY <1>1 DEF Now, SnapshotOf
<1>5. GoodSnapshot(mailbox')
  <2>1. /\ mailbox'.data \in EverySnapshot /\ NamesIn(mailbox'.data) = handles'
        /\ \A i \in DOMAIN mailbox'.data.models :
               mailbox'.data.models[i].pose = mailbox'.run
    BY <1>2, <1>3, CapturedData DEF BridgeInv
  <2>2. IsMoment(mailbox')
    BY <1>2, CapturedNow DEF BridgeInv, BridgeGood
  <2>3. /\ mailbox'.since = since /\ mailbox'.at = elapsed /\ mailbox'.setBack = setBack
        /\ mailbox'.world = world
    BY <1>2, MomentOf
  <2>. QED  BY <1>3, <2>1, <2>2, <2>3 DEF GoodSnapshot
<1>6. HandOverGood'
  <2>1. Older(mailbox', Now') /\ \A x : Older(x, Now) => Older(x, mailbox')
    BY <1>2, <1>4, CapturedNow DEF BridgeInv, BridgeGood
  <2>2. processed' = processed
    BY <1>1
  <2>. QED  BY <1>4, <1>5, <2>1, <2>2 DEF BridgeInv, HandOverGood
<1>7. BridgeGood'
  BY <1>1, <1>4 DEF BridgeInv, BridgeGood
<1>8. ServerGood'
  BY <1>1 DEF BridgeInv, ServerGood, ScanGood, RegisteredWithinTwoScans
<1>9. IInv'
  <2>1. [Next]_vars
    BY <1>1
  <2>. QED  BY <2>1, NextIInv DEF BridgeInv
<1>. QED  BY <1>3, <1>6, <1>7, <1>8, <1>9 DEF BridgeInv

LEMMA AroundKeepsInv ==
    ASSUME BridgeInv, Around
    PROVE  BridgeInv'
<1>1. UNCHANGED <<vars, pluginVars>> \/ UNCHANGED <<vars, handles, lastRefresh>>
  BY DEF Around, TimePasses, ClockIsSet, SimulationReset, WorldChanges, pluginVars
<1>2. UNCHANGED <<tracked, trackerNames, seenSnapshot, lastSampleTime, lastScan,
                  handles, lastRefresh, mailbox, processed>>
  BY <1>1 DEF Around, TimePasses, ClockIsSet, SimulationReset, WorldChanges, pluginVars,
              vars, serverVars
<1>3. BridgeGood' /\ \A x : IsMoment(x) /\ Older(x, Now) => Older(x, Now')
  BY TimeGoesOn DEF BridgeInv
<1>4. HandOverGood'
  BY <1>2, <1>3 DEF BridgeInv, HandOverGood, GoodSnapshot
<1>5. ServerGood'
  BY <1>2 DEF BridgeInv, ServerGood, ScanGood, RegisteredWithinTwoScans
<1>6. IInv'
  <2>1. [Next]_vars
    BY <1>1
  <2>. QED  BY <2>1, NextIInv DEF BridgeInv
<1>7. RefreshGood'
  <2>1. CASE lastRefresh = 0
    BY <1>2, <2>1 DEF BridgeInv, RefreshGood
  <2>2. CASE lastRefresh # 0
    <3>1. PICK at \in 0 .. elapsed, sb \in 0 .. setBack :
              /\ (lastRefresh - at) + sb <= Drift(Now)
              /\ \A m \in Models : since[m] < at => (m \in handles <=> m \in world)
      BY <2>2 DEF BridgeInv, RefreshGood
    <3>2. IsMoment(Now) /\ Older(Now, Now)
      BY MomentNow DEF BridgeInv, BridgeGood, Older, IsMoment, Drift
    <3>3. IsMoment(Now') /\ Older(Now, Now')
      BY <1>3, <3>2 DEF BridgeGood
    <3>4. /\ elapsed \in Nat /\ elapsed' \in Nat /\ elapsed <= elapsed'
          /\ setBack \in Nat /\ setBack' \in Nat /\ setBack <= setBack'
          /\ Drift(Now) \in Int /\ Drift(Now') \in Int /\ Drift(Now) <= Drift(Now')
          /\ since \in [Models -> Nat] /\ since' \in [Models -> Nat]
          /\ \A m \in Models : /\ since[m] <= since'[m]
                               /\ since'[m] < elapsed => (m \in world <=> m \in world')
      BY <3>2, <3>3, MomentNow, MomentNext DEF IsMoment, Older, Drift
    <3>5. at \in 0 .. elapsed' /\ sb \in 0 .. setBack'
      BY <3>4
    <3>6. (lastRefresh' - at) + sb <= Drift(Now')
      <4>1. lastRefresh' = lastRefresh /\ lastRefresh \in Nat
        BY <1>2 DEF BridgeInv, RefreshGood
      <4>. QED  BY <3>1, <3>4, <4>1
    <3>7. ASSUME NEW m \in Models, since'[m] < at
          PROVE  m \in handles' <=> m \in world'
      <4>1. /\ since[m] <= since'[m] /\ since[m] \in Nat /\ since'[m] \in Nat
            /\ since'[m] < elapsed => (m \in world <=> m \in world')
        BY <3>4
      <4>2. since[m] < at /\ since'[m] < elapsed
        BY <3>4, <3>7, <4>1
      <4>. QED  BY <1>2, <3>1, <4>1, <4>2
    <3>. QED  BY <1>2, <3>5, <3>6, <3>7 DEF BridgeInv, RefreshGood
  <2>. QED  BY <2>1, <2>2
<1>. QED  BY <1>3, <1>4, <1>5, <1>6, <1>7 DEF BridgeInv
-----------------------------------------------------------------------------
(* The worker.                                                             *)

\* A scan leaves no tracker name of the snapshot unregistered.
LEMMA ScanRegisters ==
    ASSUME IInv, NEW snap \in Snapshots, ProcessSnapshot(snap), ShouldScan(snap),
           NEW m \in NamesIn(snap), TrackerNameFor[m] # NoTracker
    PROVE  TrackerNameFor[m] \in DOMAIN trackerNames'
<1>. DEFINE t == TrackerNameFor[m]
            name(k) == snap.models[k].name
            Asking == {k \in DOMAIN snap.models : TrackerNameFor[name(k)] = t}
<1>1. DOMAIN trackerNames' =
          DOMAIN trackerNames \cup {TrackerNameFor[n] : n \in Registered(snap)}
  BY DEF ProcessSnapshot, Newcomers
<1>2. /\ DOMAIN snap.models \subseteq Nat \ {0}
      /\ \A k \in DOMAIN snap.models : \A j \in 1 .. k - 1 : j \in DOMAIN snap.models
  <2>. DEFINE Entry == [name : Models, pose : Poses]
              seq == snap.models
  <2>1. seq \in Seq(Entry)
    BY SnapshotsAssumption
  <2>. HIDE DEF Entry, seq
  <2>2. DOMAIN seq = 1 .. Len(seq) /\ Len(seq) \in Nat
    BY <2>1
  <2>. QED  BY <2>2 DEF seq
<1>3. CASE t \in DOMAIN trackerNames
  BY <1>1, <1>3
<1>4. CASE t \notin DOMAIN trackerNames
  <2>1. Asking \in SUBSET Nat /\ Asking # {}
    BY <1>2 DEF NamesIn
  <2>2. PICK k \in Asking : \A j \in Asking : k <= j
    <3>. HIDE DEF Asking
    <3>. QED  BY <2>1, LeastNatural
  <2>3. k \in DOMAIN snap.models /\ TrackerNameFor[name(k)] = t /\ k \in Nat
    BY <1>2, <2>2
  <2>4. \A j \in 1 .. k - 1 : TrackerNameFor[name(j)] # t
    <3>1. ASSUME NEW j \in 1 .. k - 1, TrackerNameFor[name(j)] = t
          PROVE  FALSE
      <4>1. j \in Asking
        BY <1>2, <2>3, <3>1
      <4>. HIDE DEF Asking
      <4>. QED  BY <2>2, <2>3, <4>1
    <3>. QED  BY <3>1
  <2>5. name(k) \notin DOMAIN tracked
    <3>1. ASSUME name(k) \in DOMAIN tracked
          PROVE  t \in DOMAIN trackerNames
      BY <2>3, <3>1 DEF IInv, ModelsGood, GoodModel, NamesGood, TrackerNamesUnique
    <3>. QED  BY <1>4, <3>1
  <2>6. name(k) \in Registered(snap)
    BY <1>4, <2>3, <2>4, <2>5 DEF Registered
  <2>. QED  BY <1>1, <2>3, <2>6
<1>. QED  BY <1>3, <1>4

\* What was registered by a scan of an older snapshot, as the newer one sees it.
LEMMA OlderScanCovers ==
    ASSUME GoodSnapshot(processed), NEW s, GoodSnapshot(s), Older(processed, s),
           ScanGood, lastScan \in Int, lastScan # 0,
           ~(s.data.captureWall - lastScan >= ScanInterval)
    PROVE  \E at \in 0 .. s.at, sb \in 0 .. s.setBack :
              /\ (lastScan - at) + sb <= Drift(s)
              /\ \A m \in s.world :
                     /\ s.since[m] + ScanInterval + sb < at
                            => TrackerNameFor[m] \in DOMAIN trackerNames
                     /\ s.at - s.since[m] >= 2 * ScanInterval + s.setBack
                            => s.since[m] + ScanInterval + sb < at
<1>1. PICK at \in 0 .. processed.at, sb \in 0 .. processed.setBack :
          /\ (lastScan - at) + sb <= Drift(processed)
          /\ \A m \in processed.world :
                 processed.since[m] + ScanInterval + sb < at
                     => TrackerNameFor[m] \in DOMAIN trackerNames
  BY DEF ScanGood
<1>2. /\ processed.at \in Nat /\ processed.setBack \in Nat /\ s.at \in Nat /\ s.setBack \in Nat
      /\ processed.at <= s.at /\ processed.setBack <= s.setBack
      /\ Drift(processed) \in Int /\ Drift(s) \in Int /\ Drift(processed) <= Drift(s)
      /\ Drift(s) = (s.data.captureWall - s.at) + s.setBack /\ s.data.captureWall \in Int
      /\ ScanInterval \in Nat /\ at \in Nat /\ sb \in Nat
  BY ConfigAssumption DEF GoodSnapshot, IsMoment, Older, Drift
<1>3. at \in 0 .. s.at /\ sb \in 0 .. s.setBack /\ (lastScan - at) + sb <= Drift(s)
  BY <1>1, <1>2
<1>4. s.at - at < ScanInterval + (s.setBack - sb)
  BY <1>2, <1>3
<1>5. ASSUME NEW m \in s.world
      PROVE  /\ s.since[m] + ScanInterval + sb < at
                    => TrackerNameFor[m] \in DOMAIN trackerNames
             /\ s.at - s.since[m] >= 2 * ScanInterval + s.setBack
                    => s.since[m] + ScanInterval + sb < at
  <2>1. /\ m \in Models /\ s.since[m] \in Nat /\ processed.since[m] \in Nat
        /\ processed.since[m] <= s.since[m]
        /\ s.since[m] < processed.at => m \in processed.world
    BY <1>5 DEF GoodSnapshot, IsMoment, Exported, Older
  <2>2. s.at - s.since[m] >= 2 * ScanInterval + s.setBack
            => s.since[m] + ScanInterval + sb < at
    BY <1>2, <1>4, <2>1
  <2>3. ASSUME s.since[m] + ScanInterval + sb < at
        PROVE  TrackerNameFor[m] \in DOMAIN trackerNames
    <3>1. m \in processed.world /\ processed.since[m] + ScanInterval + sb < at
      BY <1>1, <1>2, <2>1, <2>3
    <3>. QED  BY <1>1, <3>1
  <2>. QED  BY <2>2, <2>3
<1>. QED  BY <1>3, <1>5

LEMMA ProcessedServer ==
    ASSUME AnyAdapter, BridgeInv, NEW s, s = mailbox, mailbox # NoSnapshot,
           processed' = s, ProcessSnapshot(s.data)
    PROVE  ServerGood'
<1>1. /\ GoodSnapshot(s) /\ s.data \in Snapshots /\ IInv /\ s # NoSnapshot
      /\ processed # NoSnapshot => GoodSnapshot(processed) /\ Older(processed, s)
  BY DEF BridgeInv, HandOverGood, GoodSnapshot, AnyAdapter
<1>2. /\ s.at \in Nat /\ s.setBack \in Nat /\ s.since \in [Models -> Nat]
      /\ s.data.captureWall \in Int /\ s.world \subseteq Exported
      /\ Exported \subseteq Models /\ ScanInterval \in Nat
  BY <1>1, ConfigAssumption DEF GoodSnapshot, IsMoment, Exported
<1>3. seenSnapshot' /\ lastSampleTime' = s.data.sampleTime
  BY DEF ProcessSnapshot
<1>4. ASSUME NEW m \in DOMAIN tracked', tracked'[m].havePose
      PROVE  m \in NamesIn(s.data)
  <2>1. tracked'[m] = AfterSnapshot(s.data, m)
    BY <1>4 DEF ProcessSnapshot
  <2>2. m \notin NamesIn(s.data) => AfterSnapshot(s.data, m).havePose = FALSE
    BY DEF AfterSnapshot
  <2>. QED  BY <1>4, <2>1, <2>2
<1>5. DOMAIN trackerNames \subseteq DOMAIN trackerNames'
  BY DEF ProcessSnapshot
<1>6. CASE ShouldScan(s.data)
  <2>1. ASSUME NEW m \in s.world, s.since[m] + ScanInterval + s.setBack <= s.at
        PROVE  TrackerNameFor[m] \in DOMAIN trackerNames'
    <3>1. m \in NamesIn(s.data) /\ TrackerNameFor[m] # NoTracker
      BY <1>1, <1>2, <2>1 DEF GoodSnapshot, Exported
    <3>. QED  BY <1>1, <1>6, <3>1, ScanRegisters
  <2>2. lastScan' = s.data.captureWall
    BY <1>6 DEF ProcessSnapshot
  <2>3. ScanGood'
    <3>1. /\ s.at \in 0 .. s.at /\ s.setBack \in 0 .. s.setBack
          /\ (lastScan' - s.at) + s.setBack <= Drift(s)
      BY <1>2, <2>2 DEF Drift
    <3>2. ASSUME NEW m \in s.world, s.since[m] + ScanInterval + s.setBack < s.at
          PROVE  TrackerNameFor[m] \in DOMAIN trackerNames'
      <4>1. s.since[m] + ScanInterval + s.setBack <= s.at
        BY <1>2, <3>2
      <4>. QED  BY <2>1, <4>1
    <3>. QED  BY <1>1, <3>1, <3>2 DEF ScanGood
  <2>4. ASSUME NEW m \in s.world, s.at - s.since[m] >= 2 * ScanInterval + s.setBack
        PROVE  TrackerNameFor[m] \in DOMAIN trackerNames'
    <3>1. s.since[m] + ScanInterval + s.setBack <= s.at
      BY <1>2, <2>4
    <3>. QED  BY <2>1, <3>1
  <2>. QED  BY <1>1, <1>3, <1>4, <2>3, <2>4 DEF ServerGood, RegisteredWithinTwoScans
<1>7. CASE ~ShouldScan(s.data)
  <2>1. /\ lastScan # 0 /\ lastScan' = lastScan /\ lastScan \in Int
        /\ ~(s.data.captureWall - lastScan >= ScanInterval)
    BY <1>1, <1>7 DEF ShouldScan, ProcessSnapshot, IInv, SourceAndTimes
  <2>2. ScanGood /\ processed # NoSnapshot
    BY <2>1 DEF BridgeInv, ServerGood, ScanGood
  <2>3. PICK at \in 0 .. s.at, sb \in 0 .. s.setBack :
           /\ (lastScan - at) + sb <= Drift(s)
           /\ \A m \in s.world :
                  /\ s.since[m] + ScanInterval + sb < at
                         => TrackerNameFor[m] \in DOMAIN trackerNames
                  /\ s.at - s.since[m] >= 2 * ScanInterval + s.setBack
                         => s.since[m] + ScanInterval + sb < at
    BY <1>1, <2>1, <2>2, OlderScanCovers
  <2>4. ScanGood'
    BY <1>1, <1>5, <2>1, <2>3 DEF ScanGood
  <2>5. RegisteredWithinTwoScans'
    BY <1>5, <2>3 DEF RegisteredWithinTwoScans
  <2>. QED  BY <1>3, <1>4, <2>4, <2>5 DEF ServerGood
<1>. QED  BY <1>6, <1>7

LEMMA ProcessKeepsInv ==
    ASSUME AnyAdapter, BridgeInv, TakeAndProcess
    PROVE  BridgeInv' /\ [Next]_vars
<1>. USE DEF externalVars, pluginVars
<1>1. Now' = Now /\ BridgeGood' /\ RefreshGood'
  <2>1. Now' = Now
    BY DEF TakeAndProcess, Now, SnapshotOf
  <2>. QED  BY <2>1 DEF TakeAndProcess, BridgeInv, BridgeGood, RefreshGood
<1>2. CASE mailbox # NoSnapshot
  <2>1. processed' = mailbox /\ mailbox' = NoSnapshot /\ ProcessSnapshot(mailbox.data)
    BY <1>2 DEF TakeAndProcess
  <2>2. HandOverGood'
    BY <1>1, <1>2, <2>1 DEF BridgeInv, HandOverGood
  <2>3. ServerGood'
    BY <1>2, <2>1, ProcessedServer
  <2>4. Next
    BY <1>2, <2>1 DEF Next, BridgeInv, HandOverGood, GoodSnapshot, AnyAdapter
  <2>5. IInv'
    BY <2>4, NextIInv DEF BridgeInv
  <2>. QED  BY <1>1, <2>2, <2>3, <2>4, <2>5 DEF BridgeInv
<1>3. CASE mailbox = NoSnapshot
  <2>1. UNCHANGED <<vars, processed>> /\ mailbox' = NoSnapshot
    BY <1>3 DEF TakeAndProcess
  <2>2. HandOverGood'
    BY <1>1, <2>1 DEF BridgeInv, HandOverGood
  <2>3. ServerGood'
    BY <2>1 DEF BridgeInv, ServerGood, ScanGood, RegisteredWithinTwoScans, vars, serverVars
  <2>4. IInv'
    BY <2>1, NextIInv DEF BridgeInv
  <2>. QED  BY <1>1, <2>1, <2>2, <2>3, <2>4 DEF BridgeInv
<1>. QED  BY <1>2, <1>3

LEMMA PublishKeepsInv ==
    ASSUME AnyAdapter, BridgeInv, NEW delay \in Delays, PublishCycle(delay)
    PROVE  BridgeInv' /\ Next
<1>. USE DEF externalVars, pluginVars
<1>1. /\ Publish(wall, delay) /\ wall \in Int
      /\ UNCHANGED <<externalVars, pluginVars, mailbox, processed>>
  BY DEF PublishCycle, BridgeInv, BridgeGood
<1>2. Next
  BY <1>1 DEF Next, AnyAdapter
<1>3. IInv'
  BY <1>2, NextIInv DEF BridgeInv
<1>4. UNCHANGED <<tracked, trackerNames, seenSnapshot, lastSampleTime, lastScan>>
  BY <1>1 DEF Publish
<1>5. Now' = Now
  BY <1>1 DEF Now, SnapshotOf
<1>6. BridgeGood' /\ RefreshGood' /\ HandOverGood'
  BY <1>1, <1>5 DEF BridgeInv, BridgeGood, RefreshGood, HandOverGood
<1>7. ServerGood'
  BY <1>1, <1>4 DEF BridgeInv, ServerGood, ScanGood, RegisteredWithinTwoScans
<1>. QED  BY <1>2, <1>3, <1>6, <1>7 DEF BridgeInv
-----------------------------------------------------------------------------
(* The invariant.                                                          *)

LEMMA BridgeStarts == BridgeInit => BridgeInv
<1>. SUFFICES ASSUME BridgeInit
              PROVE  BridgeInv
  OBVIOUS
<1>1. IInv
  BY InitIInv DEF BridgeInit
<1>2. mailbox = NoSnapshot /\ processed = NoSnapshot /\ lastScan = 0
  BY DEF BridgeInit, Init
<1>3. HandOverGood /\ ServerGood
  BY <1>2 DEF HandOverGood, ServerGood, ScanGood, RegisteredWithinTwoScans
<1>4. RefreshGood
  BY DEF BridgeInit, RefreshGood
<1>5. BridgeGood
  BY MomentNow, BridgeAssumption DEF BridgeInit, BridgeGood, IsMoment
<1>. QED  BY <1>1, <1>3, <1>4, <1>5 DEF BridgeInv

\* Every step keeps the invariant, and is one of the server's or leaves it alone.
LEMMA BridgeStep == AnyAdapter /\ BridgeInv /\ [BridgeNext]_allVars => BridgeInv' /\ [Next]_vars
<1>. SUFFICES ASSUME AnyAdapter, BridgeInv, [BridgeNext]_allVars
              PROVE  BridgeInv' /\ [Next]_vars
  OBVIOUS
<1>1. CASE Around
  <2>1. UNCHANGED vars
    BY <1>1 DEF Around, TimePasses, ClockIsSet, SimulationReset, WorldChanges
  <2>. QED  BY <1>1, <2>1, AroundKeepsInv
<1>2. CASE Capture
  BY <1>2, CaptureKeepsInv DEF Capture
<1>3. CASE CaptureFails
  <2>1. UNCHANGED <<vars, externalVars, mailbox, processed>>
    BY <1>3 DEF CaptureFails
  <2>2. CASE Refresh
    BY <2>1, <2>2, RefreshKeepsInv
  <2>3. CASE UNCHANGED <<handles, lastRefresh>>
    <3>1. Now' = Now
      BY <2>1 DEF Now, SnapshotOf, externalVars
    <3>2. BridgeGood' /\ RefreshGood' /\ HandOverGood'
      BY <2>1, <2>3, <3>1 DEF externalVars, BridgeInv, BridgeGood, RefreshGood, HandOverGood
    <3>3. ServerGood'
      BY <2>1 DEF BridgeInv, ServerGood, ScanGood, RegisteredWithinTwoScans, vars, serverVars
    <3>4. IInv'
      BY <2>1, NextIInv DEF BridgeInv
    <3>. QED  BY <2>1, <3>2, <3>3, <3>4 DEF BridgeInv
  <2>. QED  BY <1>3, <2>1, <2>2, <2>3 DEF CaptureFails
<1>4. CASE TakeAndProcess
  BY <1>4, ProcessKeepsInv
<1>5. ASSUME NEW delay \in Delays, PublishCycle(delay)
      PROVE  BridgeInv' /\ [Next]_vars
  BY <1>5, PublishKeepsInv
<1>6. CASE UNCHANGED allVars
  <2>1. UNCHANGED <<vars, externalVars, handles, lastRefresh, mailbox, processed>>
    BY <1>6 DEF allVars, pluginVars
  <2>2. Now' = Now
    BY <2>1 DEF Now, SnapshotOf, externalVars
  <2>3. BridgeGood' /\ RefreshGood' /\ HandOverGood'
    BY <2>1, <2>2 DEF externalVars, BridgeInv, BridgeGood, RefreshGood, HandOverGood
  <2>4. ServerGood'
    BY <2>1 DEF BridgeInv, ServerGood, ScanGood, RegisteredWithinTwoScans, vars, serverVars
  <2>5. IInv'
    BY <2>1, NextIInv DEF BridgeInv
  <2>. QED  BY <2>1, <2>3, <2>4, <2>5 DEF BridgeInv
<1>. QED  BY <1>1, <1>2, <1>3, <1>4, <1>5, <1>6 DEF BridgeNext, Around

\* BridgeInv holds in every state of the bridge.
THEOREM BridgeInvariant == AnyAdapter => (BridgeSpec => []BridgeInv)
<1>. SUFFICES ASSUME AnyAdapter
              PROVE  BridgeSpec => []BridgeInv
  OBVIOUS
<1>1. BridgeInv /\ [BridgeNext]_allVars => BridgeInv'
  BY BridgeStep
<1>. QED  BY <1>1, BridgeStarts, PTL DEF BridgeSpec

\* The plugin drives the server as TrackerServer allows any adapter to: every
\* theorem about TrackerServer is one about the plugin's server.
THEOREM PluginDrivesServer == AnyAdapter => (BridgeSpec => Spec)
<1>. SUFFICES ASSUME AnyAdapter
              PROVE  BridgeSpec => Spec
  OBVIOUS
<1>1. BridgeInit => Init
  BY DEF BridgeInit
<1>2. BridgeInv /\ [BridgeNext]_allVars => [Next]_vars
  BY BridgeStep
<1>. QED  BY <1>1, <1>2, BridgeInvariant, PTL DEF BridgeSpec, Spec
-----------------------------------------------------------------------------
(* The properties.                                                         *)

\* refreshTrackedModels() and scanModels() one after the other serve a new
\* model within two scan intervals, and what the system clock was set back by.
THEOREM ModelsGetTrackers == AnyAdapter => (BridgeSpec => []RegisteredWithinTwoScans)
<1>. SUFFICES ASSUME AnyAdapter
              PROVE  BridgeSpec => []RegisteredWithinTwoScans
  OBVIOUS
<1>1. BridgeInv => RegisteredWithinTwoScans
  BY DEF BridgeInv, ServerGood
<1>. QED  BY <1>1, BridgeInvariant, PTL

\* The next scan of the plugin silences a model that was deleted.
THEOREM DeletedModelsAreSilent == AnyAdapter => (BridgeSpec => []DeletedModelsFallSilent)
<1>. SUFFICES ASSUME AnyAdapter
              PROVE  BridgeSpec => []DeletedModelsFallSilent
  OBVIOUS
<1>1. BridgeInv => DeletedModelsFallSilent
  <2>. SUFFICES ASSUME BridgeInv, processed # NoSnapshot,
                       NEW m \in DOMAIN tracked \ processed.world,
                       processed.at - processed.since[m] >= ScanInterval + processed.setBack
                PROVE  tracked[m].tracker \notin Reportable
    BY DEF DeletedModelsFallSilent
  <2>1. /\ GoodSnapshot(processed) /\ m \in Models
        /\ processed.at \in Nat /\ processed.setBack \in Nat
        /\ processed.since[m] \in Nat /\ ScanInterval \in Nat
    BY ConfigAssumption DEF BridgeInv, HandOverGood, GoodSnapshot, IsMoment, IInv, ModelsGood
  <2>2. processed.since[m] + ScanInterval + processed.setBack <= processed.at
    BY <2>1
  <2>3. m \notin NamesIn(processed.data)
    BY <2>1, <2>2 DEF GoodSnapshot
  <2>4. ~tracked[m].havePose
    BY <2>3 DEF BridgeInv, ServerGood
  <2>5. trackerNames[tracked[m].tracker] = m
    BY DEF BridgeInv, IInv, NamesGood, TrackerNamesUnique
  <2>. QED  BY <2>4, <2>5 DEF Reportable
<1>. QED  BY <1>1, BridgeInvariant, PTL

\* processSnapshot() sees a reset of the simulation in the sample times alone,
\* and misses it only where the new run has overtaken the old one.
THEOREM ResetsAreSeen == AnyAdapter => (BridgeSpec => ResetsAreNoticed)
<1>. SUFFICES ASSUME AnyAdapter
              PROVE  BridgeSpec => ResetsAreNoticed
  OBVIOUS
<1>. DEFINE Seen ==
        processed' # processed /\ processed # NoSnapshot =>
            \/ processed'.run = processed.run
            \/ processed.data.sampleTime <= MaxSpeed * (processed'.at - processed.at)
            \/ \A m \in DOMAIN tracked' : \A s \in Held(tracked'[m].history) :
                   Origins(s) \subseteq {processed'.run}
<1>1. ASSUME BridgeInv, BridgeInv', SamplesOfThisTimeline', [BridgeNext]_allVars
      PROVE  Seen
  <2>. SUFFICES ASSUME processed' # processed, processed # NoSnapshot,
                       processed'.run # processed.run,
                       ~(processed.data.sampleTime <= MaxSpeed * (processed'.at - processed.at)),
                       NEW m \in DOMAIN tracked', NEW s \in Held(tracked'[m].history)
                PROVE  Origins(s) \subseteq {processed'.run}
    OBVIOUS
  <2>1. TakeAndProcess /\ mailbox # NoSnapshot
    BY <1>1 DEF BridgeNext, TimePasses, ClockIsSet, SimulationReset, WorldChanges, Capture,
                CaptureFails, TakeAndProcess, PublishCycle, allVars
  <2>2. processed' = mailbox /\ ProcessSnapshot(mailbox.data)
    BY <2>1 DEF TakeAndProcess
  <2>3. /\ GoodSnapshot(processed) /\ GoodSnapshot(mailbox) /\ Older(processed, mailbox)
        /\ seenSnapshot /\ lastSampleTime = processed.data.sampleTime
    BY <1>1, <2>1 DEF BridgeInv, HandOverGood, ServerGood
  <2>4. mailbox.data.sampleTime < lastSampleTime
    <3>. DEFINE d == MaxSpeed * (mailbox.at - processed.at)
    <3>1. /\ processed.run \in Nat /\ mailbox.run \in Nat
          /\ processed.data.sampleTime \in Nat /\ mailbox.data.sampleTime \in Nat
          /\ processed.run <= mailbox.run
          /\ processed.run < mailbox.run => mailbox.data.sampleTime <= d
      BY <2>3 DEF GoodSnapshot, IsMoment, Older
    <3>2. d \in Int
      BY <2>3, BridgeAssumption DEF GoodSnapshot, IsMoment
    <3>3. ~(processed.data.sampleTime <= d) /\ mailbox.run # processed.run
      BY <2>2
    <3>. HIDE DEF d
    <3>. QED  BY <2>3, <3>1, <3>2, <3>3
  <2>5. EndsTimeline(mailbox.data)
    BY <2>3, <2>4 DEF EndsTimeline
  <2>6. m \in Models /\ Origins(s) \subseteq delivered'[m]
    BY <1>1 DEF SamplesOfThisTimeline, BridgeInv, IInv, ModelsGood
  <2>7. delivered'[m] \subseteq {mailbox.run}
    <3>1. delivered'[m] = {p \in Poses : \E i \in DOMAIN mailbox.data.models :
                               mailbox.data.models[i] = [name |-> m, pose |-> p]}
      BY <2>2, <2>5, <2>6 DEF ProcessSnapshot, RecordTimeline
    <3>2. \A i \in DOMAIN mailbox.data.models : mailbox.data.models[i].pose = mailbox.run
      BY <2>3 DEF GoodSnapshot
    <3>3. ASSUME NEW p \in Poses, NEW i \in DOMAIN mailbox.data.models,
                 mailbox.data.models[i] = [name |-> m, pose |-> p]
          PROVE  p = mailbox.run
      BY <3>2, <3>3
    <3>. QED  BY <3>1, <3>3
  <2>. QED  BY <2>2, <2>6, <2>7
<1>. HIDE DEF Seen
<1>2. BridgeInv /\ BridgeInv' /\ SamplesOfThisTimeline' /\ [BridgeNext]_allVars
          => [Seen]_allVars
  BY <1>1
<1>3. BridgeSpec => []SamplesOfThisTimeline
  BY PluginDrivesServer, NothingOutlivesItsTimeline, PTL
<1>4. BridgeSpec => [][Seen]_allVars
  BY <1>2, <1>3, BridgeInvariant, PTL DEF BridgeSpec
<1>. QED  BY <1>4 DEF Seen, ResetsAreNoticed
-----------------------------------------------------------------------------
(* The reach of the histories.  Captures are at least a tick of the steady *)
(* clock apart, and so, while the system clock has not been set back, are  *)
(* the samples of a history: a full one reaches back over a tick less than *)
(* it has slots.                                                           *)

\* Each sample is a tick older, at least, than the next.
Spaced(h) ==
    \A k \in Offsets(h) : SampleAt(h, k).wall + (h.size - 1 - k) <= Latest(h).wall

\* A ring as new registrations get it, spaced, and no younger than `last`.
Reaches(r, last) ==
    /\ r.history.cap = HistoryCapacity(r.tracker)
    /\ Spaced(r.history)
    /\ ~IsEmpty(r.history) => Latest(r.history).wall <= last

\* Nothing else can be captured in the tick of s.
CapturedBefore(s) == s.at < elapsed \/ (s.at = elapsed /\ ~captureDue)

CapturesPaced ==
    /\ mailbox # NoSnapshot => CapturedBefore(mailbox)
    /\ processed # NoSnapshot => CapturedBefore(processed)
    /\ mailbox # NoSnapshot /\ processed # NoSnapshot => processed.at < mailbox.at

HistoriesReach ==
    setBack = 0 => \A m \in DOMAIN tracked :
        processed # NoSnapshot /\ Reaches(tracked[m], processed.data.captureWall)

LEMMA PushSpaced ==
    ASSUME NEW S, \A s \in S : s.wall \in Int, NEW h, WellFilled(h, S), NEW sample \in S,
           Spaced(h), ~IsEmpty(h) => Latest(h).wall + 1 <= sample.wall
    PROVE  Spaced(Push(h, sample)) /\ Latest(Push(h, sample)) = sample
<1>. DEFINE g == Push(h, sample)
            dropped == IF h.size < h.cap THEN 0 ELSE 1
<1>1. /\ g.size = h.size + 1 - dropped
      /\ \A o \in 0 .. g.size - 2 : /\ o + dropped \in Offsets(h)
                                    /\ SampleAt(g, o) = SampleAt(h, o + dropped)
      /\ SampleAt(g, g.size - 1) = sample
  BY PushShifts
<1>2. /\ h.size \in Nat /\ h.cap \in Nat \ {0} /\ h.size <= h.cap
      /\ Offsets(h) = 0 .. h.size - 1 /\ Offsets(g) = 0 .. g.size - 1
  BY DEF WellFilled, IsHistory, Offsets
<1>3. Latest(g) = sample
  BY PushHeld
<1>4. \A o \in Offsets(h) : SampleAt(h, o).wall \in Int /\ ~IsEmpty(h)
  <2>1. \A o \in Offsets(h) : SampleAt(h, o) \in S
    BY ReadsPushed DEF Held
  <2>2. \A o \in Offsets(h) : ~IsEmpty(h)
    BY <1>2 DEF IsEmpty
  <2>. QED  BY <2>1, <2>2
<1>5. ~IsEmpty(h) => Latest(h).wall \in Int
  <2>1. ~IsEmpty(h) => Latest(h) \in S
    BY ReadsPushed
  <2>. QED  BY <2>1
<1>6. dropped \in 0 .. 1 /\ sample.wall \in Int
  BY <1>2
<1>. HIDE DEF g, dropped
<1>7. ASSUME NEW k \in Offsets(g)
      PROVE  SampleAt(g, k).wall + (g.size - 1 - k) <= sample.wall
  <2>1. CASE k = g.size - 1
    BY <1>1, <1>2, <1>6, <2>1
  <2>2. CASE k # g.size - 1
    <3>1. k \in 0 .. g.size - 2 /\ k \in Nat
      BY <1>1, <1>2, <1>6, <1>7, <2>2
    <3>2. k + dropped \in Offsets(h) /\ SampleAt(g, k) = SampleAt(h, k + dropped)
      BY <1>1, <3>1
    <3>3. /\ SampleAt(h, k + dropped).wall + (h.size - 1 - (k + dropped)) <= Latest(h).wall
          /\ Latest(h).wall + 1 <= sample.wall
          /\ Latest(h).wall \in Int /\ SampleAt(h, k + dropped).wall \in Int
      BY <1>4, <1>5, <3>2 DEF Spaced
    <3>. DEFINE w == SampleAt(h, k + dropped).wall
                l == Latest(h).wall
    <3>4. w \in Int /\ l \in Int /\ w + (h.size - 1 - (k + dropped)) <= l
          /\ l + 1 <= sample.wall
      BY <3>3
    <3>. HIDE DEF w, l
    <3>5. g.size - 1 - k = (h.size - 1 - (k + dropped)) + 1
      <4>. DEFINE n == h.size
      <4>1. n \in Nat /\ g.size = n + 1 - dropped /\ dropped \in 0 .. 1 /\ k \in Nat
        BY <1>1, <1>2, <1>6, <3>1
      <4>. HIDE DEF n
      <4>2. ((n + 1) - dropped) - 1 - k = (n - 1 - (k + dropped)) + 1
        BY <4>1
      <4>. QED  BY <4>1, <4>2 DEF n
    <3>6. (h.size - 1 - (k + dropped)) \in Int /\ sample.wall \in Int
      BY <1>2, <1>6, <3>1
    <3>7. w + (g.size - 1 - k) <= sample.wall
      <4>. DEFINE n == h.size - 1 - (k + dropped)
      <4>1. n \in Int /\ w + n <= l /\ g.size - 1 - k = n + 1
        BY <3>4, <3>5, <3>6
      <4>. HIDE DEF n
      <4>2. w + (n + 1) <= sample.wall
        BY <3>4, <3>6, <4>1
      <4>. QED  BY <4>1, <4>2
    <3>. QED  BY <3>2, <3>7 DEF w
  <2>. QED  BY <2>1, <2>2
<1>. QED  BY <1>3, <1>7 DEF Spaced, g

LEMMA ClearedReaches ==
    ASSUME NEW r, NEW capacity \in Nat \ {0}, r.history = ClearedHistory(capacity),
           capacity = HistoryCapacity(r.tracker), NEW last
    PROVE  Reaches(r, last) /\ IsEmpty(r.history) /\ WellFilled(r.history, SampleSet)
<1>1. /\ r.history.cap = capacity /\ IsEmpty(r.history)
      /\ WellFilled(r.history, SampleSet)
  BY ClearedIsWellFilled
<1>2. Offsets(r.history) = {}
  BY <1>1 DEF IsEmpty, Offsets
<1>. QED  BY <1>1, <1>2 DEF Reaches, Spaced

\* Room for the longest delay: what historyCapacityForTracker() returns.
LEMMA CapacityCoversDelay ==
    ASSUME NEW t \in Trackers
    PROVE  /\ HistoryCapacity(t) \in Nat \ {0}
           /\ DelayEnabled => MaxDelay[t] <= HistoryCapacity(t) - 1
BY ConfigAssumption DEF HistoryCapacity

\* A snapshot that was captured later adds a sample that is a tick younger.
LEMMA UpdatedModelReaches ==
    ASSUME NEW r, WellFilled(r.history, SampleSet), NEW last \in Int, Reaches(r, last),
           NEW snap, snap.captureWall \in Int, last + 1 <= snap.captureWall, NEW pose
    PROVE  Reaches(UpdateTrackedModel(r, pose, snap), snap.captureWall)
<1>. DEFINE sample == SampleOf(NextMotion(r.motion, pose, snap.sampleTime), snap.captureWall,
                               TimeInSource(snap.source, snap.sampleTime, snap.captureWall))
            u == UpdateTrackedModel(r, pose, snap)
            h == r.history
            S == SampleSet \cup {sample}
<1>1. u.tracker = r.tracker /\ u.history = Push(h, sample)
  BY DEF UpdateTrackedModel
<1>2. sample.wall = snap.captureWall
  BY DEF SampleOf
<1>. HIDE DEF sample, u
<1>3. \A s \in SampleSet : s.wall \in Int
  BY DEF SampleSet
<1>4. WellFilled(h, S) /\ sample \in S /\ \A s \in S : s.wall \in Int
  BY <1>2, <1>3 DEF WellFilled, IsHistory
<1>5. ~IsEmpty(h) => Latest(h).wall + 1 <= sample.wall
  <2>1. ~IsEmpty(h) => Latest(h).wall <= last /\ Latest(h).wall \in Int
    <3>1. ~IsEmpty(h) => Latest(h) \in SampleSet
      BY ReadsPushed
    <3>. QED  BY <1>3, <3>1 DEF Reaches
  <2>. QED  BY <1>2, <2>1
<1>. HIDE DEF S
<1>6. Spaced(Push(h, sample)) /\ Latest(Push(h, sample)) = sample
  <2>1. Spaced(h)
    BY DEF Reaches
  <2>. QED  BY <1>4, <1>5, <2>1, PushSpaced
<1>7. Push(h, sample).cap = h.cap
  BY <1>4, PushIsWellFilled
<1>8. Reaches(u, snap.captureWall)
  <2>1. /\ u.history.cap = HistoryCapacity(u.tracker) /\ Spaced(u.history)
        /\ Latest(u.history).wall = snap.captureWall
    BY <1>1, <1>2, <1>6, <1>7 DEF Reaches
  <2>. QED  BY <2>1 DEF Reaches
<1>. QED  BY <1>8 DEF u

\* A model's record after a snapshot that was captured later.
LEMMA AfterSnapshotReaches ==
    ASSUME IInv, NEW snap \in Snapshots, NEW m \in DOMAIN tracked \cup Newcomers(snap),
           NEW last \in Int, last + 1 <= snap.captureWall,
           m \in DOMAIN tracked => Reaches(tracked[m], last)
    PROVE  Reaches(AfterSnapshot(snap, m), snap.captureWall)
<1>. DEFINE reset == SourceChanged(snap) \/ TimeMovedBackwards(snap)
            before == IF m \notin DOMAIN tracked THEN NewTrackedModel(m)
                      ELSE IF reset THEN ResetMeasurement(tracked[m]) ELSE tracked[m]
            after == AfterSnapshot(snap, m)
<1>1. snap.captureWall \in Int
  BY SnapshotsAssumption
<1>2. m \in DOMAIN tracked =>
          /\ tracked[m].tracker \in Trackers
          /\ WellFilled(tracked[m].history, GoodSamples(delivered[m], source, lastSampleTime))
  BY DEF IInv, ModelsGood, GoodModel
<1>3. m \in DOMAIN tracked => WellFilled(tracked[m].history, SampleSet)
  <2>1. GoodSamples(delivered[m], source, lastSampleTime) \subseteq SampleSet
    BY DEF GoodSamples
  <2>. QED  BY <1>2, <2>1 DEF WellFilled, IsHistory
<1>4. Reaches(before, last) /\ WellFilled(before.history, SampleSet)
  <2>1. CASE m \notin DOMAIN tracked
    <3>1. TrackerNameFor[m] \in Trackers
      BY <2>1, NewcomersGetFreeNames
    <3>2. HistoryCapacity(TrackerNameFor[m]) \in Nat \ {0}
      BY <3>1, CapacityCoversDelay
    <3>. QED  BY <2>1, <3>2, ClearedReaches DEF NewTrackedModel
  <2>2. CASE m \in DOMAIN tracked /\ reset
    <3>. DEFINE c == tracked[m].history.cap
    <3>1. c \in Nat \ {0} /\ c = HistoryCapacity(tracked[m].tracker)
      BY <1>3, <2>2 DEF WellFilled, IsHistory, Reaches
    <3>2. before.history = ClearedHistory(c) /\ before.tracker = tracked[m].tracker
      BY <2>2 DEF ResetMeasurement
    <3>. HIDE DEF before, c
    <3>. QED  BY <3>1, <3>2, ClearedReaches
  <2>3. CASE m \in DOMAIN tracked /\ ~reset
    BY <1>3, <2>3
  <2>. QED  BY <2>1, <2>2, <2>3
<1>5. after = IF m \in NamesIn(snap)
              THEN UpdateTrackedModel(before, PoseIn(snap, m), snap)
              ELSE [tracker |-> before.tracker, havePose |-> FALSE,
                    motion |-> before.motion, history |-> before.history]
  BY DEF AfterSnapshot
<1>. HIDE DEF before, after
<1>6. CASE m \in NamesIn(snap)
  BY <1>1, <1>4, <1>5, <1>6, UpdatedModelReaches DEF after
<1>7. CASE m \notin NamesIn(snap)
  <2>1. after.tracker = before.tracker /\ after.history = before.history
    BY <1>5, <1>7
  <2>2. ~IsEmpty(before.history) => Latest(before.history).wall \in Int
    <3>1. ~IsEmpty(before.history) => Latest(before.history) \in SampleSet
      BY <1>4, ReadsPushed
    <3>. QED  BY <3>1 DEF SampleSet
  <2>3. ~IsEmpty(before.history) => Latest(before.history).wall <= snap.captureWall
    BY <1>1, <1>4, <2>2 DEF Reaches
  <2>. QED  BY <1>4, <2>1, <2>3 DEF Reaches, after
<1>. QED  BY <1>6, <1>7

LEMMA PacingStep ==
    ASSUME BridgeInv, CapturesPaced, [BridgeNext]_allVars
    PROVE  CapturesPaced'
<1>. USE DEF externalVars, pluginVars
<1>1. elapsed \in Nat
  BY MomentNow DEF BridgeInv, BridgeGood, IsMoment
<1>2. /\ mailbox # NoSnapshot => mailbox.at \in Nat
      /\ processed # NoSnapshot => processed.at \in Nat
  BY DEF BridgeInv, HandOverGood, GoodSnapshot, IsMoment
<1>3. ASSUME NEW simulated, TimePasses(simulated)
      PROVE  CapturesPaced'
  <2>1. /\ elapsed' = elapsed + 1 /\ UNCHANGED <<mailbox, processed>>
    BY <1>3 DEF TimePasses
  <2>2. ASSUME NEW s, s.at \in Nat, CapturedBefore(s)
        PROVE  s.at < elapsed'
    BY <1>1, <2>1, <2>2 DEF CapturedBefore
  <2>. QED  BY <1>2, <2>1, <2>2 DEF CapturesPaced, CapturedBefore
<1>4. CASE Capture
  <2>1. PICK order : mailbox' = SnapshotOf(order)
    BY <1>4 DEF Capture
  <2>2. /\ mailbox'.at = elapsed /\ elapsed' = elapsed /\ captureDue /\ captureDue' = FALSE
        /\ processed' = processed
    BY <1>4, <2>1, MomentOf DEF Capture
  <2>3. processed # NoSnapshot => processed.at < elapsed
    BY <2>2 DEF CapturesPaced, CapturedBefore
  <2>. QED  BY <2>2, <2>3 DEF CapturesPaced, CapturedBefore
<1>5. CASE TakeAndProcess
  <2>1. /\ elapsed' = elapsed /\ captureDue' = captureDue /\ mailbox' = NoSnapshot
        /\ processed' = IF mailbox # NoSnapshot THEN mailbox ELSE processed
    BY <1>5 DEF TakeAndProcess
  <2>. QED  BY <2>1 DEF CapturesPaced, CapturedBefore
<1>6. ASSUME /\ elapsed' = elapsed /\ UNCHANGED <<mailbox, processed>>
             /\ captureDue' => captureDue
      PROVE  CapturesPaced'
  BY <1>6 DEF CapturesPaced, CapturedBefore
<1>7. CASE CaptureFails
  BY <1>6, <1>7 DEF CaptureFails
<1>8. ASSUME NEW time, ClockIsSet(time)
      PROVE  CapturesPaced'
  BY <1>6, <1>8 DEF ClockIsSet
<1>9. ASSUME NEW next, SimulationReset(next)
      PROVE  CapturesPaced'
  BY <1>6, <1>9 DEF SimulationReset
<1>10. ASSUME NEW m, WorldChanges(m)
       PROVE  CapturesPaced'
  BY <1>6, <1>10 DEF WorldChanges
<1>11. ASSUME NEW delay, PublishCycle(delay)
       PROVE  CapturesPaced'
  BY <1>6, <1>11 DEF PublishCycle
<1>12. CASE UNCHANGED allVars
  BY <1>6, <1>12 DEF allVars
<1>. QED
  BY <1>3, <1>4, <1>5, <1>7, <1>8, <1>9, <1>10, <1>11, <1>12 DEF BridgeNext

LEMMA ReachStep ==
    ASSUME AnyAdapter, BridgeInv, CapturesPaced, HistoriesReach, BridgeInv',
           [BridgeNext]_allVars
    PROVE  HistoriesReach'
<1>. SUFFICES ASSUME setBack' = 0, NEW m \in DOMAIN tracked'
              PROVE  processed' # NoSnapshot
                     /\ Reaches(tracked'[m], processed'.data.captureWall)
  BY DEF HistoriesReach
<1>1. setBack = 0
  <2>1. setBack \in Nat
    BY MomentNow DEF BridgeInv, BridgeGood, IsMoment
  <2>2. ASSUME NEW time \in WallTimes, ClockIsSet(time)
        PROVE  setBack = 0
    <3>1. wall \in Nat /\ time \in Nat
      BY BridgeAssumption DEF BridgeInv, BridgeGood
    <3>. QED  BY <2>1, <2>2, <3>1 DEF ClockIsSet
  <2>. QED
    BY <2>2 DEF BridgeNext, TimePasses, SimulationReset, WorldChanges, Capture, CaptureFails,
                TakeAndProcess, PublishCycle, allVars, externalVars
<1>2. CASE UNCHANGED <<tracked, processed>>
  BY <1>1, <1>2 DEF HistoriesReach
<1>3. CASE ~UNCHANGED <<tracked, processed>>
  <2>1. TakeAndProcess /\ mailbox # NoSnapshot
    BY <1>3 DEF BridgeNext, TimePasses, ClockIsSet, SimulationReset, WorldChanges, Capture,
                CaptureFails, TakeAndProcess, PublishCycle, Publish, allVars, vars, serverVars
  <2>. DEFINE snap == mailbox.data
  <2>2. /\ processed' = mailbox /\ ProcessSnapshot(snap) /\ snap \in Snapshots
        /\ IInv /\ GoodSnapshot(mailbox)
    BY <2>1 DEF TakeAndProcess, BridgeInv, HandOverGood, GoodSnapshot, AnyAdapter
  <2>3. /\ m \in DOMAIN tracked \cup Newcomers(snap)
        /\ tracked'[m] = AfterSnapshot(snap, m)
    BY <2>2 DEF ProcessSnapshot
  <2>4. snap.captureWall \in Int
    BY <2>2 DEF GoodSnapshot, IsMoment
  <2>5. PICK last \in Int : /\ last + 1 <= snap.captureWall
                            /\ m \in DOMAIN tracked => Reaches(tracked[m], last)
    <3>1. CASE m \notin DOMAIN tracked
      <4>1. snap.captureWall - 1 \in Int /\ (snap.captureWall - 1) + 1 <= snap.captureWall
        BY <2>4
      <4>. QED  BY <3>1, <4>1
    <3>2. CASE m \in DOMAIN tracked
      <4>. DEFINE last == processed.data.captureWall
      <4>1. processed # NoSnapshot /\ Reaches(tracked[m], last)
        BY <1>1, <3>2 DEF HistoriesReach
      <4>2. /\ Older(processed, mailbox) /\ GoodSnapshot(processed)
            /\ Older(mailbox, Now) /\ processed.at < mailbox.at
        BY <2>1, <4>1 DEF BridgeInv, HandOverGood, CapturesPaced
      <4>3. mailbox.setBack = 0 /\ processed.setBack = 0
        BY <1>1, <2>2, <4>2, MomentNow DEF Older, GoodSnapshot, IsMoment
      <4>4. /\ last \in Int /\ processed.at \in Nat /\ mailbox.at \in Nat
            /\ (last - processed.at) + 0 <= (snap.captureWall - mailbox.at) + 0
        BY <2>2, <4>2, <4>3 DEF Older, Drift, GoodSnapshot, IsMoment
      <4>5. last + 1 <= snap.captureWall
        BY <2>4, <4>2, <4>4
      <4>. QED  BY <4>1, <4>4, <4>5
    <3>. QED  BY <3>1, <3>2
  <2>6. Reaches(AfterSnapshot(snap, m), snap.captureWall)
    BY <2>2, <2>3, <2>5, AfterSnapshotReaches
  <2>. QED  BY <2>1, <2>2, <2>3, <2>6
<1>. QED  BY <1>2, <1>3

\* The ring a tracker gets is long enough: at the pace at which the plugin captures,
\* a full history reaches back over the longest delay of its tracker, unless
\* the system clock was set back, whatever becomes of the simulation.
THEOREM DelaysAreCovered ==
    AnyAdapter => (BridgeSpec => [](setBack = 0 => HistoryReachesMaxDelay))
<1>. SUFFICES ASSUME AnyAdapter
              PROVE  BridgeSpec => [](setBack = 0 => HistoryReachesMaxDelay)
  OBVIOUS
<1>1. BridgeInit => CapturesPaced /\ HistoriesReach
  <2>. SUFFICES ASSUME BridgeInit
                PROVE  CapturesPaced /\ HistoriesReach
    OBVIOUS
  <2>1. mailbox = NoSnapshot /\ processed = NoSnapshot /\ DOMAIN tracked = {}
    BY DEF BridgeInit, Init, EmptyFunction
  <2>. QED  BY <2>1 DEF CapturesPaced, HistoriesReach
<1>2. BridgeInv /\ CapturesPaced /\ HistoriesReach /\ BridgeInv' /\ [BridgeNext]_allVars
          => CapturesPaced' /\ HistoriesReach'
  BY PacingStep, ReachStep
<1>3. BridgeInv /\ HistoriesReach => (setBack = 0 => HistoryReachesMaxDelay)
  <2>. SUFFICES ASSUME BridgeInv, HistoriesReach, setBack = 0, DelayEnabled,
                       NEW m \in DOMAIN tracked,
                       tracked[m].history.size = tracked[m].history.cap
                PROVE  SampleAt(tracked[m].history, 0).wall
                         <= Latest(tracked[m].history).wall - MaxDelay[tracked[m].tracker]
    BY DEF HistoryReachesMaxDelay
  <2>. DEFINE r == tracked[m]
              h == r.history
              Good == GoodSamples(delivered[m], source, lastSampleTime)
              oldest == SampleAt(h, 0).wall
              latest == Latest(h).wall
              longest == MaxDelay[r.tracker]
  <2>1. r.tracker \in Trackers /\ WellFilled(h, Good)
    BY DEF BridgeInv, IInv, ModelsGood, GoodModel
  <2>2. Reaches(r, processed.data.captureWall)
    BY DEF HistoriesReach
  <2>. HIDE DEF r
  <2>3. /\ h.cap = HistoryCapacity(r.tracker) /\ h.cap \in Nat \ {0}
        /\ longest <= h.cap - 1 /\ longest \in Nat
    BY <2>1, <2>2, CapacityCoversDelay, ConfigAssumption DEF Reaches
  <2>4. h.size = h.cap
    BY DEF r
  <2>5. 0 \in Offsets(h) /\ ~IsEmpty(h)
    BY <2>3, <2>4 DEF Offsets, IsEmpty
  <2>6. oldest + (h.size - 1 - 0) <= latest
    BY <2>2, <2>5 DEF Reaches, Spaced
  <2>7. oldest \in Int /\ latest \in Int
    <3>1. SampleAt(h, 0) \in Good /\ Latest(h) \in Good
      BY <2>1, <2>5, ReadsPushed DEF Held
    <3>. QED  BY <3>1 DEF GoodSamples, SampleSet
  <2>8. oldest <= latest - longest
    <3>. HIDE DEF oldest, latest, longest
    <3>. QED  BY <2>3, <2>4, <2>6, <2>7
  <2>. QED  BY <2>8 DEF r
<1>. QED  BY <1>1, <1>2, <1>3, BridgeInvariant, PTL DEF BridgeSpec
=============================================================================
