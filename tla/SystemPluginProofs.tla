------------------------- MODULE SystemPluginProofs -------------------------
(***************************************************************************)
(* Theorems about SystemPlugin, for every report period and scan interval  *)
(* (in ticks), any models, and every interleaving of the two threads.      *)
(* The invariant is proved in parts, one for each concern of the plugin.   *)
(***************************************************************************)
EXTENDS SystemPlugin, TLAPS

\* The thread exists only while the plugin is attached, and stopping_ is set
\* only by stop().
Attachment ==
    /\ gazebo \in {"idle", "storing"} => ~stopping
    /\ gazebo \in {"notifying", "joining", "stopped"} => stopping
    /\ ~attached /\ gazebo # "stopped" => worker = "none"
    /\ worker = "none" => ~attached

\* A cycle runs only when it is due, and the cycles since the last tick have
\* moved next_cycle towards the future.
Pacing ==
    /\ worker \in {"taking", "processing", "publishing"} => due <= 0
    /\ worker = "running" => due <= 0 \/ stopping
    /\ worker \in {"none", "starting"} => burst = 0
    /\ \/ burst = 0
       \/ burst = 1 /\ due >= -Period
       \/ burst = 2 /\ due >= 0
       \/ burst = 3 /\ due >= Period

\* What is in the mailbox, taken and processed, by place in the captures.
HandOver ==
    /\ gazebo = "storing" => built \in Snapshots /\ built.capture = latestSequence + 1
    /\ processedSequence <= latestSequence
    /\ HaveSnapshot => mailbox \in Snapshots /\ mailbox.capture = latestSequence
    /\ serverSnapshot # NoSnapshot => serverSnapshot.capture <= processedSequence
    /\ worker = "processing" =>
           /\ taken \in Snapshots /\ taken.capture = processedSequence
           /\ serverSnapshot # NoSnapshot => serverSnapshot.capture < processedSequence
    /\ \/ late = 0
       \/ /\ late = 1 /\ HaveSnapshot
          /\ worker \in {"waiting", "dozing", "sleeping", "running", "taking", "ended"}

\* Cycles published after stop() has set the flag.
Stopping ==
    \/ cyclesToStop = 0
    \/ cyclesToStop = 1 /\ stopping /\ worker \in {"waiting", "running", "ended"}

\* A handle differs from the world only where the world changed since the scan.
HandlesCurrent ==
    gazebo # "stopped" =>
        \A m \in Models : handles[m] = world[m] \/ settled[m] <= scanAge

\* How far the last captures and the next one are apart.
CaptureGrid ==
    /\ ~captured => captureAges[1] = Period + 1 /\ captureAges[2] = Period + 1
    /\ captureAges[1] = Period + 1 \/ captureAges[1] + captureIn >= 1
    /\ captureAges[2] = Period + 1 \/ captureAges[2] + captureIn >= Period + 1
    /\ captureAges[3] = Period + 1

IInv == TypeOK /\ Attachment /\ Pacing /\ HandOver /\ Stopping /\ HandlesCurrent /\ CaptureGrid

-----------------------------------------------------------------------------

LEMMA InitIInv == Init => IInv
<1>. SUFFICES ASSUME Init
              PROVE  IInv
  OBVIOUS
<1>1. TypeOK
  <2>1. /\ world \in [Models -> Objects \cup {NoObject}]
        /\ handles \in [Models -> Objects \cup {NoObject}]
        /\ settled \in [Models -> 0 .. ScanInterval]
    BY PeriodAssumption DEF Init
  <2>2. /\ attached \in BOOLEAN /\ stopping \in BOOLEAN /\ captured \in BOOLEAN
        /\ scanAge \in 0 .. ScanInterval
        /\ captureIn \in 1 - 2 * Period .. Period
        /\ due \in -3 * Period - 1 .. Period
    <3>1. /\ Period \in Nat /\ Period >= 1
          /\ ScanInterval \in Nat
      BY PeriodAssumption
    <3>2. /\ ScanInterval \in 0 .. ScanInterval
          /\ 0 \in 1 - 2 * Period .. Period
          /\ 0 \in -3 * Period - 1 .. Period
      BY <3>1
    <3>3. attached \in BOOLEAN /\ stopping \in BOOLEAN /\ captured \in BOOLEAN
      BY DEF Init
    <3>4. scanAge = ScanInterval /\ captureIn = 0 /\ due = 0
      BY DEF Init
    <3>. QED  BY <3>2, <3>3, <3>4
  <2>4. captureAges \in [1 .. 3 -> 0 .. Period + 1]
    <3>1. Period + 1 \in 0 .. Period + 1
      BY PeriodAssumption
    <3>. QED  BY <3>1 DEF Init
  <2>3. /\ gazebo = "idle" /\ worker = "none"
        /\ {built, mailbox, taken, serverSnapshot} \subseteq Snapshots \cup {NoSnapshot}
        /\ latestSequence \in Nat /\ processedSequence \in Nat
        /\ burst \in Nat /\ late \in Nat /\ cyclesToStop \in Nat
    BY DEF Init
  <2>. QED  BY <2>1, <2>2, <2>3, <2>4 DEF TypeOK
<1>2. Attachment /\ Pacing /\ HandOver /\ Stopping
  BY DEF Init, Attachment, Pacing, HandOver, HaveSnapshot, Stopping
<1>3. HandlesCurrent /\ CaptureGrid
  BY PeriodAssumption DEF Init, HandlesCurrent, CaptureGrid
<1>. QED  BY <1>1, <1>2, <1>3 DEF IInv

\* next_capture_time_ moves to the first point of the grid after now.
LEMMA NextCapture ==
    ASSUME captureIn \in 1 - 2 * Period .. Period, captured => captureIn <= 0
    PROVE  /\ NextCaptureIn \in 1 .. Period
           /\ captured => NextCaptureIn >= captureIn + Period
<1>. DEFINE OnGrid(n) == (n - captureIn) % Period = 0
<1>1. Period \in Nat /\ Period >= 1
  BY PeriodAssumption
<1>2. ASSUME captured
      PROVE  \E n \in 1 .. Period : OnGrid(n)
  <2>1. CASE captureIn + Period >= 1
    <3>1. captureIn + Period \in 1 .. Period
      BY <1>1, <1>2, <2>1
    <3>2. (captureIn + Period) - captureIn = Period /\ Period % Period = 0
      BY <1>1
    <3>. QED  BY <3>1, <3>2
  <2>2. CASE captureIn + Period < 1
    <3>1. captureIn + 2 * Period \in 1 .. Period
      BY <1>1, <1>2, <2>2
    <3>2. (captureIn + 2 * Period) - captureIn = 2 * Period /\ (2 * Period) % Period = 0
      BY <1>1
    <3>. QED  BY <3>1, <3>2
  <2>. QED  BY <1>1, <2>1, <2>2
<1>3. ASSUME captured
      PROVE  NextCaptureIn \in 1 .. Period /\ OnGrid(NextCaptureIn)
  BY <1>2, <1>3 DEF NextCaptureIn
<1>4. ASSUME captured
      PROVE  NextCaptureIn >= captureIn + Period
  <2>. DEFINE k == NextCaptureIn - captureIn
  <2>1. k \in Nat /\ k >= 1 /\ k % Period = 0
    BY <1>1, <1>3, <1>4
  <2>. HIDE DEF k
  <2>2. k >= Period
    BY <1>1, <2>1
  <2>. QED  BY <1>1, <1>3, <1>4, <2>2 DEF k
<1>5. ~captured => NextCaptureIn = Period
  BY DEF NextCaptureIn
<1>. QED  BY <1>1, <1>3, <1>4, <1>5
-----------------------------------------------------------------------------
(* One lemma for each part of the invariant.                               *)

LEMMA AttachmentStep == Attachment /\ TypeOK /\ [Next]_vars => Attachment'
<1>. SUFFICES ASSUME Attachment, TypeOK, [Next]_vars
              PROVE  Attachment'
  OBVIOUS
<1>. USE DEF Attachment, gazeboVars, sharedVars, workerVars, workerEnv
<1>1. ASSUME NEW m \in Models, NEW object \in Objects \cup {NoObject}, WorldChanges(m, object)
      PROVE  Attachment'
  BY <1>1 DEF WorldChanges
<1>2. CASE WorldCreated
  BY <1>2 DEF WorldCreated, MayAttach
<1>3. CASE Capture
  BY <1>3 DEF Capture, CaptureIsDue
<1>4. CASE CaptureFails
  BY <1>4 DEF CaptureFails, CaptureIsDue
<1>5. CASE StoreSnapshot
  BY <1>5 DEF StoreSnapshot
<1>6. CASE Stop
  BY <1>6 DEF Stop
<1>11. CASE Notify
  <2>1. worker' = "none" <=> worker = "none"
    BY <1>11 DEF Notify
  <2>. QED  BY <1>11, <2>1 DEF Notify
<1>12. CASE StopReturns
  BY <1>12 DEF StopReturns
<1>7. CASE Worker
  BY <1>7 DEF Worker, StartServer, CheckStopping, TakeSnapshot, ProcessTaken, PublishCycle,
              CheckPredicate, FallAsleep, Wake
<1>8. CASE SpuriousWake \/ WorkerThrows
  BY <1>8 DEF SpuriousWake, WorkerThrows
<1>9. CASE Tick
  BY <1>9 DEF Tick
<1>10. CASE UNCHANGED vars
  BY <1>10 DEF vars
<1>. QED
  BY <1>1, <1>2, <1>3, <1>4, <1>5, <1>6, <1>7, <1>8, <1>9, <1>10, <1>11, <1>12 DEF Next

LEMMA PacingStep == Pacing /\ Attachment /\ TypeOK /\ [Next]_vars => Pacing'
<1>. SUFFICES ASSUME Pacing, Attachment, TypeOK, [Next]_vars
              PROVE  Pacing'
  OBVIOUS
<1>a. /\ Period \in Nat /\ Period >= 1 /\ due \in Int /\ burst \in Nat
      /\ stopping \in BOOLEAN
  BY PeriodAssumption DEF TypeOK
<1>. USE DEF Pacing, gazeboVars, sharedVars, workerVars, workerEnv
<1>1. ASSUME NEW m \in Models, NEW object \in Objects \cup {NoObject}, WorldChanges(m, object)
      PROVE  Pacing'
  BY <1>1 DEF WorldChanges
<1>2. CASE WorldCreated
  BY <1>2 DEF WorldCreated, MayAttach, Attachment
<1>3. CASE Capture
  BY <1>3 DEF Capture
<1>4. CASE CaptureFails
  BY <1>4 DEF CaptureFails
<1>5. CASE StoreSnapshot
  BY <1>5 DEF StoreSnapshot
<1>6. CASE Stop \/ Notify \/ StopReturns
  BY <1>6 DEF Stop, Notify, StopReturns
<1>7. CASE StartServer
  BY <1>7 DEF StartServer
<1>8. CASE CheckStopping \/ TakeSnapshot \/ ProcessTaken
  BY <1>8 DEF CheckStopping, TakeSnapshot, ProcessTaken
<1>9. CASE PublishCycle
  <2>1. due' = NextDue /\ burst' = burst + 1 /\ worker' = "waiting" /\ due <= 0
    BY <1>9 DEF PublishCycle
  <2>2. /\ burst = 0 => NextDue >= -Period
        /\ burst = 1 => NextDue >= 0
        /\ burst = 2 => NextDue >= Period
        /\ burst # 3
    BY <1>a, <2>1 DEF NextDue
  <2>. QED  BY <1>a, <2>1, <2>2
<1>10. CASE CheckPredicate \/ FallAsleep \/ Wake
  BY <1>10 DEF CheckPredicate, FallAsleep, Wake, TimedOut
<1>11. CASE SpuriousWake \/ WorkerThrows
  BY <1>11 DEF SpuriousWake, WorkerThrows
<1>12. CASE Tick
  <2>1. due' <= due /\ burst' = 0 /\ worker' = worker /\ stopping' = stopping
    BY <1>a, <1>12 DEF Tick
  <2>2. due' \in Int
    BY <1>a, <1>12 DEF Tick
  <2>. QED  BY <1>a, <2>1, <2>2
<1>13. CASE UNCHANGED vars
  BY <1>13 DEF vars
<1>. QED
  BY <1>1, <1>2, <1>3, <1>4, <1>5, <1>6, <1>7, <1>8, <1>9, <1>10, <1>11, <1>12, <1>13
     DEF Next, Worker

LEMMA StoppingStep == Stopping /\ Attachment /\ TypeOK /\ [Next]_vars => Stopping'
<1>. SUFFICES ASSUME Stopping, Attachment, TypeOK, [Next]_vars
              PROVE  Stopping'
  OBVIOUS
<1>. USE DEF Stopping, gazeboVars, sharedVars, workerVars, workerEnv
<1>1. ASSUME NEW m \in Models, NEW object \in Objects \cup {NoObject}, WorldChanges(m, object)
      PROVE  Stopping'
  BY <1>1 DEF WorldChanges
<1>2. CASE WorldCreated
  BY <1>2 DEF WorldCreated, MayAttach, Attachment
<1>3. CASE Capture \/ CaptureFails \/ StoreSnapshot
  BY <1>3 DEF Capture, CaptureFails, StoreSnapshot
<1>4. CASE Stop \/ Notify \/ StopReturns
  BY <1>4 DEF Stop, Notify, StopReturns
<1>5. CASE Worker
  BY <1>5 DEF Worker, StartServer, CheckStopping, TakeSnapshot, ProcessTaken, PublishCycle,
              CheckPredicate, FallAsleep, Wake
<1>6. CASE SpuriousWake \/ WorkerThrows
  BY <1>6 DEF SpuriousWake, WorkerThrows
<1>7. CASE Tick
  BY <1>7 DEF Tick
<1>8. CASE UNCHANGED vars
  BY <1>8 DEF vars
<1>. QED  BY <1>1, <1>2, <1>3, <1>4, <1>5, <1>6, <1>7, <1>8 DEF Next

LEMMA HandOverStep == HandOver /\ Attachment /\ TypeOK /\ [Next]_vars => HandOver'
<1>. SUFFICES ASSUME HandOver, Attachment, TypeOK, [Next]_vars
              PROVE  HandOver'
  OBVIOUS
<1>a. /\ latestSequence \in Nat /\ processedSequence \in Nat
      /\ serverSnapshot \in Snapshots \cup {NoSnapshot}
      /\ handles \in [Models -> Objects \cup {NoObject}]
      /\ world \in [Models -> Objects \cup {NoObject}]
  BY DEF TypeOK
<1>b. \A s \in Snapshots : s.capture \in Nat
  BY DEF Snapshots
<1>. USE DEF HandOver, HaveSnapshot, gazeboVars, sharedVars, workerVars, workerEnv
<1>1. ASSUME NEW m \in Models, NEW object \in Objects \cup {NoObject}, WorldChanges(m, object)
      PROVE  HandOver'
  BY <1>1 DEF WorldChanges
<1>2. CASE WorldCreated
  BY <1>2 DEF WorldCreated, MayAttach, Attachment
<1>3. CASE Capture
  <2>1. handles' \in [Models -> Objects \cup {NoObject}]
    BY <1>a, <1>3 DEF Capture
  <2>2. built' \in Snapshots /\ built'.capture = latestSequence + 1
    BY <1>a, <1>3, <2>1 DEF Capture, Snapshots
  <2>. QED  BY <1>3, <2>2 DEF Capture
<1>4. CASE CaptureFails
  BY <1>4 DEF CaptureFails, CaptureIsDue
<1>5. CASE StoreSnapshot
  BY <1>a, <1>5 DEF StoreSnapshot
<1>6. CASE Stop \/ StopReturns
  BY <1>6 DEF Stop, StopReturns
<1>7. CASE Notify
  BY <1>7 DEF Notify
<1>8. CASE StartServer \/ CheckStopping
  BY <1>8 DEF StartServer, CheckStopping
<1>9. CASE TakeSnapshot
  <2>1. CASE HaveSnapshot
    <3>1. /\ taken' \in Snapshots /\ taken'.capture = latestSequence
          /\ processedSequence' = latestSequence /\ latestSequence' = latestSequence
          /\ late' = 0 /\ serverSnapshot' = serverSnapshot
          /\ gazebo' = gazebo /\ built' = built
      BY <1>9, <2>1 DEF TakeSnapshot
    <3>2. serverSnapshot # NoSnapshot => serverSnapshot.capture < latestSequence
      BY <1>a, <1>b, <2>1
    <3>. QED  BY <1>a, <1>b, <3>1, <3>2
  <2>2. CASE ~HaveSnapshot
    <3>1. /\ worker' = "publishing" /\ processedSequence' = processedSequence
          /\ latestSequence' = latestSequence
          /\ late' = late /\ serverSnapshot' = serverSnapshot
          /\ gazebo' = gazebo /\ built' = built
      BY <1>9, <2>2 DEF TakeSnapshot
    <3>. QED  BY <1>a, <2>2, <3>1
  <2>. QED  BY <2>1, <2>2
<1>10. CASE ProcessTaken
  BY <1>a, <1>b, <1>10 DEF ProcessTaken
<1>11. CASE PublishCycle
  <2>1. late = 0
    BY <1>11 DEF PublishCycle
  <2>. QED  BY <1>a, <1>11, <2>1 DEF PublishCycle
<1>12. CASE CheckPredicate \/ FallAsleep \/ Wake
  BY <1>12 DEF CheckPredicate, FallAsleep, Wake
<1>13. CASE SpuriousWake \/ WorkerThrows
  BY <1>13 DEF SpuriousWake, WorkerThrows
<1>14. CASE Tick
  BY <1>14 DEF Tick
<1>15. CASE UNCHANGED vars
  BY <1>15 DEF vars
<1>. QED
  BY <1>1, <1>2, <1>3, <1>4, <1>5, <1>6, <1>7, <1>8, <1>9, <1>10, <1>11, <1>12, <1>13,
     <1>14, <1>15 DEF Next, Worker

LEMMA HandlesCurrentStep ==
    HandlesCurrent /\ TypeOK /\ [Next]_vars => HandlesCurrent'
<1>. SUFFICES ASSUME HandlesCurrent, TypeOK, [Next]_vars
              PROVE  HandlesCurrent'
  OBVIOUS
<1>a. /\ ScanInterval \in Nat /\ scanAge \in 0 .. ScanInterval
      /\ settled \in [Models -> 0 .. ScanInterval]
      /\ world \in [Models -> Objects \cup {NoObject}]
  BY PeriodAssumption DEF TypeOK
<1>. USE DEF HandlesCurrent, gazeboVars, sharedVars, workerVars, workerEnv
<1>1. ASSUME NEW m \in Models, NEW object \in Objects \cup {NoObject}, WorldChanges(m, object)
      PROVE  HandlesCurrent'
  <2>1. /\ handles' = handles /\ scanAge' = scanAge
        /\ gazebo' = gazebo /\ gazebo = "idle"
        /\ world' = [world EXCEPT ![m] = object]
        /\ settled' = [settled EXCEPT ![m] = 0]
    BY <1>1 DEF WorldChanges
  <2>2. ASSUME NEW n \in Models
        PROVE  handles'[n] = world'[n] \/ settled'[n] <= scanAge'
    <3>1. CASE n = m
      BY <1>a, <2>1, <3>1
    <3>2. CASE n # m
      BY <1>a, <2>1, <2>2, <3>2
    <3>. QED  BY <3>1, <3>2
  <2>. QED  BY <2>2
<1>2. CASE WorldCreated
  BY <1>2 DEF WorldCreated
<1>3. CASE Capture \/ CaptureFails
  <2>1. /\ world' = world /\ settled' = settled
        /\ \/ handles' = handles /\ scanAge' = scanAge
           \/ handles' = world
    BY <1>3 DEF Capture, CaptureFails
  <2>2. gazebo = "idle"
    BY <1>3 DEF Capture, CaptureFails, CaptureIsDue
  <2>. QED  BY <2>1, <2>2
<1>4. CASE StoreSnapshot
  BY <1>4 DEF StoreSnapshot
<1>5. CASE Stop \/ Notify \/ StopReturns
  BY <1>5 DEF Stop, Notify, StopReturns
<1>6. CASE Worker
  BY <1>6 DEF Worker, StartServer, CheckStopping, TakeSnapshot, ProcessTaken, PublishCycle,
              CheckPredicate, FallAsleep, Wake
<1>7. CASE SpuriousWake \/ WorkerThrows
  BY <1>7 DEF SpuriousWake, WorkerThrows
<1>8. CASE Tick
  <2>1. /\ handles' = handles /\ world' = world /\ gazebo' = gazebo
        /\ scanAge' = Bounded(scanAge + 1, ScanInterval)
        /\ settled' = [m \in Models |-> Bounded(settled[m] + 1, ScanInterval)]
    BY <1>8 DEF Tick
  <2>2. ASSUME NEW m \in Models, settled[m] <= scanAge
        PROVE  settled'[m] <= scanAge'
    <3>1. settled[m] \in 0 .. ScanInterval
      BY <1>a, <2>2
    <3>2. settled'[m] = Bounded(settled[m] + 1, ScanInterval)
      BY <2>1, <2>2
    <3>. QED  BY <1>a, <2>1, <2>2, <3>1, <3>2 DEF Bounded
  <2>. QED  BY <2>1, <2>2
<1>9. CASE UNCHANGED vars
  BY <1>9 DEF vars
<1>. QED  BY <1>1, <1>2, <1>3, <1>4, <1>5, <1>6, <1>7, <1>8, <1>9 DEF Next

LEMMA CaptureGridStep == CaptureGrid /\ TypeOK /\ [Next]_vars => CaptureGrid'
<1>. SUFFICES ASSUME CaptureGrid, TypeOK, [Next]_vars
              PROVE  CaptureGrid'
  OBVIOUS
<1>a. /\ Period \in Nat /\ Period >= 1
      /\ captureIn \in 1 - 2 * Period .. Period
      /\ captureAges \in [1 .. 3 -> 0 .. Period + 1]
  BY PeriodAssumption DEF TypeOK
<1>b. \A i \in 1 .. 3 : captureAges[i] \in 0 .. Period + 1
  BY <1>a
<1>c. captureAges[1] \in 0 .. Period + 1 /\ captureAges[2] \in 0 .. Period + 1
  BY <1>b
<1>. USE DEF CaptureGrid, gazeboVars, sharedVars, workerVars, workerEnv
<1>1. ASSUME NEW m \in Models, NEW object \in Objects \cup {NoObject}, WorldChanges(m, object)
      PROVE  CaptureGrid'
  BY <1>1 DEF WorldChanges
<1>2. CASE WorldCreated
  BY <1>2 DEF WorldCreated
<1>3. CASE Capture \/ CaptureFails
  <2>1. /\ captureAges' = <<0, captureAges[1], captureAges[2]>>
        /\ captured' = TRUE /\ captureIn' = NextCaptureIn
        /\ captured => captureIn <= 0
    BY <1>3 DEF Capture, CaptureFails, CaptureIsDue
  <2>2. /\ NextCaptureIn \in 1 .. Period
        /\ captured => NextCaptureIn >= captureIn + Period
    BY <1>a, <2>1, NextCapture
  <2>3. /\ captureAges'[1] = 0 /\ captureAges'[2] = captureAges[1]
        /\ captureAges'[3] = captureAges[2]
    BY <2>1
  <2>4. captureAges'[1] + captureIn' >= 1
    BY <1>a, <2>1, <2>2, <2>3
  <2>5. captureAges[1] = Period + 1 \/ captureAges[1] + captureIn' >= Period + 1
    <3>. DEFINE next == NextCaptureIn
    <3>1. next \in 1 .. Period /\ captureIn' = next
      BY <2>1, <2>2
    <3>2. ASSUME captureAges[1] # Period + 1
          PROVE  next >= captureIn + Period
      BY <2>2, <3>2
    <3>. HIDE DEF next
    <3>. QED  BY <1>a, <1>c, <3>1, <3>2
  <2>6. captured'
    BY <2>1
  <2>7. captureAges[2] = Period + 1
    BY <1>a, <1>c, <2>1
  <2>. QED  BY <2>3, <2>4, <2>5, <2>6, <2>7
<1>4. CASE StoreSnapshot
  BY <1>4 DEF StoreSnapshot
<1>5. CASE Stop \/ Notify \/ StopReturns
  BY <1>5 DEF Stop, Notify, StopReturns
<1>6. CASE Worker
  BY <1>6 DEF Worker, StartServer, CheckStopping, TakeSnapshot, ProcessTaken, PublishCycle,
              CheckPredicate, FallAsleep, Wake
<1>7. CASE SpuriousWake \/ WorkerThrows
  BY <1>7 DEF SpuriousWake, WorkerThrows
<1>8. CASE Tick
  <2>. DEFINE older(age) == Bounded(age + 1, Period + 1)
  <2>1. captureAges' = [i \in 1 .. 3 |-> older(captureAges[i])]
    BY <1>8 DEF Tick
  <2>2. \A age \in 0 .. Period + 1 :
            /\ older(age) = Period + 1 \/ older(age) = age + 1
            /\ age = Period + 1 => older(age) = Period + 1
    BY <1>a DEF Bounded
  <2>. HIDE DEF older
  <2>3. /\ captureAges'[1] = older(captureAges[1]) /\ captureAges'[2] = older(captureAges[2])
        /\ captureAges'[3] = Period + 1
    BY <1>b, <2>1, <2>2
  <2>4. CASE captured
    <3>1. captureIn' = IF captureIn = 1 - 2 * Period THEN -Period ELSE captureIn - 1
      BY <1>8, <2>4 DEF Tick
    <3>2. captureIn' >= captureIn - 1 /\ captureIn' \in Int
      BY <1>a, <3>1
    <3>3. captured'
      BY <1>8, <2>4 DEF Tick
    <3>4. captureAges'[1] = Period + 1 \/ captureAges'[1] + captureIn' >= 1
      BY <1>a, <1>c, <2>2, <2>3, <3>2
    <3>5. captureAges'[2] = Period + 1 \/ captureAges'[2] + captureIn' >= Period + 1
      BY <1>a, <1>c, <2>2, <2>3, <3>2
    <3>. QED  BY <2>3, <3>3, <3>4, <3>5
  <2>5. CASE ~captured
    <3>1. captureAges'[1] = Period + 1 /\ captureAges'[2] = Period + 1
      BY <1>c, <2>2, <2>3, <2>5
    <3>. QED  BY <2>3, <3>1
  <2>. QED  BY <2>4, <2>5
<1>9. CASE UNCHANGED vars
  BY <1>9 DEF vars
<1>. QED  BY <1>1, <1>2, <1>3, <1>4, <1>5, <1>6, <1>7, <1>8, <1>9 DEF Next

LEMMA TypeStep == TypeOK /\ Pacing /\ [Next]_vars => TypeOK'
<1>. SUFFICES ASSUME TypeOK, Pacing, [Next]_vars
              PROVE  TypeOK'
  OBVIOUS
<1>a. /\ Period \in Nat /\ Period >= 1
      /\ ScanInterval \in Nat
  BY PeriodAssumption
<1>b. 0 \in 0 .. ScanInterval
  BY <1>a
<1>. USE DEF TypeOK, gazeboVars, sharedVars, workerVars, workerEnv
<1>1. ASSUME NEW m \in Models, NEW object \in Objects \cup {NoObject}, WorldChanges(m, object)
      PROVE  TypeOK'
  <2>1. /\ world' \in [Models -> Objects \cup {NoObject}]
        /\ settled' \in [Models -> 0 .. ScanInterval]
    BY <1>b, <1>1 DEF WorldChanges
  <2>. QED  BY <1>1, <2>1 DEF WorldChanges
<1>2. CASE WorldCreated
  BY <1>2 DEF WorldCreated
<1>3. CASE Capture \/ CaptureFails
  <2>1. NextCaptureIn \in 1 .. Period
    <3>1. captured => captureIn <= 0
      BY <1>3 DEF Capture, CaptureFails, CaptureIsDue
    <3>. QED  BY <3>1, NextCapture
  <2>2. captureIn' \in 1 - 2 * Period .. Period
    <3>. DEFINE next == NextCaptureIn
    <3>1. captureIn' = next /\ next \in 1 .. Period
      BY <1>3, <2>1 DEF Capture, CaptureFails
    <3>. HIDE DEF next
    <3>. QED  BY <1>a, <3>1
  <2>3. captureAges' \in [1 .. 3 -> 0 .. Period + 1]
    <3>1. captureAges' = <<0, captureAges[1], captureAges[2]>>
      BY <1>3 DEF Capture, CaptureFails
    <3>2. /\ 0 \in 0 .. Period + 1
          /\ captureAges[1] \in 0 .. Period + 1 /\ captureAges[2] \in 0 .. Period + 1
      BY <1>a
    <3>. QED  BY <3>1, <3>2
  <2>4. /\ handles' \in [Models -> Objects \cup {NoObject}]
        /\ scanAge' \in 0 .. ScanInterval
    BY <1>b, <1>3 DEF Capture, CaptureFails
  <2>5. built' \in Snapshots \cup {NoSnapshot}
    <3>1. CASE Capture
      BY <2>4, <3>1 DEF Capture, Snapshots
    <3>2. CASE CaptureFails
      BY <3>2 DEF CaptureFails
    <3>. QED  BY <1>3, <3>1, <3>2
  <2>6. /\ gazebo' \in {gazebo, "storing"} /\ captured' = TRUE
        /\ UNCHANGED <<world, attached, sharedVars, workerVars, settled, burst, late,
                       cyclesToStop>>
    BY <1>3 DEF Capture, CaptureFails
  <2>. QED  BY <2>2, <2>3, <2>4, <2>5, <2>6
<1>4. CASE StoreSnapshot
  BY <1>4 DEF StoreSnapshot
<1>5. CASE Stop
  BY <1>5 DEF Stop
<1>6. CASE Notify
  BY <1>6 DEF Notify
<1>7. CASE StopReturns
  <2>1. handles' \in [Models -> Objects \cup {NoObject}]
    BY <1>7 DEF StopReturns
  <2>. QED  BY <1>7, <2>1 DEF StopReturns
<1>8. CASE StartServer
  <2>1. 0 \in -3 * Period - 1 .. Period
    BY <1>a
  <2>. QED  BY <1>8, <2>1 DEF StartServer
<1>9. CASE CheckStopping \/ TakeSnapshot \/ ProcessTaken
  BY <1>9 DEF CheckStopping, TakeSnapshot, ProcessTaken
<1>10. CASE PublishCycle
  <2>1. due' \in -3 * Period - 1 .. Period
    <3>1. due' = NextDue /\ due <= 0
      BY <1>10 DEF PublishCycle, Pacing
    <3>. QED  BY <1>a, <3>1 DEF NextDue
  <2>2. burst' \in Nat /\ late' \in Nat /\ cyclesToStop' \in Nat
    BY <1>10 DEF PublishCycle
  <2>. QED  BY <1>10, <2>1, <2>2 DEF PublishCycle
<1>11. CASE CheckPredicate \/ FallAsleep \/ Wake
  BY <1>11 DEF CheckPredicate, FallAsleep, Wake
<1>12. CASE SpuriousWake \/ WorkerThrows
  BY <1>12 DEF SpuriousWake, WorkerThrows
<1>13. CASE Tick
  <2>1. due' \in -3 * Period - 1 .. Period
    BY <1>a, <1>13 DEF Tick
  <2>2. captureIn' \in 1 - 2 * Period .. Period
    <3>1. CASE ~captured
      BY <1>13, <3>1 DEF Tick
    <3>2. CASE captured
      <4>1. captureIn' = IF captureIn = 1 - 2 * Period THEN -Period ELSE captureIn - 1
        BY <1>13, <3>2 DEF Tick
      <4>. QED  BY <1>a, <4>1
    <3>. QED  BY <3>1, <3>2
  <2>3. \A bound \in Nat : \A n \in 0 .. bound : Bounded(n + 1, bound) \in 0 .. bound
    BY DEF Bounded
  <2>4. scanAge' \in 0 .. ScanInterval
    BY <1>a, <1>13, <2>3 DEF Tick
  <2>5. settled' \in [Models -> 0 .. ScanInterval]
    BY <1>a, <1>13, <2>3 DEF Tick
  <2>6. captureAges' \in [1 .. 3 -> 0 .. Period + 1]
    <3>1. Period + 1 \in Nat
      BY <1>a
    <3>2. \A i \in 1 .. 3 : captureAges[i] \in 0 .. Period + 1
      OBVIOUS
    <3>. QED  BY <1>13, <2>3, <3>1, <3>2 DEF Tick
  <2>. QED  BY <1>13, <2>1, <2>2, <2>4, <2>5, <2>6 DEF Tick
<1>14. CASE UNCHANGED vars
  BY <1>14 DEF vars
<1>. QED
  BY <1>1, <1>2, <1>3, <1>4, <1>5, <1>6, <1>7, <1>8, <1>9, <1>10, <1>11, <1>12, <1>13,
     <1>14 DEF Next, Worker
-----------------------------------------------------------------------------

LEMMA NextIInv == IInv /\ [Next]_vars => IInv'
BY TypeStep, AttachmentStep, PacingStep, HandOverStep, StoppingStep, HandlesCurrentStep,
   CaptureGridStep DEF IInv

\* The invariant on which the theorems below rest.
THEOREM InvariantOfSpec == Spec => []IInv
BY InitIInv, NextIInv, PTL DEF Spec

\* Every variable keeps its type; next_cycle and next_capture_time_ stay near
\* now, however late the callbacks and the cycles are.
THEOREM TypeCorrect == Spec => []TypeOK
<1>1. IInv => TypeOK
  BY DEF IInv
<1>. QED  BY <1>1, InvariantOfSpec, PTL

\* The server is never given a moved-from snapshot, in any interleaving of
\* onWorldUpdateEnd() and workerLoop().
THEOREM ServerSeesWholeSnapshots == Spec => []TakenIsWhole
<1>1. IInv => TakenIsWhole
  BY SnapshotAssumption DEF IInv, HandOver, TakenIsWhole
<1>. QED  BY <1>1, InvariantOfSpec, PTL

\* A snapshot waits in the mailbox for one publish cycle at most.
THEOREM SnapshotsWaitOneCycle == Spec => []AtMostOneCycleLate
<1>1. IInv => AtMostOneCycleLate
  BY DEF IInv, HandOver, AtMostOneCycleLate
<1>. QED  BY <1>1, InvariantOfSpec, PTL

\* After any delay the worker publishes at most three cycles at one instant.
THEOREM CatchUpBounded == Spec => []CatchUpIsBounded
<1>1. IInv => CatchUpIsBounded
  BY DEF IInv, Pacing, CatchUpIsBounded
<1>. QED  BY <1>1, InvariantOfSpec, PTL

\* After stop() has set stopping_, one cycle at most is still published.
THEOREM StopIsPrompt == Spec => []StopsWithinACycle
<1>1. IInv => StopsWithinACycle
  BY DEF IInv, Stopping, StopsWithinACycle
<1>. QED  BY <1>1, InvariantOfSpec, PTL

\* The plugin keeps the contract of the hand-over: the server processes
\* snapshots in the order of capture and none twice, for every interleaving of
\* onWorldUpdateEnd(), workerLoop() and stop().
THEOREM HandOverKept == Spec => Contract!Spec
<1>. DEFINE n == IF serverSnapshot = NoSnapshot THEN 0 ELSE serverSnapshot.capture
            busy == worker = "processing"
            closed == stopping \/ worker = "ended"
<1>1. Init => Contract!Init
  BY DEF Init, Contract!Init
<1>2. ASSUME IInv, [Next]_vars
      PROVE  [Contract!Next]_Contract!vars
  <2>. USE DEF gazeboVars, sharedVars, workerVars, workerEnv
  <2>a. /\ latestSequence \in Nat /\ processedSequence \in Nat
        /\ processedSequence <= latestSequence
        /\ serverSnapshot \in Snapshots \cup {NoSnapshot}
        /\ worker = "processing" =>
               /\ taken \in Snapshots /\ taken.capture = processedSequence
               /\ serverSnapshot # NoSnapshot => serverSnapshot.capture < processedSequence
        /\ serverSnapshot # NoSnapshot => serverSnapshot.capture <= processedSequence
    BY <1>2 DEF IInv, TypeOK, HandOver
  <2>b. \A s \in Snapshots : s.capture \in Nat /\ s.capture > 0
    BY DEF Snapshots
  <2>c. n \in Nat /\ n <= processedSequence
    BY <2>a, <2>b
  <2>d. ASSUME UNCHANGED <<latestSequence, serverSnapshot>>,
               busy' <=> busy, closed' <=> closed
        PROVE  UNCHANGED Contract!vars
    <3>1. n' = n
      BY <2>d
    <3>2. (busy' = busy) /\ (closed' = closed)
      BY <2>d
    <3>. QED  BY <2>d, <3>1, <3>2 DEF Contract!vars
  <2>1. CASE StoreSnapshot
    <3>1. /\ latestSequence' = latestSequence + 1 /\ n' = n
          /\ busy' = busy /\ closed' = closed
      BY <2>1 DEF StoreSnapshot
    <3>. QED  BY <3>1 DEF Contract!Next, Contract!Store
  <2>2. CASE TakeSnapshot
    <3>1. CASE HaveSnapshot
      <4>1. /\ latestSequence' = latestSequence /\ n' = n
            /\ ~busy /\ busy' = TRUE /\ closed' = closed
        BY <2>2, <3>1 DEF TakeSnapshot
      <4>2. n < latestSequence
        BY <2>a, <2>c, <3>1 DEF HaveSnapshot
      <4>. QED  BY <4>1, <4>2 DEF Contract!Next, Contract!Take
    <3>2. CASE ~HaveSnapshot
      BY <2>d, <2>2, <3>2 DEF TakeSnapshot
    <3>. QED  BY <3>1, <3>2
  <2>3. CASE ProcessTaken
    <3>1. /\ latestSequence' = latestSequence /\ n' = taken.capture
          /\ busy /\ busy' = FALSE /\ closed' = closed
      BY <2>a, <2>3, SnapshotAssumption DEF ProcessTaken
    <3>2. n < processedSequence
      BY <2>a, <2>b, <2>3 DEF ProcessTaken
    <3>3. taken.capture = processedSequence
      BY <2>a, <2>3 DEF ProcessTaken
    <3>4. n' \in n + 1 .. latestSequence
      BY <2>a, <2>c, <3>1, <3>2, <3>3
    <3>. QED  BY <3>1, <3>4 DEF Contract!Next, Contract!Consume
  <2>4. CASE WorkerThrows
    <3>1. latestSequence' = latestSequence /\ n' = n /\ busy' = FALSE /\ closed' = TRUE
      BY <2>4 DEF WorkerThrows
    <3>. QED  BY <3>1 DEF Contract!Next, Contract!Fail
  <2>5. CASE Stop
    <3>1. latestSequence' = latestSequence /\ n' = n /\ busy' = busy /\ closed' = TRUE
      BY <2>5 DEF Stop
    <3>. QED  BY <3>1 DEF Contract!Next, Contract!Close
  <2>6. CASE CheckStopping
    <3>1. /\ latestSequence' = latestSequence /\ serverSnapshot' = serverSnapshot
          /\ busy' <=> busy
          /\ closed' <=> closed
      BY <2>6 DEF CheckStopping
    <3>. QED  BY <2>d, <3>1
  <2>7. CASE WorldCreated
    <3>1. worker = "none" /\ ~stopping
      BY <1>2, <2>7 DEF WorldCreated, MayAttach, IInv, Attachment
    <3>. QED  BY <2>d, <2>7, <3>1 DEF WorldCreated
  <2>8. CASE Notify
    BY <2>d, <2>8 DEF Notify
  <2>9. ASSUME \/ \E m \in Models, object \in Objects \cup {NoObject} : WorldChanges(m, object)
               \/ Capture \/ CaptureFails \/ StopReturns \/ Tick \/ UNCHANGED vars
        PROVE  UNCHANGED Contract!vars
    BY <2>d, <2>9 DEF WorldChanges, Capture, CaptureFails, StopReturns, Tick, vars
  <2>10. ASSUME \/ StartServer \/ PublishCycle \/ CheckPredicate \/ FallAsleep \/ Wake
                \/ SpuriousWake
         PROVE  UNCHANGED Contract!vars
    BY <2>d, <2>10 DEF StartServer, PublishCycle, CheckPredicate, FallAsleep, Wake, SpuriousWake
  <2>. QED
    BY <1>2, <2>1, <2>2, <2>3, <2>4, <2>5, <2>6, <2>7, <2>8, <2>9, <2>10 DEF Next, Worker
<1>. QED  BY <1>1, <1>2, InvariantOfSpec, PTL DEF Spec, Contract!Spec

\* Whatever worlds Gazebo creates, onWorldCreated() never assigns a second
\* thread to worker_, which would end the process.
THEOREM OneWorkerOnly == Spec => [][WorldCreated => worker = "none"]_vars
<1>1. IInv /\ [Next]_vars => [WorldCreated => worker = "none"]_vars
  BY DEF WorldCreated, MayAttach, IInv, Attachment
<1>. QED  BY <1>1, InvariantOfSpec, PTL DEF Spec

\* The report cadence is kept: of the last three captures the first is always
\* more than a period old.
THEOREM CaptureCadence == Spec => []CapturesArePaced
<1>1. IInv => CapturesArePaced
  BY PeriodAssumption DEF IInv, CaptureGrid, CapturesArePaced
<1>. QED  BY <1>1, InvariantOfSpec, PTL

\* A snapshot agrees with the world on every model that has been what it is
\* for a scan interval.
THEOREM SnapshotsFollowTheWorld == Spec => SnapshotsFollowWorld
<1>. DEFINE A == built' # NoSnapshot =>
                     \A m \in Models : settled[m] >= ScanInterval /\ built = NoSnapshot
                         => built'.models[m] = world[m]
<1>1. ASSUME IInv, Next, built' # NoSnapshot, built = NoSnapshot,
             NEW m \in Models, settled[m] >= ScanInterval
      PROVE  built'.models[m] = world[m]
  <2>. USE DEF gazeboVars, sharedVars, workerVars, workerEnv
  <2>1. Capture
    BY <1>1 DEF Next, Worker, WorldChanges, WorldCreated, CaptureFails, StoreSnapshot, Stop,
       Notify, StopReturns, StartServer, CheckStopping, TakeSnapshot, ProcessTaken,
       PublishCycle, CheckPredicate, FallAsleep, Wake, SpuriousWake, WorkerThrows, Tick
  <2>2. handles[m] = world[m] \/ settled[m] <= scanAge
    BY <1>1, <2>1 DEF IInv, HandlesCurrent, Capture, CaptureIsDue
  <2>3. settled[m] \in Nat /\ scanAge \in Nat /\ ScanInterval \in Nat
    BY <1>1, PeriodAssumption DEF IInv, TypeOK
  <2>4. handles'[m] = world[m]
    <3>1. CASE ScanIsDue
      BY <2>1, <3>1 DEF Capture
    <3>2. CASE ~ScanIsDue
      <4>1. handles' = handles
        BY <2>1, <3>2 DEF Capture
      <4>2. scanAge < settled[m]
        BY <1>1, <2>3, <3>2 DEF ScanIsDue
      <4>. QED  BY <2>2, <2>3, <4>1, <4>2
    <3>. QED  BY <3>1, <3>2
  <2>5. built'.models = handles'
    BY <2>1 DEF Capture
  <2>. QED  BY <2>4, <2>5
<1>2. IInv /\ [Next]_vars => [A]_vars
  BY <1>1
<1>. HIDE DEF A
<1>3. Spec => [][A]_vars
  BY <1>2, InvariantOfSpec, PTL DEF Spec
<1>. QED  BY <1>3 DEF A, SnapshotsFollowWorld
=============================================================================
