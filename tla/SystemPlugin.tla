---------------------------- MODULE SystemPlugin ----------------------------
(***************************************************************************)
(* GazeboVrpnSystemPlugin (gazebo_vrpn_system_plugin.cpp): two threads.    *)
(* Gazebo's thread calls onWorldCreated(), onWorldUpdateEnd() and, from    *)
(* the destructor, stop(); the worker owns the VrpnTrackerServer and runs  *)
(* workerLoop().  They share a mailbox for the latest snapshot and the     *)
(* flag stopping_.                                                         *)
(*                                                                         *)
(* Time is discrete and every clock is relative to now: `due` is           *)
(* next_cycle - now, `captureIn` is next_capture_time_ - now.  A step of   *)
(* either thread takes any number of ticks.  The wall clock that paces the *)
(* scans and the steady clock that paces the rest advance together.        *)
(*                                                                         *)
(* External: Gazebo's models come and go between callbacks, Gazebo runs    *)
(* the callbacks and the destructor one after the other, and a model that  *)
(* was deleted stays readable through the shared pointer of a handle.      *)
(***************************************************************************)
EXTENDS Integers, FiniteSets

CONSTANTS Period,         \* 1 / publish_rate_hz, in ticks
          ScanInterval,   \* scan_interval_s, in ticks
          Models,         \* names of the models the configuration exports
          Objects,        \* Gazebo model objects, of one or the other incarnation
          NoObject,       \* no model of that name
          NoSnapshot      \* a default constructed or moved-from ModelStateSnapshot

\* A snapshot is known by its place in the order of captures; the pose of a
\* model is read from the object its handle refers to.
Snapshots == [capture : Nat \ {0}, models : [Models -> Objects \cup {NoObject}]]

ASSUME PeriodAssumption == Period \in Nat \ {0} /\ ScanInterval \in Nat \ {0}
ASSUME ObjectAssumption == NoObject \notin Objects
ASSUME SnapshotAssumption == NoSnapshot \notin Snapshots

VARIABLES
    world,           \* external: the object of each model, or NoObject
    attached,        \* world_ is set
    handles,         \* tracked_models_: the object held for each model
    scanAge,         \* time since last_scan_wall_time_s_, up to ScanInterval
    captured,        \* next_capture_time_ is set
    captureIn,       \* next_capture_time_ - now, if it is set
    gazebo,          \* where Gazebo's thread is
    built,           \* the snapshot onWorldUpdateEnd() is about to store
    mailbox,         \* latest_snapshot_
    latestSequence,  \* latest_snapshot_sequence_
    stopping         \* stopping_

VARIABLES
    worker,            \* where the worker is
    taken,             \* its local snapshot
    processedSequence, \* processed_sequence
    due,               \* next_cycle - now
    serverSnapshot     \* what the server processed last

\* History variables, not in the code.
VARIABLES
    captureAges,     \* ages of the last three captures, the last one first
    settled,         \* how long each model of the world has been what it is
    burst,           \* cycles the worker published since the last tick
    late,            \* cycles published past a snapshot in the mailbox
    cyclesToStop     \* cycles published since stopping_ was set

gazeboVars == <<attached, handles, scanAge, captured, captureIn, gazebo, built>>
sharedVars == <<mailbox, latestSequence, stopping>>
workerVars == <<worker, taken, processedSequence, due, serverSnapshot>>
vars == <<world, gazeboVars, sharedVars, workerVars,
          captureAges, settled, burst, late, cyclesToStop>>

Bounded(n, bound) == IF n < bound THEN n ELSE bound

Init == /\ world \in [Models -> Objects \cup {NoObject}]
        /\ \A m, n \in Models : world[m] = world[n] => m = n \/ world[m] = NoObject
        /\ attached = FALSE
        /\ handles = [m \in Models |-> NoObject]
        /\ scanAge = ScanInterval
        /\ captured = FALSE /\ captureIn = 0
        /\ gazebo = "idle"
        /\ built = NoSnapshot
        /\ mailbox = NoSnapshot /\ latestSequence = 0
        /\ stopping = FALSE
        /\ worker = "none"
        /\ taken = NoSnapshot /\ processedSequence = 0
        /\ due = 0
        /\ serverSnapshot = NoSnapshot
        /\ captureAges = [i \in 1 .. 3 |-> Period + 1]
        /\ settled = [m \in Models |-> ScanInterval]
        /\ burst = 0 /\ late = 0 /\ cyclesToStop = 0
-----------------------------------------------------------------------------
(* Gazebo's thread.                                                        *)

\* A model is created or deleted (external), perhaps created again as another
\* object; an object a handle refers to is still alive.
WorldChanges(m, object) ==
    /\ gazebo = "idle"
    /\ object # world[m]
    /\ object # NoObject => /\ \A n \in Models : object # world[n]
                            /\ \A n \in Models : object # handles[n]
    /\ world[m] = NoObject \/ object = NoObject
    /\ world' = [world EXCEPT ![m] = object]
    /\ settled' = [settled EXCEPT ![m] = 0]
    /\ UNCHANGED <<gazeboVars, sharedVars, workerVars, captureAges, burst, late, cyclesToStop>>

\* onWorldCreated() of a world that can be resolved, with ROS initialised and
\* a valid configuration; of any other it leaves world_ unset again, and once
\* a world is attached it ignores the next one.
MayAttach == ~attached

WorldCreated ==
    /\ gazebo = "idle"
    /\ MayAttach
    /\ attached' = TRUE
    /\ stopping' = FALSE
    /\ worker' = "starting"
    /\ UNCHANGED <<world, handles, scanAge, captured, captureIn, gazebo, built,
                   mailbox, latestSequence, taken, processedSequence, due,
                   serverSnapshot, captureAges, settled, burst, late, cyclesToStop>>

\* Mutant of NextCaptureIn: one period on, late or not.
NextCaptureWithoutCatchUp == IF captured THEN captureIn + Period ELSE Period

\* next_capture_time_ goes on in whole periods, past now.
NextCaptureIn ==
    IF captured THEN CHOOSE n \in 1 .. Period : (n - captureIn) % Period = 0 ELSE Period

ScanIsDue == scanAge >= ScanInterval

\* onWorldUpdateEnd(), up to the lock: at most once per period.
CaptureIsDue ==
    /\ gazebo = "idle"
    /\ attached /\ ~stopping
    /\ captured => captureIn <= 0

\* Mutant of Capture: the snapshot is built before the models are refreshed.
CaptureBeforeRefresh ==
    /\ CaptureIsDue
    /\ captured' = TRUE
    /\ captureIn' = NextCaptureIn
    /\ handles' = IF ScanIsDue THEN world ELSE handles
    /\ scanAge' = IF ScanIsDue THEN 0 ELSE scanAge
    /\ built' = [capture |-> latestSequence + 1, models |-> handles]
    /\ gazebo' = "storing"
    /\ captureAges' = <<0, captureAges[1], captureAges[2]>>
    /\ UNCHANGED <<world, attached, sharedVars, workerVars, settled, burst, late, cyclesToStop>>

Capture ==
    /\ CaptureIsDue
    /\ captured' = TRUE
    /\ captureIn' = NextCaptureIn
    /\ handles' = IF ScanIsDue THEN world ELSE handles
    /\ scanAge' = IF ScanIsDue THEN 0 ELSE scanAge
    /\ built' = [capture |-> latestSequence + 1, models |-> handles']
    /\ gazebo' = "storing"
    /\ captureAges' = <<0, captureAges[1], captureAges[2]>>
    /\ UNCHANGED <<world, attached, sharedVars, workerVars, settled, burst, late, cyclesToStop>>

\* An exception is logged; the period is spent, the scan done or not.
CaptureFails ==
    /\ CaptureIsDue
    /\ captured' = TRUE
    /\ captureIn' = NextCaptureIn
    /\ \/ UNCHANGED <<handles, scanAge>>
       \/ ScanIsDue /\ handles' = world /\ scanAge' = 0
    /\ captureAges' = <<0, captureAges[1], captureAges[2]>>
    /\ UNCHANGED <<world, attached, gazebo, built, sharedVars, workerVars,
                   settled, burst, late, cyclesToStop>>

\* The rest of onWorldUpdateEnd(), under snapshot_mutex_.
StoreSnapshot ==
    /\ gazebo = "storing"
    /\ mailbox' = built
    /\ latestSequence' = latestSequence + 1
    /\ built' = NoSnapshot
    /\ gazebo' = "idle"
    /\ UNCHANGED <<world, attached, handles, scanAge, captured, captureIn, stopping,
                   workerVars, captureAges, settled, burst, late, cyclesToStop>>

\* stop() does not hold worker_wait_mutex_ when it sets the flag.
Stop ==
    /\ gazebo = "idle"
    /\ stopping' = TRUE
    /\ gazebo' = "notifying"
    /\ UNCHANGED <<world, attached, handles, scanAge, captured, captureIn, built,
                   mailbox, latestSequence, workerVars,
                   captureAges, settled, burst, late, cyclesToStop>>

\* notify_all() reaches the worker only if it sleeps by now.
Notify ==
    /\ gazebo = "notifying"
    /\ worker' = IF worker = "sleeping" THEN "waiting" ELSE worker
    /\ gazebo' = "joining"
    /\ UNCHANGED <<world, attached, handles, scanAge, captured, captureIn, built, sharedVars,
                   taken, processedSequence, due, serverSnapshot,
                   captureAges, settled, burst, late, cyclesToStop>>

\* join(), if there is a thread; then the handles and the world are released.
StopReturns ==
    /\ gazebo = "joining"
    /\ worker \in {"none", "ended"}
    /\ handles' = [m \in Models |-> NoObject]
    /\ attached' = FALSE
    /\ gazebo' = "stopped"
    /\ UNCHANGED <<world, scanAge, captured, captureIn, built, sharedVars, workerVars,
                   captureAges, settled, burst, late, cyclesToStop>>
-----------------------------------------------------------------------------
(* The worker.                                                             *)

workerEnv == <<world, gazeboVars, captureAges, settled>>

\* The server is constructed and the first cycle is due at once.
StartServer ==
    /\ worker = "starting"
    /\ worker' = "running"
    /\ due' = 0
    /\ UNCHANGED <<workerEnv, sharedVars, taken, processedSequence, serverSnapshot,
                   burst, late, cyclesToStop>>

\* Mutant of CheckStopping: the loop does not look at the flag.
CheckNothing ==
    /\ worker = "running"
    /\ worker' = "taking"
    /\ UNCHANGED <<workerEnv, sharedVars, taken, processedSequence, due, serverSnapshot,
                   burst, late, cyclesToStop>>

CheckStopping ==
    /\ worker = "running"
    /\ worker' = IF stopping THEN "ended" ELSE "taking"
    /\ UNCHANGED <<workerEnv, sharedVars, taken, processedSequence, due, serverSnapshot,
                   burst, late, cyclesToStop>>

\* Mutant of HaveSnapshot: one snapshot is always left for later.
HaveTwoSnapshots == latestSequence > processedSequence + 1

HaveSnapshot == latestSequence # processedSequence

\* Mutants of TakeSnapshot: the sequence number is not remembered; nor is it, and
\* the snapshot is copied; the worker does not wait for the lock.
TakeMovedFrom ==
    /\ worker = "taking"
    /\ worker' = IF HaveSnapshot THEN "processing" ELSE "publishing"
    /\ taken' = IF HaveSnapshot THEN mailbox ELSE NoSnapshot
    /\ mailbox' = IF HaveSnapshot THEN NoSnapshot ELSE mailbox
    /\ processedSequence' = processedSequence
    /\ late' = IF HaveSnapshot THEN 0 ELSE late
    /\ UNCHANGED <<workerEnv, latestSequence, stopping, due, serverSnapshot, burst, cyclesToStop>>

TakeAgain ==
    /\ worker = "taking"
    /\ worker' = IF HaveSnapshot THEN "processing" ELSE "publishing"
    /\ taken' = IF HaveSnapshot THEN mailbox ELSE NoSnapshot
    /\ mailbox' = mailbox
    /\ processedSequence' = processedSequence
    /\ late' = IF HaveSnapshot THEN 0 ELSE late
    /\ UNCHANGED <<workerEnv, latestSequence, stopping, due, serverSnapshot, burst, cyclesToStop>>

TakeIfUnlocked ==
    LET take == HaveSnapshot /\ gazebo # "storing"
    IN /\ worker = "taking"
       /\ worker' = IF take THEN "processing" ELSE "publishing"
       /\ taken' = IF take THEN mailbox ELSE NoSnapshot
       /\ mailbox' = IF take THEN NoSnapshot ELSE mailbox
       /\ processedSequence' = IF take THEN latestSequence ELSE processedSequence
       /\ late' = IF take THEN 0 ELSE late
       /\ UNCHANGED <<workerEnv, latestSequence, stopping, due, serverSnapshot, burst,
                      cyclesToStop>>

\* Under snapshot_mutex_: the mailbox is left with a moved-from snapshot.
TakeSnapshot ==
    /\ worker = "taking"
    /\ worker' = IF HaveSnapshot THEN "processing" ELSE "publishing"
    /\ taken' = IF HaveSnapshot THEN mailbox ELSE NoSnapshot
    /\ mailbox' = IF HaveSnapshot THEN NoSnapshot ELSE mailbox
    /\ processedSequence' = latestSequence
    /\ late' = IF HaveSnapshot THEN 0 ELSE late
    /\ UNCHANGED <<workerEnv, latestSequence, stopping, due, serverSnapshot, burst, cyclesToStop>>

\* server.processSnapshot().
ProcessTaken ==
    /\ worker = "processing"
    /\ serverSnapshot' = taken
    /\ worker' = "publishing"
    /\ UNCHANGED <<workerEnv, sharedVars, taken, processedSequence, due,
                   burst, late, cyclesToStop>>

\* Mutants of NextDue: the missed cycles are never given up; one period too many.
NextDueAlwaysOnGrid == due + Period
NextDueTooLate == IF due + 2 * Period < 0 THEN 2 * Period ELSE due + Period

\* Where the next cycle is due: a worker that is more than a period behind
\* gives up the cycles it missed.
NextDue == IF due + 2 * Period < 0 THEN Period ELSE due + Period

\* server.publish(), server.mainloop() and the pacing after them.
PublishCycle ==
    /\ worker = "publishing"
    /\ worker' = "waiting"
    /\ due' = NextDue
    /\ burst' = burst + 1
    /\ late' = IF HaveSnapshot THEN late + 1 ELSE late
    /\ cyclesToStop' = IF stopping THEN cyclesToStop + 1 ELSE cyclesToStop
    /\ UNCHANGED <<workerEnv, sharedVars, taken, processedSequence, serverSnapshot>>

\* wait_until() evaluates its predicate before it sleeps, holding a mutex that
\* stop() does not take: flag and notification may both come in between.
CheckPredicate ==
    /\ worker = "waiting"
    /\ worker' = IF stopping THEN "running" ELSE "dozing"
    /\ UNCHANGED <<workerEnv, sharedVars, taken, processedSequence, due, serverSnapshot,
                   burst, late, cyclesToStop>>

FallAsleep ==
    /\ worker = "dozing"
    /\ worker' = "sleeping"
    /\ UNCHANGED <<workerEnv, sharedVars, taken, processedSequence, due, serverSnapshot,
                   burst, late, cyclesToStop>>

\* Mutant of TimedOut: a wait without a timeout.
NeverTimedOut == FALSE

TimedOut == due <= 0

Wake ==
    /\ worker = "sleeping"
    /\ TimedOut
    /\ worker' = "running"
    /\ UNCHANGED <<workerEnv, sharedVars, taken, processedSequence, due, serverSnapshot,
                   burst, late, cyclesToStop>>

SpuriousWake ==
    /\ worker = "sleeping"
    /\ ~TimedOut
    /\ worker' = "waiting"
    /\ UNCHANGED <<workerEnv, sharedVars, taken, processedSequence, due, serverSnapshot,
                   burst, late, cyclesToStop>>

\* Whatever the server throws ends the thread, and only the thread.
WorkerThrows ==
    /\ worker \in {"starting", "processing", "publishing"}
    /\ worker' = "ended"
    /\ UNCHANGED <<workerEnv, sharedVars, taken, processedSequence, due, serverSnapshot,
                   burst, late, cyclesToStop>>
-----------------------------------------------------------------------------
\* Time passes for both.  A clock that is periods behind only matters as "too
\* late" (due) or by its phase (captureIn), and is kept within bounds.
Tick ==
    /\ due' = IF due < -3 * Period THEN due ELSE due - 1
    /\ captureIn' = IF ~captured THEN captureIn
                    ELSE IF captureIn = 1 - 2 * Period THEN -Period ELSE captureIn - 1
    /\ scanAge' = Bounded(scanAge + 1, ScanInterval)
    /\ captureAges' = [i \in 1 .. 3 |-> Bounded(captureAges[i] + 1, Period + 1)]
    /\ settled' = [m \in Models |-> Bounded(settled[m] + 1, ScanInterval)]
    /\ burst' = 0
    /\ UNCHANGED <<world, attached, handles, captured, gazebo, built, sharedVars,
                   worker, taken, processedSequence, serverSnapshot, late, cyclesToStop>>

Worker == \/ StartServer \/ CheckStopping \/ TakeSnapshot \/ ProcessTaken
          \/ PublishCycle \/ CheckPredicate \/ FallAsleep \/ Wake

Next == \/ \E m \in Models, object \in Objects \cup {NoObject} : WorldChanges(m, object)
        \/ WorldCreated
        \/ Capture \/ CaptureFails \/ StoreSnapshot
        \/ Stop \/ Notify \/ StopReturns
        \/ Worker \/ SpuriousWake \/ WorkerThrows
        \/ Tick

Spec == Init /\ [][Next]_vars

\* The scheduler runs a thread that can run, and time goes on.  Nothing says
\* that Gazebo ever calls back, that the plugin is ever destroyed, or that a
\* wait ever ends without a notification or its timeout.
Fairness == /\ WF_vars(Worker)
            /\ WF_vars(StoreSnapshot) /\ WF_vars(Notify) /\ WF_vars(StopReturns)
            /\ WF_vars(Tick)

FairSpec == Spec /\ Fairness
-----------------------------------------------------------------------------
(* Properties.                                                             *)

\* Type invariant.
TypeOK ==
    /\ world \in [Models -> Objects \cup {NoObject}]
    /\ handles \in [Models -> Objects \cup {NoObject}]
    /\ attached \in BOOLEAN /\ stopping \in BOOLEAN /\ captured \in BOOLEAN
    /\ scanAge \in 0 .. ScanInterval
    /\ captureIn \in 1 - 2 * Period .. Period
    /\ gazebo \in {"idle", "storing", "notifying", "joining", "stopped"}
    /\ {built, mailbox, taken, serverSnapshot} \subseteq Snapshots \cup {NoSnapshot}
    /\ latestSequence \in Nat /\ processedSequence \in Nat
    /\ worker \in {"none", "starting", "running", "taking", "processing",
                   "publishing", "waiting", "dozing", "sleeping", "ended"}
    /\ due \in -3 * Period - 1 .. Period
    /\ captureAges \in [1 .. 3 -> 0 .. Period + 1]
    /\ settled \in [Models -> 0 .. ScanInterval]
    /\ burst \in Nat /\ late \in Nat /\ cyclesToStop \in Nat

\* The server never processes the moved-from snapshot that the worker leaves
\* in the mailbox: to the server it would look like a reset of the simulation.
TakenIsWhole == worker = "processing" => taken # NoSnapshot

\* At most one cycle is published past a snapshot that was already stored:
\* the one that had looked into the mailbox just before.
AtMostOneCycleLate == late <= 1

\* A worker that fell behind publishes the cycle it was late with and at most
\* two more before it waits for time to pass.
CatchUpIsBounded == burst <= 3

\* Snapshots are captured at the report cadence: the first and the last of any
\* three captures are more than a period apart, also when updates come late or
\* many of them within one instant.
CapturesArePaced == captureAges[3] > Period

\* A snapshot has every model that has been in the world for a scan interval,
\* and neither a model nor a former incarnation of one that has been gone
\* that long.
SnapshotsFollowWorld ==
    [][built' # NoSnapshot =>
           \A m \in Models : settled[m] >= ScanInterval /\ built = NoSnapshot
               => built'.models[m] = world[m]]_vars

\* Once stop() has set the flag the worker publishes at most the cycle that it
\* had begun, even if the notification is lost.
StopsWithinACycle == cyclesToStop <= 1

\* stop() returns: join() does not wait forever, although stop() may notify
\* the worker between the check of the flag and the sleep.
StopTerminates == stopping ~> gazebo = "stopped"

\* The hand-over keeps its contract: whatever the interleaving, the server
\* processes snapshots in the order of their capture, none twice (a repeated
\* one would restart the velocities, an older one reset the history), and no
\* snapshot stays in the mailbox unless a newer one replaces it, the worker is
\* stopped or the server throws.
Contract == INSTANCE SnapshotHandOver WITH
                stored <- latestSequence,
                busy <- worker = "processing",
                consumed <- IF serverSnapshot = NoSnapshot THEN 0 ELSE serverSnapshot.capture,
                closed <- stopping \/ worker = "ended"

HandsOverSnapshots == Contract!FairSpec
=============================================================================
