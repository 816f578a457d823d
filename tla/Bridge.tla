------------------------------- MODULE Bridge -------------------------------
(***************************************************************************)
(* The plugin and the TrackerServer that its worker owns, as one system:   *)
(* what the models of the world and the simulation time go through on      *)
(* their way to the trackers.  SystemPlugin has the steps of the hand-over *)
(* one by one, and its start and stop; here a capture, with the storing of *)
(* its snapshot, is one step, and so are the taking and the processing of  *)
(* one, each of which works on data of one thread only.                    *)
(*                                                                         *)
(* Three clocks: `elapsed` is the steady clock, one tick per publish       *)
(* period; `wall` is the system clock, which may be set; `simTime` is      *)
(* Gazebo's, which may stand still and may be reset, and advances by at    *)
(* most MaxSpeed per tick.  A pose is known by the run of the simulation,  *)
(* numbered in their order, in which it was captured.                      *)
(***************************************************************************)
EXTENDS TrackerServer, FiniteSets

CONSTANTS FirstWall,    \* the system clock when the plugin starts
          WallTimes,    \* what it may be set to
          MaxSpeed,     \* the largest real time factor of the simulation
          NoSnapshot    \* a moved-from snapshot

ASSUME BridgeAssumption ==
    /\ FirstWall \in Nat \ {0} /\ WallTimes \subseteq Nat \ {0}
    /\ MaxSpeed \in Nat /\ Poses \subseteq Nat /\ 1 \in Poses
    /\ IsFiniteSet(Models)

VARIABLES
    elapsed, wall, simTime, run,  \* external
    world,          \* external: the exported models that exist
    handles,        \* tracked_models_ of the plugin
    lastRefresh,    \* last_scan_wall_time_s_ of the plugin, 0 before the first scan
    captureDue,     \* next_capture_time_ has come
    mailbox,        \* latest_snapshot_, if it was not yet taken
    worker          \* where the worker is

\* History variables, not in the code.
VARIABLES
    setBack,        \* by how much the system clock was set back, in all
    since,          \* when each model was last created or deleted
    processed       \* the snapshot the server processed last

externalVars == <<elapsed, wall, simTime, run, world, setBack, since>>
pluginVars == <<handles, lastRefresh, captureDue>>
allVars == <<vars, externalVars, pluginVars, mailbox, worker, processed>>

Exported == {m \in Models : TrackerNameFor[m] # NoTracker}

BridgeInit ==
    /\ Init
    /\ elapsed = 0 /\ wall = FirstWall /\ simTime = 0 /\ run = 1
    /\ world \in SUBSET Exported /\ handles = {}
    /\ lastRefresh = 0 /\ captureDue = TRUE
    /\ mailbox = NoSnapshot /\ processed = NoSnapshot /\ worker = "taking"
    /\ setBack = 0 /\ since = [m \in Models |-> 0]
-----------------------------------------------------------------------------
(* What happens around the bridge.                                         *)

TimePasses(simulated) ==
    /\ elapsed' = elapsed + 1 /\ wall' = wall + 1
    /\ simTime' = simTime + simulated
    /\ captureDue' = TRUE
    /\ UNCHANGED <<vars, run, world, setBack, since, handles, lastRefresh, mailbox, worker,
                   processed>>

ClockIsSet(time) ==
    /\ wall' = time
    /\ setBack' = IF time < wall THEN setBack + (wall - time) ELSE setBack
    /\ UNCHANGED <<vars, elapsed, simTime, run, world, since, pluginVars, mailbox, worker,
                   processed>>

SimulationReset(next) ==
    /\ next > run /\ run' = next
    /\ simTime' = 0
    /\ UNCHANGED <<vars, elapsed, wall, world, setBack, since, pluginVars, mailbox, worker,
                   processed>>

\* A model is created or deleted.
WorldChanges(m) ==
    /\ world' = IF m \in world THEN world \ {m} ELSE world \cup {m}
    /\ since' = [since EXCEPT ![m] = elapsed]
    /\ UNCHANGED <<vars, elapsed, wall, simTime, run, setBack, pluginVars, mailbox, worker,
                   processed>>
-----------------------------------------------------------------------------
(* Gazebo's thread: onWorldUpdateEnd().                                    *)

RefreshIsDue == lastRefresh = 0 \/ wall - lastRefresh >= ScanInterval

\* Mutant of Refresh: the time is noted whether the models are refreshed or not.
RefreshNotingEveryCall ==
    /\ handles' = IF RefreshIsDue THEN world ELSE handles
    /\ lastRefresh' = wall

\* refreshTrackedModels().
Refresh ==
    /\ handles' = IF RefreshIsDue THEN world ELSE handles
    /\ lastRefresh' = IF RefreshIsDue THEN wall ELSE lastRefresh

\* A snapshot of these models; at, setBack, run, world and since are history.
SnapshotOf(order) ==
    [data |-> [source |-> "simulation_time", sampleTime |-> simTime, captureWall |-> wall,
               models |-> [i \in DOMAIN order |-> [name |-> order[i], pose |-> run]]],
     at |-> elapsed, setBack |-> setBack, run |-> run, world |-> world, since |-> since]

\* The models in the order Gazebo lists them in.
Orders(models) ==
    {order \in [1 .. Cardinality(models) -> models] :
        \A i, j \in DOMAIN order : order[i] = order[j] => i = j}

Capture ==
    /\ captureDue
    /\ captureDue' = FALSE
    /\ Refresh
    /\ \E order \in Orders(handles') : mailbox' = SnapshotOf(order)
    /\ UNCHANGED <<vars, externalVars, worker, processed>>

\* An exception is logged, before or after the scan, and the period is spent.
CaptureFails ==
    /\ captureDue
    /\ captureDue' = FALSE
    /\ Refresh \/ UNCHANGED <<handles, lastRefresh>>
    /\ UNCHANGED <<vars, externalVars, mailbox, worker, processed>>
-----------------------------------------------------------------------------
(* The worker.                                                             *)

TakeAndProcess ==
    /\ worker = "taking"
    /\ worker' = "publishing"
    /\ mailbox' = NoSnapshot
    /\ IF mailbox # NoSnapshot
       THEN processed' = mailbox /\ ProcessSnapshot(mailbox.data)
       ELSE UNCHANGED <<vars, processed>>
    /\ UNCHANGED <<externalVars, pluginVars>>

PublishCycle(delay) ==
    /\ worker = "publishing"
    /\ worker' = "taking"
    /\ Publish(wall, delay)
    /\ UNCHANGED <<externalVars, pluginVars, mailbox, processed>>

BridgeNext ==
    \/ \E simulated \in 0 .. MaxSpeed : TimePasses(simulated)
    \/ \E time \in WallTimes : ClockIsSet(time)
    \/ \E next \in Poses : SimulationReset(next)
    \/ \E m \in Exported : WorldChanges(m)
    \/ Capture \/ CaptureFails
    \/ TakeAndProcess
    \/ \E delay \in Delays : PublishCycle(delay)

BridgeSpec == BridgeInit /\ [][BridgeNext]_allVars
-----------------------------------------------------------------------------
(* Properties.                                                             *)

\* The plugin and the server each scan by the system clock, one after the
\* other: the tracker of a model that has been in the world for two scan
\* intervals when a snapshot is captured is served once it is processed, if
\* not by this model.  Setting the clock back adds what it was set back by.
RegisteredWithinTwoScans ==
    processed # NoSnapshot =>
        \A m \in processed.world :
            processed.at - processed.since[m] >= 2 * ScanInterval + processed.setBack
                => TrackerNameFor[m] \in DOMAIN trackerNames

\* A model that was deleted a scan interval before the snapshot is no longer
\* reported, although its handle stays readable and its tracker stays
\* registered.
DeletedModelsFallSilent ==
    processed # NoSnapshot =>
        \A m \in DOMAIN tracked \ processed.world :
            processed.at - processed.since[m] >= ScanInterval + processed.setBack
                => tracked[m].tracker \notin Reportable

\* A reset of the simulation can only go unnoticed by the server if the new
\* run had the time, since the last snapshot it processed, to get as far as
\* the old one was.  If not, nothing from before the reset is left.
ResetsAreNoticed ==
    [][processed' # processed /\ processed # NoSnapshot =>
           \/ processed'.run = processed.run
           \/ processed.data.sampleTime <= MaxSpeed * (processed'.at - processed.at)
           \/ \A m \in DOMAIN tracked' : \A s \in Held(tracked'[m].history) :
                  Origins(s) \subseteq {processed'.run}]_allVars
=============================================================================
