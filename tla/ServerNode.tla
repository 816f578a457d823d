----------------------------- MODULE ServerNode -----------------------------
(***************************************************************************)
(* GazeboVrpnServerNode (gazebo_vrpn_server_node.cpp), the legacy ROS      *)
(* process, composed with the TrackerServer it owns.  One thread runs      *)
(* main() and spin(); the ModelStates messages it receives are numbered as *)
(* the node accepts them, and a pose is known by the number of its message.*)
(*                                                                         *)
(* External: roscpp keeps the newest message in a queue of one, and a      *)
(* thread of its own takes in /clock, on which use_sim_time bases          *)
(* ros::Time::now(): the two topics arrive independently of each other,    *)
(* and of the steps of the node.  A message is lost when a newer one       *)
(* replaces it.  ros::WallTime is the system clock, which may be set.  A   *)
(* signal may come at any time.                                            *)
(***************************************************************************)
EXTENDS TrackerServer

CONSTANTS States,      \* the model names of a message, in its order
          ClockTimes,  \* the times /clock may tell; zero is also "none yet"
          WallTimes,   \* the times the system clock may start at or be set to
          NoMessage

\* The wall clock counts from 1970, a simulation from its start.
ASSUME ClockAssumption ==
    /\ WallTimes \subseteq Nat /\ ClockTimes \subseteq Nat
    /\ \A t \in ClockTimes, w \in WallTimes : t + DerivativeResetTimeout < w
ASSUME StatesAssumption ==
    /\ \A names \in States : names \in Seq(Models)
                             /\ \A i, j \in DOMAIN names : names[i] = names[j] => i = j
    /\ NoMessage \notin [valid : BOOLEAN, names : States]
ASSUME PosesAreNumbers == Poses \subseteq Nat \ {0}

VARIABLES
    wall,               \* external: ros::WallTime::now()
    clock,              \* external: ros::Time::now(), zero before /clock
    inbox,              \* external: the subscription's queue of one message
    latest,             \* latest_model_states_
    latestWall,         \* latest_model_states_wall_time_
    latestSequence,     \* latest_model_states_sequence_
    processedSequence,  \* processed_model_states_sequence_
    loop,               \* where spin() is
    shutdown            \* g_shutdown_requested, or ros::ok() is false

\* History variables, not in the code.
VARIABLES
    arrival,            \* the wall time at which each message was accepted
    basis,              \* the clock the sample time of each message is from
    served,             \* the message the server processed last
    clockWentBack,      \* /clock moved backwards since then
    setBackAfter        \* the messages after which the system clock was set back

clockVars == <<wall, clock, clockWentBack, setBackAfter>>
externalVars == <<clockVars, inbox>>
nodeVars == <<latest, latestWall, latestSequence, processedSequence, shutdown>>
traceVars == <<arrival, basis, served>>
allVars == <<vars, externalVars, nodeVars, loop, traceVars>>

NodeInit ==
    /\ Init
    /\ wall \in WallTimes /\ clock = 0 /\ inbox = NoMessage
    /\ latest = NoMessage /\ latestWall = 0
    /\ latestSequence = 0 /\ processedSequence = 0
    /\ loop = "starting" /\ shutdown = FALSE
    /\ arrival = [n \in Poses |-> 0] /\ basis = [n \in Poses |-> "none"]
    /\ served = 0 /\ clockWentBack = FALSE /\ setBackAfter = {}
-----------------------------------------------------------------------------
(* What happens to the node.                                               *)

TimePasses ==
    /\ wall' = wall + 1
    /\ UNCHANGED <<vars, clock, clockWentBack, setBackAfter, inbox, nodeVars, loop, traceVars>>

WallIsSet(t) ==
    /\ wall' = t
    /\ setBackAfter' = IF t < wall THEN setBackAfter \cup {latestSequence} ELSE setBackAfter
    /\ UNCHANGED <<vars, clock, clockWentBack, inbox, nodeVars, loop, traceVars>>

\* The simulation may have been paused, advanced, or reset.
ClockArrives(t) ==
    /\ clock' = t
    /\ clockWentBack' = (clockWentBack \/ t < clock)
    /\ UNCHANGED <<vars, wall, setBackAfter, inbox, nodeVars, loop, traceVars>>

\* The queue drops what is in it.  A message is valid if it has as many poses
\* as names.
MessageArrives(names, valid) ==
    /\ loop # "starting"
    /\ inbox' = [valid |-> valid, names |-> names]
    /\ UNCHANGED <<vars, clockVars, nodeVars, loop, traceVars>>

Signal ==
    /\ shutdown' = TRUE
    /\ UNCHANGED <<vars, externalVars, latest, latestWall, latestSequence,
                   processedSequence, loop, traceVars>>
-----------------------------------------------------------------------------
(* The thread of the node.                                                 *)

\* The constructor: the configuration, the server, then the subscription.
Construct ==
    /\ loop = "starting"
    /\ loop' = "running"
    /\ UNCHANGED <<vars, externalVars, nodeVars, traceVars>>

CheckRunning ==
    /\ loop = "running"
    /\ loop' = IF shutdown THEN "ended" ELSE "spinning"
    /\ UNCHANGED <<vars, externalVars, nodeVars, traceVars>>

\* Mutant of ModelStatesCallback: the time is noted before the message is checked.
ModelStatesCallbackNotingTime ==
    /\ loop = "spinning" /\ inbox # NoMessage
    /\ inbox' = NoMessage
    /\ latestWall' = wall
    /\ IF inbox.valid
       THEN /\ latest' = inbox
            /\ latestSequence' = latestSequence + 1
            /\ arrival' = [arrival EXCEPT ![latestSequence + 1] = wall]
       ELSE UNCHANGED <<latest, latestSequence, arrival>>
    /\ UNCHANGED <<vars, clockVars, processedSequence, loop, shutdown,
                   basis, served>>

\* spinOnce() calls modelStatesCallback(), which rejects an invalid message.
ModelStatesCallback ==
    /\ loop = "spinning" /\ inbox # NoMessage
    /\ inbox' = NoMessage
    /\ IF inbox.valid
       THEN /\ latest' = inbox
            /\ latestWall' = wall
            /\ latestSequence' = latestSequence + 1
            /\ arrival' = [arrival EXCEPT ![latestSequence + 1] = wall]
       ELSE UNCHANGED <<latest, latestWall, latestSequence, arrival>>
    /\ UNCHANGED <<vars, clockVars, processedSequence, loop, shutdown,
                   basis, served>>

EndSpinOnce ==
    /\ loop = "spinning"
    /\ loop' = "taking"
    /\ UNCHANGED <<vars, externalVars, nodeVars, traceVars>>

\* Mutant of HaveMessage: the sequence numbers are not compared.
HaveAnyMessage == latest # NoMessage

HaveMessage == latest # NoMessage /\ latestSequence # processedSequence

\* processLatestModelStates(), up to where it reads the time.
TakeLatest ==
    /\ loop = "taking"
    /\ loop' = IF HaveMessage THEN "processing" ELSE "publishing"
    /\ processedSequence' = IF HaveMessage THEN latestSequence ELSE processedSequence
    /\ UNCHANGED <<vars, externalVars, latest, latestWall, latestSequence, shutdown, traceVars>>

\* sampleTimeSeconds(): before any /clock, the wall time of the message.
ClockIsKnown == clock # 0
SampleTime == IF ClockIsKnown THEN clock ELSE latestWall
Basis == IF ClockIsKnown THEN "clock" ELSE "wall"

NodeSnapshot ==
    [source |-> "wall_time", sampleTime |-> SampleTime, captureWall |-> latestWall,
     models |-> [i \in DOMAIN latest.names |->
                    [name |-> latest.names[i], pose |-> latestSequence]]]

\* The rest of processLatestModelStates().
ProcessLatest ==
    /\ loop = "processing"
    /\ ProcessSnapshot(NodeSnapshot)
    /\ loop' = "publishing"
    /\ basis' = [basis EXCEPT ![latestSequence] = Basis]
    /\ served' = latestSequence
    /\ clockWentBack' = FALSE
    /\ UNCHANGED <<wall, clock, setBackAfter, inbox, nodeVars, arrival>>

\* server_.publish() and server_.mainloop().
PublishCycle(delay) ==
    /\ loop = "publishing"
    /\ Publish(wall, delay)
    /\ loop' = "sleeping"
    /\ UNCHANGED <<externalVars, nodeVars, traceVars>>

\* rate.sleep() returns at once when the cycle took too long.
WakeUp ==
    /\ loop = "sleeping"
    /\ loop' = "running"
    /\ UNCHANGED <<vars, externalVars, nodeVars, traceVars>>

\* main() catches what the constructor or the server throws, and returns.
Throws ==
    /\ loop \in {"starting", "processing", "publishing"}
    /\ loop' = "ended"
    /\ UNCHANGED <<vars, externalVars, nodeVars, traceVars>>

External ==
    \/ TimePasses \/ Signal
    \/ \E t \in WallTimes : WallIsSet(t)
    \/ \E t \in ClockTimes : ClockArrives(t)
    \/ \E names \in States, valid \in BOOLEAN : MessageArrives(names, valid)

Node ==
    \/ Construct \/ CheckRunning \/ ModelStatesCallback \/ EndSpinOnce
    \/ TakeLatest \/ ProcessLatest \/ WakeUp
    \/ \E delay \in Delays : PublishCycle(delay)

NodeNext == External \/ Node \/ Throws

NodeSpec == NodeInit /\ [][NodeNext]_allVars

\* The thread runs, and spinOnce() calls no more than what was queued before.
NodeFairness == WF_allVars(Node) /\ WF_allVars(EndSpinOnce)
-----------------------------------------------------------------------------
(* Properties.                                                             *)

\* The node keeps the contract of the hand-over too: it processes messages in
\* the order it accepted them and none twice, and leaves none unprocessed but
\* for a newer one, until it is shut down or the server throws.
Contract == INSTANCE SnapshotHandOver WITH
                stored <- latestSequence, busy <- loop = "processing",
                consumed <- served, closed <- shutdown \/ loop = "ended"

HandsOverMessages == Contract!FairSpec

\* Each sample has the wall time at which its own message arrived, and the
\* samples of a model are of different messages in the order they were accepted,
\* whatever was lost, rejected or waited in between.
SamplesAreArrivals ==
    \A m \in DOMAIN tracked :
        LET h == tracked[m].history
        IN \A k \in Offsets(h) :
               /\ SampleAt(h, k).wall = arrival[SampleAt(h, k).pose]
               /\ k > 0 => SampleAt(h, k - 1).pose < SampleAt(h, k).pose

\* No velocity or acceleration is computed from a pose on simulation time and
\* one on the wall time that stands in for it: when /clock begins, or tells
\* zero after a reset, the derivatives start anew.
DerivativesUseOneClock ==
    \A m \in DOMAIN tracked : \A s \in Held(tracked[m].history) :
        \A p, q \in s.velocity \cup s.acceleration : basis[p] = basis[q]

\* The system clock was set back after one message and before another one.
SetBackBetween(m, n) == \E k \in setBackAfter : m <= k /\ k < n

\* The newest sample of a model is lost only when the sample time changes its
\* clock, or the clock it is on went back: /clock since the last message was
\* processed, the wall clock between the arrivals of that message and of this
\* one.  A pause, a lost or rejected message, an empty world or a system clock
\* that is set while the samples are on /clock resets nothing.
ResetsHaveACause ==
    [][\A m \in DOMAIN tracked :
           ~IsEmpty(tracked[m].history) =>
               \/ Latest(tracked[m].history) \in Held(tracked'[m].history)
               \/ basis[served] # Basis
               \/ Basis = "clock" /\ clockWentBack
               \/ Basis = "wall" /\ SetBackBetween(served, latestSequence)]_allVars
=============================================================================
