-------------------------- MODULE MCTrackerServer --------------------------
(***************************************************************************)
(* Instances of TrackerServer for TLC.  The server is called the way its   *)
(* adapters call it: from one thread, with snapshots captured at most once *)
(* per publish period and in the order of the wall clock, and published    *)
(* after they were captured.  The simulation time of a snapshot is free    *)
(* (it advances, stands still, jumps and is reset), and so is the choice   *)
(* of the models in it.                                                    *)
(***************************************************************************)
EXTENDS TrackerServer, SequencesExt

CONSTANTS SampleTimes,  \* simulation times of snapshots
          MaxWall,      \* bound on the wall clock
          MaxGap,       \* longest wall time between two snapshots
          MaxEra        \* bound on the number of timelines

VARIABLES now,          \* the wall clock at the last snapshot
          era           \* the number of timelines that have ended

mcVars == <<vars, now, era>>

MCPoses == 0 .. MaxEra
MCBlank == [wall |-> 0, pose |-> "blank"]

\* A pose is known by the timeline it was captured in.
MCSnapshots == {[source |-> src, sampleTime |-> t, captureWall |-> wall,
                 models |-> [i \in DOMAIN order |-> [name |-> order[i], pose |-> p]]] :
                src \in Sources, t \in SampleTimes, wall \in 1 .. MaxWall,
                order \in UNION {SetToSeqs(present) : present \in SUBSET Models},
                p \in MCPoses}
MCSendTimes == 1 .. MaxWall + 1

MCInit == Init /\ now = 0 /\ era = 0

MCProcess(snap) ==
    /\ snap.captureWall \in now + 1 .. now + MaxGap
    /\ now' = snap.captureWall
    /\ era' = IF EndsTimeline(snap) THEN era + 1 ELSE era
    /\ era' <= MaxEra
    /\ \A i \in DOMAIN snap.models : snap.models[i].pose = era'
    /\ ProcessSnapshot(snap)

MCPublish(sendWall, delay) ==
    /\ sendWall \in {now, now + 1}
    /\ Publish(sendWall, delay)
    /\ UNCHANGED <<now, era>>

MCNext == \/ \E snap \in Snapshots : MCProcess(snap)
          \/ \E sendWall \in SendTimes, delay \in Delays : MCPublish(sendWall, delay)

MCSpec == MCInit /\ [][MCNext]_mcVars
-----------------------------------------------------------------------------
(* Values of the constants.                                                *)

\* Two models that share a tracker name, one with its own, one not exported.
CONSTANTS m1, m2, m3, m4, t1, t2, none
SharedNames == (m1 :> t1) @@ (m2 :> t1) @@ (m3 :> t2) @@ (m4 :> none)
OneName == m1 :> t1
NoDelay == (t1 :> 0) @@ (t2 :> 0)
DelayOfOne == t1 :> 1
DelayOfFour == t1 :> 4
=============================================================================
