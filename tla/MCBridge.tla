------------------------------ MODULE MCBridge ------------------------------
(***************************************************************************)
(* An instance of Bridge for TLC, up to MaxElapsed ticks, with a system    *)
(* clock that is set back by a tick now and then.                          *)
(***************************************************************************)
EXTENDS Bridge, TLC

CONSTANTS MaxElapsed, MaxSetBack, MaxRun, MaxChanges, m1, t1

VARIABLE changes    \* how often the world has changed

mcVars == <<allVars, changes>>

MCInit == BridgeInit /\ changes = 0

MCNext ==
    \/ /\ \/ /\ elapsed < MaxElapsed
             /\ \E simulated \in 0 .. MaxSpeed : TimePasses(simulated)
          \/ \E time \in WallTimes : /\ setBack < MaxSetBack /\ time = wall - 1
                                   /\ ClockIsSet(time)
          \/ \E next \in Poses : SimulationReset(next)
          \/ Capture \/ CaptureFails \/ TakeAndProcess
          \/ \E delay \in Delays : PublishCycle(delay)
       /\ UNCHANGED changes
    \/ /\ changes < MaxChanges /\ changes' = changes + 1
       /\ \E m \in Exported : WorldChanges(m)

MCSpec == MCInit /\ [][MCNext]_mcVars

MCPoses == 1 .. MaxRun
MCBlank == [wall |-> 0, pose |-> "blank"]
OneName == m1 :> t1
NoDelay == t1 :> 0
=============================================================================
