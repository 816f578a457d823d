---------------------------- MODULE MCServerNode ----------------------------
(***************************************************************************)
(* An instance of ServerNode for TLC: one model that is in some messages   *)
(* and not in others, MaxMessages of them, and a system clock that goes up *)
(* to MaxWall and may be set back once to where it started.                *)
(***************************************************************************)
EXTENDS ServerNode, TLC

CONSTANTS MaxMessages, MaxWall, m1, t1

MCPoses == 1 .. MaxMessages
MCStates == {<<>>, <<m1>>}
MCBlank == [wall |-> 0, pose |-> "blank"]

\* Nothing happens to a process that ended, and the names in an invalid message
\* are not read.
BoundedExternal ==
    /\ loop # "ended"
    /\ \/ wall < MaxWall /\ TimePasses
       \/ setBackAfter = {} /\ \E t \in WallTimes : WallIsSet(t)
       \/ \E t \in ClockTimes : ClockArrives(t)
       \/ /\ latestSequence < MaxMessages
          /\ \/ \E names \in States : MessageArrives(names, TRUE)
             \/ MessageArrives(<<>>, FALSE)

MCNext == BoundedExternal \/ Signal \/ Node \/ Throws

MCSpec == NodeInit /\ [][MCNext]_allVars /\ NodeFairness

OneName == m1 :> t1
NoDelay == t1 :> 0
=============================================================================
