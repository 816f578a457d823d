-------------------------- MODULE SnapshotHandOver --------------------------
(***************************************************************************)
(* What both adapters, the Gazebo plugin and the ROS node, promise the     *)
(* server they drive: of the states of the simulation that they store, one *)
(* replacing the other, the server processes some, in their order and none *)
(* twice; and it is never left with a newer one waiting, until the adapter *)
(* is told to stop or the server fails.                                    *)
(***************************************************************************)
EXTENDS Naturals

VARIABLES stored,    \* how many states have been stored; each replaces the last
          busy,      \* the server has been given one
          consumed,  \* the number of the last one it processed
          closed     \* the adapter is stopping, or the server has failed

vars == <<stored, busy, consumed, closed>>

Init == stored = 0 /\ busy = FALSE /\ consumed = 0 /\ closed = FALSE

Store == /\ stored' = stored + 1
         /\ UNCHANGED <<busy, consumed, closed>>

Take == /\ ~busy /\ consumed < stored
        /\ busy' = TRUE
        /\ UNCHANGED <<stored, consumed, closed>>

Consume == /\ busy
           /\ consumed' \in consumed + 1 .. stored
           /\ busy' = FALSE
           /\ UNCHANGED <<stored, closed>>

\* The adapter is told to stop; what is in progress goes on.
Close == /\ closed' = TRUE
         /\ UNCHANGED <<stored, busy, consumed>>

\* The server fails, and what is in progress is given up.
Fail == /\ closed' = TRUE
        /\ busy' = FALSE
        /\ UNCHANGED <<stored, consumed>>

Next == Store \/ Take \/ Consume \/ Close \/ Fail

Spec == Init /\ [][Next]_vars

\* Until it is closed the adapter goes on.
FairSpec == /\ Spec
            /\ WF_vars(~closed /\ Take)
            /\ WF_vars(~closed /\ Consume)
=============================================================================
