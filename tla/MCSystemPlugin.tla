--------------------------- MODULE MCSystemPlugin ---------------------------
(***************************************************************************)
(* Instances of SystemPlugin for TLC: MaxCaptures bounds the snapshots.    *)
(***************************************************************************)
EXTENDS SystemPlugin

CONSTANT MaxCaptures

BoundedCapture == latestSequence < MaxCaptures /\ Capture

GazeboThread ==
    \/ \E m \in Models, object \in Objects \cup {NoObject} : WorldChanges(m, object)
    \/ WorldCreated
    \/ BoundedCapture \/ CaptureFails \/ StoreSnapshot
    \/ Stop \/ Notify \/ StopReturns

MCNext == GazeboThread \/ Worker \/ SpuriousWake \/ WorkerThrows \/ Tick

MCFairSpec == Init /\ [][MCNext]_vars /\ Fairness

\* Gazebo's thread alone: its callbacks read nothing the worker writes, so for
\* what they capture the worker may as well never be scheduled.
CaptureNext == GazeboThread \/ Tick
CaptureSpec == Init /\ [][CaptureNext]_vars
=============================================================================
