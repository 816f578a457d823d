-------------------------- MODULE MCSampleHistory --------------------------
(* A small instance of SampleHistory for TLC: rings of one to three slots. *)
EXTENDS SampleHistory

\* Every capture time occurs in two samples, so that samples tie.
MCSamples == [wall : 0 .. 2, pose : {"p", "q"}]
MCBlank == [wall |-> 0, pose |-> "blank"]
MCCapacities == 0 .. 3
=============================================================================
