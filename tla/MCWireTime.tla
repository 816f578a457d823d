----------------------------- MODULE MCWireTime -----------------------------
(***************************************************************************)
(* An instance of WireTime for TLC: a second before zero and five after.   *)
(***************************************************************************)
EXTENDS WireTime

MCReportTimes == -Second .. 5 * Second
=============================================================================
