------------------------- MODULE MCMeasurementDelay -------------------------
(***************************************************************************)
(* Instances of MeasurementDelay for TLC: two trackers, one with an entry  *)
(* of its own, and configurations on both sides of what validate() accepts. *)
(***************************************************************************)
EXTENDS MeasurementDelay, TLC

CONSTANTS t1, t2

Jitter == [DefaultComponent EXCEPT !.jitterStddev = 1]
DriftDown == [DefaultComponent EXCEPT !.base = -1, !.slowStddev = 1]
Burst(probability) == [DefaultComponent EXCEPT !.base = 1, !.burstProbability = probability,
                                               !.burstMin = 0, !.burstMax = 1]

ConfigOf(enabled, max, shared, trackers) ==
    [enabled |-> enabled, maxDelay |-> max, margin |-> 1, common |-> shared,
     trackers |-> trackers]

Own(component, max) == t1 :> [component |-> component, maxDelay |-> max]

\* Of the maxima, 3 ms is the longest that the limit of samples admits.
MCConfigs ==
    {ConfigOf(enabled, max, shared, trackers) :
        enabled \in BOOLEAN, max \in {0, 2, 4}, shared \in {Jitter, DriftDown},
        trackers \in {EmptyFunction} \cup
                     {Own(component, own) : component \in {DriftDown, Burst(50), Burst(100)},
                                            own \in {-2, -1, 1, 4}}}
MCTimes == 1 .. 2
=============================================================================
