---------------------------- MODULE DelayConfig ----------------------------
(***************************************************************************)
(* The configuration of MeasurementDelay (measurement_delay.h): what the   *)
(* delay of a tracker depends on, how long its history has to be, and      *)
(* which configurations validate() accepts.                                *)
(*                                                                         *)
(* Delays are in milliseconds, probabilities in percent.                   *)
(***************************************************************************)
EXTENDS Integers

CONSTANTS PublishRate,        \* publish_rate, in Hz
          MaxHistorySamples   \* the hard limit of validate()

ASSUME LimitAssumption ==
    PublishRate \in Int /\ MaxHistorySamples \in Nat /\ MaxHistorySamples >= 4

ComponentSet == [base : Int, slowStddev : Int, slowTau : Int, jitterStddev : Int,
                 burstProbability : Int, burstMin : Int, burstMax : Int]

EmptyFunction == [x \in {} |-> x]

\* A negative maximum of a tracker stands for the global one.
MaxDelay(c, t) ==
    IF t \in DOMAIN c.trackers /\ c.trackers[t].maxDelay >= 0
    THEN c.trackers[t].maxDelay ELSE c.maxDelay

DefaultComponent == [base |-> 0, slowStddev |-> 0, slowTau |-> 5, jitterStddev |-> 0,
                     burstProbability |-> 0, burstMin |-> 0, burstMax |-> 0]

TrackerComponent(c, t) ==
    IF t \in DOMAIN c.trackers THEN c.trackers[t].component ELSE DefaultComponent

\* The samples taken in so many milliseconds, rounded up, and at least 4.
CapacityOf(window) ==
    LET raw == (window * PublishRate + 999) \div 1000 + 3
    IN IF raw >= 4 THEN raw ELSE 4

HistoryCapacity(c, t) ==
    IF c.enabled THEN CapacityOf(MaxDelay(c, t) + (IF c.margin >= 0 THEN c.margin ELSE 0))
    ELSE 4

ValidComponent(k) ==
    /\ k.slowStddev >= 0 /\ k.slowTau > 0
    /\ k.jitterStddev >= 0
    /\ k.burstProbability \in 0 .. 100
    /\ k.burstMin >= 0 /\ k.burstMax >= k.burstMin

\* validateCapacity(): as if the delay were enabled.
ValidCapacity(c, max) == max >= 0 /\ CapacityOf(max + c.margin) <= MaxHistorySamples

\* Mutant of Accepted: the maximum of a tracker is not validated.
AcceptedByGlobalMax(c) ==
    /\ PublishRate > 0
    /\ c.maxDelay >= 0 /\ c.margin >= 0
    /\ ValidComponent(c.common) /\ ValidCapacity(c, c.maxDelay)
    /\ \A t \in DOMAIN c.trackers : ValidComponent(c.trackers[t].component)

\* validate() does not throw.
Accepted(c) ==
    /\ PublishRate > 0
    /\ c.maxDelay >= 0 /\ c.margin >= 0
    /\ ValidComponent(c.common) /\ ValidCapacity(c, c.maxDelay)
    /\ \A t \in DOMAIN c.trackers :
           /\ ValidComponent(c.trackers[t].component)
           /\ c.trackers[t].maxDelay >= -1
           /\ ValidCapacity(c, MaxDelay(c, t))
=============================================================================
