--------------------------- MODULE RecentSamples ---------------------------
(***************************************************************************)
(* What the delay history of a tracker promises, without the ring that     *)
(* keeps it: a window of the most recent samples, oldest first, at most    *)
(* `limit` long, and the sample that was pushed last.                      *)
(* TrackerSampleHistory (measurement_delay.h) implements it with a ring    *)
(* buffer; see SampleHistory.                                              *)
(***************************************************************************)
EXTENDS Integers, Sequences

CONSTANTS Samples,      \* the samples that can be pushed
          Capacities,   \* the capacities reset() can be called with
          NoSample      \* nothing was pushed since the last reset()

VARIABLES limit,        \* how many samples the window may hold
          recent,       \* the window, oldest sample first
          newest        \* the sample that was pushed last, for latest()

window == <<limit, recent, newest>>

\* A window of capacity 0 is rounded up to one sample.
AtLeastOne(capacity) == IF capacity >= 1 THEN capacity ELSE 1

\* The window after one more sample: the oldest one leaves a full window.
Slide(samples, size, sample) ==
    Append(IF Len(samples) < size THEN samples ELSE Tail(samples), sample)

Init == /\ limit \in {AtLeastOne(capacity) : capacity \in Capacities}
        /\ recent = <<>> /\ newest = NoSample

Push(sample) == /\ recent' = Slide(recent, limit, sample)
                /\ newest' = sample
                /\ UNCHANGED limit

Reset(capacity) == /\ limit' = AtLeastOne(capacity)
                   /\ recent' = <<>> /\ newest' = NoSample

Next == \/ \E sample \in Samples : Push(sample)
        \/ \E capacity \in Capacities : Reset(capacity)

Spec == Init /\ [][Next]_window
=============================================================================
