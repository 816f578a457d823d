--------------------------- MODULE SampleHistory ---------------------------
(***************************************************************************)
(* TrackerSampleHistory (measurement_delay.h) on its own: any sequence of  *)
(* push() and reset() calls, with the reads a publish does on the result.  *)
(***************************************************************************)
EXTENDS RingHistory, Sequences

CONSTANTS Samples,      \* the samples that can be pushed
          Capacities    \* the capacities reset() can be called with

ASSUME SampleAssumption == /\ \A sample \in Samples : sample.wall \in Int
                           /\ BlankSample \notin Samples
ASSUME CapacityAssumption == Capacities \subseteq Nat

VARIABLE history

Init == \E capacity \in Capacities : history = ClearedHistory(capacity)

PushSample == \E sample \in Samples : history' = Push(history, sample)

Reset == \E capacity \in Capacities : history' = ClearedHistory(capacity)

Next == PushSample \/ Reset

Spec == Init /\ [][Next]_history
-----------------------------------------------------------------------------
(* The loop of nearest().                                                  *)

\* Best[n] is the offset kept after looking at the samples 0 .. n, oldest
\* first; `<=` lets a younger sample replace an equally distant older one.
NearestByScan(h, target) ==
    LET far(offset) == Distance(SampleAt(h, offset).wall, target)
        Best[n \in Offsets(h)] ==
            IF n = 0 THEN 0
            ELSE IF far(n) <= far(Best[n - 1]) THEN n ELSE Best[n - 1]
    IN SampleAt(h, Best[h.size - 1])
-----------------------------------------------------------------------------
(* Properties.                                                             *)

\* Type invariant of the ring: the indices stay inside the slots, which is
\* what keeps every samples_[...] of the class within its vector.
TypeOK == IsHistory(history, Samples \cup {BlankSample})

\* A read never yields a slot that was not written since the last reset():
\* neither latest() nor nearest(), whatever its target, returns
\* TrackerSample{}, although reset() leaves the ring full of them.
ReadsOnlyPushed ==
    /\ Held(history) \subseteq Samples
    /\ ~IsEmpty(history) => Latest(history) \in Held(history)

\* The scan of nearest() returns the youngest of the samples closest to the
\* target, whatever the order of the capture times in the ring: the wall
\* clock they come from may have been set back in between.
ScanFindsNearest ==
    ~IsEmpty(history) =>
        \A sample \in Samples :
            NearestByScan(history, sample.wall) = Nearest(history, sample.wall)

\* The window the ring stands for, oldest sample first.
Window(h) == [i \in 1 .. h.size |-> SampleAt(h, i - 1)]

\* What latest() reads, if it may be called.
LatestRead(h) == IF IsEmpty(h) THEN BlankSample ELSE Latest(h)

\* The ring buffer implements the window of the most recent samples, and
\* what latest() reads is the sample that was pushed last.
Recent == INSTANCE RecentSamples WITH limit <- history.cap,
                                      recent <- Window(history),
                                      newest <- LatestRead(history),
                                      NoSample <- BlankSample
RefinesRecent == Recent!Spec
=============================================================================
