---------------------------- MODULE RingHistory ----------------------------
(***************************************************************************)
(* The operations of TrackerSampleHistory (measurement_delay.h), the ring  *)
(* buffer that keeps the last samples of one tracker so that a publish can *)
(* pick an older one.  A history is a record: the vector samples_ as the   *)
(* function `slots` with its length `cap`, next_index_ and size_.          *)
(*                                                                         *)
(* A sample is a record with a field `wall`, its capture time; whatever    *)
(* else it carries is irrelevant here.  SampleHistory is the class as a    *)
(* state machine of its own, TrackerServer keeps one history per model.    *)
(***************************************************************************)
EXTENDS Integers

CONSTANT BlankSample    \* TrackerSample{}: what an unused slot holds

Slot(capacity) == 0 .. capacity - 1

\* reset(): `capacity` blank slots, and one of them when it is 0.
ClearedHistory(capacity) ==
    LET cap == IF capacity >= 1 THEN capacity ELSE 1
    IN [cap |-> cap, slots |-> [i \in Slot(cap) |-> BlankSample],
        next |-> 0, size |-> 0]

\* Mutant of Push: the index of the next slot is not wrapped.
PushWithoutWrap(h, sample) ==
    [cap   |-> h.cap,
     slots |-> [h.slots EXCEPT ![h.next] = sample],
     next  |-> h.next + 1,
     size  |-> IF h.size < h.cap THEN h.size + 1 ELSE h.size]

\* push(): once the ring is full the oldest sample is overwritten.
Push(h, sample) ==
    [cap   |-> h.cap,
     slots |-> [h.slots EXCEPT ![h.next] = sample],
     next  |-> (h.next + 1) % h.cap,
     size  |-> IF h.size < h.cap THEN h.size + 1 ELSE h.size]

IsEmpty(h) == h.size = 0

\* Mutant of Latest: off by one, the slot to write next.
LatestAtNext(h) == h.slots[h.next]

\* Mutant of Latest: the oldest sample of a full ring, the newest of no other.
LatestIsOldest(h) == h.slots[IF h.size = h.cap THEN h.next ELSE h.next - 1]

\* latest(), of a history that is not empty.
Latest(h) == h.slots[(h.next + h.cap - 1) % h.cap]

\* Mutant of OldestOffsetToIndex: slot 0 is taken for the oldest in a full ring.
OldestIsSlotZero(h, offset) == offset % h.cap

\* The slot of the sample that is `offset` places younger than the oldest.
OldestOffsetToIndex(h, offset) ==
    ((IF h.size = h.cap THEN h.next ELSE 0) + offset) % h.cap

SampleAt(h, offset) == h.slots[OldestOffsetToIndex(h, offset)]

Offsets(h) == 0 .. h.size - 1

\* The samples a history holds: those a publish can pick from.
Held(h) == {SampleAt(h, offset) : offset \in Offsets(h)}

Distance(s, t) == IF s >= t THEN s - t ELSE t - s

\* Mutant of IsNearest: of equally near samples the oldest.
IsOldestNearest(h, target, offset) ==
    LET far(o) == Distance(SampleAt(h, o).wall, target)
    IN \A other \in Offsets(h) : \/ far(offset) < far(other)
                                 \/ far(offset) = far(other) /\ other >= offset

\* nearest(), of a history that is not empty: no sample is closer to the
\* target, and of those equally close it is the youngest.
IsNearest(h, target, offset) ==
    LET far(o) == Distance(SampleAt(h, o).wall, target)
    IN \A other \in Offsets(h) : \/ far(offset) < far(other)
                                 \/ far(offset) = far(other) /\ other <= offset

Nearest(h, target) ==
    SampleAt(h, CHOOSE offset \in Offsets(h) : IsNearest(h, target, offset))

\* h is a history whose slots hold elements of S.
IsHistory(h, S) ==
    /\ h = [cap |-> h.cap, slots |-> h.slots, next |-> h.next, size |-> h.size]
    /\ h.cap \in Nat \ {0}
    /\ h.slots \in [Slot(h.cap) -> S]
    /\ h.next \in Slot(h.cap)
    /\ h.size \in 0 .. h.cap
=============================================================================
