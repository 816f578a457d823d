------------------------- MODULE RingHistoryProofs -------------------------
(***************************************************************************)
(* What the ring buffer operations keep and return, for every capacity.    *)
(* A ring is well filled when its slots are written in order from slot 0   *)
(* until it wraps: that is what makes every read return a pushed sample.   *)
(***************************************************************************)
EXTENDS RingHistory, WellFoundedInduction, TLAPS

\* The inductive strengthening of IsHistory: before the ring wraps, the next
\* sample goes right after the last one held, and slots below it are written.
WellFilled(h, S) ==
    /\ IsHistory(h, S \cup {BlankSample})
    /\ h.size < h.cap => h.next = h.size
    /\ \A i \in Slot(h.size) : h.slots[i] \in S

\* The remainder by the capacity, of a number below twice the capacity.
LEMMA Wrap ==
    ASSUME NEW c \in Nat \ {0}, NEW i \in Nat, i < 2 * c
    PROVE  /\ i < c => i % c = i
           /\ c <= i => i % c = i - c
  OBVIOUS

\* reset() leaves a well filled, empty ring of at least one slot.
LEMMA ClearedIsWellFilled ==
    ASSUME NEW S, NEW capacity \in Nat
    PROVE  /\ WellFilled(ClearedHistory(capacity), S)
           /\ IsEmpty(ClearedHistory(capacity))
           /\ ClearedHistory(capacity).cap = IF capacity >= 1 THEN capacity ELSE 1
           /\ Held(ClearedHistory(capacity)) = {}
  BY DEF ClearedHistory, WellFilled, IsHistory, IsEmpty, Held, Offsets, Slot

\* push() keeps the ring well filled and never leaves it empty.
LEMMA PushIsWellFilled ==
    ASSUME NEW S, NEW h, WellFilled(h, S), NEW sample \in S
    PROVE  /\ WellFilled(Push(h, sample), S)
           /\ ~IsEmpty(Push(h, sample))
           /\ Push(h, sample).cap = h.cap
<1>1. /\ h.cap \in Nat \ {0} /\ h.next \in Slot(h.cap) /\ h.size \in 0 .. h.cap
      /\ h.slots \in [Slot(h.cap) -> S \cup {BlankSample}]
      /\ h = [cap |-> h.cap, slots |-> h.slots, next |-> h.next, size |-> h.size]
  BY DEF WellFilled, IsHistory
<1>2. (h.next + 1) % h.cap = IF h.next + 1 < h.cap THEN h.next + 1 ELSE 0
  BY <1>1 DEF Slot
<1>3. IsHistory(Push(h, sample), S \cup {BlankSample})
  BY <1>1, <1>2 DEF IsHistory, Slot, Push
<1>. QED
  BY <1>1, <1>2, <1>3 DEF WellFilled, IsEmpty, Slot, Push

\* The slots the reads look at: each offset of nearest(), and latest().
LEMMA ReadSlots ==
    ASSUME NEW S, NEW h, WellFilled(h, S)
    PROVE  /\ \A offset \in Offsets(h) : OldestOffsetToIndex(h, offset) \in Slot(h.size)
           /\ ~IsEmpty(h) => Latest(h) = SampleAt(h, h.size - 1)
<1>1. /\ h.cap \in Nat \ {0} /\ h.next \in Slot(h.cap) /\ h.size \in 0 .. h.cap
      /\ h.size < h.cap => h.next = h.size
  BY DEF WellFilled, IsHistory
<1>2. ASSUME NEW offset \in Offsets(h)
      PROVE  OldestOffsetToIndex(h, offset) \in Slot(h.size)
  BY <1>1 DEF Offsets, OldestOffsetToIndex, Slot
<1>3. ASSUME ~IsEmpty(h)
      PROVE  (h.next + h.cap - 1) % h.cap = OldestOffsetToIndex(h, h.size - 1)
  <2>1. CASE h.size < h.cap
    <3>. DEFINE last == h.next + h.cap - 1
    <3>1. /\ last \in Nat /\ h.cap <= last /\ last < 2 * h.cap
          /\ last - h.cap = h.size - 1
      BY <1>1, <1>3, <2>1 DEF Slot, IsEmpty
    <3>2. OldestOffsetToIndex(h, h.size - 1) = h.size - 1
      BY <1>1, <1>3, <2>1, Wrap DEF OldestOffsetToIndex, IsEmpty
    <3>. HIDE DEF last
    <3>3. last % h.cap = h.size - 1
      BY <1>1, <3>1, Wrap
    <3>. QED  BY <3>2, <3>3 DEF last
  <2>2. CASE h.size = h.cap
    BY <1>1, <2>2 DEF OldestOffsetToIndex
  <2>. QED  BY <1>1, <2>1, <2>2
<1>. QED  BY <1>2, <1>3 DEF Latest, SampleAt

\* Every read of a well filled ring returns a sample that was pushed.
LEMMA ReadsPushed ==
    ASSUME NEW S, NEW h, WellFilled(h, S)
    PROVE  /\ Held(h) \subseteq S
           /\ ~IsEmpty(h) => Latest(h) \in Held(h)
<1>1. ~IsEmpty(h) => h.size - 1 \in Offsets(h)
  BY DEF WellFilled, IsHistory, IsEmpty, Offsets
<1>. QED  BY <1>1, ReadSlots DEF Held, SampleAt, WellFilled

\* The slot of an offset, without the remainder.
LEMMA OffsetSlot ==
    ASSUME NEW S, NEW h, WellFilled(h, S), NEW offset \in Offsets(h)
    PROVE  /\ h.size < h.cap => OldestOffsetToIndex(h, offset) = offset
           /\ h.size = h.cap /\ h.next + offset < h.cap =>
                OldestOffsetToIndex(h, offset) = h.next + offset
           /\ h.size = h.cap /\ h.cap <= h.next + offset =>
                OldestOffsetToIndex(h, offset) = h.next + offset - h.cap
<1>1. /\ h.cap \in Nat \ {0} /\ h.next \in Slot(h.cap) /\ h.size \in 0 .. h.cap
      /\ h.size < h.cap => h.next = h.size
      /\ offset \in 0 .. h.size - 1
  BY DEF WellFilled, IsHistory, Offsets
<1>2. CASE h.size < h.cap
  BY <1>1, <1>2, Wrap DEF OldestOffsetToIndex
<1>3. CASE h.size = h.cap
  <2>. DEFINE i == h.next + offset
  <2>1. i \in Nat /\ i < 2 * h.cap
    BY <1>1 DEF Slot
  <2>2. OldestOffsetToIndex(h, offset) = i % h.cap
    BY <1>3 DEF OldestOffsetToIndex
  <2>. HIDE DEF i
  <2>3. /\ i < h.cap => i % h.cap = i
        /\ h.cap <= i => i % h.cap = i - h.cap
    BY <1>1, <2>1, Wrap
  <2>4. /\ i < h.cap => OldestOffsetToIndex(h, offset) = i
        /\ h.cap <= i => OldestOffsetToIndex(h, offset) = i - h.cap
    BY <2>2, <2>3
  <2>. QED  BY <1>1, <1>3, <2>4 DEF i, Slot
<1>. QED  BY <1>1, <1>2, <1>3

\* push() appends its sample to what the history holds and, once the ring is
\* full, drops the oldest: the offsets of the samples kept move down by one.
LEMMA PushShifts ==
    ASSUME NEW S, NEW h, WellFilled(h, S), NEW sample \in S
    PROVE  LET g == Push(h, sample)
               dropped == IF h.size < h.cap THEN 0 ELSE 1
           IN /\ g.size = h.size + 1 - dropped
              /\ \A offset \in 0 .. g.size - 2 :
                     /\ offset + dropped \in Offsets(h)
                     /\ SampleAt(g, offset) = SampleAt(h, offset + dropped)
              /\ SampleAt(g, g.size - 1) = sample
<1>. DEFINE g == Push(h, sample)
            dropped == IF h.size < h.cap THEN 0 ELSE 1
<1>1. /\ h.cap \in Nat \ {0} /\ h.next \in Slot(h.cap) /\ h.size \in 0 .. h.cap
      /\ h.size < h.cap => h.next = h.size
      /\ h.slots \in [Slot(h.cap) -> S \cup {BlankSample}]
  BY DEF WellFilled, IsHistory
<1>2. /\ g.cap = h.cap
      /\ g.slots = [h.slots EXCEPT ![h.next] = sample]
      /\ g.size = h.size + 1 - dropped
      /\ g.next = IF h.next + 1 < h.cap THEN h.next + 1 ELSE 0
  <2>1. (h.next + 1) % h.cap = IF h.next + 1 < h.cap THEN h.next + 1 ELSE 0
    BY <1>1 DEF Slot
  <2>2. h.size + 1 - dropped = IF h.size < h.cap THEN h.size + 1 ELSE h.size
    BY <1>1
  <2>. QED  BY <2>1, <2>2 DEF Push
<1>3. WellFilled(g, S)
  BY PushIsWellFilled
<1>4. ASSUME NEW offset \in 0 .. g.size - 2
      PROVE  /\ offset + dropped \in Offsets(h)
             /\ SampleAt(g, offset) = SampleAt(h, offset + dropped)
  <2>1. offset \in Offsets(g) /\ offset + dropped \in Offsets(h)
    BY <1>1, <1>2, <1>4 DEF Offsets
  <2>2. /\ OldestOffsetToIndex(g, offset) = OldestOffsetToIndex(h, offset + dropped)
        /\ OldestOffsetToIndex(g, offset) # h.next
        /\ OldestOffsetToIndex(g, offset) \in Slot(h.cap)
    <3>. HIDE DEF g
    <3>1. CASE h.size < h.cap
      <4>1. OldestOffsetToIndex(h, offset) = offset /\ offset < h.size
        BY <1>1, <1>2, <2>1, <3>1, OffsetSlot DEF Offsets
      <4>2. OldestOffsetToIndex(g, offset) = offset
        BY <1>1, <1>2, <1>3, <2>1, <3>1, OffsetSlot DEF Offsets, Slot
      <4>. QED  BY <1>1, <1>4, <3>1, <4>1, <4>2 DEF Slot
    <3>2. CASE h.size = h.cap
      <4>. DEFINE i == OldestOffsetToIndex(g, offset)
                  j == OldestOffsetToIndex(h, offset + 1)
      <4>1. /\ h.cap \in Nat /\ h.next \in Nat /\ h.next < h.cap
            /\ offset \in Nat /\ offset + 1 < h.cap
            /\ dropped = 1 /\ g.size = g.cap /\ g.cap = h.cap
        BY <1>1, <1>2, <1>4, <3>2 DEF Slot
      <4>2. /\ g.next \in Nat
            /\ h.next + 1 < h.cap => g.next = h.next + 1
            /\ h.next + 1 = h.cap => g.next = 0
        BY <1>1, <1>2, <4>1
      <4>3. /\ g.next + offset < h.cap => i = g.next + offset
            /\ h.cap <= g.next + offset => i = g.next + offset - h.cap
        BY <1>3, <2>1, <4>1, OffsetSlot
      <4>4. /\ h.next + (offset + 1) < h.cap => j = h.next + (offset + 1)
            /\ h.cap <= h.next + (offset + 1) => j = h.next + (offset + 1) - h.cap
        BY <2>1, <3>2, <4>1, OffsetSlot
      <4>. HIDE DEF i, j
      <4>5. i = j /\ i # h.next /\ i \in 0 .. h.cap - 1
        BY <4>1, <4>2, <4>3, <4>4
      <4>. QED  BY <4>1, <4>5 DEF i, j, Slot
    <3>. QED  BY <1>1, <3>1, <3>2
  <2>. QED  BY <1>1, <1>2, <2>1, <2>2 DEF SampleAt
<1>5. SampleAt(g, g.size - 1) = sample
  <2>1. g.size - 1 \in Offsets(g)
    BY <1>1, <1>2 DEF Offsets
  <2>2. OldestOffsetToIndex(g, g.size - 1) = h.next
    <3>. HIDE DEF g
    <3>1. CASE g.size < g.cap
      BY <1>1, <1>2, <1>3, <2>1, <3>1, OffsetSlot
    <3>2. CASE g.size = g.cap
      BY <1>1, <1>2, <1>3, <2>1, <3>2, OffsetSlot DEF Slot
    <3>. QED  BY <1>1, <1>2, <3>1, <3>2
  <2>. QED  BY <1>1, <1>2, <2>2 DEF SampleAt
<1>. HIDE DEF g
<1>. QED  BY <1>2, <1>4, <1>5 DEF g

\* After push() a history holds nothing but its sample and what it held.
LEMMA PushHeld ==
    ASSUME NEW S, NEW h, WellFilled(h, S), NEW sample \in S
    PROVE  /\ Held(Push(h, sample)) \subseteq Held(h) \cup {sample}
           /\ Latest(Push(h, sample)) = sample
<1>. DEFINE g == Push(h, sample)
<1>1. WellFilled(g, S) /\ ~IsEmpty(g) /\ g.size \in Nat
  <2>1. WellFilled(g, S) /\ ~IsEmpty(g)
    BY PushIsWellFilled
  <2>. HIDE DEF g
  <2>. QED  BY <2>1 DEF WellFilled, IsHistory
<1>2. \A offset \in Offsets(g) : offset \in 0 .. g.size - 2 \/ offset = g.size - 1
  BY <1>1 DEF Offsets
<1>3. \A offset \in Offsets(g) : SampleAt(g, offset) \in Held(h) \cup {sample}
  BY <1>2, PushShifts DEF Held
<1>4. Latest(g) = sample
  BY <1>1, ReadSlots, PushShifts
<1>. QED  BY <1>3, <1>4 DEF Held

\* A set of naturals has a least element.
LEMMA LeastNatural ==
    ASSUME NEW T \in SUBSET Nat, T # {}
    PROVE  \E least \in T : \A n \in T : least <= n
<1>1. PICK least \in T : \A n \in T : ~(<<n, least>> \in OpToRel(<, Nat))
  BY NatLessThanWellFounded, WFMin
<1>2. ASSUME NEW n \in T
      PROVE  least <= n
  <2>1. <<n, least>> \in Nat \X Nat /\ <<n, least>>[1] = n /\ <<n, least>>[2] = least
    OBVIOUS
  <2>2. ~(n < least)
    BY <1>1, <2>1 DEF OpToRel
  <2>. QED  BY <2>2
<1>. QED  BY <1>2

\* nearest() of a history that is not empty is well defined: it is one of the
\* samples held, and none of them is closer to the target.
LEMMA NearestIsHeld ==
    ASSUME NEW S, \A s \in S : s.wall \in Int,
           NEW h, WellFilled(h, S), ~IsEmpty(h), NEW target \in Int
    PROVE  /\ Nearest(h, target) \in Held(h)
           /\ \A s \in Held(h) :
                  Distance(Nearest(h, target).wall, target) <= Distance(s.wall, target)
<1>. DEFINE far(o) == Distance(SampleAt(h, o).wall, target)
<1>1. h.size \in Nat /\ h.size >= 1 /\ Offsets(h) = 0 .. h.size - 1
  BY DEF WellFilled, IsHistory, IsEmpty, Offsets
<1>2. \A o \in Offsets(h) : far(o) \in Nat
  BY ReadsPushed DEF Held, Distance
<1>3. \E offset \in Offsets(h) : IsNearest(h, target, offset)
  <2>1. \A o \in Offsets(h) : o \in Nat /\ h.size - 1 - o \in Nat
    BY <1>1
  <2>. DEFINE Far == {far(o) : o \in Offsets(h)}
  <2>2. PICK d \in Far : \A n \in Far : d <= n
    <3>1. Far \in SUBSET Nat
      <4>. HIDE DEF far
      <4>. QED  BY <1>2
    <3>2. far(0) \in Far
      BY <1>1
    <3>. HIDE DEF Far
    <3>. QED  BY <3>1, <3>2, LeastNatural
  <2>. DEFINE Closest == {h.size - 1 - o : o \in {p \in Offsets(h) : far(p) = d}}
  <2>3. PICK u \in Closest : \A n \in Closest : u <= n
    <3>1. Closest \in SUBSET Nat
      <4>. HIDE DEF far
      <4>. QED  BY <2>1
    <3>2. Closest # {}
      <4>. HIDE DEF far
      <4>. QED  BY <2>2
    <3>. HIDE DEF Closest
    <3>. QED  BY <3>1, <3>2, LeastNatural
  <2>4. PICK offset \in Offsets(h) : far(offset) = d /\ u = h.size - 1 - offset
    <3>. HIDE DEF far
    <3>. QED  BY <2>3
  <2>5. ASSUME NEW other \in Offsets(h)
        PROVE  \/ far(offset) < far(other)
               \/ far(offset) = far(other) /\ other <= offset
    <3>. HIDE DEF far
    <3>1. CASE far(other) = d
      <4>1. h.size - 1 - other \in Closest
        BY <3>1
      <4>2. u <= h.size - 1 - other
        BY <2>3, <4>1
      <4>. QED  BY <1>1, <2>1, <2>4, <3>1, <4>2
    <3>2. CASE far(other) # d
      BY <1>2, <2>2, <2>4, <3>2
    <3>. QED  BY <3>1, <3>2
  <2>. QED  BY <2>5 DEF IsNearest
<1>4. PICK offset \in Offsets(h) :
         IsNearest(h, target, offset) /\ Nearest(h, target) = SampleAt(h, offset)
  BY <1>3 DEF Nearest
<1>5. ASSUME NEW other \in Offsets(h)
      PROVE  far(offset) <= far(other)
  <2>1. far(offset) < far(other) \/ far(offset) = far(other)
    BY <1>4 DEF IsNearest
  <2>. HIDE DEF far
  <2>. QED  BY <1>2, <2>1
<1>. QED  BY <1>4, <1>5 DEF Held

=============================================================================
