------------------------ MODULE SampleHistoryProofs ------------------------
(***************************************************************************)
(* Theorems about SampleHistory for every set of samples and every set of  *)
(* capacities: the type invariant, that no read returns an unwritten slot, *)
(* and that the ring implements the window of the most recent samples.     *)
(***************************************************************************)
EXTENDS SampleHistory, RingHistoryProofs

\* TypeOK is not inductive: the invariant of the ring is WellFilled.
IInv == WellFilled(history, Samples)

LEMMA InitIInv == Init => IInv
  BY CapacityAssumption, ClearedIsWellFilled DEF Init, IInv

LEMMA NextIInv == IInv /\ [Next]_history => IInv'
<1>. SUFFICES ASSUME IInv, [Next]_history
              PROVE  IInv'
  OBVIOUS
<1>1. CASE PushSample
  BY <1>1, PushIsWellFilled DEF PushSample, IInv
<1>2. CASE Reset
  BY <1>2, CapacityAssumption, ClearedIsWellFilled DEF Reset, IInv
<1>3. CASE UNCHANGED history
  BY <1>3 DEF IInv
<1>. QED  BY <1>1, <1>2, <1>3 DEF Next

LEMMA InvariantOfSpec == Spec => []IInv
<1>. QED  BY InitIInv, NextIInv, PTL DEF Spec

\* Every index the class computes stays within its slots.
THEOREM TypeCorrect == Spec => []TypeOK
<1>1. IInv => TypeOK
  BY DEF IInv, WellFilled, TypeOK
<1>. QED  BY <1>1, InvariantOfSpec, PTL

\* latest() and nearest() return samples that were pushed since the reset().
THEOREM ReadsAreOfPushedSamples == Spec => []ReadsOnlyPushed
<1>1. IInv => ReadsOnlyPushed
  BY ReadsPushed DEF IInv, ReadsOnlyPushed
<1>. QED  BY <1>1, InvariantOfSpec, PTL

-----------------------------------------------------------------------------
(* The refinement.                                                         *)

LEMMA WindowLength ==
    ASSUME NEW h, WellFilled(h, Samples)
    PROVE  /\ Window(h) \in Seq(Samples)
           /\ Len(Window(h)) = h.size
           /\ \A i \in 1 .. h.size : Window(h)[i] = SampleAt(h, i - 1)
<1>1. h.size \in Nat
  BY DEF WellFilled, IsHistory
<1>2. \A i \in 1 .. h.size : SampleAt(h, i - 1) \in Samples
  BY <1>1, ReadsPushed DEF Held, Offsets
<1>. QED  BY <1>1, <1>2 DEF Window

\* push() slides the window.
LEMMA PushSlides ==
    ASSUME NEW h, WellFilled(h, Samples), NEW sample \in Samples
    PROVE  Window(Push(h, sample)) = Recent!Slide(Window(h), h.cap, sample)
<1>. DEFINE g == Push(h, sample)
            kept == IF h.size < h.cap THEN Window(h) ELSE Tail(Window(h))
            dropped == IF h.size < h.cap THEN 0 ELSE 1
<1>1. /\ h.size \in Nat /\ h.cap \in Nat /\ h.cap >= 1 /\ h.size <= h.cap
  BY DEF WellFilled, IsHistory
<1>2. /\ WellFilled(g, Samples)
      /\ g.size \in Nat /\ g.size = h.size + 1 - dropped
  BY <1>1, PushIsWellFilled, PushShifts
<1>3. /\ kept \in Seq(Samples)
      /\ Len(kept) = h.size - dropped
      /\ \A i \in 1 .. h.size - dropped : kept[i] = Window(h)[i + dropped]
  BY <1>1, WindowLength
<1>4. \A i \in 1 .. h.size - dropped :
         /\ i - 1 \in 0 .. g.size - 2
         /\ i + dropped \in 1 .. h.size
         /\ (i + dropped) - 1 = (i - 1) + dropped
  BY <1>1, <1>2
<1>5. \A i \in 1 .. h.size - dropped : SampleAt(g, i - 1) = kept[i]
  <2>. SUFFICES ASSUME NEW i \in 1 .. h.size - dropped
                PROVE  SampleAt(g, i - 1) = kept[i]
    OBVIOUS
  <2>1. SampleAt(g, i - 1) = SampleAt(h, (i - 1) + dropped)
    BY <1>4, PushShifts
  <2>2. Window(h)[i + dropped] = SampleAt(h, (i + dropped) - 1)
    BY <1>4, WindowLength
  <2>. QED  BY <1>3, <1>4, <2>1, <2>2
<1>6. SampleAt(g, g.size - 1) = sample
  BY PushShifts
<1>. HIDE DEF g, kept
<1>7. Window(g) = Append(kept, sample)
  <2>1. /\ Append(kept, sample) \in Seq(Samples)
        /\ Len(Append(kept, sample)) = g.size
    BY <1>1, <1>2, <1>3
  <2>2. Window(g) \in Seq(Samples) /\ Len(Window(g)) = g.size
    BY <1>2, WindowLength
  <2>3. ASSUME NEW i \in 1 .. g.size
        PROVE  Window(g)[i] = Append(kept, sample)[i]
    <3>1. CASE i = g.size
      BY <1>1, <1>2, <1>3, <1>6, <3>1, WindowLength
    <3>2. CASE i # g.size
      <4>1. i \in 1 .. h.size - dropped
        BY <1>1, <1>2, <3>2
      <4>. QED  BY <1>2, <1>3, <1>5, <4>1, WindowLength
    <3>. QED  BY <3>1, <3>2
  <2>. QED  BY <2>1, <2>2, <2>3
<1>. QED  BY <1>1, <1>7, WindowLength DEF Recent!Slide, kept, g

\* The ring buffer implements the window of the most recent samples, and
\* latest() reads the one that was pushed last.
THEOREM RingImplementsWindow == Spec => RefinesRecent
<1>1. Init => Recent!Init
  <2>. SUFFICES ASSUME NEW capacity \in Capacities, history = ClearedHistory(capacity)
                PROVE  Recent!Init
    BY DEF Init
  <2>1. history.cap = Recent!AtLeastOne(capacity) /\ history.size = 0
    BY CapacityAssumption, ClearedIsWellFilled DEF Recent!AtLeastOne, IsEmpty
  <2>2. LatestRead(history) = BlankSample
    BY <2>1 DEF LatestRead, IsEmpty
  <2>. QED  BY <2>1, <2>2 DEF Recent!Init, Window
<1>2. IInv /\ [Next]_history => [Recent!Next]_(Recent!window)
  <2>. SUFFICES ASSUME IInv, [Next]_history
                PROVE  [Recent!Next]_(Recent!window)
    OBVIOUS
  <2>1. CASE PushSample
    <3>. PICK sample \in Samples : history' = Push(history, sample)
      BY <2>1 DEF PushSample
    <3>1. history'.cap = history.cap
      BY PushIsWellFilled DEF IInv
    <3>2. Window(history)' = Recent!Slide(Window(history), history.cap, sample)
      BY PushSlides DEF IInv, Window
    <3>3. LatestRead(history)' = sample
      BY PushIsWellFilled, PushHeld DEF IInv, LatestRead
    <3>. QED  BY <3>1, <3>2, <3>3 DEF Recent!Next, Recent!Push
  <2>2. CASE Reset
    <3>. PICK capacity \in Capacities : history' = ClearedHistory(capacity)
      BY <2>2 DEF Reset
    <3>1. history'.cap = Recent!AtLeastOne(capacity) /\ history'.size = 0
      BY CapacityAssumption, ClearedIsWellFilled DEF Recent!AtLeastOne, IsEmpty
    <3>2. Window(history)' = <<>>
      BY <3>1 DEF Window
    <3>3. LatestRead(history)' = BlankSample
      BY <3>1 DEF LatestRead, IsEmpty
    <3>. QED  BY <3>1, <3>2, <3>3 DEF Recent!Next, Recent!Reset
  <2>3. CASE UNCHANGED history
    BY <2>3 DEF Recent!window, Window, LatestRead
  <2>. QED  BY <2>1, <2>2, <2>3 DEF Next
<1>. QED  BY <1>1, <1>2, InvariantOfSpec, PTL DEF Spec, RefinesRecent, Recent!Spec
-----------------------------------------------------------------------------
(* The loop of nearest().                                                  *)

Far(h, target, o) == Distance(SampleAt(h, o).wall, target)

\* A younger sample replaces one that is not closer than it.
Younger(h, target, n, o) == IF Far(h, target, n) <= Far(h, target, o) THEN n ELSE o

Measurable(h, target) ==
    h.size \in Nat /\ \A o \in 0 .. h.size - 1 : Far(h, target, o) \in Nat

\* Of the samples 0 .. n, sample o is the youngest of the closest.
IsKept(h, target, n, o) ==
    /\ o \in 0 .. n
    /\ \A p \in 0 .. n :
           \/ Far(h, target, o) < Far(h, target, p)
           \/ Far(h, target, o) = Far(h, target, p) /\ p <= o

\* The loop looks at one sample more.
LEMMA KeptStep ==
    ASSUME NEW h, NEW target, Measurable(h, target),
           NEW n \in 0 .. h.size - 1, n # 0, NEW o, IsKept(h, target, n - 1, o)
    PROVE  IsKept(h, target, n, Younger(h, target, n, o))
<1>1. /\ n \in Nat /\ o \in 0 .. n - 1 /\ o \in 0 .. h.size - 1
      /\ Far(h, target, n) \in Nat /\ Far(h, target, o) \in Nat
      /\ \A p \in 0 .. n : p \in 0 .. h.size - 1 /\ (p \in 0 .. n - 1 \/ p = n)
  BY DEF IsKept, Measurable
<1>2. \A p \in 0 .. n : Far(h, target, p) \in Nat
  BY <1>1 DEF Measurable
<1>. QED  BY <1>1, <1>2 DEF IsKept, Younger

\* Only one sample is the youngest of the closest.
LEMMA KeptIsUnique ==
    ASSUME NEW h, NEW target, Measurable(h, target), NEW n \in 0 .. h.size - 1,
           NEW o, NEW q, IsKept(h, target, n, o), IsKept(h, target, n, q)
    PROVE  o = q
<1>1. /\ o \in 0 .. n /\ q \in 0 .. n
      /\ Far(h, target, o) \in Nat /\ Far(h, target, q) \in Nat
      /\ \/ Far(h, target, o) < Far(h, target, q)
         \/ Far(h, target, o) = Far(h, target, q) /\ q <= o
      /\ \/ Far(h, target, q) < Far(h, target, o)
         \/ Far(h, target, q) = Far(h, target, o) /\ o <= q
  BY DEF IsKept, Measurable
<1>. QED  BY <1>1

\* The body of the loop, as the equation that a recursive function stands for.
Scans(h, target, best) ==
    best = [n \in 0 .. h.size - 1 |->
               IF n = 0 THEN 0
               ELSE Younger(h, target, n, best[n - 1])]

\* Whatever satisfies the equation keeps the youngest of the closest.
LEMMA ScanKeepsNearest ==
    ASSUME NEW h, NEW target, Measurable(h, target),
           NEW best, Scans(h, target, best), NEW n \in 0 .. h.size - 1
    PROVE  IsKept(h, target, n, best[n])
<1>. DEFINE Wrong == {k \in 0 .. h.size - 1 : ~IsKept(h, target, k, best[k])}
<1>1. SUFFICES ASSUME Wrong # {}
               PROVE  FALSE
  OBVIOUS
<1>2. PICK k \in Wrong : \A j \in Wrong : k <= j
  <2>1. Wrong \in SUBSET Nat
    OBVIOUS
  <2>. HIDE DEF Wrong
  <2>. QED  BY <1>1, <2>1, LeastNatural
<1>3. CASE k = 0
  BY <1>2, <1>3 DEF Scans, IsKept
<1>4. CASE k # 0
  <2>1. k - 1 \in 0 .. h.size - 1 /\ ~(k <= k - 1)
    BY <1>2, <1>4 DEF Measurable
  <2>2. IsKept(h, target, k - 1, best[k - 1])
    BY <1>2, <2>1
  <2>3. best[k] = Younger(h, target, k, best[k - 1])
    BY <1>2, <1>4 DEF Scans
  <2>4. IsKept(h, target, k, best[k])
    BY <1>2, <1>4, <2>2, <2>3, KeptStep
  <2>. QED  BY <1>2, <2>4
<1>. QED  BY <1>3, <1>4

\* The equation has a solution.
LEMMA ScanIsDefined ==
    ASSUME NEW h, NEW target, Measurable(h, target)
    PROVE  \E best : Scans(h, target, best)
<1>. DEFINE Wrong == {k \in 0 .. h.size - 1 : ~\E o : IsKept(h, target, k, o)}
<1>1. Wrong = {}
  <2>1. SUFFICES ASSUME Wrong # {}
                 PROVE  FALSE
    OBVIOUS
  <2>2. PICK k \in Wrong : \A j \in Wrong : k <= j
    <3>1. Wrong \in SUBSET Nat
      OBVIOUS
    <3>. HIDE DEF Wrong
    <3>. QED  BY <2>1, <3>1, LeastNatural
  <2>3. CASE k = 0
    <3>1. IsKept(h, target, 0, 0)
      BY DEF IsKept
    <3>. QED  BY <2>2, <2>3, <3>1
  <2>4. CASE k # 0
    <3>1. k - 1 \in 0 .. h.size - 1 /\ ~(k <= k - 1)
      BY <2>2, <2>4 DEF Measurable
    <3>2. PICK o : IsKept(h, target, k - 1, o)
      BY <2>2, <3>1
    <3>3. IsKept(h, target, k, Younger(h, target, k, o))
      BY <2>2, <2>4, <3>2, KeptStep
    <3>. QED  BY <2>2, <3>3
  <2>. QED  BY <2>3, <2>4
<1>. DEFINE best == [n \in 0 .. h.size - 1 |-> CHOOSE o : IsKept(h, target, n, o)]
<1>2. \A n \in 0 .. h.size - 1 : IsKept(h, target, n, best[n])
  BY <1>1
<1>3. ASSUME NEW n \in 0 .. h.size - 1
      PROVE  best[n] = IF n = 0 THEN 0
                       ELSE Younger(h, target, n, best[n - 1])
  <2>1. IsKept(h, target, n, best[n])
    BY <1>2
  <2>2. CASE n = 0
    BY <2>1, <2>2 DEF IsKept
  <2>3. CASE n # 0
    <3>1. n - 1 \in 0 .. h.size - 1
      BY <2>3 DEF Measurable
    <3>2. IsKept(h, target, n - 1, best[n - 1])
      BY <1>2, <3>1
    <3>. HIDE DEF best
    <3>3. IsKept(h, target, n, Younger(h, target, n, best[n - 1]))
      BY <2>3, <3>2, KeptStep
    <3>. QED  BY <2>1, <2>3, <3>3, KeptIsUnique
  <2>. QED  BY <2>2, <2>3
<1>4. Scans(h, target, best)
  <2>1. \A n \in 0 .. h.size - 1 : best[n] = IF n = 0 THEN 0
                       ELSE Younger(h, target, n, best[n - 1])
    BY <1>3
  <2>2. best = [n \in 0 .. h.size - 1 |-> best[n]]
    OBVIOUS
  <2>. HIDE DEF best
  <2>. QED  BY <2>1, <2>2 DEF Scans
<1>. QED  BY <1>4

\* The loop returns what Nearest() describes, whatever the order of the times.
LEMMA ScanIsNearest ==
    ASSUME NEW S, \A s \in S : s.wall \in Int,
           NEW h, WellFilled(h, S), ~IsEmpty(h), NEW target \in Int
    PROVE  NearestByScan(h, target) = Nearest(h, target)
<1>. DEFINE best == CHOOSE b : Scans(h, target, b)
            last == h.size - 1
<1>1. /\ h.size \in Nat /\ h.size >= 1 /\ Offsets(h) = 0 .. last /\ last \in 0 .. last
  BY DEF WellFilled, IsHistory, IsEmpty, Offsets
<1>2. Measurable(h, target)
  BY <1>1, ReadsPushed DEF Held, Distance, Far, Measurable
<1>3. NearestByScan(h, target) = SampleAt(h, best[last])
  BY <1>1 DEF NearestByScan, Scans, Younger, Far
<1>4. Scans(h, target, best)
  BY <1>2, ScanIsDefined
<1>. HIDE DEF best
<1>5. IsKept(h, target, last, best[last])
  BY <1>1, <1>2, <1>4, ScanKeepsNearest
<1>6. \A o \in Offsets(h) : IsNearest(h, target, o) <=> IsKept(h, target, last, o)
  BY <1>1 DEF IsNearest, IsKept, Far
<1>7. best[last] \in Offsets(h) /\ IsNearest(h, target, best[last])
  BY <1>1, <1>5, <1>6 DEF IsKept
<1>8. PICK o \in Offsets(h) : IsNearest(h, target, o) /\ Nearest(h, target) = SampleAt(h, o)
  BY <1>7 DEF Nearest
<1>9. o = best[last]
  BY <1>1, <1>2, <1>5, <1>6, <1>8, KeptIsUnique
<1>. QED  BY <1>3, <1>8, <1>9

\* nearest() returns the youngest of the samples closest to its target, for
\* every ring and every order of the capture times in it.
THEOREM ScanIsOfNearest == Spec => []ScanFindsNearest
<1>1. IInv => ScanFindsNearest
  BY SampleAssumption, ScanIsNearest DEF IInv, ScanFindsNearest
<1>. QED  BY <1>1, InvariantOfSpec, PTL
=============================================================================
