----------------------- MODULE MeasurementDelayProofs -----------------------
(***************************************************************************)
(* Theorems about MeasurementDelay, for all trackers, configurations and   *)
(* publish rates, and for calls in any order at any times.                 *)
(***************************************************************************)
EXTENDS MeasurementDelay, TLAPS

\* What the answers of the present cycle have in common with the state.
Cycle ==
    /\ config.enabled =>
           \A a \in answers :
               /\ cycleValid /\ cycleTime = clock
               /\ a.common = commonDelay
               /\ a.tracker \in DOMAIN states
               /\ states[a.tracker].known /\ states[a.tracker].time = clock
               /\ a.delay = Clamped(commonDelay + states[a.tracker].delay,
                                    MaxDelay(config, a.tracker))
    /\ ~config.enabled => \A a \in answers : a.common = 0 /\ a.delay = 0

IInv == TypeOK /\ Accepted(config) /\ Cycle

-----------------------------------------------------------------------------
(* The configuration and a component.                                      *)

LEMMA MaxDelayIsNat ==
    ASSUME NEW c \in Configs, Accepted(c), NEW t \in Trackers
    PROVE  MaxDelay(c, t) \in Nat
BY ConfigsAssumption DEF Accepted, MaxDelay

LEMMA ClampedInRange ==
    ASSUME NEW value \in Int, NEW high \in Nat
    PROVE  Clamped(value, high) \in 0 .. high
BY DEF Clamped

LEMMA ComponentOfTracker ==
    ASSUME NEW c \in Configs, NEW t \in Trackers
    PROVE  TrackerComponent(c, t) \in ComponentSet
BY ConfigsAssumption DEF TrackerComponent, DefaultComponent, ComponentSet

\* What a cycle draws for a component: a state of this time, the same one if
\* it has been drawn already, and with another drift only if time advanced.
LEMMA DrawnState ==
    ASSUME NEW k \in ComponentSet, NEW s \in StateSet, NEW now \in Int,
           NEW drawn \in SampledForCycle(k, s, now)
    PROVE  /\ drawn \in StateSet
           /\ drawn.known /\ drawn.time = now
           /\ s.known /\ s.time = now => drawn = s
           /\ drawn.slow # s.slow => drawn.time > s.time
<1>1. CASE s.known /\ s.time = now
  BY <1>1 DEF SampledForCycle
<1>2. CASE ~(s.known /\ s.time = now)
  <2>1. PICK drift \in Drifts(k, s, now), jitter \in Normal(k.jitterStddev), burst \in Bursts(k) :
            drawn = [known |-> TRUE, time |-> now, slow |-> drift,
                     delay |-> k.base + drift + jitter + burst]
    BY <1>2 DEF SampledForCycle, Sampled
  <2>2. /\ k.base \in Int /\ k.slowStddev \in Int /\ k.jitterStddev \in Int
        /\ k.burstMin \in Int /\ k.burstMax \in Int
        /\ s.slow \in Int /\ s.time \in Int
    BY DEF ComponentSet, StateSet
  <2>3. \A stddev \in Int : Normal(stddev) \subseteq Int
    <3>. SUFFICES ASSUME NEW stddev \in Int, NEW x \in Normal(stddev)
                  PROVE  x \in Int
      OBVIOUS
    <3>1. Sigmas * stddev \in Int /\ -Sigmas * stddev \in Int
      BY SigmasAssumption
    <3>. QED  BY <3>1 DEF Normal
  <2>4. drift \in Int /\ jitter \in Int /\ burst \in Int
    BY <2>2, <2>3 DEF Drifts, Bursts
  <2>5. drift # s.slow => now > s.time
    BY <2>2 DEF Drifts, Elapsed
  <2>6. k.base + drift + jitter + burst \in Int
    BY <2>2, <2>4
  <2>7. drawn \in StateSet
    BY <2>1, <2>4, <2>6 DEF StateSet
  <2>. QED  BY <1>2, <2>1, <2>5, <2>7
<1>. QED  BY <1>1, <1>2
-----------------------------------------------------------------------------
(* The steps.                                                              *)

LEMMA InitIInv == Init => IInv
<1>. SUFFICES ASSUME Init
              PROVE  IInv
  OBVIOUS
<1>1. UnsampledComponent \in StateSet
  BY DEF UnsampledComponent, StateSet
<1>2. TypeOK
  <2>1. DOMAIN states = {}
    BY DEF Init, EmptyFunction
  <2>2. config \in Configs
    BY DEF Init
  <2>3. cycleValid = FALSE /\ cycleTime = 0 /\ commonDelay = 0 /\ clock = 0 /\ answers = {}
    BY DEF Init
  <2>4. common \in StateSet
    BY <1>1 DEF Init
  <2>5. cycleValid \in BOOLEAN /\ ~cycleValid
    BY <2>3
  <2>6. cycleTime \in Int /\ commonDelay \in Int /\ clock \in Int
    BY <2>3
  <2>7. \A t \in DOMAIN states : states[t] \in StateSet
    BY <2>1
  <2>. QED  BY <2>1, <2>2, <2>3, <2>4, <2>5, <2>6, <2>7 DEF TypeOK
<1>4. Accepted(config)
  BY DEF Init
<1>3. Cycle
  BY DEF Init, Cycle
<1>. QED  BY <1>2, <1>3, <1>4 DEF IInv

LEMMA CommonStep ==
    ASSUME IInv, NEW now \in Times, CommonDrawn(now)
    PROVE  /\ common' \in StateSet /\ commonDelay' \in Int
           /\ cycleValid' = TRUE /\ cycleTime' = now
           /\ config.enabled => /\ common'.known /\ common'.time = now
                                /\ common'.delay = commonDelay'
           /\ config.enabled /\ cycleValid /\ cycleTime = now => commonDelay' = commonDelay
           /\ ~config.enabled => commonDelay' = 0
           /\ common'.slow # common.slow => common'.time > common.time
<1>1. /\ config \in Configs /\ common \in StateSet /\ now \in Int
      /\ config.common \in ComponentSet
      /\ cycleValid /\ config.enabled =>
             common.known /\ common.time = cycleTime /\ common.delay = commonDelay
  BY TimesAssumption, ConfigsAssumption DEF IInv, TypeOK
<1>2. CASE config.enabled
  <2>1. common' \in SampledForCycle(config.common, common, now) /\ commonDelay' = common'.delay
    BY <1>2 DEF CommonDrawn
  <2>2. /\ common' \in StateSet /\ common'.known /\ common'.time = now
        /\ common.known /\ common.time = now => common' = common
        /\ common'.slow # common.slow => common'.time > common.time
    BY <1>1, <2>1, DrawnState
  <2>. QED  BY <1>1, <1>2, <2>1, <2>2 DEF CommonDrawn, StateSet
<1>3. CASE ~config.enabled
  BY <1>1, <1>3 DEF CommonDrawn
<1>. QED  BY <1>2, <1>3

LEMMA ResetIInv ==
    ASSUME IInv, NEW c \in Configs, Reset(c)
    PROVE  IInv'
<1>1. UnsampledComponent \in StateSet
  BY DEF UnsampledComponent, StateSet
<1>2. TypeOK'
  <2>1. DOMAIN states' = {}
    BY DEF Reset, EmptyFunction
  <2>2. /\ config' \in Configs
        /\ cycleValid' = FALSE /\ cycleTime' = 0 /\ commonDelay' = 0
        /\ clock' \in Int /\ answers' = {}
    BY DEF Reset, IInv, TypeOK
  <2>3. common' \in StateSet
    BY <1>1 DEF Reset
  <2>4. (cycleValid \in BOOLEAN)' /\ ~cycleValid'
    BY <2>2
  <2>5. cycleTime' \in Int /\ commonDelay' \in Int
    BY <2>2
  <2>6. \A t \in DOMAIN states' : states'[t] \in StateSet
    BY <2>1
  <2>. QED  BY <2>1, <2>2, <2>3, <2>4, <2>5, <2>6 DEF TypeOK
<1>3. Accepted(config)'
  BY DEF Reset, Accepted, ValidCapacity, ValidComponent, CapacityOf, MaxDelay
<1>4. Cycle'
  BY DEF Reset, Cycle
<1>. QED  BY <1>2, <1>3, <1>4 DEF IInv

LEMMA StartIInv ==
    ASSUME IInv, NEW now \in Times, StartPublishCycle(now)
    PROVE  IInv'
<1>1. CommonDrawn(now) /\ now \in Int
  BY TimesAssumption DEF StartPublishCycle
<1>2. TypeOK'
  BY <1>1, CommonStep DEF StartPublishCycle, IInv, TypeOK
<1>3. Accepted(config)'
  BY DEF StartPublishCycle, IInv, Accepted, ValidCapacity, ValidComponent, CapacityOf, MaxDelay
<1>4. Cycle'
  <2>1. /\ config' = config /\ states' = states /\ clock' = now
        /\ answers' = IF now = clock THEN answers ELSE {}
    BY DEF StartPublishCycle
  <2>2. CASE config.enabled
    <3>1. ASSUME NEW a \in answers'
          PROVE  /\ cycleValid' /\ cycleTime' = clock'
                 /\ a.common = commonDelay'
                 /\ a.tracker \in DOMAIN states'
                 /\ states'[a.tracker].known /\ states'[a.tracker].time = clock'
                 /\ a.delay = Clamped(commonDelay' + states'[a.tracker].delay,
                                      MaxDelay(config, a.tracker))
      <4>1. now = clock /\ a \in answers
        BY <2>1, <3>1
      <4>2. commonDelay' = commonDelay /\ cycleValid' /\ cycleTime' = now
        BY <1>1, <2>2, <4>1, CommonStep DEF IInv, Cycle
      <4>. QED  BY <2>1, <2>2, <4>1, <4>2 DEF IInv, Cycle
    <3>. QED  BY <2>1, <2>2, <3>1 DEF Cycle, MaxDelay
  <2>3. CASE ~config.enabled
    BY <2>1, <2>3 DEF IInv, Cycle
  <2>. QED  BY <2>2, <2>3
<1>. QED  BY <1>2, <1>3, <1>4 DEF IInv

\* The state in which a delay is given.
LEMMA DelayState ==
    ASSUME IInv, NEW t \in Trackers, NEW now \in Times, DelayForTracker(t, now)
    PROVE  /\ config' = config /\ config.enabled /\ clock' = now
           /\ common' \in StateSet /\ commonDelay' \in Int
           /\ cycleValid' /\ cycleTime' = now
           /\ common'.known /\ common'.time = now /\ common'.delay = commonDelay'
           /\ common'.slow # common.slow => common'.time > common.time
           /\ cycleValid /\ cycleTime = now => commonDelay' = commonDelay
<1>1. config' = config /\ config.enabled /\ clock' = now
  BY DEF DelayForTracker, Answered
<1>2. CASE CycleIsCurrent(now)
  BY <1>1, <1>2 DEF DelayForTracker, CycleIsCurrent, IInv, TypeOK
<1>3. CASE ~CycleIsCurrent(now)
  <2>1. CommonDrawn(now)
    BY <1>3 DEF DelayForTracker
  <2>. QED  BY <1>1, <2>1, CommonStep
<1>. QED  BY <1>1, <1>2, <1>3

\* The tracker's own part; the parts of the others are left alone.
LEMMA OwnState ==
    ASSUME IInv, NEW t \in Trackers, NEW now \in Times, DelayForTracker(t, now)
    PROVE  /\ DOMAIN states' = DOMAIN states \cup {t}
           /\ \A u \in DOMAIN states : u # t => states'[u] = states[u]
           /\ states'[t] \in StateSet
           /\ states'[t].known /\ states'[t].time = now
           /\ t \in DOMAIN states /\ states[t].known /\ states[t].time = now
                  => states'[t] = states[t]
           /\ t \in DOMAIN states /\ states'[t].slow # states[t].slow
                  => states'[t].time > states[t].time
           /\ answers' = (IF now = clock THEN answers ELSE {})
                  \cup {[tracker |-> t, common |-> commonDelay',
                         delay |-> Clamped(commonDelay' + states'[t].delay, MaxDelay(config, t))]}
<1>. DEFINE before == IF t \in DOMAIN states THEN states[t] ELSE UnsampledComponent
<1>1. PICK own \in SampledForCycle(TrackerComponent(config, t), before, now) :
          /\ states' = [u \in DOMAIN states \cup {t} |-> IF u = t THEN own ELSE states[u]]
          /\ Answered(t, now, Clamped(commonDelay' + own.delay, MaxDelay(config, t)))
  BY DEF DelayForTracker
<1>2. before \in StateSet /\ now \in Int /\ config \in Configs
  BY TimesAssumption DEF IInv, TypeOK, UnsampledComponent, StateSet
<1>3. TrackerComponent(config, t) \in ComponentSet
  BY <1>2, ComponentOfTracker
<1>. HIDE DEF before
<1>4. /\ own \in StateSet /\ own.known /\ own.time = now
      /\ before.known /\ before.time = now => own = before
      /\ own.slow # before.slow => own.time > before.time
  BY <1>1, <1>2, <1>3, DrawnState
<1>5. states'[t] = own /\ (t \in DOMAIN states => before = states[t])
  BY <1>1 DEF before
<1>6. /\ DOMAIN states' = DOMAIN states \cup {t}
      /\ \A u \in DOMAIN states : u # t => states'[u] = states[u]
  BY <1>1
<1>. QED  BY <1>1, <1>4, <1>5, <1>6 DEF Answered

LEMMA DelayIInv ==
    ASSUME IInv, NEW t \in Trackers, NEW now \in Times, DelayForTracker(t, now)
    PROVE  IInv'
<1>1. now \in Int /\ config \in Configs /\ Accepted(config)
  BY TimesAssumption DEF IInv, TypeOK
<1>. DEFINE delay == Clamped(commonDelay' + states'[t].delay, MaxDelay(config, t))
<1>2. delay \in Int
  <2>1. commonDelay' + states'[t].delay \in Int
    <3>1. commonDelay' \in Int
      BY DelayState
    <3>2. states'[t] \in StateSet
      BY OwnState
    <3>. QED  BY <3>1, <3>2 DEF StateSet
  <2>2. MaxDelay(config, t) \in Nat
    BY <1>1, MaxDelayIsNat
  <2>3. delay \in 0 .. MaxDelay(config, t)
    BY <2>1, <2>2, ClampedInRange
  <2>. QED  BY <2>2, <2>3
<1>3. answers' = (IF now = clock THEN answers ELSE {})
                     \cup {[tracker |-> t, common |-> commonDelay', delay |-> delay]}
  BY OwnState
<1>4. TypeOK'
  <2>1. answers' \subseteq [tracker : Trackers, common : Int, delay : Int]
    <3>. HIDE DEF delay
    <3>. QED  BY <1>2, <1>3, DelayState DEF IInv, TypeOK
  <2>2. /\ DOMAIN states' \subseteq Trackers
        /\ \A u \in DOMAIN states' : states'[u] \in StateSet
    BY OwnState DEF IInv, TypeOK
  <2>. QED  BY <1>1, <2>1, <2>2, DelayState DEF TypeOK
<1>5. Accepted(config)'
  BY <1>1, DelayState DEF Accepted, ValidCapacity, ValidComponent, CapacityOf, MaxDelay
<1>6. Cycle'
  <2>1. ASSUME NEW a \in answers'
        PROVE  /\ a.common = commonDelay'
               /\ a.tracker \in DOMAIN states'
               /\ states'[a.tracker].known /\ states'[a.tracker].time = now
               /\ a.delay = Clamped(commonDelay' + states'[a.tracker].delay,
                                    MaxDelay(config, a.tracker))
    <3>1. CASE a = [tracker |-> t, common |-> commonDelay', delay |-> delay]
      <4>1. t \in DOMAIN states'
        <5>1. DOMAIN states' = DOMAIN states \cup {t}
          BY OwnState
        <5>. QED  BY <5>1
      <4>3. states'[t].known
        BY OwnState
      <4>4. states'[t].time = now
        BY OwnState
      <4>2. a.tracker = t /\ a.common = commonDelay' /\ a.delay = delay
        BY <3>1
      <4>. QED  BY <4>1, <4>2, <4>3, <4>4
    <3>2. CASE now = clock /\ a \in answers
      <4>1. /\ cycleValid /\ cycleTime = now /\ a.common = commonDelay
            /\ a.tracker \in DOMAIN states
            /\ states[a.tracker].known /\ states[a.tracker].time = now
            /\ a.delay = Clamped(commonDelay + states[a.tracker].delay,
                                 MaxDelay(config, a.tracker))
        BY <3>2, DelayState DEF IInv, Cycle
      <4>2. commonDelay' = commonDelay
        BY <4>1, DelayState
      <4>3. a.tracker \in DOMAIN states' /\ states'[a.tracker] = states[a.tracker]
        BY <4>1, OwnState
      <4>. QED  BY <4>1, <4>2, <4>3
    <3>. QED  BY <1>3, <2>1, <3>1, <3>2
  <2>2. config' = config /\ config.enabled /\ clock' = now /\ cycleValid' /\ cycleTime' = now
    BY DelayState
  <2>. QED  BY <2>1, <2>2 DEF Cycle, MaxDelay
<1>. QED  BY <1>4, <1>5, <1>6 DEF IInv

LEMMA NoDelayIInv ==
    ASSUME IInv, NEW t \in Trackers, NEW now \in Times, NoDelayForTracker(t, now)
    PROVE  IInv'
<1>. USE DEF delayVars
<1>1. TypeOK'
  BY TimesAssumption DEF IInv, TypeOK, NoDelayForTracker
<1>2. Accepted(config)'
  BY DEF IInv, NoDelayForTracker, Accepted, ValidCapacity, ValidComponent, CapacityOf, MaxDelay
<1>3. Cycle'
  BY DEF IInv, Cycle, NoDelayForTracker
<1>. QED  BY <1>1, <1>2, <1>3 DEF IInv

LEMMA NextIInv == IInv /\ [Next]_vars => IInv'
<1>. SUFFICES ASSUME IInv, [Next]_vars
              PROVE  IInv'
  OBVIOUS
<1>1. CASE Next
  BY <1>1, ResetIInv, StartIInv, DelayIInv, NoDelayIInv DEF Next
<1>2. CASE UNCHANGED vars
  BY <1>2 DEF vars, delayVars, IInv, TypeOK, Cycle, Accepted, ValidCapacity, ValidComponent,
              CapacityOf, MaxDelay
<1>. QED  BY <1>1, <1>2
-----------------------------------------------------------------------------

\* The invariant on which the theorems below rest.
THEOREM InvariantOfSpec == Spec => []IInv
BY InitIInv, NextIInv, PTL DEF Spec

\* The state keeps its types, and a valid cycle is the last that was drawn.
THEOREM TypeCorrect == Spec => []TypeOK
<1>1. IInv => TypeOK
  BY DEF IInv
<1>. QED  BY <1>1, InvariantOfSpec, PTL

\* No delay leaves the range that delaySecondsForTracker() promises, for every
\* configuration that validate() accepts.
THEOREM DelaysStayInRange == Spec => []DelaysInRange
<1>1. ASSUME IInv, NEW a \in answers
      PROVE  a.delay \in 0 .. MaxDelay(config, a.tracker)
  <2>1. /\ a.tracker \in Trackers /\ a.common \in Int
        /\ config \in Configs /\ Accepted(config) /\ commonDelay \in Int
    BY <1>1 DEF IInv, TypeOK
  <2>2. MaxDelay(config, a.tracker) \in Nat
    BY <2>1, MaxDelayIsNat
  <2>3. CASE config.enabled
    <3>1. /\ a.tracker \in DOMAIN states
          /\ a.delay = Clamped(commonDelay + states[a.tracker].delay,
                               MaxDelay(config, a.tracker))
      BY <1>1, <2>3 DEF IInv, Cycle
    <3>2. states[a.tracker] \in StateSet
      BY <1>1, <3>1 DEF IInv, TypeOK
    <3>3. commonDelay + states[a.tracker].delay \in Int
      BY <2>1, <3>2 DEF StateSet
    <3>. QED  BY <2>2, <3>1, <3>3, ClampedInRange
  <2>4. CASE ~config.enabled
    BY <1>1, <2>2, <2>4 DEF IInv, Cycle
  <2>. QED  BY <1>1, <2>3, <2>4 DEF IInv, TypeOK
<1>2. IInv => DelaysInRange
  BY <1>1 DEF DelaysInRange
<1>. QED  BY <1>2, InvariantOfSpec, PTL

\* Within one publish cycle each tracker has one delay, and all share the
\* common part.
THEOREM DelaysAgreeInCycle == Spec => []OneDelayPerCycle
<1>1. IInv => OneDelayPerCycle
  BY DEF IInv, TypeOK, Cycle, OneDelayPerCycle
<1>. QED  BY <1>1, InvariantOfSpec, PTL

\* validate() bounds the memory of every tracker's history, and each history
\* is long enough for the delay it serves.
THEOREM CapacitiesAreBounded == Spec => []HistoriesAreBounded
<1>1. ASSUME IInv, NEW t \in Trackers
      PROVE  /\ HistoryCapacity(config, t) <= MaxHistorySamples
             /\ config.enabled =>
                    HistoryCapacity(config, t) * 1000
                        >= (MaxDelay(config, t) + config.margin) * PublishRate
  <2>1. config \in Configs /\ Accepted(config) /\ config.margin \in Int /\ config.margin >= 0
    BY <1>1, ConfigsAssumption DEF IInv, TypeOK, Accepted
  <2>2. MaxDelay(config, t) \in Nat
    BY <2>1, MaxDelayIsNat
  <2>3. ValidCapacity(config, MaxDelay(config, t))
    BY <2>1 DEF Accepted, MaxDelay
  <2>. DEFINE window == MaxDelay(config, t) + config.margin
  <2>4. CASE config.enabled
    <3>1. HistoryCapacity(config, t) = CapacityOf(window)
      BY <2>1, <2>4 DEF HistoryCapacity
    <3>2. CapacityOf(window) <= MaxHistorySamples
      BY <2>3 DEF ValidCapacity
    <3>3. window \in Nat
      BY <2>1, <2>2
    <3>. HIDE DEF window
    <3>4. CapacityOf(window) * 1000 >= window * PublishRate
      <4>. DEFINE x == window * PublishRate
      <4>1. x \in Int
        BY <3>3, LimitAssumption
      <4>. HIDE DEF x
      <4>2. (IF (x + 999) \div 1000 + 3 >= 4 THEN (x + 999) \div 1000 + 3 ELSE 4) * 1000 >= x
        BY <4>1
      <4>. QED  BY <4>2 DEF CapacityOf, x
    <3>. QED  BY <3>1, <3>2, <3>4 DEF window
  <2>5. CASE ~config.enabled
    BY <2>5, LimitAssumption DEF HistoryCapacity
  <2>. QED  BY <2>4, <2>5
<1>2. IInv => HistoriesAreBounded
  BY <1>1 DEF HistoriesAreBounded
<1>. QED  BY <1>2, InvariantOfSpec, PTL

\* The drift of a component moves only forward in time, in every cycle.
THEOREM DriftOnlyWithTime == Spec => DriftNeedsTime
<1>. DEFINE A == /\ common'.slow # common.slow =>
                        common'.time > common.time \/ common' = UnsampledComponent
                 /\ \A t \in DOMAIN states \cap DOMAIN states' :
                        states'[t].slow # states[t].slow => states'[t].time > states[t].time
<1>1. ASSUME IInv, Next
      PROVE  A
  <2>1. ASSUME NEW c \in Configs, Reset(c)
        PROVE  A
    BY <2>1 DEF Reset, EmptyFunction
  <2>2. ASSUME NEW now \in Times, StartPublishCycle(now)
        PROVE  A
    <3>1. CommonDrawn(now) /\ states' = states
      BY <2>2 DEF StartPublishCycle
    <3>. QED  BY <1>1, <3>1, CommonStep
  <2>3. ASSUME NEW t \in Trackers, NEW now \in Times, DelayForTracker(t, now)
        PROVE  A
    <3>1. common'.slow # common.slow => common'.time > common.time
      BY <1>1, <2>3, DelayState
    <3>2. ASSUME NEW u \in DOMAIN states
          PROVE  states'[u].slow # states[u].slow => states'[u].time > states[u].time
      BY <1>1, <2>3, <3>2, OwnState
    <3>. QED  BY <3>1, <3>2
  <2>4. ASSUME NEW t \in Trackers, NEW now \in Times, NoDelayForTracker(t, now)
        PROVE  A
    BY <2>4 DEF NoDelayForTracker, delayVars
  <2>. HIDE DEF A
  <2>. QED  BY <1>1, <2>1, <2>2, <2>3, <2>4 DEF Next
<1>2. IInv /\ [Next]_vars => [A]_vars
  BY <1>1
<1>. HIDE DEF A
<1>3. Spec => [][A]_vars
  BY <1>2, InvariantOfSpec, PTL DEF Spec
<1>. QED  BY <1>3 DEF A, DriftNeedsTime
=============================================================================
