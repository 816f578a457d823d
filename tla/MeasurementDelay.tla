-------------------------- MODULE MeasurementDelay --------------------------
(***************************************************************************)
(* MeasurementDelay (measurement_delay.h): how old the pose is that a      *)
(* tracker reports in a publish cycle.  A delay has a part that all        *)
(* trackers share and one of the tracker's own, both random; each is drawn *)
(* once per cycle, and a cycle is known by its wall time alone.            *)
(*                                                                         *)
(* The generator is a choice among the values a draw can have; a normal    *)
(* distribution is cut off at Sigmas standard deviations.                  *)
(***************************************************************************)
EXTENDS DelayConfig

CONSTANTS Trackers,
          Configs,            \* the configurations that are considered
          Times,              \* wall times of calls
          Sigmas

ASSUME TimesAssumption == Times \subseteq Int
ASSUME SigmasAssumption == Sigmas \in Nat
ASSUME ConfigsAssumption ==
    \A c \in Configs :
        /\ c.enabled \in BOOLEAN
        /\ c.maxDelay \in Int /\ c.margin \in Int
        /\ c.common \in ComponentSet
        /\ DOMAIN c.trackers \subseteq Trackers
        /\ \A t \in DOMAIN c.trackers : /\ c.trackers[t].component \in ComponentSet
                                        /\ c.trackers[t].maxDelay \in Int

-----------------------------------------------------------------------------
(* One random component.  Its state has last_time_s and cycle_time_s as    *)
(* one time, and the two flags as one, since they are always set together. *)

UnsampledComponent == [known |-> FALSE, time |-> 0, slow |-> 0, delay |-> 0]

Normal(stddev) == -Sigmas * stddev .. Sigmas * stddev

\* Mutant of Elapsed: a clock that was set back counts as well.
ElapsedEitherWay(s, now) == now - s.time

Elapsed(s, now) == IF now >= s.time THEN now - s.time ELSE 0

\* exp(-dt / tau) is 1 without time in between: the drift is then kept.
Drifts(k, s, now) ==
    IF s.known /\ k.slowStddev > 0 /\ k.slowTau > 0 /\ Elapsed(s, now) # 0
    THEN Normal(k.slowStddev) ELSE {s.slow}

Bursts(k) == (IF k.burstProbability < 100 THEN {0} ELSE {}) \cup
             (IF k.burstProbability > 0 THEN k.burstMin .. k.burstMax ELSE {})

Sampled(k, s, now) ==
    {[known |-> TRUE, time |-> now, slow |-> drift, delay |-> k.base + drift + jitter + burst] :
        drift \in Drifts(k, s, now), jitter \in Normal(k.jitterStddev), burst \in Bursts(k)}

\* Mutant of SampledForCycle: drawn at each call.
SampledAtEachCall(k, s, now) == Sampled(k, s, now)

SampledForCycle(k, s, now) ==
    IF s.known /\ s.time = now THEN {s} ELSE Sampled(k, s, now)
-----------------------------------------------------------------------------
VARIABLES
    config,       \* config_
    common,       \* common_state_
    states,       \* tracker_states_
    cycleValid,   \* common_cycle_valid_
    cycleTime,    \* current_cycle_time_s_
    commonDelay   \* current_common_delay_ms_

\* History variables, not in the code.
VARIABLES
    clock,        \* the time of the last call
    answers       \* the delays given at that time, since it was last another

delayVars == <<config, common, states, cycleValid, cycleTime, commonDelay>>
vars == <<delayVars, clock, answers>>

\* The constructor, with a configuration that loadServerConfig() has accepted.
Init ==
    /\ \E c \in Configs : Accepted(c) /\ config = c
    /\ common = UnsampledComponent
    /\ states = EmptyFunction
    /\ cycleValid = FALSE /\ cycleTime = 0 /\ commonDelay = 0
    /\ clock = 0 /\ answers = {}

\* Mutant of Reset: the cycle stays current.
ResetWithinCycle(c) ==
    /\ Accepted(c)
    /\ config' = c
    /\ common' = UnsampledComponent
    /\ states' = EmptyFunction
    /\ answers' = {}
    /\ UNCHANGED <<cycleValid, cycleTime, commonDelay, clock>>

\* reset(); the generator is seeded again, which is no state here.
Reset(c) ==
    /\ Accepted(c)
    /\ config' = c
    /\ common' = UnsampledComponent
    /\ states' = EmptyFunction
    /\ cycleValid' = FALSE /\ cycleTime' = 0 /\ commonDelay' = 0
    /\ answers' = {}
    /\ UNCHANGED clock

\* What startPublishCycle() does to the common component.
CommonDrawn(now) ==
    /\ \/ /\ config.enabled
          /\ common' \in SampledForCycle(config.common, common, now)
          /\ commonDelay' = common'.delay
       \/ ~config.enabled /\ commonDelay' = 0 /\ UNCHANGED common
    /\ cycleValid' = TRUE /\ cycleTime' = now

StartPublishCycle(now) ==
    /\ CommonDrawn(now)
    /\ clock' = now
    /\ answers' = IF now = clock THEN answers ELSE {}
    /\ UNCHANGED <<config, states>>

Answered(t, now, delay) ==
    /\ clock' = now
    /\ answers' = (IF now = clock THEN answers ELSE {})
                      \cup {[tracker |-> t, common |-> commonDelay', delay |-> delay]}

CycleIsCurrent(now) == cycleValid /\ cycleTime = now

\* Mutant of Clamped: no lower bound.
ClampedAbove(value, high) == IF value > high THEN high ELSE value

Clamped(value, high) ==
    LET low == IF value > 0 THEN value ELSE 0 IN IF low > high THEN high ELSE low

\* delaySecondsForTracker(); a tracker that is asked for the first time gets a
\* state of its own.
DelayForTracker(t, now) ==
    /\ config.enabled
    /\ IF CycleIsCurrent(now) THEN UNCHANGED <<common, commonDelay, cycleValid, cycleTime>>
                              ELSE CommonDrawn(now)
    /\ LET before == IF t \in DOMAIN states THEN states[t] ELSE UnsampledComponent
       IN \E own \in SampledForCycle(TrackerComponent(config, t), before, now) :
              /\ states' = [u \in DOMAIN states \cup {t} |-> IF u = t THEN own ELSE states[u]]
              /\ Answered(t, now, Clamped(commonDelay' + own.delay, MaxDelay(config, t)))
    /\ UNCHANGED config

NoDelayForTracker(t, now) ==
    /\ ~config.enabled
    /\ clock' = now
    /\ answers' = (IF now = clock THEN answers ELSE {})
                      \cup {[tracker |-> t, common |-> 0, delay |-> 0]}
    /\ UNCHANGED delayVars

Next == \/ \E c \in Configs : Reset(c)
        \/ \E now \in Times : StartPublishCycle(now)
        \/ \E t \in Trackers, now \in Times : DelayForTracker(t, now) \/ NoDelayForTracker(t, now)

Spec == Init /\ [][Next]_vars
-----------------------------------------------------------------------------
(* Properties.                                                             *)

StateSet == [known : BOOLEAN, time : Int, slow : Int, delay : Int]

\* Type invariant; a cycle that is valid is the last one of the common part.
TypeOK ==
    /\ config \in Configs
    /\ common \in StateSet
    /\ DOMAIN states \subseteq Trackers
    /\ \A t \in DOMAIN states : states[t] \in StateSet
    /\ cycleValid \in BOOLEAN
    /\ cycleTime \in Int /\ commonDelay \in Int /\ clock \in Int
    /\ cycleValid /\ config.enabled =>
           common.known /\ common.time = cycleTime /\ common.delay = commonDelay
    /\ answers \subseteq [tracker : Trackers, common : Int, delay : Int]

\* Every delay is between zero and the maximum of its tracker, whatever is
\* drawn, for every configuration that validate() accepts: the server never
\* looks for a sample of the future nor beyond its history.
DelaysInRange ==
    \A a \in answers : a.delay \in 0 .. MaxDelay(config, a.tracker)

\* In a publish cycle a tracker has one delay however often it is asked for,
\* and all trackers have the same common part, whether or not the cycle was
\* started and whatever times were asked for before.
OneDelayPerCycle ==
    \A a, b \in answers : /\ a.common = b.common
                          /\ a.tracker = b.tracker => a.delay = b.delay

\* The drift of a component moves only while time advances: a wall clock that
\* is set back would otherwise amplify it without bound.
DriftNeedsTime ==
    [][/\ common'.slow # common.slow =>
              common'.time > common.time \/ common' = UnsampledComponent
       /\ \A t \in DOMAIN states \cap DOMAIN states' :
              states'[t].slow # states[t].slow => states'[t].time > states[t].time]_vars

\* For a configuration that validate() accepts, the history of every tracker,
\* with an entry of its own or not, stays within the hard limit, and it spans
\* the longest delay and the margin at the publish rate.
HistoriesAreBounded ==
    \A t \in Trackers :
        /\ HistoryCapacity(config, t) <= MaxHistorySamples
        /\ config.enabled =>
               HistoryCapacity(config, t) * 1000 >= (MaxDelay(config, t) + config.margin) * PublishRate
=============================================================================
