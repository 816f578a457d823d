------------------------------ MODULE WireTime ------------------------------
(***************************************************************************)
(* secondsToTimeval() (vrpn_tracker_server.cpp): the seconds and           *)
(* microseconds that VRPN sends for a time, which is a double.  A time is  *)
(* counted in parts of a microsecond, Grain of them, and a second has      *)
(* Million microseconds, so that small values of both show every rounding. *)
(* Publish calls it with any time, before and after the last one.          *)
(***************************************************************************)
EXTENDS Integers

CONSTANTS Million, Grain, ReportTimes

ASSUME WireTimeAssumption ==
    Million \in Nat \ {0} /\ Grain \in Nat \ {0} /\ ReportTimes \subseteq Int

VARIABLES reportTime,   \* time_s
          timestamp     \* the struct timeval of it

Second == Million * Grain

\* std::round() of a time that is not negative, in microseconds.
Rounded(t) == (2 * t + Grain) \div (2 * Grain)

\* Mutant of Carried: a rounded fraction is always less than a second.
NotCarried(sec, usec) == [sec |-> sec, usec |-> usec]

Carried(sec, usec) ==
    IF usec >= Million THEN [sec |-> sec + 1, usec |-> usec - Million]
                       ELSE [sec |-> sec, usec |-> usec]

SecondsToTimeval(t) ==
    LET positive == IF t > 0 THEN t ELSE 0
    IN Carried(positive \div Second, Rounded(positive % Second))

WireInit == reportTime = 0 /\ timestamp = SecondsToTimeval(0)

Report(t) == reportTime' = t /\ timestamp' = SecondsToTimeval(t)

WireNext == \E t \in ReportTimes : Report(t)

WireSpec == WireInit /\ [][WireNext]_<<reportTime, timestamp>>
-----------------------------------------------------------------------------
\* The time on the wire is a valid timeval, with less than a second in its
\* microseconds, and the nearest one to the time, also where the rounding
\* carries into the next second; a negative time is sent as zero.
TimestampIsNearest ==
    LET onWire == Grain * (Million * timestamp.sec + timestamp.usec)
        wanted == IF reportTime > 0 THEN reportTime ELSE 0
    IN /\ timestamp.usec \in 0 .. Million - 1
       /\ 2 * (onWire - wanted) <= Grain /\ 2 * (wanted - onWire) <= Grain
=============================================================================
