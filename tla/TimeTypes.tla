----------------------------- MODULE TimeTypes ------------------------------
(* TimeDelta and TimePoint (timer/time_delta.h, timer/time_point.h), both a  *)
(* signed number of nanoseconds, and the time a timer is armed with          *)
(* (linux/timerfd.cc).                                                       *)
EXTENDS Integers

CONSTANTS
    Kilo,               \* 1000 in the code
    WordBits            \* 64 in the code

ASSUME TimeAssumption == Kilo \in Nat \ {0, 1} /\ WordBits \in Nat

NSEC_PER_SEC == Kilo * Kilo * Kilo

\* The division and the remainder of C++ round towards zero.
Quotient(a, b) == IF a >= 0 THEN a \div b ELSE -((-a) \div b)
Remainder(a, b) == a - b * Quotient(a, b)

\* operator+, operator- and operator* of TimeDelta
Plus(delta, other) == delta + other
Minus(delta, other) == delta - other
Times(delta, multiplier) == delta * multiplier

FromMicroseconds(micros) == micros * Kilo
FromMilliseconds(millis) == FromMicroseconds(millis * Kilo)
FromSeconds(seconds) == FromMilliseconds(seconds * Kilo)

ToMicroseconds(delta) == Quotient(delta, Kilo)
ToMilliseconds(delta) == Quotient(ToMicroseconds(delta), Kilo)
ToSeconds(delta) == Quotient(ToMilliseconds(delta), Kilo)

FromTimespec(ts) == Plus(FromSeconds(ts.tv_sec), ts.tv_nsec)
ToTimespec(delta) == [tv_sec |-> ToSeconds(delta), tv_nsec |-> Remainder(delta, NSEC_PER_SEC)]

\* operator- and operator+ of TimePoint
TimeSince(ticks, other) == ticks - other
TimeAfter(ticks, duration) == ticks + duration

\* TimerRearm: the time is converted to an unsigned word, and 0 would disarm.
TimerRearm(ticks) ==
    LET word == ticks % 2^WordBits
        nano_secs == IF word < 1 THEN 1 ELSE word
    IN  [tv_sec |-> nano_secs \div NSEC_PER_SEC, tv_nsec |-> nano_secs % NSEC_PER_SEC]

-----------------------------------------------------------------------------
(* What is asked of them                                                     *)

\* Nothing is lost between a duration and its timespec, of either sign; a unit
\* is lost at most in the coarser ones, towards zero; and the timer for a point
\* that is not before the epoch is armed, for that point.
TimeConverts(delta) ==
    /\ FromTimespec(ToTimespec(delta)) = delta
    /\ delta >= 0 => ToTimespec(delta).tv_nsec \in 0 .. NSEC_PER_SEC - 1
    /\ \A units \in {<<FromMicroseconds(ToMicroseconds(delta)), Kilo>>,
                     <<FromMilliseconds(ToMilliseconds(delta)), Kilo * Kilo>>,
                     <<FromSeconds(ToSeconds(delta)), NSEC_PER_SEC>>} :
          IF delta >= 0 THEN units[1] <= delta /\ delta < units[1] + units[2]
                        ELSE units[1] >= delta /\ delta > units[1] - units[2]
    /\ \A unit \in {Kilo, Kilo * Kilo, NSEC_PER_SEC} :
          Minus(delta, Remainder(delta, unit)) = Times(unit, Quotient(delta, unit))
    /\ TimeAfter(TimeSince(delta, 1), 1) = delta
    /\ delta >= 0 =>
          FromTimespec(TimerRearm(delta)) = IF delta = 0 THEN 1 ELSE delta

\* A timer for a time that is past expires at once ("desired behavior is to
\* immediately trigger the timer", timerfd.cc), also for a time before the epoch.
PastTimerFires(delta) ==
    delta <= 0 => FromTimespec(TimerRearm(delta)) = 1
=============================================================================
