---------------------------- MODULE JTCTimeouts -----------------------------
(* The arithmetic of JTC's timed waits.                                     *)
EXTENDS Integers

oneBillion == 1000000000

\* Mutant of CalcTimeout: the carry into the seconds is forgotten.
CalcTimeout_NoCarry(now, timeout) ==
    LET nsec == now.usec * 1000 + (timeout % 1000) * 1000000
        sec == now.sec + timeout \div 1000
    IN [sec |-> sec, nsec |-> nsec]

\* The absolute time "timeout" milliseconds from now.
CalcTimeout(now, timeout) ==
    LET nsec == now.usec * 1000 + (timeout % 1000) * 1000000
        sec == now.sec + timeout \div 1000
    IN IF nsec > oneBillion THEN [sec |-> sec + 1, nsec |-> nsec - oneBillion]
       ELSE [sec |-> sec, nsec |-> nsec]

\* join(millis, nanos): the limit in whole milliseconds, 0 is none.
JoinMillis(millis, nanos) ==
    IF nanos >= 500000 \/ (nanos # 0 /\ millis = 0) THEN millis + 1 ELSE millis

-----------------------------------------------------------------------------
CONSTANTS Microseconds, Millis, Nanos       \* boundary values of each

ASSUME TimAssumption == /\ \A usec \in Microseconds : usec \in Nat /\ usec < 1000000
                        /\ Millis \subseteq Nat
                        /\ \A nanos \in Nanos : nanos \in Nat /\ nanos < 1000000

\* A call of join, its arguments and the time of day it is made at.
VARIABLE joinCall

TimInit == joinCall \in [usec : Microseconds, millis : Millis, nanos : Nanos]

(* A timed join waits until the time it was asked for, to the millisecond:  *)
(* the deadline is exact, is a valid time, and a short limit never turns    *)
(* into the 0 that means none. The exception is a sum of exactly one        *)
(* second's nanoseconds, which is left in tv_nsec.                          *)
DeadlineExact ==
    LET limit == JoinMillis(joinCall.millis, joinCall.nanos)
        usec == joinCall.usec
        end == CalcTimeout([sec |-> 7, usec |-> usec], limit)
    IN /\ limit = 0 => joinCall.millis = 0 /\ joinCall.nanos = 0
       /\ limit - joinCall.millis \in 0..1
       /\ end.nsec - usec * 1000 = limit * 1000000 - (end.sec - 7) * oneBillion
       /\ usec * 1000 + (limit % 1000) * 1000000 # oneBillion
            => end.nsec \in 0..(oneBillion - 1)
=============================================================================
