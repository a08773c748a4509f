---------------------------- MODULE MCTimerQueue ----------------------------
(* The instance of TimerQueue for TLC: two timers that fire once and one   *)
(* that repeats.                                                           *)
EXTENDS TimerQueue

CONSTANTS t1, t2, t3

Intervals == [t \in Timers |-> IF t = t3 THEN 1 ELSE 0]

(* All timers repeat, with one interval. *)
SameInterval == [t \in Timers |-> 1]
=============================================================================
