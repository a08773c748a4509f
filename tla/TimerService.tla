---------------------------- MODULE TimerService ----------------------------
(***************************************************************************)
(* What runAt(), runAfter() and runEvery() promise: a timer's callback is  *)
(* made once the clock is past the time it was set for, never before; a    *)
(* timer that does not repeat is done with then; one that does is set      *)
(* again, its interval after the time at which it was found to be due.  A  *)
(* timer that was set stays set until its callback is made.  Threads, the  *)
(* ordered set, the timerfd and the batches of handleRead() do not appear. *)
(***************************************************************************)
EXTENDS Integers

CONSTANTS
  Timers,     \* the timers user code sets, each once
  Repeats,    \* those with an interval > 0
  Interval    \* the interval of each, in units of the clock

None == -1    \* the timer is not set

VARIABLES
  clock,      \* the clock, as the service last read it
  due,        \* due[t]: the time t is set for, or None
  fired       \* fired[t]: how often the callback was made

vars == <<clock, due, fired>>

Init ==
  /\ clock = 0
  /\ due = [t \in Timers |-> None]
  /\ fired = [t \in Timers |-> 0]

Set(t) ==
  /\ due[t] = None /\ fired[t] = 0
  /\ due'[t] \in Nat
  /\ due' = [due EXCEPT ![t] = due'[t]]
  /\ UNCHANGED <<clock, fired>>

ReadClock ==
  /\ clock' \in Nat
  /\ UNCHANGED <<due, fired>>

Fire(t) ==
  /\ due[t] # None /\ due[t] < clock
  /\ fired' = [fired EXCEPT ![t] = @ + 1]
  /\ due' = [due EXCEPT ![t] = IF t \in Repeats THEN clock + Interval[t] ELSE None]
  /\ UNCHANGED clock

Next ==
  \/ ReadClock
  \/ \E t \in Timers : Set(t) \/ Fire(t)

Spec == Init /\ [][Next]_vars
=============================================================================
