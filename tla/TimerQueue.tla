----------------------------- MODULE TimerQueue -----------------------------
(***************************************************************************)
(* The timers of one EventLoop (src/src/timer_queue.cpp): the ordered set, *)
(* the timerfd that stands for its earliest entry, the loop that handles   *)
(* it, and timers set from the loop's thread - a callback of a timer among *)
(* them - and from other threads.                                          *)
(*                                                                         *)
(* There are two clocks, as in the code.  Expirations are times of the     *)
(* wall clock, which may be set; the timerfd counts down on a monotonic    *)
(* clock, from a difference of wall clock times.  A tick moves both.       *)
(***************************************************************************)
EXTENDS Integers, Sequences

CONSTANTS
  Timers,       \* the Timer objects, each set once
  Repeats,      \* those with repeat_: an interval > 0
  Interval,     \* interval_ as addTime() adds it: 0 for one below a tick
  MinDelay,     \* the 100 microseconds of howMuchTimeFromNow(), in ticks
  MovedReads,   \* whether reading a moved-from timer works (addTimerInLoop)
  MaxTime,      \* bound: the wall clock stops there
  MaxSteps      \* bound: how often the wall clock is set

ASSUME TimerAssumption ==
  /\ Repeats \subseteq Timers
  /\ Interval \in [Timers -> Nat]
  /\ MinDelay \in Nat \ {0}
  /\ MovedReads \in BOOLEAN
  /\ MaxTime \in Nat \ {0}
  /\ MaxSteps \in Nat

Unset == -1     \* the expiration of a Timer that was not constructed yet

VARIABLES
  timers,       \* timers_
  expiration,   \* expiration_ of each Timer
  expired,      \* the local vector of handleRead()
  ran,          \* the timers of it whose callback has been called
  clockRead,    \* the local now of handleRead()
  queued,       \* addTimerInLoop() functors in pending_functors_
  phase,        \* the loop: "start", "poll", "handle", "run", "functors"
  reported,     \* active_channels_ still has the timerfd's channel
  alarm,        \* ticks until the timerfd expires; 0: disarmed
  readable,     \* the timerfd has expired and was not read
  now,          \* the wall clock
  steps,        \* how often it was set
  ahead,        \* history: by how much it was set forward in all
  fired,        \* history: how often each callback was called
  crash         \* "no", or what stopped the process

queueVars == <<timers, expiration>>
batchVars == <<expired, ran, clockRead>>
fdVars == <<alarm, readable>>
clockVars == <<now, steps, ahead>>
vars == <<queueVars, batchVars, queued, phase, reported, fdVars, clockVars, fired, crash>>

(* The types; a timer is not in timers_ and in the batch of handleRead()   *)
(* at once, and only a constructed one is in timers_.                      *)
QueueTypes ==
  /\ timers \subseteq Timers
  /\ expiration \in [Timers -> Nat \cup {Unset}]
  /\ \A t \in timers : expiration[t] # Unset
  /\ expired \subseteq Timers \ timers /\ ran \subseteq expired
  /\ clockRead \in Nat
  /\ queued \in Seq(Timers)
  /\ fired \in [Timers -> Nat]

ClockTypes ==
  /\ alarm \in Nat
  /\ now \in 1..MaxTime /\ steps \in 0..MaxSteps /\ ahead \in Nat

LoopTypes ==
  /\ phase \in {"start", "poll", "handle", "run", "functors"}
  /\ reported \in BOOLEAN /\ readable \in BOOLEAN
  /\ crash \in {"no", "equal", "exactly now", "moved"}

TypeOK == QueueTypes /\ ClockTypes /\ LoopTypes

Init ==
  /\ timers = {} /\ expiration = [t \in Timers |-> Unset]
  /\ expired = {} /\ ran = {} /\ clockRead = 0
  /\ queued = <<>> /\ phase = "start" /\ reported = FALSE
  /\ alarm = 0 /\ readable = FALSE
  /\ now = 1 /\ steps = 0 /\ ahead = 0
  /\ fired = [t \in Timers |-> 0]
  /\ crash = "no"

Running == crash = "no"

-----------------------------------------------------------------------------
(* Timestamp::valid(): the default constructed one is not. *)
valid(time) == time > 0

(* howMuchTimeFromNow(): a delay of 0 would disarm the timerfd. *)
NoFloor(when) == IF when < now THEN 0 ELSE when - now         \* mutant
SignedDelay(when) == when - now                               \* mutant
howMuchTimeFromNow(when) == IF when - now < MinDelay THEN MinDelay ELSE when - now

(* timerfd_settime() also takes back an expiration that was not read yet. *)
resetTimerfd(when) == alarm' = howMuchTimeFromNow(when) /\ readable' = FALSE

(* The first entry of the ordered set ts, where timer t expires at e[t]. *)
IsFirst(t, ts, e) == t \in ts /\ \A u \in ts : e[t] <= e[u]

-----------------------------------------------------------------------------
(* insert() says whether the timer is the earliest now, and asserts that   *)
(* the set had none with the same expiration.                              *)
OnlyIfEmpty(t) == timers = {}                                 \* mutant
EarliestToAlarm(t) == \A u \in timers : expiration'[t] < expiration[u]
Collides(t) == \E u \in timers : expiration'[t] = expiration[u]

(* addTimerInLoop(t), for a timer whose expiration' is known.  The timer   *)
(* is read once more after it was moved into the set.                      *)
addTimerInLoop(t) ==
  IF Collides(t) THEN crash' = "equal" /\ UNCHANGED <<timers, fdVars>>
  ELSE /\ timers' = timers \cup {t}
       /\ IF ~EarliestToAlarm(t) THEN UNCHANGED <<fdVars, crash>>
          ELSE IF MovedReads THEN resetTimerfd(expiration'[t]) /\ UNCHANGED crash
          ELSE crash' = "moved" /\ UNCHANGED fdVars

(* runEvery() sets the first expiration an interval from now; runAt() any  *)
(* the wall clock still gets to pass, runAfter() one of them.              *)
ExpirationFor(t) == IF t \in Repeats THEN {now + Interval[t]} ELSE 0..(MaxTime - 1)

Construct(t) ==
  /\ expiration[t] = Unset
  /\ \E when \in ExpirationFor(t) : expiration' = [expiration EXCEPT ![t] = when]

(* addTimer() in the loop's thread: in main() before loop(), in a handler  *)
(* or a functor, or in the callback of a timer that was just called.       *)
InUserCode ==
  \/ phase \in {"start", "handle", "functors"}
  \/ phase = "run" /\ ran # {}

addTimer(t) ==
  /\ Running /\ InUserCode
  /\ Construct(t)
  /\ addTimerInLoop(t)
  /\ UNCHANGED <<batchVars, queued, phase, reported, clockVars, fired>>

(* addTimer() in another thread: the functor is queued, for which the      *)
(* mutex must be free.                                                     *)
addTimerFromThread(t) ==
  /\ Running /\ phase # "functors"
  /\ Construct(t)
  /\ queued' = Append(queued, t)
  /\ UNCHANGED <<timers, batchVars, phase, reported, fdVars, clockVars, fired, crash>>

-----------------------------------------------------------------------------
loop ==
  /\ Running /\ phase = "start"
  /\ phase' = "poll"
  /\ UNCHANGED <<queueVars, batchVars, queued, reported, fdVars, clockVars, fired, crash>>

(* poll() returns; a timerfd that is readable is always reported. *)
Poll ==
  /\ Running /\ phase = "poll"
  /\ phase' = "handle"
  /\ reported' = readable
  /\ UNCHANGED <<queueVars, batchVars, queued, fdVars, clockVars, fired, crash>>

(* handleRead(), to where the callbacks begin: readTimerfd() and           *)
(* getExpired().  The read finds nothing if a handler before it has set    *)
(* the timerfd again; it makes no difference.  lower_bound() stops at a    *)
(* timer that expires exactly now, which the assertion after it forbids.   *)
AtOrSoon == {t \in timers : expiration[t] <= now + 1}         \* mutant
Expired == {t \in timers : expiration[t] < now}
AtNow == \E t \in timers : expiration[t] = now

handleRead ==
  /\ Running /\ phase = "handle" /\ reported
  /\ readable' = FALSE
  /\ IF AtNow THEN crash' = "exactly now" /\ UNCHANGED <<timers, batchVars, phase, reported>>
     ELSE /\ phase' = "run" /\ reported' = FALSE
          /\ clockRead' = now
          /\ expired' = Expired /\ ran' = {}
          /\ timers' = timers \ Expired
          /\ UNCHANGED crash
  /\ UNCHANGED <<expiration, queued, alarm, clockVars, fired>>

(* The callbacks, in the order of the vector. *)
RunCallback(t) ==
  /\ Running /\ phase = "run" /\ IsFirst(t, expired \ ran, expiration)
  /\ ran' = ran \cup {t}
  /\ fired' = [fired EXCEPT ![t] = @ + 1]
  /\ UNCHANGED <<queueVars, expired, clockRead, queued, phase, reported, fdVars, clockVars, crash>>

(* reset(): timers that repeat are restarted and inserted, and the timerfd *)
(* is set for the earliest of all, unless there is none.                   *)
Restarted == expired \cap Repeats
restart == [t \in Timers |-> IF t \in Restarted THEN clockRead + Interval[t] ELSE expiration[t]]

RestartCollides ==
  \E t \in Restarted, u \in timers \cup Restarted : t # u /\ restart[t] = restart[u]

reset ==
  /\ Running /\ phase = "run" /\ ran = expired
  /\ IF RestartCollides
     THEN crash' = "equal" /\ UNCHANGED <<queueVars, batchVars, phase, fdVars>>
     ELSE /\ timers' = timers \cup Restarted
          /\ expiration' = restart
          /\ \/ \E t \in Timers :
                  IsFirst(t, timers', expiration') /\ valid(expiration'[t])
                  /\ resetTimerfd(expiration'[t])
             \/ /\ ~\E t \in Timers : IsFirst(t, timers', expiration') /\ valid(expiration'[t])
                /\ UNCHANGED fdVars
          /\ expired' = {} /\ ran' = {} /\ phase' = "handle"
          /\ UNCHANGED <<clockRead, crash>>
  /\ UNCHANGED <<queued, reported, clockVars, fired>>

-----------------------------------------------------------------------------
(* All channels are handled: doPendingFunctors(), which keeps the mutex. *)
BeginFunctors ==
  /\ Running /\ phase = "handle" /\ ~reported
  /\ phase' = "functors"
  /\ UNCHANGED <<queueVars, batchVars, queued, reported, fdVars, clockVars, fired, crash>>

RunFunctor ==
  /\ Running /\ phase = "functors" /\ queued # <<>>
  /\ UNCHANGED expiration
  /\ addTimerInLoop(Head(queued))
  /\ queued' = IF crash' = "equal" THEN queued ELSE Tail(queued)
  /\ UNCHANGED <<batchVars, phase, reported, clockVars, fired>>

EndFunctors ==
  /\ Running /\ phase = "functors" /\ queued = <<>>
  /\ phase' = "poll"
  /\ UNCHANGED <<queueVars, batchVars, queued, reported, fdVars, clockVars, fired, crash>>

-----------------------------------------------------------------------------
(* Time passes, also while the loop is at work. *)
Tick ==
  /\ Running
  /\ now' = IF now = MaxTime THEN now ELSE now + 1
  /\ alarm' = IF alarm = 0 THEN 0 ELSE alarm - 1
  /\ readable' = (readable \/ alarm = 1)
  /\ UNCHANGED <<queueVars, batchVars, queued, phase, reported, steps, ahead, fired, crash>>

(* The wall clock is set, back or forward. *)
SetClock ==
  /\ Running /\ steps < MaxSteps
  /\ \E time \in 1..MaxTime :
       /\ now' = time
       /\ ahead' = IF time > now THEN ahead + (time - now) ELSE ahead
  /\ steps' = steps + 1
  /\ UNCHANGED <<queueVars, batchVars, queued, phase, reported, fdVars, fired, crash>>

-----------------------------------------------------------------------------
PollReady == Poll /\ (readable \/ queued # <<>>)

LoopStep ==
  \/ loop \/ PollReady \/ handleRead \/ (\E t \in Timers : RunCallback(t)) \/ reset
  \/ BeginFunctors \/ RunFunctor \/ EndFunctors

Next ==
  \/ LoopStep \/ Poll \/ Tick \/ SetClock
  \/ \E t \in Timers : addTimer(t) \/ addTimerFromThread(t)

Spec == Init /\ [][Next]_vars

(* The loop's thread runs when there is something for it, and time passes. *)
(* No timer, no other event and no timeout of poll() is promised.          *)
FairSpec == Spec /\ WF_vars(LoopStep) /\ WF_vars(Tick)

-----------------------------------------------------------------------------
(***************************************************************************)
(* Properties                                                              *)
(***************************************************************************)

(* Whenever handleRead() is not at work, an alarm stands for every timer   *)
(* in timers_: the timerfd has expired, or it will, and no later than      *)
(* MinDelay from now or the timer's own time - except for what the wall    *)
(* clock was set forward meanwhile, which the timerfd knows nothing of.    *)
(* addTimerInLoop() arms for the earliest only, a callback may arm for its *)
(* own before reset() arms for all, and settime takes back an unread       *)
(* expiration: none of that may leave a timer without its alarm.           *)
AlarmFor(t) ==
  \/ readable
  \/ alarm > 0 /\ alarm <= howMuchTimeFromNow(expiration[t]) + ahead

AlarmStands == Running /\ phase # "run" => \A t \in timers : AlarmFor(t)

(* The queue implements TimerService.  A timer of the batch whose callback *)
(* was called counts as restarted, although reset() comes later.           *)
Due(t) ==
  IF t \in ran THEN (IF t \in Repeats THEN clockRead + Interval[t] ELSE Unset)
  ELSE IF t \in timers \cup expired \/ \E i \in DOMAIN queued : queued[i] = t
       THEN expiration[t] ELSE Unset

TS == INSTANCE TimerService WITH clock <- clockRead, due <- [t \in Timers |-> Due(t)]

ImplementsTimerService == TS!Spec

(* A timer that was set fires in the end, whoever set it and whatever the  *)
(* loop was doing, once the wall clock is let alone - or an assertion has  *)
(* stopped the process.                                                    *)
TimersFire ==
  \A t \in Timers :
    (expiration[t] # Unset /\ expiration[t] < MaxTime /\ fired[t] = 0) ~>
      (fired[t] > 0 \/ ~Running)

(* What getExpired() asserts: the first timer that lower_bound() leaves    *)
(* behind expires later.  A timer that expires at the very microsecond at  *)
(* which handleRead() reads the clock is neither expired nor later.        *)
SplitIsClean == crash # "exactly now"

(* What insert() asserts, where reset() restarts the batch: timers that    *)
(* repeat go back into timers_.  Two with one interval that expire in one  *)
(* batch are restarted from the same clock reading, however far apart they *)
(* were set, and the second finds its place taken by the first.            *)
ClearOfTimers == \A t \in Restarted, u \in timers : restart[t] # expiration[u]
BatchRestarts == [][reset /\ ClearOfTimers => crash' # "equal"]_vars

(* What addTimer() promises, that the callback is scheduled for the given  *)
(* time: addTimerInLoop() comes to an end.  It reads the expiration        *)
(* through the unique_ptr it has just moved from.                          *)
SchedulingEnds == crash # "moved"
=============================================================================
