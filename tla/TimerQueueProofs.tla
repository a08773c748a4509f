-------------------------- MODULE TimerQueueProofs --------------------------
(***************************************************************************)
(* Proofs about TimerQueue for every set of timers, all intervals and      *)
(* every bound on the clocks.                                              *)
(***************************************************************************)
EXTENDS TimerQueue, WellFoundedInduction, TLAPS

QueuedTimers == {queued[i] : i \in DOMAIN queued}

(* A timer is in one place only: waiting to be added, in timers_, or in    *)
(* the batch handleRead() works on.                                        *)
OnePlace ==
  /\ \A i, j \in DOMAIN queued : queued[i] = queued[j] => i = j
  /\ QueuedTimers \cap (timers \cup expired) = {}
  /\ \A t \in QueuedTimers \cup expired : expiration[t] # Unset

(* The batch exists only while handleRead() is at work, and all of it is   *)
(* due; a timer that was never constructed has not fired.                  *)
BatchInv ==
  /\ phase # "run" => expired = {}
  /\ phase = "run" => clockRead >= 1
  /\ \A t \in expired : expiration[t] < clockRead
  /\ \A t \in Timers : expiration[t] = Unset => fired[t] = 0

QueueInv == TypeOK /\ OnePlace /\ BatchInv

(* reset() leaves the timerfd alone when the earliest timer expires at 0,  *)
(* which counts as invalid.  Only a callback of the same batch can have    *)
(* added it, and addTimerInLoop() has armed the timerfd for it.            *)
ZeroIsArmed ==
  Running /\ phase = "run" /\ (\E t \in timers : expiration[t] = 0) =>
    readable \/ (alarm > 0 /\ alarm <= MinDelay)

AlarmInv == AlarmStands /\ ZeroIsArmed

-----------------------------------------------------------------------------
(* Sequences *)

LEMMA AppendFacts ==
  ASSUME NEW S, NEW s \in Seq(S), NEW e \in S
  PROVE  /\ Append(s, e) \in Seq(S)
         /\ DOMAIN Append(s, e) = 1..(Len(s) + 1) /\ DOMAIN s = 1..Len(s) /\ Len(s) \in Nat
         /\ \A i \in 1..Len(s) : Append(s, e)[i] = s[i]
         /\ Append(s, e)[Len(s) + 1] = e
  OBVIOUS

LEMMA TailFacts ==
  ASSUME NEW S, NEW s \in Seq(S), s # <<>>
  PROVE  /\ Tail(s) \in Seq(S) /\ Head(s) \in S /\ Head(s) = s[1]
         /\ DOMAIN Tail(s) = 1..(Len(s) - 1) /\ DOMAIN s = 1..Len(s)
         /\ Len(s) \in Nat /\ Len(s) >= 1
         /\ \A i \in 1..(Len(s) - 1) : Tail(s)[i] = s[i + 1]
  OBVIOUS

LEMMA QueuedType == TypeOK => QueuedTimers \subseteq Timers
<1> SUFFICES ASSUME TypeOK PROVE \A i \in DOMAIN queued : queued[i] \in Timers
  BY DEF QueuedTimers
<1>1. queued \in Seq(Timers)
  BY DEF TypeOK, QueueTypes
<1> QED
  BY <1>1

-----------------------------------------------------------------------------
(* The types, and where a timer can be *)

LEMMA InitQueue == Init => QueueInv
<1> SUFFICES ASSUME Init PROVE QueueInv
  OBVIOUS
<1>1. TypeOK
  <2>1. <<>> \in Seq(Timers)
    OBVIOUS
  <2>2. QueueTypes
    BY <2>1 DEF Init, QueueTypes
  <2>3. ClockTypes
    BY TimerAssumption DEF Init, ClockTypes
  <2>4. LoopTypes
    BY DEF Init, LoopTypes
  <2> QED
    BY <2>2, <2>3, <2>4 DEF TypeOK
<1>2. QueuedTimers = {}
  BY DEF Init, QueuedTimers
<1>3. OnePlace
  BY <1>2 DEF Init, OnePlace
<1>4. BatchInv
  BY DEF Init, BatchInv
<1> QED
  BY <1>1, <1>3, <1>4 DEF QueueInv

LEMMA DelayType ==
  ASSUME TypeOK, NEW when \in Nat
  PROVE  howMuchTimeFromNow(when) \in Nat /\ howMuchTimeFromNow(when) >= MinDelay
  BY TimerAssumption DEF TypeOK, ClockTypes, howMuchTimeFromNow

(* What addTimerInLoop(t) does to the queue and the timerfd. *)
LEMMA AddFacts ==
  ASSUME TypeOK, NEW t \in Timers, addTimerInLoop(t), expiration'[t] \in Nat
  PROVE  /\ timers' = timers \/ timers' = timers \cup {t}
         /\ alarm' \in Nat /\ readable' \in BOOLEAN
         /\ crash' = crash \/ crash' \in {"equal", "moved"}
<1>1. alarm \in Nat /\ readable \in BOOLEAN
  BY DEF TypeOK, ClockTypes, LoopTypes
<1>2. CASE UNCHANGED fdVars
  BY <1>1, <1>2 DEF addTimerInLoop, fdVars
<1>3. CASE ~UNCHANGED fdVars
  <2>1. resetTimerfd(expiration'[t]) /\ UNCHANGED crash /\ timers' = timers \cup {t}
    BY <1>3 DEF addTimerInLoop
  <2> QED
    BY <2>1, DelayType DEF resetTimerfd
<1> QED
  BY <1>2, <1>3

(* Construct(t), for the steps that set a timer. *)
LEMMA ConstructFacts ==
  ASSUME TypeOK, NEW t \in Timers, Construct(t)
  PROVE  /\ expiration[t] = Unset /\ t \notin timers
         /\ expiration' \in [Timers -> Nat \cup {Unset}]
         /\ expiration'[t] \in Nat
         /\ \A u \in Timers : u # t => expiration'[u] = expiration[u]
<1>1. PICK when \in ExpirationFor(t) : expiration' = [expiration EXCEPT ![t] = when]
  BY DEF Construct
<1>2. now \in Nat /\ MaxTime \in Nat /\ Interval[t] \in Nat
  BY TimerAssumption DEF TypeOK, ClockTypes
<1>3. when \in Nat
  BY <1>1, <1>2 DEF ExpirationFor
<1> QED
  BY <1>1, <1>3 DEF Construct, TypeOK, QueueTypes

LEMMA AddTimerQueue ==
  ASSUME QueueInv, NEW t \in Timers, addTimer(t)
  PROVE  QueueInv'
<1> USE DEF QueueInv
<1>1. /\ expiration[t] = Unset /\ t \notin timers
      /\ expiration' \in [Timers -> Nat \cup {Unset}]
      /\ expiration'[t] \in Nat
      /\ \A u \in Timers : u # t => expiration'[u] = expiration[u]
  BY ConstructFacts DEF addTimer
<1>2. /\ timers' = timers \/ timers' = timers \cup {t}
      /\ alarm' \in Nat /\ readable' \in BOOLEAN
      /\ crash' = crash \/ crash' \in {"equal", "moved"}
  BY <1>1, AddFacts DEF addTimer
<1>3. UNCHANGED <<expired, ran, clockRead, queued, phase, reported, now, steps, ahead, fired>>
  BY DEF addTimer, batchVars, clockVars
<1>4. t \notin QueuedTimers \cup expired
  BY <1>1 DEF OnePlace
<1>5. TypeOK'
  <2>1. QueueTypes'
    BY <1>1, <1>2, <1>3, <1>4 DEF TypeOK, QueueTypes, Unset
  <2>2. ClockTypes'
    BY <1>2, <1>3 DEF TypeOK, ClockTypes
  <2>3. LoopTypes'
    BY <1>2, <1>3 DEF TypeOK, LoopTypes
  <2> QED
    BY <2>1, <2>2, <2>3 DEF TypeOK
<1>6. QueuedTimers' = QueuedTimers /\ QueuedTimers \subseteq Timers
  BY <1>3, QueuedType DEF QueuedTimers
<1>7. OnePlace'
  <2>1. \A u \in QueuedTimers \cup expired : u \in Timers /\ u # t
    BY <1>4, <1>6 DEF TypeOK, QueueTypes
  <2> QED
    BY <1>1, <1>2, <1>3, <1>4, <1>6, <2>1 DEF OnePlace
<1>8. BatchInv'
  BY <1>1, <1>3, <1>4 DEF BatchInv, TypeOK, QueueTypes, Unset
<1> QED
  BY <1>5, <1>7, <1>8

LEMMA FromThreadQueue ==
  ASSUME QueueInv, NEW t \in Timers, addTimerFromThread(t)
  PROVE  QueueInv'
<1> USE DEF QueueInv
<1>1. /\ expiration[t] = Unset /\ t \notin timers
      /\ expiration' \in [Timers -> Nat \cup {Unset}]
      /\ expiration'[t] \in Nat
      /\ \A u \in Timers : u # t => expiration'[u] = expiration[u]
  BY ConstructFacts DEF addTimerFromThread
<1>2. /\ UNCHANGED <<timers, expired, ran, clockRead, phase, reported, alarm, readable>>
      /\ UNCHANGED <<now, steps, ahead, fired, crash>>
      /\ queued' = Append(queued, t)
  BY DEF addTimerFromThread, batchVars, clockVars, fdVars
<1>3. queued \in Seq(Timers)
  BY DEF TypeOK, QueueTypes
<1>4. /\ queued' \in Seq(Timers)
      /\ DOMAIN queued' = 1..(Len(queued) + 1) /\ DOMAIN queued = 1..Len(queued)
      /\ Len(queued) \in Nat
      /\ \A i \in 1..Len(queued) : queued'[i] = queued[i]
      /\ queued'[Len(queued) + 1] = t
  BY <1>2, <1>3, AppendFacts
<1>5. t \notin QueuedTimers \cup expired
  BY <1>1 DEF OnePlace
<1>6. QueuedTimers' = QueuedTimers \cup {t} /\ QueuedTimers \subseteq Timers
  <2>1. DOMAIN queued' = DOMAIN queued \cup {Len(queued) + 1}
    BY <1>4
  <2> QED
    BY <1>4, <2>1, QueuedType DEF QueuedTimers
<1>7. TypeOK'
  <2>1. QueueTypes'
    BY <1>1, <1>2, <1>4, <1>5 DEF TypeOK, QueueTypes
  <2> QED
    BY <1>2, <2>1 DEF TypeOK, ClockTypes, LoopTypes
<1>8. \A i, j \in DOMAIN queued' : queued'[i] = queued'[j] => i = j
  <2>1. \A i \in DOMAIN queued : queued[i] # t
    BY <1>5 DEF QueuedTimers
  <2> QED
    BY <1>4, <2>1 DEF OnePlace
<1>9. OnePlace'
  <2>1. \A u \in QueuedTimers \cup expired : u \in Timers /\ u # t
    BY <1>5, <1>6 DEF TypeOK, QueueTypes
  <2>2. expiration'[t] # Unset
    BY <1>1 DEF Unset
  <2> QED
    BY <1>1, <1>2, <1>5, <1>6, <1>8, <2>1, <2>2 DEF OnePlace
<1>10. BatchInv'
  BY <1>1, <1>2, <1>5 DEF BatchInv, TypeOK, QueueTypes, Unset
<1> QED
  BY <1>7, <1>9, <1>10

(* Steps that leave the timers alone. *)
LEMMA QuietQueue ==
  ASSUME QueueInv, ClockTypes', LoopTypes',
         UNCHANGED <<timers, expiration, expired, ran, clockRead, queued, fired>>,
         phase' = phase \/ (phase # "run" /\ phase' # "run")
  PROVE  QueueInv'
<1>1. QueueTypes'
  BY DEF QueueInv, TypeOK, QueueTypes
<1>2. QueuedTimers' = QueuedTimers
  BY DEF QueuedTimers
<1>3. OnePlace'
  BY <1>2 DEF QueueInv, OnePlace
<1>4. BatchInv'
  BY DEF QueueInv, BatchInv
<1> QED
  BY <1>1, <1>3, <1>4 DEF QueueInv, TypeOK

LEMMA LoopTypesKept ==
  ASSUME TypeOK, loop \/ Poll \/ BeginFunctors \/ EndFunctors
  PROVE  LoopTypes' /\ ClockTypes' /\ phase # "run" /\ phase' # "run"
<1>1. ClockTypes'
  BY DEF TypeOK, ClockTypes, loop, Poll, BeginFunctors, EndFunctors, fdVars, clockVars
<1>2. /\ phase # "run" /\ phase' \in {"start", "poll", "handle", "functors"}
      /\ phase' # "run" /\ UNCHANGED crash
  BY DEF loop, Poll, BeginFunctors, EndFunctors
<1>3. UNCHANGED readable /\ (reported' = reported \/ reported' = readable)
  BY DEF loop, Poll, BeginFunctors, EndFunctors, fdVars
<1> QED
  BY <1>1, <1>2, <1>3 DEF TypeOK, LoopTypes

LEMMA LoopQueue ==
  ASSUME QueueInv, loop \/ Poll \/ BeginFunctors \/ EndFunctors
  PROVE  QueueInv'
<1>1. UNCHANGED <<timers, expiration, expired, ran, clockRead, queued, fired>>
  BY DEF loop, Poll, BeginFunctors, EndFunctors, queueVars, batchVars
<1> QED
  BY <1>1, LoopTypesKept, QuietQueue DEF QueueInv

LEMMA TimeTypes ==
  ASSUME TypeOK, Tick \/ SetClock
  PROVE  ClockTypes' /\ LoopTypes'
<1>1. ClockTypes'
  <2>1. CASE Tick
    BY <2>1, TimerAssumption DEF Tick, TypeOK, ClockTypes
  <2>2. CASE SetClock
    BY <2>2, TimerAssumption DEF SetClock, TypeOK, ClockTypes, fdVars
  <2> QED
    BY <2>1, <2>2
<1>2. readable' \in BOOLEAN
  BY DEF TypeOK, LoopTypes, Tick, SetClock, fdVars
<1>3. UNCHANGED <<phase, reported, crash>>
  BY DEF Tick, SetClock
<1> QED
  BY <1>1, <1>2, <1>3 DEF TypeOK, LoopTypes

LEMMA TimeQueue ==
  ASSUME QueueInv, Tick \/ SetClock
  PROVE  QueueInv'
<1>1. UNCHANGED <<timers, expiration, expired, ran, clockRead, queued, fired, phase>>
  BY DEF Tick, SetClock, queueVars, batchVars
<1> QED
  BY <1>1, TimeTypes, QuietQueue DEF QueueInv

LEMMA HandleReadQueue ==
  ASSUME QueueInv, handleRead
  PROVE  QueueInv'
<1> USE DEF QueueInv
<1>0. /\ phase = "handle" /\ readable' = FALSE
      /\ UNCHANGED <<expiration, queued, alarm, now, steps, ahead, fired>>
  BY DEF handleRead, clockVars
<1>1. ClockTypes'
  BY <1>0 DEF TypeOK, ClockTypes
<1>2. CASE AtNow
  <2>1. UNCHANGED <<timers, expired, ran, clockRead, phase, reported>> /\ crash' = "exactly now"
    BY <1>2 DEF handleRead, batchVars
  <2>2. LoopTypes'
    BY <1>0, <2>1 DEF TypeOK, LoopTypes
  <2> QED
    BY <1>0, <1>1, <2>1, <2>2, QuietQueue
<1>3. CASE ~AtNow
  <2>1. /\ phase' = "run" /\ reported' = FALSE /\ clockRead' = now
        /\ expired' = Expired /\ ran' = {} /\ timers' = timers \ Expired
        /\ UNCHANGED crash
    BY <1>3 DEF handleRead
  <2>2. LoopTypes'
    BY <1>0, <2>1 DEF TypeOK, LoopTypes
  <2>3. now \in Nat /\ now >= 1 /\ Expired \subseteq timers
    BY TimerAssumption DEF TypeOK, ClockTypes, Expired
  <2>4. QueueTypes'
    BY <1>0, <2>1, <2>3 DEF TypeOK, QueueTypes
  <2>5. QueuedTimers' = QueuedTimers
    BY <1>0 DEF QueuedTimers
  <2>6. OnePlace'
    BY <1>0, <2>1, <2>3, <2>5 DEF OnePlace, TypeOK, QueueTypes
  <2>7. BatchInv'
    BY <1>0, <2>1, <2>3 DEF BatchInv, Expired
  <2> QED
    BY <1>1, <2>2, <2>4, <2>6, <2>7 DEF TypeOK
<1> QED
  BY <1>2, <1>3

LEMMA RunCallbackQueue ==
  ASSUME QueueInv, NEW t \in Timers, RunCallback(t)
  PROVE  QueueInv'
<1> USE DEF QueueInv
<1>1. /\ t \in expired \ ran /\ ran' = ran \cup {t}
      /\ fired' = [fired EXCEPT ![t] = @ + 1]
      /\ UNCHANGED <<timers, expiration, expired, clockRead, queued, phase, reported>>
      /\ UNCHANGED <<alarm, readable, now, steps, ahead, crash>>
  BY DEF RunCallback, IsFirst, queueVars, fdVars, clockVars
<1>2. QueueTypes'
  BY <1>1 DEF TypeOK, QueueTypes
<1>3. ClockTypes' /\ LoopTypes'
  BY <1>1 DEF TypeOK, ClockTypes, LoopTypes
<1>4. QueuedTimers' = QueuedTimers
  BY <1>1 DEF QueuedTimers
<1>5. OnePlace'
  BY <1>1, <1>4 DEF OnePlace
<1>6. \A u \in Timers : u # t => fired'[u] = fired[u]
  BY <1>1 DEF TypeOK, QueueTypes
<1>7. BatchInv'
  BY <1>1, <1>6 DEF BatchInv, OnePlace
<1> QED
  BY <1>2, <1>3, <1>5, <1>7 DEF TypeOK

(* What reset() does to the timers. *)
LEMMA RestartFacts ==
  ASSUME QueueInv, phase = "run"
  PROVE  /\ restart \in [Timers -> Nat \cup {Unset}]
         /\ Restarted \subseteq Timers /\ Restarted \subseteq expired
         /\ \A t \in Timers : t \notin Restarted => restart[t] = expiration[t]
         /\ \A t \in Restarted : restart[t] = clockRead + Interval[t] /\ restart[t] \in Nat
                                 /\ restart[t] >= 1
<1>1. /\ clockRead \in Nat /\ clockRead >= 1
      /\ expiration \in [Timers -> Nat \cup {Unset}]
      /\ expired \subseteq Timers
  BY DEF QueueInv, TypeOK, QueueTypes, BatchInv
<1>2. Restarted \subseteq Timers /\ Restarted \subseteq expired
  BY <1>1 DEF Restarted
<1>3. \A t \in Timers : Interval[t] \in Nat
  BY TimerAssumption
<1>4. \A t \in Timers :
        restart[t] = IF t \in Restarted THEN clockRead + Interval[t] ELSE expiration[t]
  BY DEF restart
<1>5. \A t \in Restarted : restart[t] = clockRead + Interval[t] /\ restart[t] \in Nat
                           /\ restart[t] >= 1
  <2> TAKE t \in Restarted
  <2>1. t \in Timers /\ Interval[t] \in Nat
    BY <1>2, <1>3
  <2>2. restart[t] = clockRead + Interval[t]
    BY <1>4, <2>1
  <2> QED
    BY <1>1, <2>1, <2>2
<1>6. \A t \in Timers : restart[t] \in Nat \cup {Unset}
  BY <1>1, <1>4, <1>5
<1>7. restart \in [Timers -> Nat \cup {Unset}]
  BY <1>4, <1>6 DEF restart
<1> QED
  BY <1>2, <1>4, <1>5, <1>7

LEMMA ResetQueue ==
  ASSUME QueueInv, reset
  PROVE  QueueInv'
<1> USE DEF QueueInv
<1>0. /\ phase = "run" /\ ran = expired
      /\ UNCHANGED <<queued, reported, now, steps, ahead, fired>>
  BY DEF reset, clockVars
<1>1. CASE RestartCollides
  <2>1. /\ crash' = "equal"
        /\ UNCHANGED <<timers, expiration, expired, ran, clockRead, phase, alarm, readable>>
    BY <1>1 DEF reset, queueVars, batchVars, fdVars
  <2>2. ClockTypes' /\ LoopTypes'
    BY <1>0, <2>1 DEF TypeOK, ClockTypes, LoopTypes
  <2> QED
    BY <1>0, <2>1, <2>2, QuietQueue
<1>2. CASE ~RestartCollides
  <2>1. /\ timers' = timers \cup Restarted /\ expiration' = restart
        /\ expired' = {} /\ ran' = {} /\ phase' = "handle"
        /\ UNCHANGED <<clockRead, crash>>
    BY <1>2 DEF reset
  <2>2. \/ UNCHANGED <<alarm, readable>>
        \/ \E t \in Timers : valid(expiration'[t]) /\ resetTimerfd(expiration'[t])
    BY <1>2 DEF reset, fdVars
  <2>3. /\ expiration' \in [Timers -> Nat \cup {Unset}]
        /\ Restarted \subseteq Timers /\ Restarted \subseteq expired
        /\ \A t \in Timers : t \notin Restarted => expiration'[t] = expiration[t]
        /\ \A t \in Restarted : expiration'[t] \in Nat
    BY <1>0, <2>1, RestartFacts
  <2>4. alarm' \in Nat /\ readable' \in BOOLEAN
    <3>1. CASE UNCHANGED <<alarm, readable>>
      BY <3>1 DEF TypeOK, ClockTypes, LoopTypes
    <3>2. ASSUME NEW t \in Timers, valid(expiration'[t]), resetTimerfd(expiration'[t])
          PROVE  alarm' \in Nat /\ readable' \in BOOLEAN
      <4>1. expiration'[t] \in Nat
        BY <2>3, <3>2 DEF valid, Unset
      <4> QED
        BY <3>2, <4>1, DelayType DEF resetTimerfd
    <3> QED
      BY <2>2, <3>1, <3>2
  <2>5. ClockTypes' /\ LoopTypes'
    BY <1>0, <2>1, <2>4 DEF TypeOK, ClockTypes, LoopTypes
  <2>6. \A t \in timers : t \notin Restarted
    BY <2>3 DEF TypeOK, QueueTypes
  <2>7. QueueTypes'
    BY <1>0, <2>1, <2>3, <2>6 DEF TypeOK, QueueTypes, Unset
  <2>8. QueuedTimers' = QueuedTimers /\ QueuedTimers \subseteq Timers
    BY <1>0, QueuedType DEF QueuedTimers
  <2>9. OnePlace'
    BY <1>0, <2>1, <2>3, <2>8 DEF OnePlace
  <2>10. BatchInv'
    BY <1>0, <2>1, <2>3 DEF BatchInv, Unset
  <2> QED
    BY <2>5, <2>7, <2>9, <2>10 DEF TypeOK
<1> QED
  BY <1>1, <1>2

LEMMA RunFunctorQueue ==
  ASSUME QueueInv, RunFunctor
  PROVE  QueueInv'
<1> USE DEF QueueInv
<1> DEFINE t == Head(queued)
<1>0. /\ phase = "functors" /\ queued # <<>> /\ addTimerInLoop(t)
      /\ queued' = IF crash' = "equal" THEN queued ELSE Tail(queued)
      /\ UNCHANGED <<expiration, expired, ran, clockRead, phase, reported>>
      /\ UNCHANGED <<now, steps, ahead, fired>>
  BY DEF RunFunctor, batchVars, clockVars
<1>1. queued \in Seq(Timers)
  BY DEF TypeOK, QueueTypes
<1>2. /\ Tail(queued) \in Seq(Timers) /\ t \in Timers /\ t = queued[1]
      /\ DOMAIN Tail(queued) = 1..(Len(queued) - 1) /\ DOMAIN queued = 1..Len(queued)
      /\ Len(queued) \in Nat /\ Len(queued) >= 1
      /\ \A i \in 1..(Len(queued) - 1) : Tail(queued)[i] = queued[i + 1]
  BY <1>0, <1>1, TailFacts
<1> HIDE DEF t
<1>3. t \in QueuedTimers /\ QueuedTimers \subseteq Timers /\ expired = {}
  BY <1>0, <1>2, QueuedType DEF QueuedTimers, BatchInv
<1>4. expiration'[t] \in Nat
  BY <1>0, <1>2, <1>3 DEF OnePlace, TypeOK, QueueTypes
<1>5. /\ timers' = timers \/ timers' = timers \cup {t}
      /\ alarm' \in Nat /\ readable' \in BOOLEAN
      /\ crash' = crash \/ crash' \in {"equal", "moved"}
  BY <1>0, <1>2, <1>4, AddFacts
<1>6. crash' = "equal" /\ crash # "equal" => timers' = timers
  BY <1>0 DEF addTimerInLoop
<1>7. crash # "equal"
  BY DEF RunFunctor, Running
<1>8. ClockTypes' /\ LoopTypes'
  BY <1>0, <1>5 DEF TypeOK, ClockTypes, LoopTypes
<1>9. queued' \in Seq(Timers)
  BY <1>0, <1>1, <1>2
<1>10. QueueTypes'
  BY <1>0, <1>2, <1>3, <1>4, <1>5, <1>9 DEF TypeOK, QueueTypes, Unset
<1>11. BatchInv'
  BY <1>0 DEF BatchInv
<1>12. CASE crash' = "equal"
  <2>1. QueuedTimers' = QueuedTimers
    BY <1>0, <1>12 DEF QueuedTimers
  <2>2. OnePlace'
    BY <1>0, <1>6, <1>7, <1>12, <2>1 DEF OnePlace
  <2> QED
    BY <1>8, <1>10, <1>11, <2>2 DEF TypeOK
<1>13. CASE crash' # "equal"
  <2>1. queued' = Tail(queued)
    BY <1>0, <1>13
  <2>2. \A i \in DOMAIN queued' : i + 1 \in DOMAIN queued /\ queued'[i] = queued[i + 1] /\ i + 1 # 1
    BY <1>2, <2>1
  <2>3. QueuedTimers' \subseteq QueuedTimers
    BY <2>2 DEF QueuedTimers
  <2>4. 1 \in DOMAIN queued
    BY <1>2
  <2>5. t \notin QueuedTimers'
    BY <1>2, <2>2, <2>4 DEF QueuedTimers, OnePlace
  <2>6. \A i, j \in DOMAIN queued' : queued'[i] = queued'[j] => i = j
    <3> SUFFICES ASSUME NEW i \in DOMAIN queued', NEW j \in DOMAIN queued', queued'[i] = queued'[j]
                 PROVE  i = j
      OBVIOUS
    <3>1. i + 1 = j + 1
      BY <2>2 DEF OnePlace
    <3>2. i \in Int /\ j \in Int
      BY <1>2, <2>1
    <3> QED
      BY <3>1, <3>2
  <2>7. OnePlace'
    BY <1>0, <1>3, <1>5, <2>3, <2>5, <2>6 DEF OnePlace
  <2> QED
    BY <1>8, <1>10, <1>11, <2>7 DEF TypeOK
<1> QED
  BY <1>12, <1>13

LEMMA NextQueue == QueueInv /\ [Next]_vars => QueueInv'
<1> SUFFICES ASSUME QueueInv, [Next]_vars PROVE QueueInv'
  OBVIOUS
<1>1. CASE UNCHANGED vars
  <2>1. /\ UNCHANGED <<timers, expiration, expired, ran, clockRead, queued, fired, phase>>
        /\ UNCHANGED <<reported, alarm, readable, now, steps, ahead, crash>>
    BY <1>1 DEF vars, queueVars, batchVars, fdVars, clockVars
  <2>2. ClockTypes' /\ LoopTypes'
    BY <2>1 DEF QueueInv, TypeOK, ClockTypes, LoopTypes
  <2> QED
    BY <2>1, <2>2, QuietQueue
<1>2. CASE Next
  BY <1>2, AddTimerQueue, FromThreadQueue, LoopQueue, TimeQueue, HandleReadQueue,
     RunCallbackQueue, ResetQueue, RunFunctorQueue
  DEF Next, LoopStep, PollReady
<1> QED
  BY <1>1, <1>2

(* Every timer is in one place, and the batch of handleRead() is due and   *)
(* gone when handleRead() is: what the theorems below rest on.             *)
THEOREM QueueCorrect == Spec => []QueueInv
  BY InitQueue, NextQueue, PTL DEF Spec

(* The types hold, and with them that a timer is never in timers_ and in   *)
(* the batch of handleRead() at once.                                      *)
THEOREM TypeCorrect == Spec => []TypeOK
<1>1. QueueInv => TypeOK
  BY DEF QueueInv
<1> QED
  BY <1>1, QueueCorrect, PTL

-----------------------------------------------------------------------------
(* The alarm *)

(* The delay for a time w when the clock shows n. *)
Delay(w, n) == IF w - n < MinDelay THEN MinDelay ELSE w - n

LEMMA DelayFacts ==
  ASSUME NEW n \in Nat
  PROVE  /\ \A w \in Nat : Delay(w, n) \in Nat /\ Delay(w, n) >= MinDelay /\ Delay(w, n) > 0
         /\ \A v, w \in Nat : v <= w => Delay(v, n) <= Delay(w, n)
         /\ n >= 1 => Delay(0, n) = MinDelay
         /\ \A w \in Nat, m \in Nat : m <= n => Delay(w, n) <= Delay(w, m)
         /\ \A w \in Nat, m \in Nat : m >= n => Delay(w, n) <= Delay(w, m) + (m - n)
  BY TimerAssumption DEF Delay

LEMMA Numbers ==
  ASSUME QueueInv
  PROVE  /\ now \in Nat /\ now >= 1 /\ ahead \in Nat /\ alarm \in Nat /\ MinDelay \in Nat
         /\ \A t \in timers : expiration[t] \in Nat
         /\ timers \subseteq Timers
  BY TimerAssumption DEF QueueInv, TypeOK, QueueTypes, ClockTypes

(* AlarmStands, with the part that is arithmetic apart. *)
Stands(t) == alarm > 0 /\ alarm <= Delay(expiration[t], now) + ahead

LEMMA AlarmStandsIs ==
  AlarmStands <=> (Running /\ phase # "run" /\ ~readable => \A t \in timers : Stands(t))
  BY DEF AlarmStands, AlarmFor, Stands, howMuchTimeFromNow, Delay

LEMMA AlarmStandsNext ==
  AlarmStands' <=>
    (Running' /\ phase' # "run" /\ ~readable' => \A t \in timers' : Stands(t)')
  BY DEF AlarmStands, AlarmFor, Stands, howMuchTimeFromNow, Delay

LEMMA InitAlarm == Init => AlarmInv
  BY DEF Init, AlarmInv, AlarmStands, ZeroIsArmed

LEMMA AddAlarm ==
  ASSUME QueueInv, QueueInv', AlarmInv, Running, NEW t \in Timers, addTimerInLoop(t),
         t \notin timers, expiration'[t] \in Nat,
         \A u \in timers : expiration'[u] = expiration[u],
         UNCHANGED <<phase, now, ahead>>
  PROVE  AlarmInv'
<1>1. CASE crash' # "no"
  BY <1>1 DEF AlarmInv, AlarmStands, ZeroIsArmed, Running
<1>2. CASE crash' = "no"
  <2>1. ~Collides(t) /\ timers' = timers \cup {t}
    BY <1>2 DEF addTimerInLoop
  <2>2. /\ now \in Nat /\ now >= 1 /\ ahead \in Nat /\ alarm \in Nat /\ MinDelay \in Nat
        /\ \A u \in timers : expiration[u] \in Nat
    BY Numbers
  <2>3. CASE EarliestToAlarm(t)
    <3>1. alarm' = Delay(expiration'[t], now) /\ readable' = FALSE
      BY <1>2, <2>1, <2>3 DEF addTimerInLoop, resetTimerfd, howMuchTimeFromNow, Delay
    <3>2. \A u \in timers' : expiration'[u] \in Nat /\ expiration'[t] <= expiration'[u]
      BY <2>1, <2>2, <2>3 DEF EarliestToAlarm
    <3>3. \A u \in timers' : Stands(u)'
      <4> TAKE u \in timers'
      <4>1. Delay(expiration'[t], now) <= Delay(expiration'[u], now)
        BY <2>2, <3>2, DelayFacts
      <4>2. /\ Delay(expiration'[t], now) \in Nat /\ Delay(expiration'[t], now) > 0
            /\ Delay(expiration'[u], now) \in Nat
        BY <2>2, <3>2, DelayFacts
      <4> QED
        BY <2>2, <3>1, <4>1, <4>2 DEF Stands
    <3>4. AlarmStands'
      BY <3>3, AlarmStandsNext
    <3>5. ASSUME NEW u \in timers', expiration'[u] = 0
          PROVE  alarm' > 0 /\ alarm' <= MinDelay
      <4>1. expiration'[t] = 0
        BY <3>2, <3>5
      <4> QED
        BY <2>2, <3>1, <4>1, DelayFacts, TimerAssumption
    <3> QED
      BY <3>4, <3>5 DEF AlarmInv, ZeroIsArmed
  <2>4. CASE ~EarliestToAlarm(t)
    <3>1. UNCHANGED <<alarm, readable>>
      BY <2>1, <2>4 DEF addTimerInLoop, fdVars
    <3>2. PICK v \in timers : ~(expiration'[t] < expiration[v])
      BY <2>4 DEF EarliestToAlarm
    <3>3. expiration[v] \in Nat /\ expiration[v] < expiration'[t]
      BY <2>1, <2>2, <3>2 DEF Collides
    <3>4. ASSUME Running, phase # "run", ~readable
          PROVE  \A u \in timers' : Stands(u)'
      <4>1. \A u \in timers : Stands(u)
        BY <3>4, AlarmStandsIs DEF AlarmInv
      <4>2. \A u \in timers : Stands(u)'
        BY <3>1, <4>1 DEF Stands
      <4>3. Stands(t)'
        <5>1. alarm > 0 /\ alarm <= Delay(expiration[v], now) + ahead
          BY <4>1 DEF Stands
        <5>2. /\ Delay(expiration[v], now) \in Nat /\ Delay(expiration'[t], now) \in Nat
              /\ Delay(expiration[v], now) <= Delay(expiration'[t], now)
          <6>1. expiration[v] <= expiration'[t]
            BY <3>3
          <6> QED
            BY <2>2, <3>3, <6>1, DelayFacts
        <5> QED
          BY <2>2, <3>1, <5>1, <5>2 DEF Stands
      <4> QED
        BY <2>1, <4>2, <4>3
    <3>5. AlarmStands'
      BY <1>2, <3>1, <3>4, AlarmStandsNext DEF Running
    <3>6. \A u \in timers' : expiration'[u] = 0 => u \in timers /\ expiration[u] = 0
      BY <2>1, <3>3
    <3>7. ZeroIsArmed'
      BY <1>2, <3>1, <3>6 DEF AlarmInv, ZeroIsArmed, Running
    <3> QED
      BY <3>5, <3>7 DEF AlarmInv
  <2> QED
    BY <2>3, <2>4
<1> QED
  BY <1>1, <1>2

LEMMA SetTimerAlarm ==
  ASSUME QueueInv, QueueInv', AlarmInv, NEW t \in Timers, addTimer(t) \/ addTimerFromThread(t)
  PROVE  AlarmInv'
<1>1. /\ expiration[t] = Unset /\ t \notin timers /\ expiration'[t] \in Nat
      /\ \A u \in Timers : u # t => expiration'[u] = expiration[u]
  BY ConstructFacts DEF addTimer, addTimerFromThread, QueueInv
<1>2. \A u \in timers : expiration'[u] = expiration[u]
  BY <1>1, Numbers
<1>3. CASE addTimer(t)
  <2>1. Running /\ addTimerInLoop(t) /\ UNCHANGED <<phase, now, ahead>>
    BY <1>3 DEF addTimer, clockVars
  <2> QED
    BY <1>1, <1>2, <2>1, AddAlarm
<1>4. CASE addTimerFromThread(t)
  <2>1. UNCHANGED <<timers, phase, now, ahead, alarm, readable, crash>>
    BY <1>4 DEF addTimerFromThread, fdVars, clockVars
  <2>2. \A u \in timers : Stands(u)' <=> Stands(u)
    BY <1>2, <2>1 DEF Stands
  <2>3. AlarmStands'
    BY <2>1, <2>2, AlarmStandsIs, AlarmStandsNext DEF AlarmInv, Running
  <2>4. ZeroIsArmed'
    BY <1>2, <2>1 DEF AlarmInv, ZeroIsArmed, Running
  <2> QED
    BY <2>3, <2>4 DEF AlarmInv
<1> QED
  BY <1>3, <1>4

LEMMA RunFunctorAlarm ==
  ASSUME QueueInv, QueueInv', AlarmInv, RunFunctor
  PROVE  AlarmInv'
<1>1. /\ Running /\ queued # <<>> /\ addTimerInLoop(Head(queued))
      /\ UNCHANGED <<expiration, phase, now, ahead>>
  BY DEF RunFunctor, clockVars
<1>2. queued \in Seq(Timers)
  BY DEF QueueInv, TypeOK, QueueTypes
<1>3. Head(queued) \in Timers /\ Head(queued) = queued[1] /\ 1 \in DOMAIN queued
  BY <1>1, <1>2, TailFacts
<1>4. Head(queued) \in QueuedTimers
  BY <1>3 DEF QueuedTimers
<1>5. Head(queued) \notin timers /\ expiration'[Head(queued)] \in Nat
  BY <1>1, <1>3, <1>4 DEF QueueInv, OnePlace, TypeOK, QueueTypes
<1> QED
  BY <1>1, <1>3, <1>5, AddAlarm

(* Steps that leave the timers and the timerfd alone. *)
LEMMA QuietAlarm ==
  ASSUME AlarmInv, UNCHANGED <<timers, expiration, alarm, readable, now, ahead, crash>>,
         phase' = phase \/ (phase # "run" /\ phase' # "run")
  PROVE  AlarmInv'
  BY DEF AlarmInv, AlarmStands, AlarmFor, ZeroIsArmed, Running, howMuchTimeFromNow

LEMMA LoopAlarm ==
  ASSUME QueueInv, AlarmInv, loop \/ Poll \/ BeginFunctors \/ EndFunctors
  PROVE  AlarmInv'
<1>1. UNCHANGED <<timers, expiration, alarm, readable, now, ahead, crash>>
  BY DEF loop, Poll, BeginFunctors, EndFunctors, queueVars, fdVars, clockVars
<1> QED
  BY <1>1, LoopTypesKept, QuietAlarm DEF QueueInv

LEMMA CallbackAlarm ==
  ASSUME QueueInv, AlarmInv, NEW t \in Timers, RunCallback(t)
  PROVE  AlarmInv'
<1>1. UNCHANGED <<timers, expiration, alarm, readable, now, ahead, crash, phase>>
  BY DEF RunCallback, queueVars, fdVars, clockVars
<1> QED
  BY <1>1, QuietAlarm

(* An ordered set that is not empty has a first entry. *)
LEMMA LeastNatural ==
  ASSUME NEW T \in SUBSET Nat, T # {}
  PROVE  \E x \in T : \A y \in T : x <= y
<1> DEFINE R == OpToRel(<, Nat)
<1>1. IsWellFoundedOn(R, Nat)
  BY NatLessThanWellFounded
<1>2. \A x, y \in Nat : x < y => <<x, y>> \in R
  BY DEF OpToRel
<1> HIDE DEF R
<1>3. PICK x \in T : \A y \in T : ~(<<y, x>> \in R)
  BY <1>1, WFMin
<1>4. \A y \in T : ~(y < x)
  BY <1>2, <1>3
<1>5. \A y \in T : x <= y
  BY <1>4
<1> QED
  BY <1>5

LEMMA EarliestExists ==
  ASSUME NEW ts, NEW e, ts # {}, \A u \in ts : e[u] \in Nat
  PROVE  \E t \in ts : IsFirst(t, ts, e)
<1> DEFINE T == {e[u] : u \in ts}
<1>1. T \in SUBSET Nat /\ T # {}
  OBVIOUS
<1>2. PICK x \in T : \A y \in T : x <= y
  BY <1>1, LeastNatural
<1>3. PICK t \in ts : x = e[t]
  BY <1>2
<1>4. \A u \in ts : e[u] \in T
  OBVIOUS
<1>5. IsFirst(t, ts, e)
  BY <1>2, <1>3, <1>4 DEF IsFirst
<1> QED
  BY <1>5

(* No timer that is left expires at 0, since all before now are taken out. *)
LEMMA HandleReadAlarm ==
  ASSUME QueueInv, AlarmInv, handleRead
  PROVE  AlarmInv'
<1>1. CASE AtNow
  BY <1>1 DEF handleRead, AlarmInv, AlarmStands, ZeroIsArmed, Running
<1>2. CASE ~AtNow
  <2>1. phase' = "run" /\ timers' = timers \ Expired /\ UNCHANGED expiration
    BY <1>2 DEF handleRead
  <2>2. \A t \in timers' : expiration'[t] # 0
    BY <2>1, Numbers DEF Expired
  <2> QED
    BY <2>1, <2>2 DEF AlarmInv, AlarmStands, ZeroIsArmed
<1> QED
  BY <1>1, <1>2

LEMMA ResetAlarm ==
  ASSUME QueueInv, QueueInv', AlarmInv, reset
  PROVE  AlarmInv'
<1>0. phase = "run" /\ Running /\ UNCHANGED <<now, ahead>>
  BY DEF reset, clockVars
<1>1. CASE RestartCollides
  BY <1>1 DEF reset, AlarmInv, AlarmStands, ZeroIsArmed, Running
<1>2. CASE ~RestartCollides
  <2>1. /\ timers' = timers \cup Restarted /\ expiration' = restart
        /\ phase' = "handle"
    BY <1>2 DEF reset
  <2>2. /\ now \in Nat /\ now >= 1 /\ ahead \in Nat /\ alarm \in Nat /\ MinDelay \in Nat
        /\ timers \subseteq Timers
    BY Numbers
  <2>3. \A u \in timers' : u \in Timers /\ expiration'[u] \in Nat
    BY DEF QueueInv, TypeOK, QueueTypes
  <2>4. CASE \E t \in Timers :
               IsFirst(t, timers', expiration') /\ valid(expiration'[t])
               /\ resetTimerfd(expiration'[t])
    <3>1. PICK t \in Timers :
            IsFirst(t, timers', expiration') /\ resetTimerfd(expiration'[t])
      BY <2>4
    <3>2. alarm' = Delay(expiration'[t], now)
      BY <3>1 DEF resetTimerfd, howMuchTimeFromNow, Delay
    <3>3. \A u \in timers' : Stands(u)'
      <4> TAKE u \in timers'
      <4>1. /\ expiration'[t] \in Nat /\ expiration'[u] \in Nat
            /\ expiration'[t] <= expiration'[u]
        BY <2>3, <3>1 DEF IsFirst
      <4>2. /\ Delay(expiration'[t], now) <= Delay(expiration'[u], now)
            /\ Delay(expiration'[t], now) \in Nat /\ Delay(expiration'[t], now) > 0
            /\ Delay(expiration'[u], now) \in Nat
        BY <2>2, <4>1, DelayFacts
      <4> QED
        BY <1>0, <2>2, <3>2, <4>2 DEF Stands
    <3>4. AlarmStands'
      BY <3>3, AlarmStandsNext
    <3> QED
      BY <2>1, <3>4 DEF AlarmInv, ZeroIsArmed
  <2>5. CASE /\ ~\E t \in Timers : IsFirst(t, timers', expiration') /\ valid(expiration'[t])
             /\ UNCHANGED fdVars
    <3>1. UNCHANGED <<alarm, readable>>
      BY <2>5 DEF fdVars
    <3>2. ASSUME NEW u \in timers', ~readable'
          PROVE  Stands(u)'
      <4>1. \E z \in timers' : expiration'[z] = 0
        BY <2>3, <2>5, <3>2, EarliestExists DEF valid
      <4>2. PICK z \in timers' : expiration'[z] = 0
        BY <4>1
      <4>3. z \in timers /\ expiration[z] = 0
        <5>1. z \notin Restarted
          BY <1>0, <2>1, <4>2, RestartFacts
        <5> QED
          BY <1>0, <2>1, <2>2, <4>2, <5>1, RestartFacts
      <4>4. alarm > 0 /\ alarm <= MinDelay
        BY <1>0, <3>1, <3>2, <4>3 DEF AlarmInv, ZeroIsArmed
      <4>5. expiration'[u] \in Nat
        BY <2>3, <3>2
      <4>6. Delay(expiration'[u], now) \in Nat /\ Delay(expiration'[u], now) >= MinDelay
        BY <2>2, <4>5, DelayFacts
      <4> QED
        BY <1>0, <2>2, <3>1, <4>4, <4>6 DEF Stands
    <3>3. AlarmStands'
      BY <3>2, AlarmStandsNext
    <3> QED
      BY <2>1, <3>3 DEF AlarmInv, ZeroIsArmed
  <2> QED
    BY <1>2, <2>1, <2>4, <2>5 DEF reset
<1> QED
  BY <1>1, <1>2

(* A tick takes one off the alarm and at most one off every delay. *)
LEMMA TickAlarm ==
  ASSUME QueueInv, AlarmInv, Tick
  PROVE  AlarmInv'
<1>1. /\ now' = now \/ now' = now + 1
      /\ alarm' = IF alarm = 0 THEN 0 ELSE alarm - 1
      /\ readable' = (readable \/ alarm = 1)
      /\ UNCHANGED <<timers, expiration, phase, ahead, crash>>
  BY DEF Tick, queueVars
<1>2. /\ now \in Nat /\ now >= 1 /\ ahead \in Nat /\ alarm \in Nat /\ MinDelay \in Nat
      /\ \A t \in timers : expiration[t] \in Nat
  BY Numbers
<1>3. ~readable' => ~readable /\ alarm # 1
  BY <1>1
<1>4. ASSUME NEW t \in timers, Stands(t), alarm # 1
      PROVE  Stands(t)'
  <2>1. alarm > 0 /\ alarm <= Delay(expiration[t], now) + ahead
    BY <1>4 DEF Stands
  <2>2. now' \in Nat /\ now' >= now /\ now' - now <= 1
    BY <1>1, <1>2
  <2>3. /\ Delay(expiration[t], now) <= Delay(expiration[t], now') + (now' - now)
        /\ Delay(expiration[t], now) \in Nat /\ Delay(expiration[t], now') \in Nat
    BY <1>2, <2>2, DelayFacts
  <2>4. alarm' > 0 /\ alarm' <= Delay(expiration[t], now') + ahead
    BY <1>1, <1>2, <1>4, <2>1, <2>2, <2>3
  <2> QED
    BY <1>1, <2>4 DEF Stands
<1>5. AlarmStands'
  BY <1>1, <1>3, <1>4, AlarmStandsIs, AlarmStandsNext DEF AlarmInv, Running
<1>6. alarm > 0 /\ alarm <= MinDelay /\ alarm # 1 => alarm' > 0 /\ alarm' <= MinDelay
  BY <1>1, <1>2
<1>7. ZeroIsArmed'
  BY <1>1, <1>3, <1>6 DEF AlarmInv, ZeroIsArmed, Running
<1> QED
  BY <1>5, <1>7 DEF AlarmInv

(* Setting the clock back makes delays longer; setting it forward makes    *)
(* them shorter by no more than it adds to ahead.                          *)
LEMMA SetClockAlarm ==
  ASSUME QueueInv, AlarmInv, SetClock
  PROVE  AlarmInv'
<1>1. /\ now' \in 1..MaxTime
      /\ ahead' = IF now' > now THEN ahead + (now' - now) ELSE ahead
      /\ UNCHANGED <<timers, expiration, phase, alarm, readable, crash>>
  BY DEF SetClock, queueVars, fdVars
<1>2. /\ now \in Nat /\ now >= 1 /\ ahead \in Nat /\ alarm \in Nat
      /\ \A t \in timers : expiration[t] \in Nat
  BY Numbers
<1>3. now' \in Nat
  BY <1>1, TimerAssumption
<1>4. ASSUME NEW t \in timers, Stands(t)
      PROVE  Stands(t)'
  <2>1. alarm > 0 /\ alarm <= Delay(expiration[t], now) + ahead
    BY <1>4 DEF Stands
  <2>2. Delay(expiration[t], now) \in Nat /\ Delay(expiration[t], now') \in Nat
    BY <1>2, <1>3, DelayFacts
  <2>3. alarm <= Delay(expiration[t], now') + ahead'
    <3>1. CASE now' > now
      <4>0. expiration[t] \in Nat /\ now' >= now
        BY <1>2, <1>3, <3>1
      <4>1. Delay(expiration[t], now) <= Delay(expiration[t], now') + (now' - now)
        BY <1>2, <1>3, <4>0, DelayFacts
      <4> QED
        BY <1>1, <1>2, <1>3, <2>1, <2>2, <3>1, <4>1
    <3>2. CASE ~(now' > now)
      <4>0. expiration[t] \in Nat /\ now' <= now
        BY <1>2, <1>3, <3>2
      <4>1. Delay(expiration[t], now) <= Delay(expiration[t], now')
        BY <1>2, <1>3, <4>0, DelayFacts
      <4> QED
        BY <1>1, <1>2, <1>3, <2>1, <2>2, <3>2, <4>1
    <3> QED
      BY <3>1, <3>2
  <2> QED
    BY <1>1, <2>1, <2>3 DEF Stands
<1>5. AlarmStands'
  BY <1>1, <1>4, AlarmStandsIs, AlarmStandsNext DEF AlarmInv, Running
<1>6. ZeroIsArmed'
  BY <1>1 DEF AlarmInv, ZeroIsArmed, Running
<1> QED
  BY <1>5, <1>6 DEF AlarmInv

LEMMA NextAlarm == QueueInv /\ QueueInv' /\ AlarmInv /\ [Next]_vars => AlarmInv'
<1> SUFFICES ASSUME QueueInv, QueueInv', AlarmInv, [Next]_vars PROVE AlarmInv'
  OBVIOUS
<1>1. CASE UNCHANGED vars
  BY <1>1, QuietAlarm DEF vars, queueVars, fdVars, clockVars
<1>2. CASE Next
  BY <1>2, SetTimerAlarm, LoopAlarm, TickAlarm, SetClockAlarm, HandleReadAlarm,
     CallbackAlarm, ResetAlarm, RunFunctorAlarm
  DEF Next, LoopStep, PollReady
<1> QED
  BY <1>1, <1>2

(* Whenever handleRead() is not at work, an alarm stands for every timer   *)
(* in timers_, whatever set the timers, in whatever order, and however     *)
(* often the wall clock was set.                                           *)
THEOREM AlarmAlwaysStands == Spec => []AlarmStands
<1>1. AlarmInv => AlarmStands
  BY DEF AlarmInv
<1> QED
  BY <1>1, InitAlarm, NextAlarm, QueueCorrect, PTL DEF Spec

-----------------------------------------------------------------------------
(* The queue implements TimerService *)

(* Due(t), by the place the timer is in. *)
LEMMA DuePlaces ==
  ASSUME NEW t
  PROVE  Due(t) = IF t \in ran THEN (IF t \in Repeats THEN clockRead + Interval[t] ELSE Unset)
                  ELSE IF t \in timers \cup expired \cup QueuedTimers
                       THEN expiration[t] ELSE Unset
  BY DEF Due, QueuedTimers

LEMMA DuePlacesNext ==
  ASSUME NEW t
  PROVE  Due(t)' = IF t \in ran' THEN (IF t \in Repeats THEN clockRead' + Interval[t] ELSE Unset)
                   ELSE IF t \in timers' \cup expired' \cup QueuedTimers'
                        THEN expiration'[t] ELSE Unset
  BY DEF Due, QueuedTimers

LEMMA InitRefines == Init => TS!Init
<1> SUFFICES ASSUME Init PROVE TS!Init
  OBVIOUS
<1>1. \A t \in Timers : Due(t) = Unset
  BY DuePlaces DEF Init, QueuedTimers
<1> QED
  BY <1>1 DEF Init, TS!Init, TS!None, Unset

(* A step that changes the due time of no timer. *)
LEMMA StutterRefines ==
  ASSUME UNCHANGED <<clockRead, fired>>, \A t \in Timers : Due(t)' = Due(t)
  PROVE  UNCHANGED TS!vars
  BY DEF TS!vars

LEMMA PlacesKept ==
  ASSUME UNCHANGED <<timers, expiration, expired, ran, clockRead, queued, fired>>
  PROVE  UNCHANGED TS!vars
<1>1. \A t \in Timers : Due(t)' = Due(t)
  BY DEF Due
<1> QED
  BY <1>1, StutterRefines

(* Constructing a timer and putting it anywhere in the queue sets it. *)
LEMMA SetRefines ==
  ASSUME QueueInv, NEW t \in Timers, Construct(t),
         UNCHANGED <<expired, ran, clockRead, fired>>,
         timers' \cup QueuedTimers' = (timers \cup QueuedTimers) \cup {t}
  PROVE  TS!Set(t)
<1>1. /\ expiration[t] = Unset /\ t \notin timers /\ expiration'[t] \in Nat
      /\ \A u \in Timers : u # t => expiration'[u] = expiration[u]
  BY ConstructFacts DEF QueueInv
<1>2. t \notin QueuedTimers \cup expired \cup ran /\ fired[t] = 0
  BY <1>1 DEF QueueInv, OnePlace, BatchInv, TypeOK, QueueTypes
<1>3. Due(t) = Unset /\ Due(t)' = expiration'[t]
  BY <1>1, <1>2, DuePlaces, DuePlacesNext
<1>4. ASSUME NEW u \in Timers, u # t
      PROVE  Due(u)' = Due(u)
  <2>1. expiration'[u] = expiration[u]
    BY <1>1, <1>4
  <2>2. u \in timers' \cup expired' \cup QueuedTimers' <=> u \in timers \cup expired \cup QueuedTimers
    BY <1>4
  <2> QED
    BY <2>1, <2>2, DuePlaces, DuePlacesNext
<1> DEFINE d == [u \in Timers |-> Due(u)]
           e == [u \in Timers |-> Due(u)']
<1>5. e = [d EXCEPT ![t] = e[t]]
  BY <1>4
<1>6. d[t] = Unset /\ e[t] \in Nat
  BY <1>1, <1>3
<1> QED
  BY <1>2, <1>5, <1>6 DEF TS!Set, TS!None, Unset

LEMMA AddTimerRefines ==
  ASSUME QueueInv, NEW t \in Timers, addTimer(t)
  PROVE  [TS!Next]_(TS!vars)
<1>1. /\ Construct(t) /\ addTimerInLoop(t)
      /\ UNCHANGED <<expired, ran, clockRead, queued, fired>>
  BY DEF addTimer, batchVars
<1>2. QueuedTimers' = QueuedTimers
  BY <1>1 DEF QueuedTimers
<1>3. CASE timers' = timers \cup {t}
  <2>1. TS!Set(t)
    BY <1>1, <1>2, <1>3, SetRefines
  <2> QED
    BY <2>1 DEF TS!Next
<1>4. CASE timers' = timers /\ t \notin timers
  <2>1. /\ expiration[t] = Unset
        /\ \A u \in Timers : u # t => expiration'[u] = expiration[u]
    BY <1>1, ConstructFacts DEF QueueInv
  <2>2. t \notin timers \cup expired \cup QueuedTimers \cup ran
    BY <1>4, <2>1 DEF QueueInv, OnePlace, TypeOK, QueueTypes
  <2>3. \A u \in Timers : Due(u)' = Due(u)
    BY <1>1, <1>2, <1>4, <2>1, <2>2, DuePlaces, DuePlacesNext
  <2> QED
    BY <1>1, <2>3, StutterRefines
<1>5. t \notin timers /\ (timers' = timers \/ timers' = timers \cup {t})
  BY <1>1, ConstructFacts DEF QueueInv, addTimerInLoop
<1> QED
  BY <1>3, <1>4, <1>5

LEMMA FromThreadRefines ==
  ASSUME QueueInv, NEW t \in Timers, addTimerFromThread(t)
  PROVE  TS!Set(t)
<1>1. /\ Construct(t) /\ queued' = Append(queued, t)
      /\ UNCHANGED <<timers, expired, ran, clockRead, fired>>
  BY DEF addTimerFromThread, batchVars
<1>2. queued \in Seq(Timers)
  BY DEF QueueInv, TypeOK, QueueTypes
<1>3. /\ DOMAIN queued' = 1..(Len(queued) + 1) /\ DOMAIN queued = 1..Len(queued)
      /\ Len(queued) \in Nat
      /\ \A i \in 1..Len(queued) : queued'[i] = queued[i]
      /\ queued'[Len(queued) + 1] = t
  BY <1>1, <1>2, AppendFacts
<1>4. DOMAIN queued' = DOMAIN queued \cup {Len(queued) + 1}
  BY <1>3
<1>5. QueuedTimers' = QueuedTimers \cup {t}
  BY <1>3, <1>4 DEF QueuedTimers
<1> QED
  BY <1>1, <1>5, SetRefines

(* A functor moves a timer from one place to another. *)
LEMMA RunFunctorRefines ==
  ASSUME QueueInv, RunFunctor
  PROVE  UNCHANGED TS!vars
<1>1. /\ queued # <<>> /\ addTimerInLoop(Head(queued)) /\ Running
      /\ queued' = IF crash' = "equal" THEN queued ELSE Tail(queued)
      /\ UNCHANGED <<expiration, expired, ran, clockRead, fired>>
  BY DEF RunFunctor, batchVars
<1> DEFINE t == Head(queued)
<1>2. queued \in Seq(Timers)
  BY DEF QueueInv, TypeOK, QueueTypes
<1>3. /\ t = queued[1]
      /\ DOMAIN Tail(queued) = 1..(Len(queued) - 1) /\ DOMAIN queued = 1..Len(queued)
      /\ Len(queued) \in Nat /\ Len(queued) >= 1
      /\ \A i \in 1..(Len(queued) - 1) : Tail(queued)[i] = queued[i + 1]
  BY <1>1, <1>2, TailFacts
<1>4. addTimerInLoop(t)
  BY <1>1
<1> HIDE DEF t
<1>5. timers' \cup QueuedTimers' = timers \cup QueuedTimers
  <2>1. CASE crash' = "equal"
    <3>1. queued' = queued /\ timers' = timers
      BY <1>1, <1>4, <2>1 DEF addTimerInLoop, Running
    <3> QED
      BY <3>1 DEF QueuedTimers
  <2>2. CASE crash' # "equal"
    <3>1. queued' = Tail(queued) /\ timers' = timers \cup {t}
      BY <1>1, <1>4, <2>2 DEF addTimerInLoop
    <3>2. \A i \in DOMAIN queued' : i + 1 \in DOMAIN queued /\ queued'[i] = queued[i + 1]
      BY <1>3, <3>1
    <3>3. \A i \in DOMAIN queued : i = 1 \/ (i - 1 \in DOMAIN queued' /\ queued[i] = queued'[i - 1])
      BY <1>3, <3>1
    <3>4. QueuedTimers' \subseteq QueuedTimers
      BY <3>2 DEF QueuedTimers
    <3>5. QueuedTimers \subseteq QueuedTimers' \cup {t}
      BY <1>3, <3>3 DEF QueuedTimers
    <3>6. t \in QueuedTimers
      BY <1>3 DEF QueuedTimers
    <3> QED
      BY <3>1, <3>4, <3>5, <3>6
  <2> QED
    BY <2>1, <2>2
<1>6. ASSUME NEW u \in Timers
      PROVE  Due(u)' = Due(u)
  <2>1. u \in timers' \cup expired' \cup QueuedTimers' <=> u \in timers \cup expired \cup QueuedTimers
    BY <1>1, <1>5
  <2> QED
    BY <1>1, <2>1, DuePlaces, DuePlacesNext
<1> QED
  BY <1>1, <1>6, StutterRefines

LEMMA HandleReadRefines ==
  ASSUME QueueInv, handleRead
  PROVE  [TS!Next]_(TS!vars)
<1>0. phase = "handle" /\ UNCHANGED <<expiration, queued, fired>>
  BY DEF handleRead
<1>1. CASE AtNow
  <2>1. UNCHANGED <<timers, expired, ran, clockRead>>
    BY <1>1 DEF handleRead, batchVars
  <2> QED
    BY <1>0, <2>1, PlacesKept
<1>2. CASE ~AtNow
  <2>1. /\ clockRead' = now /\ expired' = Expired /\ ran' = {}
        /\ timers' = timers \ Expired
    BY <1>2 DEF handleRead
  <2>2. expired = {} /\ ran = {} /\ now \in Nat /\ Expired \subseteq timers
    BY <1>0, Numbers DEF QueueInv, BatchInv, TypeOK, QueueTypes, Expired
  <2>3. QueuedTimers' = QueuedTimers
    BY <1>0 DEF QueuedTimers
  <2>4. timers' \cup expired' \cup QueuedTimers' = timers \cup expired \cup QueuedTimers
    BY <2>1, <2>2, <2>3
  <2>5. \A u \in Timers : Due(u)' = Due(u)
    BY <1>0, <2>1, <2>2, <2>4, DuePlaces, DuePlacesNext
  <2>6. TS!ReadClock
    BY <1>0, <2>1, <2>2, <2>5 DEF TS!ReadClock
  <2> QED
    BY <2>6 DEF TS!Next
<1> QED
  BY <1>1, <1>2

LEMMA CallbackRefines ==
  ASSUME QueueInv, NEW t \in Timers, RunCallback(t)
  PROVE  TS!Fire(t)
<1>1. /\ t \in expired \ ran /\ ran' = ran \cup {t}
      /\ fired' = [fired EXCEPT ![t] = @ + 1]
      /\ UNCHANGED <<timers, expiration, expired, clockRead, queued>>
  BY DEF RunCallback, IsFirst, queueVars
<1>2. QueuedTimers' = QueuedTimers
  BY <1>1 DEF QueuedTimers
<1>3. expiration[t] # Unset /\ expiration[t] < clockRead
  BY <1>1 DEF QueueInv, OnePlace, BatchInv
<1>4. Due(t) = expiration[t]
  BY <1>1, DuePlaces
<1>5. Due(t)' = IF t \in Repeats THEN clockRead + Interval[t] ELSE Unset
  BY <1>1, DuePlacesNext
<1>6. \A u \in Timers : u # t => Due(u)' = Due(u)
  BY <1>1, <1>2, DuePlaces, DuePlacesNext
<1> DEFINE d == [u \in Timers |-> Due(u)]
           e == [u \in Timers |-> Due(u)']
<1>7. e = [d EXCEPT ![t] = IF t \in Repeats THEN clockRead + Interval[t] ELSE Unset]
  BY <1>5, <1>6
<1>8. d[t] # Unset /\ d[t] < clockRead
  BY <1>3, <1>4
<1> QED
  BY <1>1, <1>7, <1>8 DEF TS!Fire, TS!None, Unset

(* reset() makes true what the callbacks already counted as done. *)
LEMMA ResetRefines ==
  ASSUME QueueInv, reset
  PROVE  UNCHANGED TS!vars
<1>0. phase = "run" /\ ran = expired /\ UNCHANGED <<queued, fired>>
  BY DEF reset
<1>1. CASE RestartCollides
  <2>1. UNCHANGED <<timers, expiration, expired, ran, clockRead>>
    BY <1>1 DEF reset, queueVars, batchVars
  <2> QED
    BY <1>0, <2>1, PlacesKept
<1>2. CASE ~RestartCollides
  <2>1. /\ timers' = timers \cup Restarted /\ expiration' = restart
        /\ expired' = {} /\ ran' = {} /\ UNCHANGED clockRead
    BY <1>2 DEF reset
  <2>2. QueuedTimers' = QueuedTimers /\ QueuedTimers \cap expired = {} /\ timers \cap expired = {}
    BY <1>0 DEF QueuedTimers, QueueInv, OnePlace, TypeOK, QueueTypes
  <2>3. ASSUME NEW u \in Timers
        PROVE  Due(u)' = Due(u)
    <3>1. CASE u \in Restarted
      <4>1. u \in ran /\ u \in Repeats
        BY <1>0, <3>1 DEF Restarted
      <4>2. expiration'[u] = clockRead + Interval[u]
        BY <1>0, <2>1, <3>1, RestartFacts
      <4> QED
        BY <2>1, <3>1, <4>1, <4>2, DuePlaces, DuePlacesNext
    <3>2. CASE u \in expired /\ u \notin Restarted
      <4>1. u \in ran /\ u \notin Repeats
        BY <1>0, <3>2 DEF Restarted
      <4>2. u \notin timers' \cup expired' \cup QueuedTimers'
        BY <2>1, <2>2, <3>2
      <4> QED
        BY <2>1, <4>1, <4>2, DuePlaces, DuePlacesNext
    <3>3. CASE u \notin expired
      <4>1. u \notin Restarted /\ u \notin ran
        BY <1>0, <3>3 DEF Restarted
      <4>2. expiration'[u] = expiration[u]
        BY <1>0, <2>1, <4>1, RestartFacts
      <4>3. u \in timers' \cup expired' \cup QueuedTimers' <=> u \in timers \cup expired \cup QueuedTimers
        BY <2>1, <2>2, <3>3, <4>1
      <4> QED
        BY <2>1, <4>1, <4>2, <4>3, DuePlaces, DuePlacesNext
    <3> QED
      BY <3>1, <3>2, <3>3
  <2> QED
    BY <1>0, <2>1, <2>3, StutterRefines
<1> QED
  BY <1>1, <1>2

LEMMA NextRefines == QueueInv /\ [Next]_vars => [TS!Next]_(TS!vars)
<1> SUFFICES ASSUME QueueInv, [Next]_vars PROVE [TS!Next]_(TS!vars)
  OBVIOUS
<1>1. CASE UNCHANGED vars \/ loop \/ Poll \/ BeginFunctors \/ EndFunctors \/ Tick \/ SetClock
  <2>1. UNCHANGED <<timers, expiration, expired, ran, clockRead, queued, fired>>
    BY <1>1 DEF vars, loop, Poll, BeginFunctors, EndFunctors, Tick, SetClock, queueVars, batchVars
  <2> QED
    BY <2>1, PlacesKept
<1>2. CASE \E t \in Timers : addTimer(t)
  BY <1>2, AddTimerRefines
<1>3. CASE \E t \in Timers : addTimerFromThread(t)
  BY <1>3, FromThreadRefines DEF TS!Next
<1>4. CASE \E t \in Timers : RunCallback(t)
  BY <1>4, CallbackRefines DEF TS!Next
<1>5. CASE handleRead
  BY <1>5, HandleReadRefines
<1>6. CASE reset
  BY <1>6, ResetRefines
<1>7. CASE RunFunctor
  BY <1>7, RunFunctorRefines
<1> QED
  BY <1>1, <1>2, <1>3, <1>4, <1>5, <1>6, <1>7 DEF Next, LoopStep, PollReady

(* The queue implements TimerService: no callback is made before the clock *)
(* was read past the timer's time, none is lost between the threads' queue,*)
(* the ordered set and the batch, one that does not repeat is made once,   *)
(* and one that does is due again an interval after the clock was read.    *)
THEOREM TimersServed == Spec => ImplementsTimerService
  BY InitRefines, NextRefines, QueueCorrect, PTL DEF Spec, ImplementsTimerService, TS!Spec
=============================================================================
