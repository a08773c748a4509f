--------------------------- MODULE EventLoopProofs ---------------------------
(***************************************************************************)
(* Proofs about EventLoop, for any number of loops, threads and functors   *)
(* and whatever the functors and handlers call.                            *)
(***************************************************************************)
EXTENDS EventLoop, TLAPS, WellFoundedInduction

USE DEF Actors, InCall, LoopPcs, ThreadPcs, ReturnPcs

LEMMA NopOpType == NopOp \in Ops /\ NopOp.kind = "nop"
<1>1. PICK l \in Loops, f \in Functors : TRUE
  BY ActorsAssumption
<1>2. [kind |-> "nop", tgt |-> l, f |-> f] \in {o \in Ops : o.kind = "nop"}
  BY DEF Ops, OpKinds
<1>3. \E o \in Ops : o.kind = "nop"
  BY <1>2
<1> QED
  BY <1>3 DEF NopOp

LEMMA OpFields == \A o \in Ops : o.tgt \in Loops /\ o.f \in Functors
  BY DEF Ops

LEMMA InitType == Init => TypeOK
  BY NopOpType, ActorsAssumption DEF Init, TypeOK, VarTypes, InsideLoop, CalledFrom

LEMMA WakeupType ==
  ASSUME TypeOK, NEW l \in Loops, wakeup(l)
  PROVE  wakeup_fd' \in [Loops -> Nat]
  BY DEF TypeOK, VarTypes, wakeup

LEMMA WakeupCounts ==
  ASSUME TypeOK, NEW l \in Loops, wakeup(l)
  PROVE  /\ wakeup_fd'[l] > 0
         /\ \A m \in Loops : wakeup_fd[m] > 0 => wakeup_fd'[m] > 0
  BY DEF TypeOK, VarTypes, wakeup

LEMMA ReturnType ==
  ASSUME TypeOK, NEW a \in Actors, Return(a)
  PROVE  /\ op' \in [Actors -> Ops]
         /\ pc' \in [Actors -> LoopPcs \cup ThreadPcs]
         /\ ret' \in [Actors -> ReturnPcs]
  BY NopOpType DEF TypeOK, VarTypes, Return, Goto

(* The call steps keep the types.                                          *)
LEMMA CallType == ASSUME TypeOK, NEW a \in Actors, Call(a) PROVE VarTypes'
<1> USE DEF TypeOK, VarTypes, loopVars, Goto
<1>0. op[a] \in Ops /\ op[a].tgt \in Loops /\ op[a].f \in Functors
  BY OpFields
<1>1. CASE Nop(a)
  BY <1>1, ReturnType DEF Nop
<1>2. CASE runInLoop(a)
  BY <1>0, <1>2, OpsAssumption DEF runInLoop
<1>3. CASE queueInLoop(a)
  BY <1>0, <1>3 DEF queueInLoop
<1>4. CASE queueInLoopEnd(a)
  BY <1>0, <1>4, ReturnType, WakeupType DEF queueInLoopEnd
<1>5. CASE quitLoop(a)
  <2>1. CASE a = op[a].tgt
    BY <1>0, <1>5, <2>1, ReturnType DEF quitLoop, QuitNeedsWakeup
  <2>2. CASE a # op[a].tgt
    BY <1>0, <1>5, <2>2 DEF quitLoop, QuitNeedsWakeup
  <2> QED
    BY <2>1, <2>2
<1>6. CASE quitLoopEnd(a)
  BY <1>0, <1>6, ReturnType, WakeupType DEF quitLoopEnd
<1> QED
  BY <1>1, <1>2, <1>3, <1>4, <1>5, <1>6 DEF Call

LEMMA LoopType ==
  ASSUME TypeOK, NEW l \in Loops,
         LoopStep(l) \/ PollIo(l) \/ PollNothing(l)
  PROVE  VarTypes'
<1> USE DEF TypeOK, VarTypes, Goto
<1>1. CASE loop(l)  BY <1>1 DEF loop
<1>2. CASE CheckQuit(l)  BY <1>2 DEF CheckQuit
<1>3. CASE PollWoken(l)  BY <1>3 DEF PollWoken, PollReturns
<1>4. CASE PollIo(l)  BY <1>4 DEF PollIo, PollReturns
<1>5. CASE PollNothing(l)  BY <1>5 DEF PollNothing, PollReturns
<1>6. CASE handleRead(l)  BY <1>6 DEF handleRead
<1>7. CASE handleIo(l)  BY <1>7, OpsAssumption DEF handleIo, Issue, Enter
<1>8. CASE BeginPendingFunctors(l)  BY <1>8 DEF BeginPendingFunctors
<1>9. CASE SwapFunctors(l)  BY <1>9 DEF SwapFunctors
<1>10. CASE RunFunctor(l)
  BY <1>10, OpsAssumption DEF RunFunctor, Enter
<1>11. CASE EndPendingFunctors(l)  BY <1>11 DEF EndPendingFunctors
<1> QED
  BY <1>1, <1>2, <1>3, <1>4, <1>5, <1>6, <1>7, <1>8, <1>9, <1>10, <1>11 DEF LoopStep

LEMMA IssueType ==
  ASSUME TypeOK, NEW a \in Actors, NEW R \in SUBSET Ops,
         NEW from \in ReturnPcs, Issue(a, R, from)
  PROVE  /\ op' \in [Actors -> Ops]
         /\ pc' \in [Actors -> LoopPcs \cup ThreadPcs]
         /\ ret' \in [Actors -> ReturnPcs]
         /\ issued' \subseteq Ops
  BY DEF TypeOK, VarTypes, Issue, Enter, Goto

LEMMA OutsideType ==
  ASSUME TypeOK,
         (\E t \in Threads : ThreadCall(t)) \/ (\E l \in Loops : PreLoopCall(l))
  PROVE  VarTypes'
<1>1. ASSUME NEW t \in Threads, ThreadCall(t) PROVE VarTypes'
  BY <1>1, IssueType, OpsAssumption DEF TypeOK, VarTypes, ThreadCall, loopVars
<1>2. ASSUME NEW l \in Loops, PreLoopCall(l) PROVE VarTypes'
  BY <1>2, IssueType, OpsAssumption DEF TypeOK, VarTypes, PreLoopCall, loopVars
<1> QED
  BY <1>1, <1>2

(* A step of actor c: only its own looping_ can change, and the flag goes  *)
(* with the step into or out of loop().                                    *)
LEMMA LoopingKept ==
  ASSUME TypeOK, NEW c \in Actors, NEW x, pc' = [pc EXCEPT ![c] = x],
         \A b \in Actors : b # c => ret'[b] = ret[b],
         \A m \in Loops : m # c => looping'[m] = looping[m],
         c \in Loops => (looping'[c] <=> InsideLoop(c)')
  PROVE  \A l \in Loops : looping'[l] <=> InsideLoop(l)'
<1> SUFFICES ASSUME NEW l \in Loops, l # c PROVE looping'[l] <=> InsideLoop(l)'
  OBVIOUS
<1>1. pc'[l] = pc[l] /\ ret'[l] = ret[l] /\ looping'[l] = looping[l]
  BY DEF TypeOK, VarTypes
<1>2. looping[l] <=> InsideLoop(l)
  BY DEF TypeOK
<1> QED
  BY <1>1, <1>2 DEF InsideLoop, CalledFrom

LEMMA CallLooping ==
  ASSUME TypeOK, NEW a \in Actors, Call(a)
  PROVE  \A l \in Loops : looping'[l] <=> InsideLoop(l)'
<1>1. looping' = looping /\ ret' = ret /\ pc[a] \in InCall
  BY DEF Call, Nop, runInLoop, queueInLoop, queueInLoopEnd, quitLoop, quitLoopEnd, Return, loopVars
<1>2. PICK x \in InCall \cup {ret[a]} : pc' = [pc EXCEPT ![a] = x]
  <2>1. CASE runInLoop(a)
    BY <2>1, <1>1 DEF runInLoop, TypeOK, VarTypes
  <2>2. CASE ~runInLoop(a)
    BY <2>2 DEF Call, Nop, queueInLoop, queueInLoopEnd, quitLoop, quitLoopEnd, Return, Goto
  <2> QED
    BY <2>1, <2>2
<1>3. pc'[a] = x /\ ret[a] \in ReturnPcs
  BY <1>2 DEF TypeOK, VarTypes
<1>4. a \in Loops => (InsideLoop(a)' <=> InsideLoop(a))
  BY <1>1, <1>2, <1>3 DEF InsideLoop, CalledFrom
<1>5. a \in Loops => (looping[a] <=> InsideLoop(a))
  BY DEF TypeOK
<1> QED
  BY <1>1, <1>2, <1>4, <1>5, LoopingKept

LEMMA LoopLooping ==
  ASSUME TypeOK, NEW l \in Loops, LoopStep(l) \/ PollIo(l) \/ PollNothing(l)
  PROVE  \A m \in Loops : looping'[m] <=> InsideLoop(m)'
<1>0. /\ l \in Actors /\ pc \in [Actors -> LoopPcs \cup ThreadPcs]
      /\ ret \in [Actors -> ReturnPcs] /\ looping \in [Loops -> BOOLEAN]
      /\ looping[l] <=> InsideLoop(l)
  BY DEF TypeOK, VarTypes
<1> USE DEF Goto
<1>1. CASE loop(l) \/ CheckQuit(l)
  <2>1. PICK x \in {"check", "poll", "exited"} : pc' = [pc EXCEPT ![l] = x]
    BY <1>1 DEF loop, CheckQuit
  <2>2. \A m \in Loops : m # l => looping'[m] = looping[m]
    BY <1>0, <1>1 DEF loop, CheckQuit
  <2>3. looping'[l] <=> InsideLoop(l)'
    BY <1>0, <1>1 DEF loop, CheckQuit, InsideLoop, CalledFrom
  <2> QED
    BY <1>0, <1>1, <2>1, <2>2, <2>3, LoopingKept DEF loop, CheckQuit
<1>2. CASE handleIo(l) \/ RunFunctor(l)
  <2>1. /\ pc[l] \in {"handle", "run"} /\ pc' = [pc EXCEPT ![l] = "exec"] /\ looping' = looping
        /\ \E from \in {"handle", "run"} : ret' = [ret EXCEPT ![l] = from]
    BY <1>2 DEF handleIo, RunFunctor, Issue, Enter
  <2>2. InsideLoop(l) /\ InsideLoop(l)'
    BY <1>0, <2>1 DEF InsideLoop, CalledFrom
  <2>3. \A b \in Actors : b # l => ret'[b] = ret[b]
    BY <1>0, <2>1
  <2> QED
    BY <1>0, <2>1, <2>2, <2>3, LoopingKept
<1>3. CASE handleRead(l)
  BY <1>3 DEF handleRead, InsideLoop, CalledFrom, TypeOK
<1>4. CASE \/ PollWoken(l) \/ PollIo(l) \/ PollNothing(l)
           \/ BeginPendingFunctors(l) \/ SwapFunctors(l) \/ EndPendingFunctors(l)
  <2>1. /\ pc[l] \in {"poll", "handle", "lock", "run"} /\ looping' = looping /\ ret' = ret
        /\ \E x \in {"handle", "lock", "run", "check"} : pc' = [pc EXCEPT ![l] = x]
    BY <1>4 DEF PollWoken, PollIo, PollNothing, PollReturns, BeginPendingFunctors,
                SwapFunctors, EndPendingFunctors
  <2>2. InsideLoop(l) /\ InsideLoop(l)'
    BY <1>0, <2>1 DEF InsideLoop, CalledFrom
  <2> QED
    BY <1>0, <2>1, <2>2, LoopingKept
<1> QED
  BY <1>1, <1>2, <1>3, <1>4 DEF LoopStep

LEMMA OutsideLooping ==
  ASSUME TypeOK,
         (\E t \in Threads : ThreadCall(t)) \/ (\E l \in Loops : PreLoopCall(l))
  PROVE  \A m \in Loops : looping'[m] <=> InsideLoop(m)'
<1>1. PICK a \in Actors, from \in {"outside", "created"} :
        /\ pc[a] = from /\ pc' = [pc EXCEPT ![a] = "exec"] /\ ret' = [ret EXCEPT ![a] = from]
        /\ looping' = looping /\ (a \in Loops => from = "created")
  BY ActorsAssumption DEF ThreadCall, PreLoopCall, Issue, Enter, Goto, loopVars
<1>2. a \in Loops => ~InsideLoop(a) /\ ~InsideLoop(a)' /\ (looping[a] <=> InsideLoop(a))
  BY <1>1 DEF TypeOK, VarTypes, InsideLoop, CalledFrom
<1>3. \A b \in Actors : b # a => ret'[b] = ret[b]
  BY <1>1 DEF TypeOK, VarTypes
<1> QED
  BY <1>1, <1>2, <1>3, LoopingKept

LEMMA NextType == TypeOK /\ [Next]_vars => TypeOK'
<1> SUFFICES ASSUME TypeOK, [Next]_vars PROVE TypeOK'
  OBVIOUS
<1>1. CASE UNCHANGED vars
  BY <1>1 DEF TypeOK, VarTypes, InsideLoop, CalledFrom, vars
<1>2. CASE Next
  <2>1. VarTypes'
    BY <1>2, CallType, LoopType, OutsideType DEF Next
  <2>2. \A m \in Loops : looping'[m] <=> InsideLoop(m)'
    BY <1>2, CallLooping, LoopLooping, OutsideLooping DEF Next
  <2> QED
    BY <2>1, <2>2 DEF TypeOK
<1> QED
  BY <1>1, <1>2

(* Every variable of EventLoop keeps its type. *)
THEOREM TypeCorrect == Spec => []TypeOK
  BY InitType, NextType, PTL DEF Spec

-----------------------------------------------------------------------------
(* mutex_ and the batch *)

LEMMA InitLock == Init => LockInv
  BY DEF Init, LockInv, HoldsMutex, BatchIsIsolated, BatchUsedUp, InBatch, CalledFrom

LEMMA CallLock == ASSUME TypeOK, LockInv, NEW a \in Actors, Call(a) PROVE LockInv'
<1> USE ActorsAssumption
    DEF TypeOK, VarTypes, LockInv, HoldsMutex, BatchIsIsolated, BatchUsedUp, InBatch, CalledFrom,
        loopVars, Goto
<1>0. op[a] \in Ops /\ op[a].tgt \in Loops /\ op[a].f \in Functors
  BY OpFields
<1>1. CASE Nop(a)
  BY <1>1 DEF Nop, Return
<1>2. CASE runInLoop(a)
  BY <1>2 DEF runInLoop
<1>3. CASE queueInLoop(a)
  <2> DEFINE l == op[a].tgt
  <2>1. /\ mutex[l] = NoOne /\ mutex' = [mutex EXCEPT ![l] = a]
        /\ pc[a] = "exec" /\ pc' = [pc EXCEPT ![a] = "q_wake"]
        /\ \A m \in Loops : m # l => pending'[m] = pending[m]
        /\ UNCHANGED <<ret, op, functors>>
    BY <1>0, <1>3 DEF queueInLoop
  <2>2. ~InBatch(l)
    BY <1>0, <2>1
  <2>3. HoldsMutex'
    BY <1>0, <2>1
  <2>4. BatchIsIsolated'
    <3> SUFFICES ASSUME NEW m \in Loops, InBatch(m)'
                 PROVE  mutex'[m] = m /\ pending'[m] = <<>> /\ ~(pc'[m] = "q_wake" /\ op'[m].tgt = m)
      OBVIOUS
    <3>1. InBatch(m) /\ m # l
      BY <2>1, <2>2
    <3>2. mutex'[m] = m /\ pending'[m] = <<>>
      BY <1>0, <2>1, <3>1
    <3>3. ~(pc'[m] = "q_wake" /\ op'[m].tgt = m)
      BY <2>1, <3>1
    <3> QED
      BY <3>2, <3>3
  <2>5. BatchUsedUp'
    BY <2>1
  <2> QED
    BY <2>3, <2>4, <2>5
<1>4. CASE queueInLoopEnd(a)
  <2> DEFINE l == op[a].tgt
  <2>1. /\ mutex[l] = a /\ mutex' = [mutex EXCEPT ![l] = NoOne]
        /\ pc[a] = "q_wake" /\ pc' = [pc EXCEPT ![a] = ret[a]]
        /\ op' = [op EXCEPT ![a] = NopOp]
        /\ UNCHANGED <<ret, pending, functors>>
    BY <1>0, <1>4 DEF queueInLoopEnd, Return
  <2>2. ~InBatch(l)
    BY <1>0, <2>1
  <2>3. HoldsMutex'
    <3> SUFFICES ASSUME NEW b \in Actors, pc'[b] = "q_wake"
                 PROVE  mutex'[op'[b].tgt] = b
      OBVIOUS
    <3>1. b # a /\ op'[b] = op[b] /\ mutex[op[b].tgt] = b /\ op[b].tgt \in Loops
      BY <2>1, OpFields
    <3> QED
      BY <2>1, <3>1
  <2>4. BatchIsIsolated'
    BY <1>0, <2>1, <2>2
  <2>5. BatchUsedUp'
    BY <2>1
  <2> QED
    BY <2>3, <2>4, <2>5
<1>5. CASE quitLoop(a)
  <2>1. pc[a] = "exec" /\ UNCHANGED <<mutex, pending, functors, ret>>
    BY <1>5 DEF quitLoop, QuitNeedsWakeup, Return
  <2>2. CASE a = op[a].tgt
    <3>1. pc' = [pc EXCEPT ![a] = ret[a]] /\ op' = [op EXCEPT ![a] = NopOp]
      BY <1>5, <2>2 DEF quitLoop, QuitNeedsWakeup, Return
    <3> QED
      BY <2>1, <3>1
  <2>3. CASE a # op[a].tgt
    <3>1. pc' = [pc EXCEPT ![a] = "quit_wake"] /\ op' = op
      BY <1>5, <2>3 DEF quitLoop, QuitNeedsWakeup
    <3> QED
      BY <2>1, <3>1
  <2> QED
    BY <2>2, <2>3
<1>6. CASE quitLoopEnd(a)
  BY <1>6 DEF quitLoopEnd, Return
<1> QED
  BY <1>1, <1>2, <1>3, <1>4, <1>5, <1>6 DEF Call

(* A step of actor c that leaves mutexes and queues alone, and c inside or *)
(* outside its batch.                                                      *)
LEMMA LockKept ==
  ASSUME TypeOK, LockInv, NEW c \in Actors, NEW x,
         pc' = [pc EXCEPT ![c] = x], pc[c] # "q_wake", x # "q_wake",
         UNCHANGED <<mutex, pending>>,
         \A b \in Actors : b # c => op'[b] = op[b] /\ ret'[b] = ret[b],
         \A m \in Loops : m # c \/ ~InBatch(m) => functors'[m] = functors[m],
         c \in Loops => (InBatch(c)' <=> InBatch(c))
  PROVE  LockInv'
<1>1. /\ pc'[c] = x
      /\ \A b \in Actors : b # c => pc'[b] = pc[b]
      /\ Loops \subseteq Actors
  BY DEF TypeOK, VarTypes, Actors
<1>2. \A m \in Loops : InBatch(m)' <=> InBatch(m)
  BY <1>1 DEF InBatch, CalledFrom
<1>3. HoldsMutex'
  BY <1>1 DEF LockInv, HoldsMutex
<1>4. BatchIsIsolated'
  BY <1>1, <1>2 DEF LockInv, BatchIsIsolated
<1>5. BatchUsedUp'
  BY <1>2 DEF LockInv, BatchUsedUp
<1> QED
  BY <1>3, <1>4, <1>5 DEF LockInv

LEMMA LoopLock ==
  ASSUME TypeOK, LockInv, NEW l \in Loops, LoopStep(l) \/ PollIo(l) \/ PollNothing(l)
  PROVE  LockInv'
<1>0. l \in Actors /\ pc \in [Actors -> LoopPcs \cup ThreadPcs] /\ ret \in [Actors -> ReturnPcs]
  BY DEF TypeOK, VarTypes, Actors
<1> USE DEF InBatch, CalledFrom, InCall, Goto
<1>1. CASE loop(l)
  BY <1>0, <1>1, LockKept DEF loop
<1>2. CASE CheckQuit(l)
  <2>1. PICK x \in {"exited", "poll"} : pc' = [pc EXCEPT ![l] = x]
    BY <1>2 DEF CheckQuit
  <2> QED
    BY <1>0, <1>2, <2>1, LockKept DEF CheckQuit
<1>3. CASE PollWoken(l) \/ PollIo(l) \/ PollNothing(l)
  BY <1>0, <1>3, LockKept DEF PollWoken, PollIo, PollNothing, PollReturns
<1>4. CASE handleRead(l)
  BY <1>4 DEF handleRead, LockInv, HoldsMutex, BatchIsIsolated, BatchUsedUp
<1>5. CASE handleIo(l)
  <2>1. PICK o : /\ op' = [op EXCEPT ![l] = o] /\ ret' = [ret EXCEPT ![l] = "handle"]
                 /\ pc[l] = "handle" /\ pc' = [pc EXCEPT ![l] = "exec"]
                 /\ UNCHANGED <<mutex, pending, functors>>
    BY <1>5 DEF handleIo, Issue, Enter
  <2>2. \A b \in Actors : b # l => op'[b] = op[b] /\ ret'[b] = ret[b]
    BY <2>1 DEF TypeOK, VarTypes
  <2>3. InBatch(l)' <=> InBatch(l)
    BY <1>0, <2>1
  <2> QED
    BY <1>0, <2>1, <2>2, <2>3, LockKept
<1>6. CASE BeginPendingFunctors(l)
  BY <1>0, <1>6, LockKept DEF BeginPendingFunctors
<1>7. CASE SwapFunctors(l)
  <2>1. /\ pc[l] = "lock" /\ mutex[l] = NoOne /\ UNCHANGED <<ret, op>>
        /\ pc'[l] = "run" /\ mutex'[l] = l /\ pending'[l] = <<>>
    BY <1>0, <1>7 DEF SwapFunctors, TypeOK, VarTypes
  <2>2. /\ \A b \in Actors : b # l => pc'[b] = pc[b]
        /\ \A m \in Loops : m # l => /\ mutex'[m] = mutex[m] /\ pending'[m] = pending[m]
                                    /\ functors'[m] = functors[m]
    BY <1>7 DEF SwapFunctors, TypeOK, VarTypes
  <2>3. InBatch(l)' /\ \A m \in Loops : m # l => (InBatch(m)' <=> InBatch(m))
    BY <2>1, <2>2 DEF Actors
  <2>4. HoldsMutex'
    <3> SUFFICES ASSUME NEW b \in Actors, pc'[b] = "q_wake"
                 PROVE  mutex'[op'[b].tgt] = b
      BY DEF HoldsMutex
    <3>1. b # l /\ pc[b] = "q_wake"
      BY <2>1, <2>2
    <3>2. mutex[op[b].tgt] = b /\ op[b].tgt \in Loops
      BY <3>1, OpFields DEF LockInv, HoldsMutex, TypeOK, VarTypes
    <3> QED
      BY <2>1, <2>2, <3>2, ActorsAssumption
  <2>5. BatchIsIsolated'
    BY <2>1, <2>2, <2>3 DEF LockInv, BatchIsIsolated, Actors
  <2>6. BatchUsedUp'
    BY <2>2, <2>3 DEF LockInv, BatchUsedUp
  <2> QED
    BY <2>4, <2>5, <2>6 DEF LockInv
<1>8. CASE RunFunctor(l)
  <2>1. /\ pc[l] = "run" /\ pc' = [pc EXCEPT ![l] = "exec"] /\ ret' = [ret EXCEPT ![l] = "run"]
        /\ op' = [op EXCEPT ![l] = Body[Head(functors[l])]]
        /\ UNCHANGED <<mutex, pending>>
    BY <1>8 DEF RunFunctor, Enter
  <2>2. \A m \in Loops : m # l \/ ~InBatch(m) => functors'[m] = functors[m]
    BY <1>8, <2>1 DEF RunFunctor, TypeOK, VarTypes
  <2>3. \A b \in Actors : b # l => op'[b] = op[b] /\ ret'[b] = ret[b]
    BY <2>1 DEF TypeOK, VarTypes
  <2>4. InBatch(l)' <=> InBatch(l)
    BY <1>0, <2>1
  <2> QED
    BY <1>0, <2>1, <2>2, <2>3, <2>4, LockKept
<1>9. CASE EndPendingFunctors(l)
  BY <1>9, ActorsAssumption
     DEF EndPendingFunctors, TypeOK, VarTypes, Actors, LockInv, HoldsMutex, BatchIsIsolated, BatchUsedUp
<1> QED
  BY <1>1, <1>2, <1>3, <1>4, <1>5, <1>6, <1>7, <1>8, <1>9 DEF LoopStep

LEMMA OutsideLock ==
  ASSUME TypeOK, LockInv,
         (\E t \in Threads : ThreadCall(t)) \/ (\E l \in Loops : PreLoopCall(l))
  PROVE  LockInv'
<1> USE ActorsAssumption
    DEF TypeOK, VarTypes, LockInv, HoldsMutex, BatchIsIsolated, BatchUsedUp, InBatch, CalledFrom,
        Issue, Enter, Goto, loopVars
<1>1. ASSUME NEW t \in Threads, ThreadCall(t) PROVE LockInv'
  BY <1>1 DEF ThreadCall
<1>2. ASSUME NEW l \in Loops, PreLoopCall(l) PROVE LockInv'
  BY <1>2 DEF PreLoopCall
<1> QED
  BY <1>1, <1>2

LEMMA NextLock == TypeOK /\ LockInv /\ [Next]_vars => LockInv'
<1> SUFFICES ASSUME TypeOK, LockInv, [Next]_vars PROVE LockInv'
  OBVIOUS
<1>1. CASE UNCHANGED vars
  BY <1>1 DEF LockInv, HoldsMutex, BatchIsIsolated, BatchUsedUp, InBatch, CalledFrom, vars
<1>2. CASE Next
  BY <1>2, CallLock, LoopLock, OutsideLock DEF Next
<1> QED
  BY <1>1, <1>2

LEMMA LockCorrect == Spec => []LockInv
  BY InitLock, NextLock, TypeCorrect, PTL DEF Spec

-----------------------------------------------------------------------------
(* Wakeups *)

WakeInv == PreLoopInv /\ NoLostWakeup

LEMMA InitWake == Init => WakeInv
  BY DEF Init, WakeInv, PreLoopInv, NoLostWakeup, Dormant, CalledFrom

(* A step of actor c that adds no functor, lowers no counter and does not  *)
(* put c to sleep on a queued functor.                                     *)
LEMMA WakeKept ==
  ASSUME TypeOK, WakeInv, NEW c \in Actors, NEW x,
         pc' = [pc EXCEPT ![c] = x], pc[c] # "q_wake", UNCHANGED pending,
         \A m \in Loops : wakeup_fd[m] > 0 => wakeup_fd'[m] > 0,
         \A b \in Actors : b # c => op'[b] = op[b] /\ ret'[b] = ret[b],
         c \in Loops => (Dormant(c)' => Dormant(c) \/ pending[c] = <<>>),
         c \in Loops => (CalledFrom(c, "created")' => QuietOp(op'[c]))
  PROVE  WakeInv'
<1>1. /\ \A b \in Actors : b # c => pc'[b] = pc[b]
      /\ Loops \subseteq Actors
  BY DEF TypeOK, VarTypes, Actors
<1>2. PreLoopInv'
  <2> SUFFICES ASSUME NEW m \in Loops, CalledFrom(m, "created")' PROVE QuietOp(op'[m])
    BY DEF PreLoopInv, QuietOp
  <2>1. CASE m = c
    BY <2>1
  <2>2. CASE m # c
    <3>1. CalledFrom(m, "created") /\ op'[m] = op[m]
      BY <1>1, <2>2 DEF CalledFrom
    <3> QED
      BY <3>1 DEF WakeInv, PreLoopInv
  <2> QED
    BY <2>1, <2>2
<1>3. NoLostWakeup'
  <2> SUFFICES ASSUME NEW m \in Loops, Dormant(m)', pending[m] # <<>>
               PROVE  \/ wakeup_fd'[m] > 0
                      \/ \E b \in Actors \ {m} : pc'[b] = "q_wake" /\ op'[b].tgt = m
    BY DEF NoLostWakeup
  <2>1. Dormant(m)
    BY <1>1 DEF Dormant, CalledFrom
  <2>2. \/ wakeup_fd[m] > 0
        \/ \E b \in Actors \ {m} : pc[b] = "q_wake" /\ op[b].tgt = m
    BY <2>1 DEF WakeInv, NoLostWakeup
  <2>3. CASE wakeup_fd[m] > 0
    BY <2>3
  <2>4. CASE \E b \in Actors \ {m} : pc[b] = "q_wake" /\ op[b].tgt = m
    BY <1>1, <2>4
  <2> QED
    BY <2>2, <2>3, <2>4
<1> QED
  BY <1>2, <1>3 DEF WakeInv

(* The end of a call that queued nothing. *)
LEMMA ReturnKeeps ==
  ASSUME TypeOK, WakeInv, NEW a \in Actors, pc[a] \in {"exec", "quit_wake"},
         pc' = [pc EXCEPT ![a] = ret[a]], op' = [op EXCEPT ![a] = NopOp],
         UNCHANGED <<ret, pending>>,
         \A m \in Loops : wakeup_fd[m] > 0 => wakeup_fd'[m] > 0
  PROVE  WakeInv'
<1>1. pc'[a] = ret[a] /\ ret[a] \in ReturnPcs /\ op'[a] = NopOp
  BY DEF TypeOK, VarTypes
<1>2. ~CalledFrom(a, "created")'
  BY <1>1 DEF CalledFrom, InCall, ReturnPcs
<1>3. Dormant(a)' => Dormant(a)
  BY <1>1, <1>2 DEF Dormant, CalledFrom, InCall, ReturnPcs
<1>4. \A b \in Actors : b # a => op'[b] = op[b] /\ ret'[b] = ret[b]
  BY DEF TypeOK, VarTypes
<1> QED
  BY <1>2, <1>3, <1>4, WakeKept

LEMMA CallWake ==
  ASSUME TypeOK, LockInv, WakeInv, NEW a \in Actors, Call(a)
  PROVE  WakeInv'
<1> USE ActorsAssumption
    DEF TypeOK, VarTypes, WakeInv, PreLoopInv, NoLostWakeup, Dormant, CalledFrom, loopVars, Goto
<1>0. op[a] \in Ops /\ op[a].tgt \in Loops /\ op[a].f \in Functors
  BY OpFields
<1>1. CASE Nop(a)
  BY <1>1, NopOpType DEF Nop, Return
<1>2. CASE runInLoop(a)
  BY <1>2 DEF runInLoop, QuietOp
<1>3. CASE queueInLoop(a)
  <2> DEFINE l == op[a].tgt
  <2>1. /\ pc[a] = "exec" /\ IsQueueing(a) /\ pc' = [pc EXCEPT ![a] = "q_wake"]
        /\ \A m \in Loops : m # l => pending'[m] = pending[m]
        /\ UNCHANGED <<ret, op, wakeup_fd>>
    BY <1>0, <1>3 DEF queueInLoop
  <2>2. PreLoopInv'
    BY <2>1
  <2>3. NoLostWakeup'
    <3> SUFFICES ASSUME NEW m \in Loops, Dormant(m)', pending'[m] # <<>>
                 PROVE  \/ wakeup_fd'[m] > 0
                        \/ \E b \in Actors \ {m} : pc'[b] = "q_wake" /\ op'[b].tgt = m
      OBVIOUS
    <3>1. CASE m = l /\ a # l
      BY <1>0, <2>1, <3>1
    <3>2. CASE m = l /\ a = l
      <4>1. CalledFrom(a, "created")
        BY <2>1, <3>2
      <4> QED
        BY <2>1, <3>2, <4>1 DEF IsQueueing, Queues, QuietOp
    <3>3. CASE m # l
      BY <1>0, <2>1, <3>3
    <3> QED
      BY <3>1, <3>2, <3>3
  <2> QED
    BY <2>2, <2>3
<1>4. CASE queueInLoopEnd(a)
  <2> DEFINE l == op[a].tgt
  <2>1. /\ pc[a] = "q_wake" /\ pc' = [pc EXCEPT ![a] = ret[a]]
        /\ op' = [op EXCEPT ![a] = NopOp]
        /\ UNCHANGED <<ret, pending>>
    BY <1>0, <1>4 DEF queueInLoopEnd, Return
  <2>2. /\ \A m \in Loops : wakeup_fd[m] > 0 => wakeup_fd'[m] > 0
        /\ a # l => wakeup_fd'[l] > 0
    BY <1>0, <1>4, WakeupCounts DEF queueInLoopEnd, NeedsWakeup
  <2>3. PreLoopInv'
    BY <2>1, NopOpType DEF QuietOp
  <2>4. NoLostWakeup'
    <3> SUFFICES ASSUME NEW m \in Loops, Dormant(m)', pending'[m] # <<>>
                 PROVE  \/ wakeup_fd'[m] > 0
                        \/ \E b \in Actors \ {m} : pc'[b] = "q_wake" /\ op'[b].tgt = m
      OBVIOUS
    <3>1. Dormant(m)
      BY <2>1
    <3>2. CASE wakeup_fd[m] > 0
      BY <2>2, <3>2
    <3>3. CASE \E b \in Actors \ {m} : pc[b] = "q_wake" /\ op[b].tgt = m
      <4>1. PICK b \in Actors \ {m} : pc[b] = "q_wake" /\ op[b].tgt = m
        BY <3>3
      <4>2. CASE b = a
        BY <2>2, <4>1, <4>2
      <4>3. CASE b # a
        BY <2>1, <4>1, <4>3
      <4> QED
        BY <4>2, <4>3
    <3> QED
      BY <2>1, <3>1, <3>2, <3>3
  <2> QED
    BY <2>3, <2>4
<1>5. CASE quitLoop(a)
  <2>1. pc[a] = "exec" /\ UNCHANGED <<pending, wakeup_fd, ret>>
    BY <1>5 DEF quitLoop, QuitNeedsWakeup, Return
  <2>2. CASE a = op[a].tgt
    <3>1. pc' = [pc EXCEPT ![a] = ret[a]] /\ op' = [op EXCEPT ![a] = NopOp]
      BY <1>5, <2>2 DEF quitLoop, QuitNeedsWakeup, Return
    <3> QED
      BY <2>1, <3>1, ReturnKeeps
  <2>3. CASE a # op[a].tgt
    <3>1. pc' = [pc EXCEPT ![a] = "quit_wake"] /\ op' = op
      BY <1>5, <2>3 DEF quitLoop, QuitNeedsWakeup
    <3>2. a \in Loops => (Dormant(a)' => Dormant(a))
      BY <2>1, <3>1 DEF InCall
    <3>3. a \in Loops => (CalledFrom(a, "created")' => QuietOp(op'[a]))
      BY <2>1, <3>1 DEF InCall
    <3> QED
      BY <2>1, <3>1, <3>2, <3>3, WakeKept
  <2> QED
    BY <2>2, <2>3
<1>6. CASE quitLoopEnd(a)
  <2>1. /\ pc[a] = "quit_wake" /\ pc' = [pc EXCEPT ![a] = ret[a]]
        /\ op' = [op EXCEPT ![a] = NopOp]
        /\ UNCHANGED <<ret, pending>>
    BY <1>6 DEF quitLoopEnd, Return
  <2>2. \A m \in Loops : wakeup_fd[m] > 0 => wakeup_fd'[m] > 0
    BY <1>0, <1>6, WakeupCounts DEF quitLoopEnd
  <2> QED
    BY <2>1, <2>2, ReturnKeeps
<1> QED
  BY <1>1, <1>2, <1>3, <1>4, <1>5, <1>6 DEF Call

LEMMA LoopWake ==
  ASSUME TypeOK, LockInv, WakeInv, NEW l \in Loops,
         LoopStep(l) \/ PollIo(l) \/ PollNothing(l)
  PROVE  WakeInv'
<1>0. l \in Actors /\ pc \in [Actors -> LoopPcs \cup ThreadPcs] /\ ret \in [Actors -> ReturnPcs]
  BY DEF TypeOK, VarTypes, Actors
<1> USE DEF Dormant, CalledFrom, InCall, Goto
<1>1. CASE loop(l)
  BY <1>0, <1>1, WakeKept DEF loop
<1>2. CASE CheckQuit(l)
  <2>1. PICK x \in {"exited", "poll"} : pc' = [pc EXCEPT ![l] = x]
    BY <1>2 DEF CheckQuit
  <2> QED
    BY <1>0, <1>2, <2>1, WakeKept DEF CheckQuit
<1>3. CASE PollWoken(l) \/ PollIo(l) \/ PollNothing(l)
  BY <1>0, <1>3, WakeKept DEF PollWoken, PollIo, PollNothing, PollReturns
<1>4. CASE handleRead(l)
  <2>1. /\ ~Dormant(l) /\ UNCHANGED <<pc, ret, op, pending>>
        /\ \A m \in Loops : m # l => wakeup_fd'[m] = wakeup_fd[m]
    BY <1>4 DEF handleRead, TypeOK, VarTypes
  <2>2. PreLoopInv'
    BY <2>1 DEF WakeInv, PreLoopInv
  <2>3. NoLostWakeup'
    BY <2>1 DEF WakeInv, NoLostWakeup
  <2> QED
    BY <2>2, <2>3 DEF WakeInv
<1>5. CASE handleIo(l)
  <2>1. PICK o : /\ op' = [op EXCEPT ![l] = o] /\ ret' = [ret EXCEPT ![l] = "handle"]
                 /\ pc[l] = "handle" /\ pc' = [pc EXCEPT ![l] = "exec"]
                 /\ UNCHANGED <<pending, wakeup_fd>>
    BY <1>5 DEF handleIo, Issue, Enter
  <2> QED
    BY <1>0, <2>1, WakeKept DEF TypeOK, VarTypes
<1>6. CASE BeginPendingFunctors(l)
  BY <1>0, <1>6, WakeKept DEF BeginPendingFunctors
<1>7. CASE SwapFunctors(l)
  <2>1. /\ pc[l] = "lock" /\ pc' = [pc EXCEPT ![l] = "run"] /\ UNCHANGED <<wakeup_fd, ret, op>>
        /\ \A m \in Loops : m # l => pending'[m] = pending[m]
    BY <1>7 DEF SwapFunctors, TypeOK, VarTypes
  <2>2. /\ \A b \in Actors : b # l => pc'[b] = pc[b]
        /\ pc'[l] = "run"
    BY <1>0, <2>1
  <2>3. PreLoopInv'
    BY <1>0, <2>1, <2>2 DEF WakeInv, PreLoopInv, Actors
  <2>4. NoLostWakeup'
    <3> SUFFICES ASSUME NEW m \in Loops, Dormant(m)', pending'[m] # <<>>
                 PROVE  \/ wakeup_fd'[m] > 0
                        \/ \E b \in Actors \ {m} : pc'[b] = "q_wake" /\ op'[b].tgt = m
      BY DEF NoLostWakeup
    <3>1. m # l /\ m \in Actors
      BY <2>2 DEF Actors
    <3>2. Dormant(m) /\ pending[m] # <<>>
      BY <2>1, <2>2, <3>1
    <3>3. \/ wakeup_fd[m] > 0
          \/ \E b \in Actors \ {m} : pc[b] = "q_wake" /\ op[b].tgt = m
      BY <3>2 DEF WakeInv, NoLostWakeup
    <3> QED
      BY <2>1, <2>2, <3>3
  <2> QED
    BY <2>3, <2>4 DEF WakeInv
<1>8. CASE RunFunctor(l)
  <2>1. /\ pc[l] = "run" /\ pc' = [pc EXCEPT ![l] = "exec"] /\ ret' = [ret EXCEPT ![l] = "run"]
        /\ op' = [op EXCEPT ![l] = Body[Head(functors[l])]]
        /\ UNCHANGED <<pending, wakeup_fd>>
    BY <1>8 DEF RunFunctor, Enter
  <2> QED
    BY <1>0, <2>1, WakeKept DEF TypeOK, VarTypes
<1>9. CASE EndPendingFunctors(l)
  <2>1. /\ pc[l] = "run" /\ pc' = [pc EXCEPT ![l] = "check"]
        /\ UNCHANGED <<pending, wakeup_fd, ret, op>>
    BY <1>9 DEF EndPendingFunctors
  <2>2. pending[l] = <<>>
    BY <2>1 DEF LockInv, BatchIsIsolated, InBatch
  <2> QED
    BY <1>0, <2>1, <2>2, WakeKept
<1> QED
  BY <1>1, <1>2, <1>3, <1>4, <1>5, <1>6, <1>7, <1>8, <1>9 DEF LoopStep

LEMMA OutsideWake ==
  ASSUME TypeOK, WakeInv, PreLoopQuiet,
         (\E t \in Threads : ThreadCall(t)) \/ (\E l \in Loops : PreLoopCall(l))
  PROVE  WakeInv'
<1> USE ActorsAssumption
    DEF TypeOK, VarTypes, WakeInv, PreLoopInv, NoLostWakeup, Dormant, CalledFrom,
        Issue, Enter, Goto, loopVars
<1>1. ASSUME NEW t \in Threads, ThreadCall(t) PROVE WakeInv'
  <2>1. PICK o : /\ op' = [op EXCEPT ![t] = o] /\ ret' = [ret EXCEPT ![t] = "outside"]
                 /\ pc[t] = "outside" /\ pc' = [pc EXCEPT ![t] = "exec"]
                 /\ UNCHANGED <<pending, wakeup_fd>>
    BY <1>1 DEF ThreadCall
  <2>2. t \in Actors /\ t \notin Loops
    BY DEF Actors
  <2>3. \A b \in Actors : b # t => op'[b] = op[b] /\ ret'[b] = ret[b]
    BY <2>1
  <2> QED
    BY <2>1, <2>2, <2>3, WakeKept
<1>2. ASSUME NEW l \in Loops, PreLoopCall(l) PROVE WakeInv'
  <2>1. PICK o \in PreLoopOps :
                 /\ op' = [op EXCEPT ![l] = o] /\ ret' = [ret EXCEPT ![l] = "created"]
                 /\ pc[l] = "created" /\ pc' = [pc EXCEPT ![l] = "exec"]
                 /\ UNCHANGED <<pending, wakeup_fd>>
    BY <1>2 DEF PreLoopCall
  <2>2. l \in Actors /\ Dormant(l)
    BY <2>1 DEF Actors
  <2>3. QuietOp(o) /\ op'[l] = o
    BY <2>1, <2>2 DEF PreLoopQuiet
  <2>4. \A b \in Actors : b # l => op'[b] = op[b] /\ ret'[b] = ret[b]
    BY <2>1
  <2> QED
    BY <2>1, <2>2, <2>3, <2>4, WakeKept
<1> QED
  BY <1>1, <1>2

LEMMA NextWake ==
  PreLoopQuiet /\ TypeOK /\ LockInv /\ WakeInv /\ [Next]_vars => WakeInv'
<1> SUFFICES ASSUME PreLoopQuiet, TypeOK, LockInv, WakeInv, [Next]_vars PROVE WakeInv'
  OBVIOUS
<1>1. CASE UNCHANGED vars
  BY <1>1 DEF WakeInv, PreLoopInv, NoLostWakeup, Dormant, CalledFrom, vars
<1>2. CASE Next
  BY <1>2, CallWake, LoopWake, OutsideWake DEF Next
<1> QED
  BY <1>1, <1>2

(* No loop goes to sleep in poll() on a queued functor, whatever the other *)
(* loops and threads do, as long as its own thread queues nothing in it    *)
(* before it enters loop().                                                *)
THEOREM WakeupsSuffice == PreLoopQuiet => (Spec => []NoLostWakeup)
<1> SUFFICES ASSUME PreLoopQuiet PROVE Spec => []NoLostWakeup
  OBVIOUS
<1>1. TypeOK /\ LockInv /\ WakeInv /\ [Next]_vars => WakeInv'
  BY NextWake
<1>2. WakeInv => NoLostWakeup
  BY DEF WakeInv
<1> QED
  BY <1>1, <1>2, InitWake, TypeCorrect, LockCorrect, PTL DEF Spec

-----------------------------------------------------------------------------
(* Deadlock *)

LEMMA InitHolder == Init => HolderIsInside
  BY ActorsAssumption DEF Init, HolderIsInside

(* A step of actor c that takes no mutex, lets go of none and leaves c     *)
(* where it was as to the mutexes it holds.                                *)
LEMMA HolderKept ==
  ASSUME TypeOK, HolderIsInside, NEW c \in Actors, NEW x,
         pc' = [pc EXCEPT ![c] = x], pc[c] # "q_wake", UNCHANGED mutex,
         \A b \in Actors : b # c => op'[b] = op[b] /\ ret'[b] = ret[b],
         c \in Loops => (InBatch(c) => InBatch(c)')
  PROVE  HolderIsInside'
<1>1. \A b \in Actors : b # c => pc'[b] = pc[b]
  BY DEF TypeOK, VarTypes
<1> SUFFICES ASSUME NEW l \in Loops, NEW a \in Actors, mutex[l] = a
             PROVE  \/ a = l /\ InBatch(l)'
                    \/ pc'[a] = "q_wake" /\ op'[a].tgt = l
  BY DEF HolderIsInside
<1>2. CASE a = l /\ InBatch(l)
  BY <1>1, <1>2 DEF InBatch, CalledFrom
<1>3. CASE pc[a] = "q_wake" /\ op[a].tgt = l
  BY <1>1, <1>3
<1> QED
  BY <1>2, <1>3 DEF HolderIsInside

LEMMA CallHolder ==
  ASSUME TypeOK, LockInv, HolderIsInside, NEW a \in Actors, Call(a)
  PROVE  HolderIsInside'
<1>0. /\ op[a] \in Ops /\ op[a].tgt \in Loops
      /\ pc \in [Actors -> LoopPcs \cup ThreadPcs] /\ ret \in [Actors -> ReturnPcs]
      /\ op \in [Actors -> Ops] /\ mutex \in [Loops -> Actors \cup {NoOne}]
  BY OpFields DEF TypeOK, VarTypes
<1> USE DEF Goto
<1>1. CASE Nop(a) \/ runInLoop(a) \/ quitLoop(a) \/ quitLoopEnd(a)
  <2>1. /\ pc[a] \in {"exec", "quit_wake"} /\ UNCHANGED <<mutex, ret>>
        /\ \E o : op' = [op EXCEPT ![a] = o]
    BY <1>0, <1>1 DEF Nop, runInLoop, quitLoop, quitLoopEnd, Return
  <2>2. PICK x \in {"exec", "quit_wake", ret[a]} : pc' = [pc EXCEPT ![a] = x]
    BY <1>0, <1>1 DEF Nop, runInLoop, quitLoop, quitLoopEnd, Return
  <2>3. InBatch(a) => InBatch(a)'
    BY <1>0, <2>1, <2>2 DEF InBatch, CalledFrom
  <2>4. \A b \in Actors : b # a => op'[b] = op[b] /\ ret'[b] = ret[b]
    BY <1>0, <2>1
  <2> QED
    BY <2>1, <2>2, <2>3, <2>4, HolderKept
<1>2. CASE queueInLoop(a)
  <2>1. /\ mutex[op[a].tgt] = NoOne /\ mutex' = [mutex EXCEPT ![op[a].tgt] = a]
        /\ pc[a] = "exec" /\ pc' = [pc EXCEPT ![a] = "q_wake"] /\ UNCHANGED <<ret, op>>
    BY <1>2 DEF queueInLoop
  <2> SUFFICES ASSUME NEW l \in Loops, NEW b \in Actors, mutex'[l] = b
               PROVE  \/ b = l /\ InBatch(l)'
                      \/ pc'[b] = "q_wake" /\ op'[b].tgt = l
    BY DEF HolderIsInside
  <2>2. CASE l = op[a].tgt
    BY <1>0, <2>1, <2>2
  <2>3. CASE l # op[a].tgt
    <3>1. mutex[l] = b
      BY <1>0, <2>1, <2>3
    <3>2. CASE b = l /\ InBatch(l)
      BY <1>0, <2>1, <3>2 DEF InBatch, CalledFrom
    <3>3. CASE pc[b] = "q_wake" /\ op[b].tgt = l
      BY <1>0, <2>1, <3>3
    <3> QED
      BY <3>1, <3>2, <3>3 DEF HolderIsInside
  <2> QED
    BY <2>2, <2>3
<1>3. CASE queueInLoopEnd(a)
  <2>1. /\ pc[a] = "q_wake" /\ pc' = [pc EXCEPT ![a] = ret[a]] /\ UNCHANGED ret
        /\ mutex' = [mutex EXCEPT ![op[a].tgt] = NoOne] /\ op' = [op EXCEPT ![a] = NopOp]
    BY <1>3 DEF queueInLoopEnd, Return
  <2> SUFFICES ASSUME NEW l \in Loops, NEW b \in Actors, mutex'[l] = b
               PROVE  \/ b = l /\ InBatch(l)'
                      \/ pc'[b] = "q_wake" /\ op'[b].tgt = l
    BY DEF HolderIsInside
  <2>2. l # op[a].tgt /\ mutex[l] = b
    BY <1>0, <2>1, ActorsAssumption
  <2>3. CASE b = l /\ InBatch(l)
    BY <1>0, <2>1, <2>3 DEF InBatch, CalledFrom
  <2>4. CASE pc[b] = "q_wake" /\ op[b].tgt = l
    BY <1>0, <2>1, <2>2, <2>4
  <2> QED
    BY <2>2, <2>3, <2>4 DEF HolderIsInside
<1> QED
  BY <1>1, <1>2, <1>3 DEF Call

LEMMA LoopHolder ==
  ASSUME TypeOK, LockInv, HolderIsInside, NEW l \in Loops,
         LoopStep(l) \/ PollIo(l) \/ PollNothing(l)
  PROVE  HolderIsInside'
<1>0. /\ l \in Actors /\ pc \in [Actors -> LoopPcs \cup ThreadPcs] /\ ret \in [Actors -> ReturnPcs]
      /\ op \in [Actors -> Ops] /\ mutex \in [Loops -> Actors \cup {NoOne}]
  BY DEF TypeOK, VarTypes
<1> USE DEF Goto
<1>1. CASE \/ loop(l) \/ CheckQuit(l) \/ PollWoken(l) \/ PollIo(l) \/ PollNothing(l)
           \/ BeginPendingFunctors(l)
  <2>1. /\ pc[l] \in {"created", "check", "poll", "handle"} /\ UNCHANGED <<mutex, ret, op>>
        /\ \E x \in {"check", "exited", "poll", "handle", "lock"} : pc' = [pc EXCEPT ![l] = x]
    BY <1>1 DEF loop, CheckQuit, PollWoken, PollIo, PollNothing, PollReturns, BeginPendingFunctors
  <2>2. ~InBatch(l)
    BY <2>1 DEF InBatch, CalledFrom
  <2> QED
    BY <1>0, <2>1, <2>2, HolderKept
<1>2. CASE handleRead(l)
  BY <1>2 DEF handleRead, HolderIsInside, InBatch, CalledFrom
<1>3. CASE handleIo(l) \/ RunFunctor(l)
  <2>1. /\ pc[l] \in {"handle", "run"} /\ pc' = [pc EXCEPT ![l] = "exec"] /\ UNCHANGED mutex
        /\ ret' = [ret EXCEPT ![l] = pc[l]] /\ \E o : op' = [op EXCEPT ![l] = o]
    BY <1>3 DEF handleIo, RunFunctor, Issue, Enter
  <2>2. InBatch(l) => InBatch(l)'
    BY <1>0, <2>1 DEF InBatch, CalledFrom
  <2>3. \A b \in Actors : b # l => op'[b] = op[b] /\ ret'[b] = ret[b]
    BY <1>0, <2>1
  <2> QED
    BY <1>0, <2>1, <2>2, <2>3, HolderKept
<1>4. CASE SwapFunctors(l)
  <2>1. /\ pc[l] = "lock" /\ pc' = [pc EXCEPT ![l] = "run"] /\ UNCHANGED <<ret, op>>
        /\ mutex' = [mutex EXCEPT ![l] = l]
    BY <1>4 DEF SwapFunctors
  <2> SUFFICES ASSUME NEW m \in Loops, NEW b \in Actors, mutex'[m] = b
               PROVE  \/ b = m /\ InBatch(m)'
                      \/ pc'[b] = "q_wake" /\ op'[b].tgt = m
    BY DEF HolderIsInside
  <2>2. CASE m = l
    BY <1>0, <2>1, <2>2 DEF InBatch
  <2>3. CASE m # l
    <3>1. mutex[m] = b
      BY <1>0, <2>1, <2>3
    <3>2. CASE b = m /\ InBatch(m)
      BY <1>0, <2>1, <2>3, <3>2 DEF InBatch, CalledFrom
    <3>3. CASE pc[b] = "q_wake" /\ op[b].tgt = m
      BY <1>0, <2>1, <3>3
    <3> QED
      BY <3>1, <3>2, <3>3 DEF HolderIsInside
  <2> QED
    BY <2>2, <2>3
<1>5. CASE EndPendingFunctors(l)
  <2>1. /\ pc[l] = "run" /\ pc' = [pc EXCEPT ![l] = "check"] /\ UNCHANGED <<ret, op>>
        /\ mutex' = [mutex EXCEPT ![l] = NoOne]
    BY <1>5 DEF EndPendingFunctors
  <2> SUFFICES ASSUME NEW m \in Loops, NEW b \in Actors, mutex'[m] = b
               PROVE  \/ b = m /\ InBatch(m)'
                      \/ pc'[b] = "q_wake" /\ op'[b].tgt = m
    BY DEF HolderIsInside
  <2>2. m # l /\ mutex[m] = b
    BY <1>0, <2>1, ActorsAssumption
  <2>3. CASE b = m /\ InBatch(m)
    BY <1>0, <2>1, <2>2, <2>3 DEF InBatch, CalledFrom
  <2>4. CASE pc[b] = "q_wake" /\ op[b].tgt = m
    BY <1>0, <2>1, <2>4
  <2> QED
    BY <2>2, <2>3, <2>4 DEF HolderIsInside
<1> QED
  BY <1>1, <1>2, <1>3, <1>4, <1>5 DEF LoopStep

LEMMA OutsideHolder ==
  ASSUME TypeOK, HolderIsInside,
         (\E t \in Threads : ThreadCall(t)) \/ (\E l \in Loops : PreLoopCall(l))
  PROVE  HolderIsInside'
<1>1. PICK a \in Actors, from \in {"outside", "created"} :
        /\ pc[a] = from /\ pc' = [pc EXCEPT ![a] = "exec"] /\ ret' = [ret EXCEPT ![a] = from]
        /\ UNCHANGED mutex /\ \E o : op' = [op EXCEPT ![a] = o]
  BY DEF ThreadCall, PreLoopCall, Issue, Enter, Goto
<1>2. ~InBatch(a)
  BY <1>1 DEF InBatch, CalledFrom
<1>3. \A b \in Actors : b # a => op'[b] = op[b] /\ ret'[b] = ret[b]
  BY <1>1 DEF TypeOK, VarTypes
<1> QED
  BY <1>1, <1>2, <1>3, HolderKept

LEMMA NextHolder == TypeOK /\ LockInv /\ HolderIsInside /\ [Next]_vars => HolderIsInside'
<1> SUFFICES ASSUME TypeOK, LockInv, HolderIsInside, [Next]_vars PROVE HolderIsInside'
  OBVIOUS
<1>1. CASE UNCHANGED vars
  BY <1>1 DEF HolderIsInside, InBatch, CalledFrom, vars
<1>2. CASE Next
  BY <1>2, CallHolder, LoopHolder, OutsideHolder DEF Next
<1> QED
  BY <1>1, <1>2

(* Every functor of sequence s queues, if it runs in loop l, only below l. *)
AllBelow(rank, l, s) == \A i \in DOMAIN s : Below(rank, l, Body[s[i]])

(* Every call is one the constants provide for, and what is handed to a    *)
(* loop, or runs in its batch, queues only below that loop.                *)
CallsKnown == \A a \in Actors : op[a] \in AllOps \cup {NopOp}

QueuesBelow(rank) ==
  \A l \in Loops : AllBelow(rank, l, pending[l]) /\ AllBelow(rank, l, functors[l])

BatchBelow(rank) == \A l \in Loops : CalledFrom(l, "run") => Below(rank, l, op[l])

RankInv(rank) == CallsKnown /\ QueuesBelow(rank) /\ BatchBelow(rank)

LEMMA AllBelowEmpty == \A rank, l : AllBelow(rank, l, <<>>)
  BY DEF AllBelow

LEMMA AllBelowAppend ==
  ASSUME NEW rank, NEW l, NEW s \in Seq(Functors), NEW f \in Functors,
         AllBelow(rank, l, s), Below(rank, l, Body[f])
  PROVE  AllBelow(rank, l, Append(s, f))
<1>1. \A i \in DOMAIN Append(s, f) : Append(s, f)[i] = f \/ (i \in DOMAIN s /\ Append(s, f)[i] = s[i])
  OBVIOUS
<1> QED
  BY <1>1 DEF AllBelow

LEMMA AllBelowHeadTail ==
  ASSUME NEW rank, NEW l, NEW s \in Seq(Functors), s # <<>>, AllBelow(rank, l, s)
  PROVE  Below(rank, l, Body[Head(s)]) /\ AllBelow(rank, l, Tail(s))
<1>1. /\ 1 \in DOMAIN s /\ Head(s) = s[1]
      /\ \A i \in DOMAIN Tail(s) : i + 1 \in DOMAIN s /\ Tail(s)[i] = s[i + 1]
  OBVIOUS
<1> QED
  BY <1>1 DEF AllBelow

LEMMA NopBelow == \A rank, l : Below(rank, l, NopOp)
  BY NopOpType DEF Below, Queues

LEMMA InitRank == ASSUME NEW rank PROVE Init => RankInv(rank)
<1> SUFFICES ASSUME Init PROVE RankInv(rank)
  OBVIOUS
<1>1. CallsKnown
  BY DEF Init, CallsKnown
<1>2. QueuesBelow(rank)
  BY AllBelowEmpty DEF Init, QueuesBelow
<1>3. BatchBelow(rank)
  BY DEF Init, BatchBelow, CalledFrom
<1> QED
  BY <1>1, <1>2, <1>3 DEF RankInv

(* A step of actor c that queues nothing and gives control to no functor.  *)
LEMMA RankKept ==
  ASSUME NEW rank, TypeOK, RankInv(rank), NEW c \in Actors, NEW x, NEW o,
         pc' = [pc EXCEPT ![c] = x], op' = [op EXCEPT ![c] = o], o \in AllOps \cup {NopOp},
         UNCHANGED <<pending, functors>>,
         \A b \in Actors : b # c => ret'[b] = ret[b],
         c \in Loops => (CalledFrom(c, "run")' => Below(rank, c, o))
  PROVE  RankInv(rank)'
<1>1. /\ op'[c] = o
      /\ \A b \in Actors : b # c => pc'[b] = pc[b] /\ op'[b] = op[b]
  BY DEF TypeOK, VarTypes
<1>2. CallsKnown'
  BY <1>1 DEF RankInv, CallsKnown, AllOps
<1>3. QueuesBelow(rank)'
  BY DEF RankInv, QueuesBelow, AllBelow, Below, Queues
<1>4. BatchBelow(rank)'
  <2> SUFFICES ASSUME NEW l \in Loops, CalledFrom(l, "run")' PROVE Below(rank, l, op'[l])
    BY DEF BatchBelow, Below, Queues
  <2>1. CASE l = c
    BY <1>1, <2>1
  <2>2. CASE l # c
    <3>1. CalledFrom(l, "run") /\ op'[l] = op[l]
      BY <1>1, <2>2 DEF CalledFrom
    <3> QED
      BY <3>1 DEF RankInv, BatchBelow
  <2> QED
    BY <2>1, <2>2
<1> QED
  BY <1>2, <1>3, <1>4 DEF RankInv

LEMMA CallRank ==
  ASSUME NEW rank, RankedBy(rank), TypeOK, RankInv(rank), NEW a \in Actors, Call(a)
  PROVE  RankInv(rank)'
<1>0. /\ op[a] \in Ops /\ op[a].tgt \in Loops /\ op[a].f \in Functors
      /\ op[a] \in AllOps \cup {NopOp} /\ op = [op EXCEPT ![a] = op[a]]
      /\ pc = [pc EXCEPT ![a] = pc[a]] /\ ret[a] \in ReturnPcs /\ pc \in [Actors -> LoopPcs \cup ThreadPcs]
  BY OpFields DEF TypeOK, VarTypes, RankInv, CallsKnown
<1>00. HandsOver(op[a]) => Below(rank, op[a].tgt, Body[op[a].f])
  BY <1>0, NopOpType DEF RankedBy, HandsOver
<1>000. a \in Loops => (CalledFrom(a, "run") => Below(rank, a, op[a]))
  BY DEF RankInv, BatchBelow
<1> USE DEF Goto
<1>1. CASE Nop(a) \/ queueInLoopEnd(a) \/ quitLoopEnd(a) \/ (quitLoop(a) /\ ~QuitNeedsWakeup(a, op[a].tgt))
  <2>1. /\ pc' = [pc EXCEPT ![a] = ret[a]] /\ op' = [op EXCEPT ![a] = NopOp]
        /\ UNCHANGED <<pending, functors, ret>>
    BY <1>1 DEF Nop, queueInLoopEnd, quitLoopEnd, quitLoop, Return, loopVars
  <2> QED
    BY <2>1, RankKept, NopBelow
<1>2. CASE runInLoop(a)
  <2>1. /\ op' = [op EXCEPT ![a] = Body[op[a].f]] /\ pc' = [pc EXCEPT ![a] = pc[a]]
        /\ UNCHANGED <<pending, functors, ret>>
    BY <1>0, <1>2 DEF runInLoop, loopVars
  <2>2. Body[op[a].f] \in AllOps
    BY <1>0 DEF AllOps
  <2>3. Below(rank, a, Body[op[a].f])
    BY <1>00, <1>2 DEF runInLoop, HandsOver
  <2> QED
    BY <2>1, <2>2, <2>3, RankKept
<1>3. CASE quitLoop(a) /\ QuitNeedsWakeup(a, op[a].tgt)
  <2>1. /\ pc' = [pc EXCEPT ![a] = "quit_wake"] /\ op' = [op EXCEPT ![a] = op[a]]
        /\ UNCHANGED <<pending, functors, ret>> /\ pc[a] = "exec"
    BY <1>0, <1>3 DEF quitLoop, loopVars
  <2>2. a \in Loops => (CalledFrom(a, "run")' => CalledFrom(a, "run"))
    BY <1>0, <2>1 DEF CalledFrom
  <2> QED
    BY <1>0, <1>000, <2>1, <2>2, RankKept
<1>4. CASE queueInLoop(a)
  <2> DEFINE l == op[a].tgt
             f == op[a].f
  <2>1. /\ pc[a] = "exec" /\ pc' = [pc EXCEPT ![a] = "q_wake"] /\ UNCHANGED <<op, ret, functors>>
        /\ pending' = [pending EXCEPT ![l] = Append(@, f)]
    BY <1>4 DEF queueInLoop, loopVars
  <2>2. Below(rank, l, Body[f])
    BY <1>00, <1>4 DEF queueInLoop, IsQueueing, Queues, HandsOver
  <2>3. CallsKnown'
    BY <2>1 DEF RankInv, CallsKnown, AllOps
  <2>4. QueuesBelow(rank)'
    <3> SUFFICES ASSUME NEW m \in Loops
                 PROVE  AllBelow(rank, m, pending'[m]) /\ AllBelow(rank, m, functors'[m])
      BY DEF QueuesBelow, AllBelow, Below, Queues
    <3>1. AllBelow(rank, m, pending[m]) /\ AllBelow(rank, m, functors'[m])
      BY <2>1 DEF RankInv, QueuesBelow
    <3>2. CASE m = l
      <4>1. pending'[m] = Append(pending[m], f) /\ pending[m] \in Seq(Functors)
        BY <2>1, <3>2 DEF TypeOK, VarTypes
      <4> QED
        BY <1>0, <2>2, <3>1, <3>2, <4>1, AllBelowAppend
    <3>3. CASE m # l
      <4>1. pending'[m] = pending[m]
        BY <2>1, <3>3 DEF TypeOK, VarTypes
      <4> QED
        BY <3>1, <4>1
    <3> QED
      BY <3>2, <3>3
  <2>5. BatchBelow(rank)'
    <3> SUFFICES ASSUME NEW m \in Loops, CalledFrom(m, "run")' PROVE Below(rank, m, op[m])
      BY <2>1 DEF BatchBelow, Below, Queues
    <3>1. CalledFrom(m, "run")
      BY <1>0, <2>1 DEF CalledFrom
    <3> QED
      BY <3>1 DEF RankInv, BatchBelow
  <2> QED
    BY <2>3, <2>4, <2>5 DEF RankInv
<1> QED
  BY <1>1, <1>2, <1>3, <1>4 DEF Call

LEMMA LoopRank ==
  ASSUME NEW rank, RankedBy(rank), TypeOK, RankInv(rank), NEW l \in Loops,
         LoopStep(l) \/ PollIo(l) \/ PollNothing(l)
  PROVE  RankInv(rank)'
<1>0. /\ l \in Actors /\ op[l] \in AllOps \cup {NopOp} /\ op = [op EXCEPT ![l] = op[l]]
      /\ pc = [pc EXCEPT ![l] = pc[l]] /\ pc \in [Actors -> LoopPcs \cup ThreadPcs]
      /\ ret \in [Actors -> ReturnPcs]
  BY DEF TypeOK, VarTypes, RankInv, CallsKnown
<1> USE DEF Goto
<1>1. CASE \/ loop(l) \/ CheckQuit(l) \/ PollWoken(l) \/ PollIo(l) \/ PollNothing(l)
           \/ BeginPendingFunctors(l) \/ EndPendingFunctors(l)
  <2>1. /\ UNCHANGED <<pending, functors, ret, op>>
        /\ \E x \in {"check", "exited", "poll", "handle", "lock"} : pc' = [pc EXCEPT ![l] = x]
    BY <1>1 DEF loop, CheckQuit, PollWoken, PollIo, PollNothing, PollReturns,
                BeginPendingFunctors, EndPendingFunctors
  <2>2. ~CalledFrom(l, "run")'
    BY <1>0, <2>1 DEF CalledFrom
  <2> QED
    BY <1>0, <2>1, <2>2, RankKept
<1>2. CASE handleRead(l)
  <2>1. UNCHANGED <<pending, functors, ret, op, pc>>
    BY <1>2 DEF handleRead
  <2> QED
    BY <2>1 DEF RankInv, CallsKnown, QueuesBelow, BatchBelow, AllBelow, Below, Queues, CalledFrom, AllOps
<1>3. CASE handleIo(l)
  <2>1. PICK o \in HandlerOps :
          /\ op' = [op EXCEPT ![l] = o] /\ ret' = [ret EXCEPT ![l] = "handle"]
          /\ pc' = [pc EXCEPT ![l] = "exec"] /\ UNCHANGED <<pending, functors>>
    BY <1>3 DEF handleIo, Issue, Enter
  <2>2. o \in AllOps
    BY <2>1 DEF AllOps
  <2>3. ~CalledFrom(l, "run")'
    BY <1>0, <2>1 DEF CalledFrom
  <2>4. \A b \in Actors : b # l => ret'[b] = ret[b]
    BY <1>0, <2>1
  <2> QED
    BY <1>0, <2>1, <2>2, <2>3, <2>4, RankKept
<1>4. CASE SwapFunctors(l)
  <2>1. /\ pc' = [pc EXCEPT ![l] = "run"] /\ UNCHANGED <<op, ret>>
        /\ pending' = [pending EXCEPT ![l] = <<>>]
        /\ functors' = [functors EXCEPT ![l] = pending[l]]
    BY <1>4 DEF SwapFunctors
  <2>2. CallsKnown'
    BY <2>1 DEF RankInv, CallsKnown, AllOps
  <2>3. QueuesBelow(rank)'
    <3> SUFFICES ASSUME NEW m \in Loops
                 PROVE  AllBelow(rank, m, pending'[m]) /\ AllBelow(rank, m, functors'[m])
      BY DEF QueuesBelow, AllBelow, Below, Queues
    <3>1. AllBelow(rank, m, pending[m]) /\ AllBelow(rank, m, functors[m])
      BY DEF RankInv, QueuesBelow
    <3>2. \/ pending'[m] = pending[m] /\ functors'[m] = functors[m]
          \/ pending'[m] = <<>> /\ functors'[m] = pending[m]
      BY <2>1 DEF TypeOK, VarTypes
    <3> QED
      BY <3>1, <3>2, AllBelowEmpty
  <2>4. BatchBelow(rank)'
    <3> SUFFICES ASSUME NEW m \in Loops, CalledFrom(m, "run")' PROVE Below(rank, m, op[m])
      BY <2>1 DEF BatchBelow, Below, Queues
    <3>1. CalledFrom(m, "run")
      BY <1>0, <2>1 DEF CalledFrom
    <3> QED
      BY <3>1 DEF RankInv, BatchBelow
  <2> QED
    BY <2>2, <2>3, <2>4 DEF RankInv
<1>5. CASE RunFunctor(l)
  <2> DEFINE f == Head(functors[l])
  <2>1. /\ functors[l] # <<>> /\ functors' = [functors EXCEPT ![l] = Tail(@)]
        /\ op' = [op EXCEPT ![l] = Body[f]] /\ ret' = [ret EXCEPT ![l] = "run"]
        /\ pc' = [pc EXCEPT ![l] = "exec"] /\ UNCHANGED pending
    BY <1>5 DEF RunFunctor, Enter
  <2>2. functors[l] \in Seq(Functors) /\ f \in Functors
    BY <2>1 DEF TypeOK, VarTypes
  <2>3. Below(rank, l, Body[f]) /\ AllBelow(rank, l, Tail(functors[l]))
    BY <2>1, <2>2, AllBelowHeadTail DEF RankInv, QueuesBelow
  <2>4. CallsKnown'
    <3>1. Body[f] \in AllOps
      BY <2>2 DEF AllOps
    <3>2. \A b \in Actors : op'[b] = op[b] \/ op'[b] = Body[f]
      BY <2>1 DEF TypeOK, VarTypes
    <3> QED
      BY <3>1, <3>2 DEF RankInv, CallsKnown, AllOps
  <2>5. QueuesBelow(rank)'
    <3> SUFFICES ASSUME NEW m \in Loops
                 PROVE  AllBelow(rank, m, pending'[m]) /\ AllBelow(rank, m, functors'[m])
      BY DEF QueuesBelow, AllBelow, Below, Queues
    <3>1. AllBelow(rank, m, pending[m]) /\ AllBelow(rank, m, functors[m])
      BY DEF RankInv, QueuesBelow
    <3>2. \/ functors'[m] = functors[m]
          \/ m = l /\ functors'[m] = Tail(functors[l])
      BY <2>1 DEF TypeOK, VarTypes
    <3> QED
      BY <2>1, <2>3, <3>1, <3>2
  <2>6. BatchBelow(rank)'
    <3> SUFFICES ASSUME NEW m \in Loops, CalledFrom(m, "run")' PROVE Below(rank, m, op'[m])
      BY DEF BatchBelow, Below, Queues
    <3>1. CASE m = l
      <4>1. op'[m] = Body[f]
        BY <1>0, <2>1, <3>1 DEF TypeOK, VarTypes
      <4> QED
        BY <2>3, <3>1, <4>1
    <3>2. CASE m # l
      <4>1. CalledFrom(m, "run") /\ op'[m] = op[m]
        BY <1>0, <2>1, <3>2 DEF CalledFrom, TypeOK, VarTypes
      <4> QED
        BY <4>1 DEF RankInv, BatchBelow
    <3> QED
      BY <3>1, <3>2
  <2> QED
    BY <2>4, <2>5, <2>6 DEF RankInv
<1> QED
  BY <1>1, <1>2, <1>3, <1>4, <1>5 DEF LoopStep

LEMMA OutsideRank ==
  ASSUME NEW rank, TypeOK, RankInv(rank),
         (\E t \in Threads : ThreadCall(t)) \/ (\E l \in Loops : PreLoopCall(l))
  PROVE  RankInv(rank)'
<1>1. PICK a \in Actors, o \in ThreadOps \cup PreLoopOps, from \in {"outside", "created"} :
        /\ pc' = [pc EXCEPT ![a] = "exec"] /\ ret' = [ret EXCEPT ![a] = from]
        /\ op' = [op EXCEPT ![a] = o] /\ UNCHANGED <<pending, functors>>
  BY DEF ThreadCall, PreLoopCall, Issue, Enter, Goto, loopVars
<1>2. o \in AllOps
  BY DEF AllOps
<1>3. ~CalledFrom(a, "run")' /\ \A b \in Actors : b # a => ret'[b] = ret[b]
  BY <1>1 DEF CalledFrom, TypeOK, VarTypes
<1> QED
  BY <1>1, <1>2, <1>3, RankKept

LEMMA NextRank ==
  ASSUME NEW rank, RankedBy(rank), TypeOK, RankInv(rank), [Next]_vars
  PROVE  RankInv(rank)'
<1>1. CASE UNCHANGED vars
  BY <1>1 DEF RankInv, CallsKnown, QueuesBelow, BatchBelow, AllBelow, Below, Queues, CalledFrom,
              AllOps, vars
<1>2. CASE Next
  BY <1>2, CallRank, LoopRank, OutsideRank DEF Next
<1> QED
  BY <1>1, <1>2

(* A nonempty set of ranked loops has one of lowest rank. *)
LEMMA LowestLoop ==
  ASSUME NEW rank \in [Loops -> Nat], NEW T \in SUBSET Loops, T # {}
  PROVE  \E l \in T : \A m \in T : ~(rank[m] < rank[l])
<1> DEFINE R == {rank[l] : l \in T}
<1>1. R \subseteq Nat /\ R # {}
  OBVIOUS
<1>2. \E x \in R : \A y \in R : ~(<<y, x>> \in OpToRel(<, Nat))
  BY <1>1, NatLessThanWellFounded, WFMin, Zenon
<1>3. PICK x \in R : \A y \in R : ~(<<y, x>> \in OpToRel(<, Nat))
  BY <1>2, Zenon
<1>4. \A y \in R : ~(y < x)
  BY <1>1, <1>3 DEF OpToRel
<1> QED
  BY <1>4

(* A set of actors that wait for each other holds a loop of lowest rank    *)
(* that, from its batch, queues into a loop of the set.                    *)
LEMMA RankedNoCycle ==
  ASSUME NEW rank \in [Loops -> Nat], TypeOK, HolderIsInside, RankInv(rank)
  PROVE  NoCircularWait
<1> SUFFICES ASSUME NEW S \in SUBSET Actors, S # {},
                    \A a \in S : \E b \in S : WaitsFor(a, b)
             PROVE  FALSE
  BY DEF NoCircularWait
<1> DEFINE T == {l \in Loops \cap S : InBatch(l) /\ pc[l] = "exec"}
<1>1. \A a \in Actors : op[a].tgt \in Loops
  BY OpFields DEF TypeOK, VarTypes
<1>2. ASSUME NEW a \in S, NEW b \in S, NEW l \in Loops, mutex[l] = b
      PROVE  l = b /\ l \in T
  <2>1. pc[b] \in {"exec", "lock"}
    BY DEF WaitsFor
  <2>2. b = l /\ InBatch(l)
    BY <1>2, <2>1 DEF HolderIsInside
  <2>3. pc[b] # "lock"
    BY <2>2 DEF InBatch, CalledFrom
  <2> QED
    BY <2>1, <2>2, <2>3
<1>3. \A a \in S : \E l \in T : \/ pc[a] = "exec" /\ IsQueueing(a) /\ l = op[a].tgt
                               \/ pc[a] = "lock"
  BY <1>1, <1>2 DEF WaitsFor
<1>4. T # {} /\ T \in SUBSET Loops
  BY <1>3
<1>5. PICK l \in T : \A m \in T : ~(rank[m] < rank[l])
  BY <1>4, LowestLoop
<1>6. op[l].tgt \in T /\ IsQueueing(l)
  BY <1>3, <1>5
<1>7. CalledFrom(l, "run")
  BY <1>5 DEF InBatch
<1>8. rank[op[l].tgt] < rank[l]
  BY <1>5, <1>6, <1>7 DEF RankInv, BatchBelow, Below, IsQueueing
<1> QED
  BY <1>5, <1>6, <1>8

(* If the loops can be ranked so that functors queue only into loops of    *)
(* lower rank, no set of threads ever waits for each other's mutexes:      *)
(* holding mutex_ over the functors is then harmless.  The run             *)
(* loop_crosswise shows what happens otherwise.                            *)
THEOREM RankedLoopsNeverDeadlock == LocksRanked => (Spec => []NoCircularWait)
<1> SUFFICES ASSUME NEW rank \in [Loops -> Nat], RankedBy(rank)
             PROVE  Spec => []NoCircularWait
  BY DEF LocksRanked
<1>1. TypeOK /\ RankInv(rank) /\ [Next]_vars => RankInv(rank)'
  BY NextRank
<1>2. Init => RankInv(rank)
  BY InitRank
<1>3. TypeOK /\ HolderIsInside /\ RankInv(rank) => NoCircularWait
  BY RankedNoCycle
<1> QED
  BY <1>1, <1>2, <1>3, InitHolder, NextHolder, TypeCorrect, LockCorrect, PTL DEF Spec

-----------------------------------------------------------------------------
(* EventLoop implements TaskQueue *)

LEMMA AppendConcat ==
  ASSUME NEW S, NEW s \in Seq(S), NEW t \in Seq(S), NEW e \in S
  PROVE  s \o Append(t, e) = Append(s \o t, e)
  OBVIOUS

LEMMA HeadTailConcat ==
  ASSUME NEW S, NEW s \in Seq(S), NEW t \in Seq(S), s # <<>>
  PROVE  /\ s \o t # <<>>
         /\ Head(s \o t) = Head(s)
         /\ Tail(s \o t) = Tail(s) \o t
  OBVIOUS

LEMMA EmptyConcat ==
  ASSUME NEW S, NEW s \in Seq(S)
  PROVE  <<>> \o s = s /\ s \o <<>> = s
  OBVIOUS

(* The queue of loop l, as TaskQueue sees it. *)
Queued == [l \in Loops |-> functors[l] \o pending[l]]

LEMMA InitRefines == Init => TQ!Init
<1> SUFFICES ASSUME Init PROVE TQ!Init
  OBVIOUS
<1>1. Queued = [l \in Loops |-> <<>>]
  BY EmptyConcat DEF Queued, Init
<1> QED
  BY <1>1 DEF Init, TQ!Init, Queued

LEMMA SameQueues ==
  ASSUME UNCHANGED <<functors, pending, ran>>
  PROVE  UNCHANGED TQ!vars
  BY DEF TQ!vars

LEMMA CallRefines ==
  ASSUME TypeOK, LockInv, NEW a \in Actors, Call(a)
  PROVE  [TQ!Next]_(TQ!vars)
<1>1. CASE queueInLoop(a)
  <2>1. PICK l \in Loops, f \in Functors : l = op[a].tgt /\ f = op[a].f
    BY OpFields DEF TypeOK, VarTypes
  <2>2. /\ pending' = [pending EXCEPT ![l] = Append(@, f)]
        /\ UNCHANGED <<functors, ran>>
    BY <1>1, <2>1 DEF queueInLoop, loopVars
  <2>3. /\ pending[l] \in Seq(Functors) /\ functors[l] \in Seq(Functors)
        /\ pending'[l] = Append(pending[l], f) /\ functors'[l] = functors[l]
    BY <2>2 DEF TypeOK, VarTypes
  <2>4. functors'[l] \o pending'[l] = Append(functors[l] \o pending[l], f)
    <3> DEFINE P(s, t, e) == s \o Append(t, e) = Append(s \o t, e)
    <3>1. \A s \in Seq(Functors), t \in Seq(Functors), e \in Functors : P(s, t, e)
      BY AppendConcat
    <3> HIDE DEF P
    <3>2. P(functors[l], pending[l], f)
      BY <2>3, <3>1
    <3>3. functors[l] \o Append(pending[l], f) = Append(functors[l] \o pending[l], f)
      BY <3>2 DEF P
    <3> QED
      BY <2>3, <3>3
  <2>5. \A m \in Loops \ {l} : functors'[m] \o pending'[m] = functors[m] \o pending[m]
    BY <2>2 DEF TypeOK, VarTypes
  <2>6. Queued' = [Queued EXCEPT ![l] = Append(@, f)]
    BY <2>4, <2>5 DEF Queued
  <2>7. TQ!Submit(l, f)
    BY <2>2, <2>6 DEF TQ!Submit, Queued
  <2> QED
    BY <2>7 DEF TQ!Next
<1>2. CASE ~queueInLoop(a)
  <2>1. UNCHANGED <<functors, pending, ran>>
    BY <1>2 DEF Call, Nop, runInLoop, queueInLoopEnd, quitLoop, QuitNeedsWakeup, quitLoopEnd, loopVars
  <2> QED
    BY <2>1, SameQueues
<1> QED
  BY <1>1, <1>2

LEMMA LoopRefines ==
  ASSUME TypeOK, LockInv, NEW l \in Loops, LoopStep(l) \/ PollIo(l) \/ PollNothing(l)
  PROVE  [TQ!Next]_(TQ!vars)
<1>0. pending[l] \in Seq(Functors) /\ functors[l] \in Seq(Functors)
  BY DEF TypeOK, VarTypes
<1>1. CASE SwapFunctors(l)
  <2>1. /\ pending' = [pending EXCEPT ![l] = <<>>]
        /\ functors' = [functors EXCEPT ![l] = pending[l]]
        /\ UNCHANGED ran
    BY <1>1 DEF SwapFunctors
  <2>2. functors[l] = <<>>
    BY <1>1 DEF SwapFunctors, LockInv, BatchUsedUp, InBatch, CalledFrom
  <2>3. functors'[l] \o pending'[l] = functors[l] \o pending[l]
    BY <1>0, <2>1, <2>2, EmptyConcat DEF TypeOK, VarTypes
  <2>4. \A m \in Loops \ {l} : functors'[m] \o pending'[m] = functors[m] \o pending[m]
    BY <2>1 DEF TypeOK, VarTypes
  <2>5. Queued' = Queued
    BY <2>3, <2>4 DEF Queued
  <2> QED
    BY <2>1, <2>5 DEF TQ!vars, Queued
<1>2. CASE RunFunctor(l)
  <2>1. /\ functors[l] # <<>>
        /\ functors' = [functors EXCEPT ![l] = Tail(@)]
        /\ ran' = [ran EXCEPT ![l] = Append(@, Head(functors[l]))]
        /\ UNCHANGED pending
    BY <1>2 DEF RunFunctor
  <2>2. /\ Queued[l] # <<>>
        /\ Head(Queued[l]) = Head(functors[l])
        /\ Tail(Queued[l]) = functors'[l] \o pending'[l]
    BY <1>0, <2>1, HeadTailConcat DEF Queued, TypeOK, VarTypes
  <2>3. \A m \in Loops \ {l} : functors'[m] \o pending'[m] = functors[m] \o pending[m]
    BY <2>1 DEF TypeOK, VarTypes
  <2>4. Queued' = [Queued EXCEPT ![l] = Tail(@)]
    BY <2>2, <2>3 DEF Queued
  <2>5. TQ!Execute(l)
    BY <2>1, <2>2, <2>4 DEF TQ!Execute, Queued
  <2> QED
    BY <2>5 DEF TQ!Next
<1>3. CASE ~SwapFunctors(l) /\ ~RunFunctor(l)
  <2>1. UNCHANGED <<functors, pending, ran>>
    BY <1>3 DEF LoopStep, loop, CheckQuit, PollWoken, PollIo, PollNothing, PollReturns,
                handleRead, handleIo, BeginPendingFunctors, EndPendingFunctors
  <2> QED
    BY <2>1, SameQueues
<1> QED
  BY <1>1, <1>2, <1>3

LEMMA NextRefines == TypeOK /\ LockInv /\ [Next]_vars => [TQ!Next]_(TQ!vars)
<1> SUFFICES ASSUME TypeOK, LockInv, [Next]_vars PROVE [TQ!Next]_(TQ!vars)
  OBVIOUS
<1>1. CASE UNCHANGED vars
  BY <1>1, SameQueues DEF vars
<1>2. ASSUME NEW t \in Threads, ThreadCall(t) PROVE [TQ!Next]_(TQ!vars)
  BY <1>2, SameQueues DEF ThreadCall, loopVars
<1>3. ASSUME NEW l \in Loops, PreLoopCall(l) PROVE [TQ!Next]_(TQ!vars)
  BY <1>3, SameQueues DEF PreLoopCall, loopVars
<1>4. CASE Next
  BY <1>2, <1>3, <1>4, CallRefines, LoopRefines DEF Next
<1> QED
  BY <1>1, <1>4

(* Every loop executes the functors queued in it in the order in which     *)
(* they were queued, each exactly once, however the threads interleave.    *)
THEOREM Refinement == Spec => ImplementsTaskQueue
  BY InitRefines, NextRefines, TypeCorrect, LockCorrect, PTL
  DEF Spec, ImplementsTaskQueue, TQ!Spec
=============================================================================
