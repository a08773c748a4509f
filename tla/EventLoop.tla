------------------------------ MODULE EventLoop ------------------------------
(***************************************************************************)
(* EventLoop (src/src/event_loop.cpp): the reactor loops of one process    *)
(* and the threads that hand them work.                                    *)
(*                                                                         *)
(* A loop and the thread that created it are one actor (thread_id_).  The  *)
(* other actors are the threads that own no loop.  Code the library calls  *)
(* back - a Channel's handler, a queued functor - and code that calls the  *)
(* library is user code: here it makes one call of the EventLoop interface *)
(* (an element of Ops) each time it gets control.                          *)
(***************************************************************************)
EXTENDS Naturals, Sequences

CONSTANTS
  Loops,        \* the event loops, each standing for its own thread too
  Threads,      \* the threads that own no loop
  NoOne,        \* the owner of a mutex that is free
  Functors,     \* the callbacks that can be queued
  Body,         \* Body[f]: the call functor f makes when it is executed
  ThreadOps,    \* calls a thread of Threads may make, each at most once
  HandlerOps,   \* calls the handler of an I/O channel may make, likewise
  PreLoopOps    \* calls a loop's thread may make before it enters loop()

Actors == Loops \cup Threads

(* The calls of the interface.  "nop" is user code that makes none.  tgt   *)
(* is the loop it is made on and f the functor it passes.                  *)
OpKinds == {"nop", "queueInLoop", "runInLoop", "quit"}
Ops == [kind : OpKinds, tgt : Loops, f : Functors]

NopOp == CHOOSE o \in Ops : o.kind = "nop"

ASSUME ActorsAssumption ==
  /\ Loops # {} /\ Functors # {}
  /\ Loops \cap Threads = {}
  /\ NoOne \notin Actors

ASSUME OpsAssumption ==
  /\ Body \in [Functors -> Ops]
  /\ ThreadOps \subseteq Ops
  /\ HandlerOps \subseteq Ops
  /\ PreLoopOps \subseteq Ops

VARIABLES
  looping,      \* looping_
  quit,         \* quit_
  calling,      \* calling_pending_functors_
  mutex,        \* mutex_: the actor that holds it, or NoOne
  pending,      \* pending_functors_
  functors,     \* the local vector of doPendingFunctors(), not yet executed
  wakeup_fd,    \* the counter of the eventfd behind wakeup_fd_
  active,       \* active_channels_ not yet handled: "wakeup" or "io"
  pc,           \* where each actor is
  ret,          \* where its user code returns to
  op,           \* the call its user code is making
  issued,       \* calls the environment has made so far (bounds the model)
  ran           \* history: functors executed by doPendingFunctors()

vars == <<looping, quit, calling, mutex, pending, functors, wakeup_fd, active,
          pc, ret, op, issued, ran>>

(* Everything the bodies of loop() and doPendingFunctors() alone write.    *)
loopVars == <<looping, calling, functors, active, ran>>

(* A thread that owns no loop is always "outside" the library or in a      *)
(* call; a loop starts "created", runs loop() and ends "exited".           *)
InCall == {"exec", "q_wake", "quit_wake"}
LoopPcs == {"created", "check", "poll", "handle", "lock", "run", "exited"} \cup InCall
ThreadPcs == {"outside"} \cup InCall
ReturnPcs == {"created", "handle", "run", "outside"}

(* The user code of loop l is at work on behalf of "from". *)
CalledFrom(l, from) == pc[l] \in InCall /\ ret[l] = from

(* Loop l's thread is between the first and the last line of loop(). *)
InsideLoop(l) ==
  pc[l] \notin {"created", "exited"} /\ ~CalledFrom(l, "created")

VarTypes ==
  /\ looping \in [Loops -> BOOLEAN]
  /\ quit \in [Loops -> BOOLEAN]
  /\ calling \in [Loops -> BOOLEAN]
  /\ mutex \in [Loops -> Actors \cup {NoOne}]
  /\ pending \in [Loops -> Seq(Functors)]
  /\ functors \in [Loops -> Seq(Functors)]
  /\ wakeup_fd \in [Loops -> Nat]
  /\ active \in [Loops -> SUBSET {"wakeup", "io"}]
  /\ pc \in [Actors -> LoopPcs \cup ThreadPcs]
  /\ ret \in [Actors -> ReturnPcs]
  /\ op \in [Actors -> Ops]
  /\ issued \subseteq Ops
  /\ ran \in [Loops -> Seq(Functors)]

(* The types, and what looping_ means: it is on exactly while the thread   *)
(* is in loop(), so the assertions on it at the entry of loop() and in the *)
(* destructor say that loop() is not entered twice nor the loop destroyed  *)
(* inside it.                                                              *)
TypeOK ==
  /\ VarTypes
  /\ \A l \in Loops : looping[l] <=> InsideLoop(l)

(* The constructor leaves calling_pending_functors_ uninitialised.         *)
Init ==
  /\ looping = [l \in Loops |-> FALSE]
  /\ quit = [l \in Loops |-> TRUE]
  /\ calling \in [Loops -> BOOLEAN]
  /\ mutex = [l \in Loops |-> NoOne]
  /\ pending = [l \in Loops |-> <<>>]
  /\ functors = [l \in Loops |-> <<>>]
  /\ wakeup_fd = [l \in Loops |-> 0]
  /\ active = [l \in Loops |-> {}]
  /\ pc = [a \in Actors |-> IF a \in Loops THEN "created" ELSE "outside"]
  /\ ret = [a \in Actors |-> IF a \in Loops THEN "created" ELSE "outside"]
  /\ op = [a \in Actors |-> NopOp]
  /\ issued = {}
  /\ ran = [l \in Loops |-> <<>>]

Goto(a, label) == pc' = [pc EXCEPT ![a] = label]

(* Control passes to user code, which makes call o; it returns to "from".  *)
Enter(a, o, from) ==
  /\ op' = [op EXCEPT ![a] = o]
  /\ ret' = [ret EXCEPT ![a] = from]
  /\ Goto(a, "exec")

(* Control is back where it came from, and the call is over. *)
Return(a) ==
  /\ op' = [op EXCEPT ![a] = NopOp]
  /\ Goto(a, ret[a])
  /\ UNCHANGED ret

(* The environment makes a call of its repertoire, each at most once.      *)
Issue(a, repertoire, from) ==
  \E o \in repertoire \ issued :
    /\ Enter(a, o, from)
    /\ issued' = IF o.kind = "nop" THEN issued ELSE issued \cup {o}

-----------------------------------------------------------------------------
(* wakeup(): the counter of the eventfd grows by one. *)
WakeupLost(l) == UNCHANGED wakeup_fd                          \* mutant
wakeup(l) == wakeup_fd' = [wakeup_fd EXCEPT ![l] = @ + 1]

(* User code makes no call (or the call it made is over). *)
Nop(a) ==
  /\ pc[a] = "exec" /\ op[a].kind = "nop"
  /\ Return(a)
  /\ UNCHANGED <<quit, mutex, pending, wakeup_fd, issued, loopVars>>

(* runInLoop() by the loop's own thread: the functor is executed at once,  *)
(* inside the caller.                                                      *)
runInLoop(a) ==
  /\ pc[a] = "exec" /\ op[a].kind = "runInLoop" /\ op[a].tgt = a
  /\ op' = [op EXCEPT ![a] = Body[op[a].f]]
  /\ UNCHANGED <<quit, mutex, pending, wakeup_fd, pc, ret, issued, loopVars>>

(* queueInLoop(), and runInLoop() by any other thread.  First half: the    *)
(* mutex is taken and the functor appended.                                *)
Queues(a, o) ==
  \/ o.kind = "queueInLoop"
  \/ o.kind = "runInLoop" /\ o.tgt # a

AlwaysQueues(a) == op[a].kind \in {"queueInLoop", "runInLoop"}  \* mutant
IsQueueing(a) == Queues(a, op[a])

queueInLoop(a) ==
  LET l == op[a].tgt IN
  /\ pc[a] = "exec" /\ IsQueueing(a)
  /\ mutex[l] = NoOne
  /\ mutex' = [mutex EXCEPT ![l] = a]
  /\ pending' = [pending EXCEPT ![l] = Append(@, op[a].f)]
  /\ Goto(a, "q_wake")
  /\ UNCHANGED <<quit, wakeup_fd, ret, op, issued, loopVars>>

(* Second half, still under the mutex: wake the loop up where that may be  *)
(* needed, and let go of the mutex.                                        *)
WakeupIfCalling(a, l) == calling[l]                           \* mutant
NeedsWakeup(a, l) == a # l \/ calling[l]

queueInLoopEnd(a) ==
  LET l == op[a].tgt IN
  /\ pc[a] = "q_wake"
  /\ IF NeedsWakeup(a, l) THEN wakeup(l) ELSE UNCHANGED wakeup_fd
  /\ mutex' = [mutex EXCEPT ![l] = NoOne]
  /\ Return(a)
  /\ UNCHANGED <<quit, pending, issued, loopVars>>

(* quit(): the flag first, then - from another thread - the wakeup. *)
NeverNeedsWakeup(a, l) == FALSE                               \* mutant
QuitNeedsWakeup(a, l) == a # l

quitLoop(a) ==
  LET l == op[a].tgt IN
  /\ pc[a] = "exec" /\ op[a].kind = "quit"
  /\ quit' = [quit EXCEPT ![l] = TRUE]
  /\ IF QuitNeedsWakeup(a, l) THEN Goto(a, "quit_wake") /\ UNCHANGED <<ret, op>> ELSE Return(a)
  /\ UNCHANGED <<mutex, pending, wakeup_fd, issued, loopVars>>

quitLoopEnd(a) ==
  /\ pc[a] = "quit_wake"
  /\ wakeup(op[a].tgt)
  /\ Return(a)
  /\ UNCHANGED <<quit, mutex, pending, issued, loopVars>>

Call(a) ==
  \/ Nop(a)
  \/ runInLoop(a)
  \/ queueInLoop(a)
  \/ queueInLoopEnd(a)
  \/ quitLoop(a)
  \/ quitLoopEnd(a)

-----------------------------------------------------------------------------
(* A thread without a loop makes a call. *)
ThreadCall(t) ==
  /\ pc[t] = "outside"
  /\ Issue(t, ThreadOps, "outside")
  /\ UNCHANGED <<quit, mutex, pending, wakeup_fd, loopVars>>

(* A loop's thread makes a call before it enters loop(), as main() does    *)
(* when it starts the server first.                                        *)
PreLoopCall(l) ==
  /\ pc[l] = "created"
  /\ Issue(l, PreLoopOps, "created")
  /\ UNCHANGED <<quit, mutex, pending, wakeup_fd, loopVars>>

(* loop(): entry. *)
loop(l) ==
  /\ pc[l] = "created"
  /\ looping' = [looping EXCEPT ![l] = TRUE]
  /\ quit' = [quit EXCEPT ![l] = FALSE]
  /\ Goto(l, "check")
  /\ UNCHANGED <<calling, mutex, pending, functors, wakeup_fd, active, ret, op, issued, ran>>

(* Mutant: looping_ stays on when the loop ends. *)
StillLooping(l) ==
  /\ pc[l] = "check"
  /\ IF quit[l]
     THEN Goto(l, "exited") /\ UNCHANGED active
     ELSE /\ active' = [active EXCEPT ![l] = {}]
          /\ Goto(l, "poll")
  /\ UNCHANGED <<looping, quit, calling, mutex, pending, functors, wakeup_fd, ret, op, issued, ran>>

(* loop(): while (!quit_), and active_channels_.clear() in its body. *)
CheckQuit(l) ==
  /\ pc[l] = "check"
  /\ IF quit[l]
     THEN /\ looping' = [looping EXCEPT ![l] = FALSE]
          /\ Goto(l, "exited")
          /\ UNCHANGED active
     ELSE /\ active' = [active EXCEPT ![l] = {}]
          /\ Goto(l, "poll")
          /\ UNCHANGED looping
  /\ UNCHANGED <<quit, calling, mutex, pending, functors, wakeup_fd, ret, op, issued, ran>>

(* poll() returns with channels "ready".  The eventfd is level-triggered:  *)
(* it is reported exactly when its counter is not zero.                    *)
PollReturns(l, ready) ==
  /\ pc[l] = "poll"
  /\ active' = [active EXCEPT ![l] = ready]
  /\ Goto(l, "handle")
  /\ UNCHANGED <<looping, quit, calling, mutex, pending, functors, wakeup_fd, ret, op, issued, ran>>

PollWoken(l) ==
  /\ wakeup_fd[l] > 0
  /\ \E io \in SUBSET {"io"} : PollReturns(l, {"wakeup"} \cup io)

PollIo(l) ==
  /\ wakeup_fd[l] = 0
  /\ PollReturns(l, {"io"})

(* The kPollTimeMs timeout, or poll() interrupted by a signal. *)
PollNothing(l) == PollReturns(l, {})

(* The handler of the wakeup channel, EventLoop::handleRead(): read(2) on  *)
(* the eventfd returns its counter and clears it.                          *)
handleRead(l) ==
  /\ pc[l] = "handle" /\ "wakeup" \in active[l]
  /\ wakeup_fd' = [wakeup_fd EXCEPT ![l] = 0]
  /\ active' = [active EXCEPT ![l] = @ \ {"wakeup"}]
  /\ UNCHANGED <<looping, quit, calling, mutex, pending, functors, pc, ret, op, issued, ran>>

(* Channel::handleEvents() of any other channel: user code in the loop's   *)
(* thread.  poll_fds_ can hold the channels in any order.                  *)
handleIo(l) ==
  /\ pc[l] = "handle" /\ "io" \in active[l]
  /\ active' = [active EXCEPT ![l] = @ \ {"io"}]
  /\ Issue(l, HandlerOps, "handle")
  /\ UNCHANGED <<looping, quit, calling, mutex, pending, functors, wakeup_fd, ran>>

(* All channels handled: doPendingFunctors() begins. *)
BeginPendingFunctors(l) ==
  /\ pc[l] = "handle" /\ active[l] = {}
  /\ calling' = [calling EXCEPT ![l] = TRUE]
  /\ Goto(l, "lock")
  /\ UNCHANGED <<looping, quit, mutex, pending, functors, wakeup_fd, active, ret, op, issued, ran>>

(* Mutant: a copy instead of a swap. *)
CopyFunctors(l) ==
  /\ pc[l] = "lock"
  /\ mutex[l] = NoOne
  /\ mutex' = [mutex EXCEPT ![l] = l]
  /\ functors' = [functors EXCEPT ![l] = pending[l]]
  /\ Goto(l, "run")
  /\ UNCHANGED <<looping, quit, calling, pending, wakeup_fd, active, ret, op, issued, ran>>

(* The mutex is taken, and kept until doPendingFunctors() returns. *)
SwapFunctors(l) ==
  /\ pc[l] = "lock"
  /\ mutex[l] = NoOne
  /\ mutex' = [mutex EXCEPT ![l] = l]
  /\ functors' = [functors EXCEPT ![l] = pending[l]]
  /\ pending' = [pending EXCEPT ![l] = <<>>]
  /\ Goto(l, "run")
  /\ UNCHANGED <<looping, quit, calling, wakeup_fd, active, ret, op, issued, ran>>

RunFunctor(l) ==
  /\ pc[l] = "run" /\ functors[l] # <<>>
  /\ ran' = [ran EXCEPT ![l] = Append(@, Head(functors[l]))]
  /\ functors' = [functors EXCEPT ![l] = Tail(@)]
  /\ Enter(l, Body[Head(functors[l])], "run")
  /\ UNCHANGED <<looping, quit, calling, mutex, pending, wakeup_fd, active, issued>>

EndPendingFunctors(l) ==
  /\ pc[l] = "run" /\ functors[l] = <<>>
  /\ calling' = [calling EXCEPT ![l] = FALSE]
  /\ mutex' = [mutex EXCEPT ![l] = NoOne]
  /\ Goto(l, "check")
  /\ UNCHANGED <<looping, quit, pending, functors, wakeup_fd, active, ret, op, issued, ran>>

(* What loop l's thread does on its own, once control is back in loop(). *)
LoopStep(l) ==
  \/ loop(l)
  \/ CheckQuit(l)
  \/ PollWoken(l)
  \/ handleRead(l)
  \/ handleIo(l)
  \/ BeginPendingFunctors(l)
  \/ SwapFunctors(l)
  \/ RunFunctor(l)
  \/ EndPendingFunctors(l)

Next ==
  \/ \E a \in Actors : Call(a)
  \/ \E t \in Threads : ThreadCall(t)
  \/ \E l \in Loops : LoopStep(l) \/ PreLoopCall(l) \/ PollIo(l) \/ PollNothing(l)

Spec == Init /\ [][Next]_vars

(* Every thread that can run does run.  No I/O event, no call by a thread  *)
(* and no timeout of poll() is promised: a functor that would run only     *)
(* because poll() timed out after kPollTimeMs does not count as running.   *)
Fairness ==
  /\ \A a \in Actors : WF_vars(Call(a))
  /\ \A l \in Loops : WF_vars(LoopStep(l))

FairSpec == Spec /\ Fairness

-----------------------------------------------------------------------------
(***************************************************************************)
(* Properties                                                              *)
(***************************************************************************)

(* Loop l executes the functors it swapped out of pending_functors_. *)
InBatch(l) == pc[l] = "run" \/ CalledFrom(l, "run")

(* Loop l is about to sleep in poll(), or does: nothing on its way there   *)
(* looks at pending_functors_ again.                                       *)
Dormant(l) ==
  pc[l] \in {"created", "check", "poll"} \/ CalledFrom(l, "created")

(* No lost wakeup.  A loop never goes to sleep on a queued functor: while  *)
(* pending_functors_ is not empty and the loop is past the point where it  *)
(* would drain it, the eventfd is readable or some other thread is between *)
(* push_back() and wakeup().  It is what the condition at the end of       *)
(* queueInLoop() is for, and what makes it safe for handleRead() to clear  *)
(* the counter.                                                            *)
NoLostWakeup ==
  \A l \in Loops :
    Dormant(l) /\ pending[l] # <<>> =>
      \/ wakeup_fd[l] > 0
      \/ \E a \in Actors \ {l} : pc[a] = "q_wake" /\ op[a].tgt = l

(* The condition under which NoLostWakeup holds: before loop(), a loop's   *)
(* own thread queues nothing in it - directly or from a functor it runs.   *)
(* TcpServer::start() called from main() is such a thread: it runs         *)
(* Acceptor::listen(), which queues nothing.                               *)
QuietOp(o) ==
  \/ o.kind \in {"nop", "quit"}
  \/ o.kind = "runInLoop" /\ Body[o.f].kind \in {"nop", "quit"}

PreLoopQuiet == \A o \in PreLoopOps : QuietOp(o)

PreLoopInv == \A l \in Loops : CalledFrom(l, "created") => QuietOp(op[l])

(* Part of the inductive invariant: the lock_guard of doPendingFunctors()  *)
(* lasts until it returns, so mutex_ is held while user code runs and      *)
(* nothing reaches pending_functors_.                                      *)
BatchIsIsolated ==
  \A l \in Loops : InBatch(l) =>
    /\ mutex[l] = l
    /\ pending[l] = <<>>
    /\ ~(pc[l] = "q_wake" /\ op[l].tgt = l)

(* Further parts: whoever is inside queueInLoop() has the target's mutex,  *)
(* a mutex is held by nobody else but a loop in its batch, and the local   *)
(* vector of doPendingFunctors() is used up when that returns.             *)
HoldsMutex ==
  \A a \in Actors : pc[a] = "q_wake" => mutex[op[a].tgt] = a

HolderIsInside ==
  \A l \in Loops : \A a \in Actors : mutex[l] = a =>
    \/ a = l /\ InBatch(l)
    \/ pc[a] = "q_wake" /\ op[a].tgt = l

BatchUsedUp ==
  \A l \in Loops : ~InBatch(l) => functors[l] = <<>>

LockInv == HoldsMutex /\ BatchIsIsolated /\ BatchUsedUp

(* Actor a cannot go on before b lets go of a mutex. *)
WaitsFor(a, b) ==
  \/ pc[a] = "exec" /\ IsQueueing(a) /\ mutex[op[a].tgt] = b
  \/ a \in Loops /\ pc[a] = "lock" /\ mutex[a] = b

(* No deadlock: no set of threads in which each waits for a mutex another  *)
(* of them - or it itself - holds.  User code runs in functors with the    *)
(* loop's mutex_ held, so queueing from a functor takes a second mutex     *)
(* under the first, or the same one again.  The comment in queueInLoop()   *)
(* provides for functors that call it.                                     *)
NoCircularWait ==
  \A S \in (SUBSET Actors) \ {{}} :
    \E a \in S : \A b \in S : ~WaitsFor(a, b)

(* The condition under which NoCircularWait holds: the loops can be ranked *)
(* so that a functor handed to a loop queues only into loops of lower      *)
(* rank - never into its own, where it can only use runInLoop().           *)
AllOps == {Body[f] : f \in Functors} \cup ThreadOps \cup HandlerOps \cup PreLoopOps

HandsOver(o) == o.kind \in {"queueInLoop", "runInLoop"}

Below(rank, l, o) == Queues(l, o) => rank[o.tgt] < rank[l]

RankedBy(rank) ==
  \A o \in AllOps : HandsOver(o) => Below(rank, o.tgt, Body[o.f])

LocksRanked == \E rank \in [Loops -> Nat] : RankedBy(rank)

(* The loops implement the task queues of TaskQueue: functors are executed *)
(* in the order in which they were queued, none lost, none twice.          *)
TQ == INSTANCE TaskQueue WITH
        queue <- [l \in Loops |-> functors[l] \o pending[l]],
        executed <- ran

ImplementsTaskQueue == TQ!Spec

InSeq(f, s) == \E i \in DOMAIN s : s[i] = f

(* The user code of loop l waits for a mutex: that of another loop, which  *)
(* may be busy, or its own, which a functor never gets.                    *)
HeldUp(l) == pc[l] = "exec" /\ IsQueueing(l) /\ mutex[op[l].tgt] # NoOne

(* A functor that is queued in a running loop is executed, unless the loop *)
(* is told to quit or its user code is held up; poll()'s timeout is        *)
(* not needed for it.                                                      *)
TasksRun ==
  \A l \in Loops : \A f \in Functors :
    (looping[l] /\ InSeq(f, pending[l])) ~> (InSeq(f, ran[l]) \/ quit[l] \/ HeldUp(l))

(* A loop that is told to quit while it is in loop() leaves it, unless its *)
(* user code is held up.                                                   *)
QuitEnds ==
  \A l \in Loops : (looping[l] /\ quit[l]) ~> (pc[l] = "exited" \/ HeldUp(l))

(* A functor that was queued before the loop was told to quit is executed  *)
(* all the same: the comment in quit() wakes the loop "to handle tasks     *)
(* this thread has assigned".                                              *)
TasksBeforeQuitRun ==
  \A l \in Loops : \A f \in Functors :
    (looping[l] /\ ~quit[l] /\ InSeq(f, pending[l])) ~> (InSeq(f, ran[l]) \/ HeldUp(l))
=============================================================================
