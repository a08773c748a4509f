------------------------ MODULE EventLoopThreadPool ------------------------
(***************************************************************************)
(* EventLoopThreadPool, EventLoopThread, Thread and CountDownLatch: how a  *)
(* pool of I/O threads, each with an EventLoop on its own stack, comes up, *)
(* is handed out round-robin, and is taken down again.                     *)
(*                                                                         *)
(* One thread owns the pool (the base loop's); the others are the threads  *)
(* it creates.  A critical section of a mutex is one step.  A wait() on a  *)
(* condition variable whose condition is false is a state of its own that  *)
(* only a notification (or a spurious wakeup) ends.                        *)
(***************************************************************************)
EXTENDS Integers, Sequences

CONSTANTS
  NumThreads,     \* num_threads_
  MaxPicks        \* bound: calls of getNextLoop()

Workers == 0..NumThreads - 1

ASSUME PoolAssumption == NumThreads \in Nat /\ MaxPicks \in Nat

VARIABLES
  owner,      \* where the pool's owner is
  cur,        \* the EventLoopThread it is at
  loops,      \* loops_: what startLoop() returned
  next,       \* next_
  given,      \* history: how often getNextLoop() returned each loop
  picked,     \* history: calls of getNextLoop()
  started,    \* Thread::started_
  tid,        \* Thread::tid_ > 0
  count,      \* count_ of Thread::latch_
  published,  \* EventLoopThread::loop_ # nullptr
  io,         \* where each created thread is
  quit,       \* quit_ of its loop
  wakeup_fd,  \* the eventfd of its loop is readable
  asked,      \* history: quit() was called on its loop
  lostQuit,   \* history: loop() overwrote a quit_ set before it was entered
  dangling    \* history: a loop was used after the end of IOThreadFunc()

startVars == <<started, tid, count, published>>
loopVars == <<quit, wakeup_fd, asked, lostQuit>>
pickVars == <<next, given, picked>>
vars == <<owner, cur, loops, pickVars, startVars, io, loopVars, dangling>>

OwnerPcs == {"idle", "create", "latch", "latch_cv", "wait", "wait_cv", "ready",
             "quit", "quit_wake", "join", "destroyed"}
IoPcs == {"none", "created", "countDown", "construct", "publish", "enter", "check",
          "poll", "leave", "done"}

TypeOK ==
  /\ owner \in OwnerPcs
  /\ cur \in 0..NumThreads
  /\ loops \in Seq(Workers)
  /\ next \in Nat
  /\ given \in [Workers -> Nat]
  /\ picked \in Nat
  /\ started \in [Workers -> BOOLEAN]
  /\ tid \in [Workers -> BOOLEAN]
  /\ count \in [Workers -> Int]
  /\ published \in [Workers -> BOOLEAN]
  /\ io \in [Workers -> IoPcs]
  /\ quit \in [Workers -> BOOLEAN]
  /\ wakeup_fd \in [Workers -> BOOLEAN]
  /\ asked \in [Workers -> BOOLEAN]
  /\ lostQuit \in [Workers -> BOOLEAN]
  /\ dangling \in BOOLEAN

Init ==
  /\ owner = "idle" /\ cur = 0 /\ loops = <<>>
  /\ next = 0 /\ given = [i \in Workers |-> 0] /\ picked = 0
  /\ started = [i \in Workers |-> FALSE]
  /\ tid = [i \in Workers |-> FALSE]
  /\ count = [i \in Workers |-> 1]
  /\ published = [i \in Workers |-> FALSE]
  /\ io = [i \in Workers |-> "none"]
  /\ quit = [i \in Workers |-> TRUE]
  /\ wakeup_fd = [i \in Workers |-> FALSE]
  /\ asked = [i \in Workers |-> FALSE]
  /\ lostQuit = [i \in Workers |-> FALSE]
  /\ dangling = FALSE

(* The EventLoop of thread i exists: it is a local of IOThreadFunc(). *)
Alive(i) == io[i] \in {"publish", "enter", "check", "poll", "leave"}

-----------------------------------------------------------------------------
(* The owner *)

(* EventLoopThreadPool::start(): on to the next thread, or done. *)
start ==
  /\ owner = "idle"
  /\ owner' = IF cur < NumThreads THEN "create" ELSE "ready"
  /\ cur' = IF cur < NumThreads THEN cur ELSE 0
  /\ UNCHANGED <<loops, pickVars, startVars, io, loopVars, dangling>>

(* EventLoopThread::startLoop() calls Thread::start(). *)
CreateThread ==
  /\ owner = "create"
  /\ started' = [started EXCEPT ![cur] = TRUE]
  /\ io' = [io EXCEPT ![cur] = "created"]
  /\ owner' = "latch"
  /\ UNCHANGED <<cur, loops, pickVars, tid, count, published, loopVars, dangling>>

(* pthread_create() failed: started_ is reset and start() returns normally. *)
CreateFails ==
  /\ owner = "create"
  /\ owner' = "wait"
  /\ UNCHANGED <<cur, loops, pickVars, startVars, io, loopVars, dangling>>

(* CountDownLatch::wait(). *)
LatchWait ==
  /\ owner = "latch"
  /\ owner' = IF count[cur] > 0 THEN "latch_cv" ELSE "wait"
  /\ UNCHANGED <<cur, loops, pickVars, startVars, io, loopVars, dangling>>

(* startLoop(): wait for loop_, then return it. *)
WaitLoop ==
  /\ owner = "wait"
  /\ IF published[cur]
     THEN /\ loops' = Append(loops, cur)
          /\ owner' = "idle"
          /\ cur' = cur + 1
     ELSE owner' = "wait_cv" /\ UNCHANGED <<loops, cur>>
  /\ UNCHANGED <<pickVars, startVars, io, loopVars, dangling>>

SpuriousWakeup ==
  /\ owner \in {"latch_cv", "wait_cv"}
  /\ owner' = IF owner = "latch_cv" THEN "latch" ELSE "wait"
  /\ UNCHANGED <<cur, loops, pickVars, startVars, io, loopVars, dangling>>

(* getNextLoop(): the base loop if there are no others. *)
NextTooFar(n) == IF n + 1 > Len(loops) THEN 0 ELSE n + 1       \* mutant
NextDown(n) == n - 1                                          \* mutant
NextAfter(n) == IF n + 1 >= Len(loops) THEN 0 ELSE n + 1

getNextLoop ==
  /\ owner = "ready" /\ picked < MaxPicks
  /\ picked' = picked + 1
  /\ IF loops = <<>> THEN UNCHANGED <<next, given>>
     ELSE /\ given' = [given EXCEPT ![loops[next + 1]] = @ + 1]
          /\ next' = NextAfter(next)
  /\ UNCHANGED <<owner, cur, loops, startVars, io, loopVars, dangling>>

(* The pool is destroyed, and with it each ~EventLoopThread() in turn:     *)
(* quit() on the loop, in its two halves, and join().                      *)
Destroy ==
  /\ owner = "ready"
  /\ owner' = IF cur < NumThreads THEN "quit" ELSE "destroyed"
  /\ UNCHANGED <<cur, loops, pickVars, startVars, io, loopVars, dangling>>

quitSet ==
  /\ owner = "quit"
  /\ dangling' = (dangling \/ ~Alive(cur))
  /\ quit' = [quit EXCEPT ![cur] = TRUE]
  /\ asked' = [asked EXCEPT ![cur] = TRUE]
  /\ owner' = "quit_wake"
  /\ UNCHANGED <<cur, loops, pickVars, startVars, io, wakeup_fd, lostQuit>>

NoWakeup == UNCHANGED wakeup_fd                               \* mutant
WakeupCur == wakeup_fd' = [wakeup_fd EXCEPT ![cur] = TRUE]

quitWakeup ==
  /\ owner = "quit_wake"
  /\ dangling' = (dangling \/ ~Alive(cur))
  /\ WakeupCur
  /\ owner' = "join"
  /\ UNCHANGED <<cur, loops, pickVars, startVars, io, quit, asked, lostQuit>>

join ==
  /\ owner = "join" /\ io[cur] = "done"
  /\ owner' = "ready"
  /\ cur' = cur + 1
  /\ UNCHANGED <<loops, pickVars, startVars, io, loopVars, dangling>>

-----------------------------------------------------------------------------
(* The thread of EventLoopThread i *)

Go(i, from, to) == io[i] = from /\ io' = [io EXCEPT ![i] = to]

(* Mutant: the latch opened before *tid_ is written. *)
CountDownFirst(i) ==
  /\ Go(i, "created", "countDown")
  /\ count' = [count EXCEPT ![i] = 0]
  /\ owner' = IF owner = "latch_cv" /\ cur = i THEN "latch" ELSE owner
  /\ UNCHANGED <<cur, loops, pickVars, started, tid, published, loopVars, dangling>>

(* ThreadData::runInThread(): *tid_, then countDown() with its             *)
(* notification.                                                           *)
SetTid(i) ==
  /\ Go(i, "created", "countDown")
  /\ tid' = [tid EXCEPT ![i] = TRUE]
  /\ UNCHANGED <<owner, cur, loops, pickVars, started, count, published, loopVars, dangling>>

NoNotifyAll(i) == owner                                       \* mutant
NotifyAll(i) == IF owner = "latch_cv" /\ cur = i THEN "latch" ELSE owner

countDown(i) ==
  /\ Go(i, "countDown", "construct")
  /\ count' = [count EXCEPT ![i] = @ - 1]
  /\ owner' = IF count'[i] = 0 THEN NotifyAll(i) ELSE owner
  /\ UNCHANGED <<cur, loops, pickVars, started, tid, published, loopVars, dangling>>

(* IOThreadFunc(): the EventLoop is constructed; loop_ is set and cv_      *)
(* notified under the mutex.                                               *)
ConstructLoop(i) ==
  /\ Go(i, "construct", "publish")
  /\ UNCHANGED <<owner, cur, loops, pickVars, startVars, loopVars, dangling>>

PublishLoop(i) ==
  /\ Go(i, "publish", "enter")
  /\ published' = [published EXCEPT ![i] = TRUE]
  /\ owner' = IF owner = "wait_cv" /\ cur = i THEN "wait" ELSE owner
  /\ UNCHANGED <<cur, loops, pickVars, started, tid, count, loopVars, dangling>>

(* loop(): quit_ = false on entry, whatever it was. *)
KeepQuit(i) == quit                                           \* mutant
ResetQuit(i) == [quit EXCEPT ![i] = FALSE]

EnterLoop(i) ==
  /\ Go(i, "enter", "check")
  /\ lostQuit' = [lostQuit EXCEPT ![i] = asked[i]]
  /\ quit' = ResetQuit(i)
  /\ UNCHANGED <<owner, cur, loops, pickVars, startVars, wakeup_fd, asked, dangling>>

CheckQuit(i) ==
  /\ io[i] = "check"
  /\ io' = [io EXCEPT ![i] = IF quit[i] THEN "leave" ELSE "poll"]
  /\ UNCHANGED <<owner, cur, loops, pickVars, startVars, loopVars, dangling>>

(* poll() returns because of the eventfd, which handleRead() clears. *)
PollWoken(i) ==
  /\ wakeup_fd[i]
  /\ Go(i, "poll", "check")
  /\ wakeup_fd' = [wakeup_fd EXCEPT ![i] = FALSE]
  /\ UNCHANGED <<owner, cur, loops, pickVars, startVars, quit, asked, lostQuit, dangling>>

(* Some other event: its handler may call quit() in this thread. *)
PollOther(i) ==
  /\ Go(i, "poll", "check")
  /\ \E calls \in BOOLEAN :
       /\ quit' = [quit EXCEPT ![i] = @ \/ calls]
       /\ asked' = [asked EXCEPT ![i] = @ \/ calls]
  /\ UNCHANGED <<owner, cur, loops, pickVars, startVars, wakeup_fd, lostQuit, dangling>>

(* IOThreadFunc() returns; its EventLoop is gone, loop_ still points there. *)
LeaveLoop(i) ==
  /\ Go(i, "leave", "done")
  /\ UNCHANGED <<owner, cur, loops, pickVars, startVars, loopVars, dangling>>

OwnerStep ==
  \/ start \/ CreateThread \/ LatchWait \/ WaitLoop
  \/ quitSet \/ quitWakeup \/ join

IoStep(i) ==
  \/ SetTid(i) \/ countDown(i) \/ ConstructLoop(i) \/ PublishLoop(i)
  \/ EnterLoop(i) \/ CheckQuit(i) \/ PollWoken(i) \/ LeaveLoop(i)

Next ==
  \/ OwnerStep \/ CreateFails \/ SpuriousWakeup \/ getNextLoop \/ Destroy
  \/ \E i \in Workers : IoStep(i) \/ PollOther(i)

Spec == Init /\ [][Next]_vars

(* Threads run.  Nobody has to call getNextLoop() or to destroy the pool,  *)
(* and neither a spurious wakeup nor an event other than the wakeup, nor   *)
(* the timeout of poll(), is relied on.                                    *)
Fairness == WF_vars(OwnerStep) /\ \A i \in Workers : WF_vars(IoStep(i))

FairSpec == Spec /\ Fairness

-----------------------------------------------------------------------------
(***************************************************************************)
(* Properties                                                              *)
(***************************************************************************)

(* The assertion tid_ > 0 of Thread::start(): once the latch lets the      *)
(* owner pass, the new thread has written its tid.                         *)
TidKnown ==
  owner \in {"wait", "wait_cv"} /\ started[cur] => tid[cur]

(* A pointer startLoop() returned is that of a live EventLoop until quit() *)
(* is called on it, by the destructor or by one of its own callbacks: that *)
(* the constructor sets quit_ does not end a loop that was published.      *)
ReturnedLoopsAlive ==
  \A k \in DOMAIN loops : Alive(loops[k]) \/ asked[loops[k]]

(* next_ stays a valid index of loops_, and the loops are given out evenly: *)
(* those before next_ exactly once more often than those from next_ on.    *)
RoundRobin ==
  loops # <<>> /\ owner = "ready" =>
    /\ next < Len(loops)
    /\ \E k \in 0..picked :
         \A i \in Workers : given[i] = IF i < next THEN k + 1 ELSE k

(* startLoop() returns: neither the latch nor the condition variable loses *)
(* its one notification.  Only when pthread_create() failed does it wait   *)
(* for ever, for a loop that nobody constructs.                            *)
Starting == owner \in {"idle", "create", "latch", "latch_cv", "wait", "wait_cv"}
NotCreated == owner \in {"wait", "wait_cv"} /\ ~started[cur]

StartReturns == Starting ~> (owner = "ready" \/ NotCreated)

(* What startLoop() says of its wait, "until an EventLoop is created in    *)
(* IOThreadFunc": the wait has an end, also when one of the pool's threads *)
(* could not be created, which Thread::start() only logs.                  *)
StartAlwaysReturns == Starting ~> owner = "ready"

(* The join() in ~EventLoopThread() returns, except when quit() came       *)
(* between the notification in IOThreadFunc() and loop(): loop() then      *)
(* overwrites quit_ and the thread never ends.                             *)
JoinReturns ==
  \A i \in Workers :
    (owner = "join" /\ cur = i) ~> ((owner # "join" \/ cur # i) \/ lostQuit[i])

(* "This loop is invalid when IOThreadFunc exits": nobody uses it then.    *)
NoUseAfterExit == ~dangling
=============================================================================
