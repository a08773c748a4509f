---------------------- MODULE EventLoopThreadPoolProofs ----------------------
(***************************************************************************)
(* Proofs about EventLoopThreadPool for any number of threads.             *)
(***************************************************************************)
EXTENDS EventLoopThreadPool, TLAPS

(* loops_ holds the loops of the threads started so far, in their order.   *)
LoopsInOrder ==
  /\ cur \in 0..NumThreads
  /\ owner \in OwnerPcs
  /\ owner \in OwnerPcs \ {"idle", "ready", "destroyed"} => cur < NumThreads
  /\ loops \in Seq(Workers)
  /\ Len(loops) = IF Starting THEN cur ELSE NumThreads
  /\ \A k \in 1..Len(loops) : loops[k] = k - 1

(* next_ is 0 until the first loop is given out, and a valid index of      *)
(* loops_ from then on; k is the number of full rounds.                    *)
Even(k) == \A i \in Workers : given[i] = IF i < next THEN k + 1 ELSE k

PicksEven ==
  /\ next \in Nat /\ picked \in Nat /\ given \in [Workers -> Nat]
  /\ Starting => next = 0
  /\ next = 0 \/ next < NumThreads
  /\ \E k \in 0..picked : Even(k)

PickInv == LoopsInOrder /\ PicksEven

LEMMA InitPick == Init => PickInv
<1> SUFFICES ASSUME Init PROVE PickInv
  OBVIOUS
<1>1. Starting /\ cur = 0 /\ loops = <<>> /\ NumThreads \in Nat
  BY PoolAssumption DEF Init, Starting
<1>2. LoopsInOrder
  BY <1>1 DEF Init, LoopsInOrder, OwnerPcs
<1>3. Even(0) /\ 0 \in 0..picked
  BY DEF Init, Even, Workers
<1>4. PicksEven
  BY <1>3 DEF Init, PicksEven
<1> QED
  BY <1>2, <1>4 DEF PickInv

(* Steps that neither extend loops_ nor give a loop out. *)
LEMMA SamePicks ==
  ASSUME PickInv, UNCHANGED <<loops, next, given, picked>>,
         owner' \in OwnerPcs, cur' \in 0..NumThreads,
         owner' \in OwnerPcs \ {"idle", "ready", "destroyed"} => cur' < NumThreads,
         \/ Starting /\ Starting' /\ cur' = cur
         \/ Starting /\ cur = NumThreads /\ ~Starting'
         \/ ~Starting /\ ~Starting'
  PROVE  PickInv'
<1>1. LoopsInOrder'
  BY PoolAssumption DEF PickInv, LoopsInOrder
<1>2. PicksEven'
  BY DEF PickInv, PicksEven, Even
<1> QED
  BY <1>1, <1>2 DEF PickInv

LEMMA WaitLoopPick ==
  ASSUME PickInv, WaitLoop
  PROVE  PickInv'
<1>0. NumThreads \in Nat /\ cur \in Nat /\ cur < NumThreads /\ owner = "wait"
  BY PoolAssumption DEF PickInv, LoopsInOrder, WaitLoop, OwnerPcs
<1>1. CASE published[cur]
  <2>1. loops' = Append(loops, cur) /\ owner' = "idle" /\ cur' = cur + 1 /\ UNCHANGED pickVars
    BY <1>1 DEF WaitLoop
  <2>2. loops \in Seq(Workers) /\ Len(loops) = cur /\ cur \in Workers /\ Starting /\ Starting'
    BY <1>0, <2>1 DEF PickInv, LoopsInOrder, Starting, Workers
  <2>3. loops' \in Seq(Workers) /\ Len(loops') = cur + 1
    BY <2>1, <2>2
  <2>4. \A k \in 1..Len(loops') : loops'[k] = k - 1
    <3>1. \A k \in 1..cur : loops'[k] = loops[k] /\ loops[k] = k - 1
      BY <1>0, <2>1, <2>2 DEF PickInv, LoopsInOrder
    <3>2. loops'[cur + 1] = cur
      BY <2>1, <2>2
    <3> QED
      BY <1>0, <2>3, <3>1, <3>2
  <2>5. LoopsInOrder'
    BY <1>0, <2>1, <2>2, <2>3, <2>4 DEF LoopsInOrder, OwnerPcs
  <2>6. PicksEven'
    BY <2>1, <2>2 DEF PickInv, PicksEven, Even, pickVars
  <2> QED
    BY <2>5, <2>6 DEF PickInv
<1>2. CASE ~published[cur]
  <2>1. UNCHANGED <<loops, next, given, picked, cur>> /\ owner' = "wait_cv"
    BY <1>2 DEF WaitLoop, pickVars
  <2> QED
    BY <1>0, <2>1, SamePicks DEF Starting, OwnerPcs, PickInv, LoopsInOrder
<1> QED
  BY <1>1, <1>2

LEMMA GetNextPick ==
  ASSUME PickInv, getNextLoop
  PROVE  PickInv'
<1>0. /\ NumThreads \in Nat /\ ~Starting /\ ~Starting' /\ Len(loops) = NumThreads
      /\ next \in Nat /\ picked \in Nat /\ given \in [Workers -> Nat]
      /\ loops \in Seq(Workers)
      /\ UNCHANGED <<owner, cur, loops>> /\ picked' = picked + 1
  BY PoolAssumption DEF PickInv, LoopsInOrder, PicksEven, getNextLoop, Starting
<1>1. LoopsInOrder'
  BY <1>0 DEF PickInv, LoopsInOrder
<1>2. PICK k \in 0..picked : Even(k)
  BY DEF PickInv, PicksEven
<1>3. CASE loops = <<>>
  <2>1. UNCHANGED <<next, given>>
    BY <1>3 DEF getNextLoop
  <2>2. Even(k)' /\ k \in 0..picked'
    BY <1>0, <1>2, <2>1 DEF Even
  <2> QED
    BY <1>0, <1>1, <2>1, <2>2 DEF PickInv, PicksEven
<1>4. CASE loops # <<>>
  <2>1. NumThreads > 0 /\ next < NumThreads
    BY <1>0, <1>4 DEF PickInv, PicksEven
  <2>2. loops[next + 1] = next /\ next \in Workers
    BY <1>0, <2>1 DEF PickInv, LoopsInOrder, Workers
  <2>3. given' = [given EXCEPT ![next] = @ + 1] /\ next' = NextAfter(next)
    BY <1>4, <2>2 DEF getNextLoop
  <2>4. /\ given' \in [Workers -> Nat] /\ given'[next] = k + 1
        /\ \A i \in Workers : i # next => given'[i] = given[i]
    BY <1>0, <1>2, <2>2, <2>3 DEF Even
  <2>5. CASE next + 1 >= NumThreads
    <3>1. next' = 0
      BY <1>0, <2>3, <2>5 DEF NextAfter
    <3>2. ASSUME NEW i \in Workers PROVE given'[i] = k + 1
      <4>1. i \in Int /\ i <= next
        BY <1>0, <2>5 DEF Workers
      <4>2. i < next => given[i] = k + 1
        BY <1>2 DEF Even
      <4>3. i < next \/ i = next
        BY <1>0, <4>1
      <4> QED
        BY <2>4, <4>2, <4>3
    <3>3. Even(k + 1)' /\ k + 1 \in 0..picked'
      BY <1>0, <3>1, <3>2 DEF Even, Workers
    <3>4. PicksEven'
      <4>1. \E m \in 0..picked' : Even(m)'
        BY <3>3, Zenon
      <4> QED
        BY <1>0, <2>4, <3>1, <4>1 DEF PicksEven
    <3> QED
      BY <1>1, <3>4 DEF PickInv
  <2>6. CASE ~(next + 1 >= NumThreads)
    <3>1. next' = next + 1 /\ next + 1 < NumThreads
      BY <1>0, <2>3, <2>6 DEF NextAfter
    <3>2. Even(k)' /\ k \in 0..picked'
      <4>1. ASSUME NEW i \in Workers PROVE given'[i] = IF i < next + 1 THEN k + 1 ELSE k
        <5>1. i \in Int /\ given[i] = IF i < next THEN k + 1 ELSE k
          BY <1>2 DEF Even, Workers
        <5>2. CASE i = next
          BY <1>0, <2>4, <5>2
        <5>3. CASE i # next
          <6>1. i < next + 1 <=> i < next
            BY <1>0, <5>1, <5>3
          <6> QED
            BY <2>4, <5>1, <5>3, <6>1
        <5> QED
          BY <5>2, <5>3
      <4>2. k \in 0..picked'
        BY <1>0
      <4> QED
        BY <3>1, <4>1, <4>2 DEF Even
    <3>3. PicksEven'
      <4>1. \E m \in 0..picked' : Even(m)'
        BY <3>2, Zenon
      <4> QED
        BY <1>0, <2>4, <3>1, <4>1 DEF PicksEven
    <3> QED
      BY <1>1, <3>3 DEF PickInv
  <2> QED
    BY <2>5, <2>6
<1> QED
  BY <1>3, <1>4

LEMMA NextPick == PickInv /\ [Next]_vars => PickInv'
<1> SUFFICES ASSUME PickInv, [Next]_vars PROVE PickInv'
  OBVIOUS
<1>0. NumThreads \in Nat /\ cur \in 0..NumThreads /\ owner \in OwnerPcs
      /\ (owner \in OwnerPcs \ {"idle", "ready", "destroyed"} => cur < NumThreads)
      /\ (owner \in {"idle", "create", "latch", "latch_cv", "wait", "wait_cv"} => Starting)
  BY PoolAssumption DEF PickInv, LoopsInOrder, Starting
<1>1. CASE start
  BY <1>0, <1>1, SamePicks DEF start, pickVars, Starting, OwnerPcs
<1>2. CASE CreateThread \/ CreateFails \/ LatchWait \/ SpuriousWakeup
  BY <1>0, <1>2, SamePicks
     DEF CreateThread, CreateFails, LatchWait, SpuriousWakeup, pickVars, Starting, OwnerPcs
<1>3. CASE Destroy \/ quitSet \/ quitWakeup \/ join
  BY <1>0, <1>3, SamePicks DEF Destroy, quitSet, quitWakeup, join, pickVars, Starting, OwnerPcs
<1>4. CASE \E i \in Workers : IoStep(i) \/ PollOther(i)
  <2>1. PICK i \in Workers : IoStep(i) \/ PollOther(i)
    BY <1>4
  <2>2. /\ UNCHANGED <<loops, next, given, picked, cur>>
        /\ \/ owner' = owner
           \/ owner = "latch_cv" /\ owner' = "latch"
           \/ owner = "wait_cv" /\ owner' = "wait"
    BY <2>1 DEF IoStep, SetTid, countDown, NotifyAll, ConstructLoop, PublishLoop, EnterLoop,
                CheckQuit, PollWoken, LeaveLoop, PollOther, pickVars
  <2> QED
    BY <1>0, <2>2, SamePicks DEF Starting, OwnerPcs
<1>5. CASE UNCHANGED vars
  BY <1>0, <1>5, SamePicks DEF vars, pickVars, Starting
<1> QED
  BY <1>1, <1>2, <1>3, <1>4, <1>5, WaitLoopPick, GetNextPick DEF Next, OwnerStep

(* getNextLoop() stays within loops_ and gives the loops out evenly, for   *)
(* every number of threads and every number of calls.                      *)
THEOREM RoundRobinIsFair == Spec => []RoundRobin
<1>1. PickInv => RoundRobin
  <2> SUFFICES ASSUME PickInv, loops # <<>>, owner = "ready" PROVE RoundRobin
    BY DEF RoundRobin
  <2>1. Len(loops) = NumThreads /\ NumThreads > 0
    BY PoolAssumption DEF PickInv, LoopsInOrder, Starting
  <2> QED
    BY <2>1 DEF RoundRobin, PickInv, PicksEven, Even
<1> QED
  BY <1>1, InitPick, NextPick, PTL DEF Spec

-----------------------------------------------------------------------------
(* The threads *)

(* The threads not started yet.  The one the owner is at counts as started *)
(* once Thread::start() has been called.                                   *)
Ahead(i) == Starting /\ (i > cur \/ (i = cur /\ owner \in {"idle", "create"}))

(* How far thread i is, and what it has left behind for the owner: started_ *)
(* and tid_, the latch, loop_; and it is over only if quit() was called.   *)
ThreadOK(i) ==
  /\ started[i] <=> (io[i] # "none")
  /\ tid[i] <=> (io[i] \notin {"none", "created"})
  /\ count[i] = IF io[i] \in {"none", "created", "countDown"} THEN 1 ELSE 0
  /\ published[i] <=> (io[i] \in {"enter", "check", "poll", "leave", "done"})
  /\ io[i] \in {"check", "poll"} /\ quit[i] => asked[i]
  /\ io[i] \in {"leave", "done"} => asked[i]

(* How far it is when the owner is where it is. *)
OwnerOK(i) ==
  /\ Ahead(i) => io[i] = "none"
  /\ i < Len(loops) => io[i] \in {"enter", "check", "poll", "leave", "done"}
  /\ owner \in {"wait", "wait_cv"} /\ cur = i =>
       io[i] \notin {"created", "countDown"}

ThreadsOK == \A i \in Workers : ThreadOK(i) /\ OwnerOK(i)

IoTypes ==
  /\ started \in [Workers -> BOOLEAN] /\ tid \in [Workers -> BOOLEAN]
  /\ count \in [Workers -> Int] /\ published \in [Workers -> BOOLEAN]
  /\ io \in [Workers -> IoPcs]
  /\ quit \in [Workers -> BOOLEAN] /\ wakeup_fd \in [Workers -> BOOLEAN]
  /\ asked \in [Workers -> BOOLEAN] /\ lostQuit \in [Workers -> BOOLEAN]
  /\ dangling \in BOOLEAN

PoolInv == PickInv /\ IoTypes /\ ThreadsOK

LEMMA InitThreads == Init => IoTypes /\ ThreadsOK
<1> SUFFICES ASSUME Init PROVE IoTypes /\ ThreadsOK
  OBVIOUS
<1>1. /\ started \in [Workers -> BOOLEAN] /\ tid \in [Workers -> BOOLEAN]
      /\ published \in [Workers -> BOOLEAN]
      /\ quit \in [Workers -> BOOLEAN] /\ wakeup_fd \in [Workers -> BOOLEAN]
      /\ asked \in [Workers -> BOOLEAN] /\ lostQuit \in [Workers -> BOOLEAN]
      /\ dangling \in BOOLEAN
  BY Zenon DEF Init
<1>2. count \in [Workers -> Int] /\ io \in [Workers -> IoPcs]
  BY DEF Init, IoPcs
<1>3. Len(loops) = 0 /\ \A i \in Workers : ~(i < 0)
  BY DEF Init, Workers
<1>4. \A i \in Workers : /\ io[i] = "none" /\ count[i] = 1
                         /\ ~started[i] /\ ~tid[i] /\ ~published[i]
  BY DEF Init
<1>5. owner = "idle"
  BY DEF Init
<1>6. ThreadsOK
  BY <1>3, <1>4, <1>5 DEF ThreadsOK, ThreadOK, OwnerOK
<1> QED
  BY <1>1, <1>2, <1>6 DEF IoTypes

(* The owner's steps that leave the threads alone: where the owner is      *)
(* changes, and what that promises about the threads.                      *)
LEMMA OwnerMoves ==
  ASSUME PoolInv, UNCHANGED <<started, tid, count, published, io, quit, asked>>,
         \A i \in Workers : OwnerOK(i)'
  PROVE  ThreadsOK'
  BY DEF PoolInv, ThreadsOK, ThreadOK

LEMMA Numbers ==
  ASSUME PoolInv
  PROVE  /\ NumThreads \in Nat /\ cur \in 0..NumThreads /\ owner \in OwnerPcs
         /\ loops \in Seq(Workers) /\ Len(loops) \in Nat
         /\ Len(loops) = IF Starting THEN cur ELSE NumThreads
         /\ owner \in OwnerPcs \ {"idle", "ready", "destroyed"} => cur \in Workers
         /\ \A i \in Workers : i \in Nat /\ i < NumThreads
  BY PoolAssumption DEF PoolInv, PickInv, LoopsInOrder, Workers

LEMMA OwnerTypes ==
  ASSUME PoolInv, OwnerStep \/ CreateFails \/ SpuriousWakeup \/ getNextLoop \/ Destroy
  PROVE  IoTypes'
<1>0. IoTypes
  BY DEF PoolInv
<1>1. CASE CreateThread
  <2>1. started' \in [Workers -> BOOLEAN]
    BY <1>0, <1>1 DEF CreateThread, IoTypes
  <2>2. io' \in [Workers -> IoPcs]
    BY <1>0, <1>1 DEF CreateThread, IoTypes, IoPcs
  <2> QED
    BY <1>0, <1>1, <2>1, <2>2 DEF CreateThread, IoTypes, loopVars
<1>2. CASE quitSet \/ quitWakeup
  <2>1. /\ quit' \in [Workers -> BOOLEAN] /\ asked' \in [Workers -> BOOLEAN]
        /\ wakeup_fd' \in [Workers -> BOOLEAN] /\ dangling' \in BOOLEAN
    BY <1>0, <1>2 DEF quitSet, quitWakeup, WakeupCur, IoTypes
  <2>2. UNCHANGED <<started, tid, count, published, io, lostQuit>>
    BY <1>2 DEF quitSet, quitWakeup, startVars
  <2> QED
    BY <1>0, <2>1, <2>2 DEF IoTypes
<1>3. CASE UNCHANGED <<startVars, io, loopVars, dangling>>
  BY <1>0, <1>3 DEF startVars, loopVars, IoTypes
<1> QED
  BY <1>1, <1>2, <1>3 DEF OwnerStep, start, LatchWait, WaitLoop, join, CreateFails, SpuriousWakeup,
                          getNextLoop, Destroy

LEMMA OwnerThreads ==
  ASSUME PoolInv, OwnerStep \/ CreateFails \/ SpuriousWakeup \/ getNextLoop \/ Destroy
  PROVE  ThreadsOK'
<1> USE DEF PoolInv
<1>0. /\ NumThreads \in Nat /\ cur \in 0..NumThreads /\ owner \in OwnerPcs
      /\ loops \in Seq(Workers) /\ Len(loops) \in Nat
      /\ Len(loops) = IF Starting THEN cur ELSE NumThreads
      /\ owner \in OwnerPcs \ {"idle", "ready", "destroyed"} => cur \in Workers
      /\ \A i \in Workers : i \in Nat /\ i < NumThreads
  BY Numbers
<1>1. CASE CreateThread
  <2>1. /\ owner = "create" /\ owner' = "latch" /\ cur \in Workers
        /\ started' = [started EXCEPT ![cur] = TRUE] /\ io' = [io EXCEPT ![cur] = "created"]
        /\ UNCHANGED <<cur, loops, tid, count, published, quit, asked>>
    BY <1>0, <1>1 DEF CreateThread, loopVars, OwnerPcs
  <2>2. Starting /\ Starting' /\ Len(loops) = cur
    BY <1>0, <2>1 DEF Starting
  <2>3. io[cur] = "none"
    BY <2>1, <2>2 DEF ThreadsOK, OwnerOK, Ahead
  <2>4. /\ started'[cur] /\ io'[cur] = "created"
        /\ \A i \in Workers : i # cur => (started'[i] <=> started[i]) /\ io'[i] = io[i]
    BY <2>1 DEF IoTypes
  <2>5. ASSUME NEW i \in Workers PROVE ThreadOK(i)'
    <3>1. CASE i = cur
      BY <2>1, <2>3, <2>4, <3>1 DEF ThreadsOK, ThreadOK
    <3>2. CASE i # cur
      BY <2>1, <2>4, <3>2 DEF ThreadsOK, ThreadOK
    <3> QED
      BY <3>1, <3>2
  <2>6. ASSUME NEW i \in Workers PROVE OwnerOK(i)'
    BY <1>0, <2>1, <2>2, <2>4 DEF ThreadsOK, OwnerOK, Ahead
  <2> QED
    BY <2>5, <2>6 DEF ThreadsOK
<1>2. CASE quitSet
  <2>1. /\ owner = "quit" /\ owner' = "quit_wake" /\ cur \in Workers
        /\ quit' = [quit EXCEPT ![cur] = TRUE] /\ asked' = [asked EXCEPT ![cur] = TRUE]
        /\ UNCHANGED <<cur, loops, started, tid, count, published, io>>
    BY <1>0, <1>2 DEF quitSet, startVars, OwnerPcs
  <2>2. asked'[cur] /\ \A i \in Workers : i # cur => (quit'[i] <=> quit[i]) /\ (asked'[i] <=> asked[i])
    BY <2>1 DEF IoTypes
  <2>3. ASSUME NEW i \in Workers PROVE ThreadOK(i)'
    BY <2>1, <2>2 DEF ThreadsOK, ThreadOK
  <2>4. ASSUME NEW i \in Workers PROVE OwnerOK(i)'
    BY <2>1 DEF ThreadsOK, OwnerOK, Ahead, Starting
  <2> QED
    BY <2>3, <2>4 DEF ThreadsOK
<1>3. CASE start
  <2>1. /\ owner = "idle" /\ UNCHANGED <<loops, started, tid, count, published, io, quit, asked>>
        /\ owner' = IF cur < NumThreads THEN "create" ELSE "ready"
        /\ cur' = IF cur < NumThreads THEN cur ELSE 0
    BY <1>3 DEF start, startVars, loopVars
  <2>2. \A i \in Workers : OwnerOK(i)'
    BY <1>0, <2>1 DEF ThreadsOK, OwnerOK, Ahead, Starting
  <2> QED
    BY <2>1, <2>2, OwnerMoves
<1>4. CASE CreateFails
  <2>1. /\ owner = "create" /\ owner' = "wait"
        /\ UNCHANGED <<cur, loops, started, tid, count, published, io, quit, asked>>
    BY <1>4 DEF CreateFails, startVars, loopVars
  <2>2. \A i \in Workers : OwnerOK(i)'
    BY <1>0, <2>1 DEF ThreadsOK, OwnerOK, Ahead, Starting
  <2> QED
    BY <2>1, <2>2, OwnerMoves
(* The latch is open only when the thread has counted it down. *)
<1>5. CASE LatchWait
  <2>1. /\ owner = "latch" /\ owner' = IF count[cur] > 0 THEN "latch_cv" ELSE "wait"
        /\ UNCHANGED <<cur, loops, started, tid, count, published, io, quit, asked>>
    BY <1>5 DEF LatchWait, startVars, loopVars
  <2>2. cur \in Workers /\ (owner' = "wait" => io[cur] \notin {"created", "countDown"})
    BY <1>0, <2>1 DEF ThreadsOK, ThreadOK, OwnerPcs
  <2>3. \A i \in Workers : OwnerOK(i)'
    BY <1>0, <2>1, <2>2 DEF ThreadsOK, OwnerOK, Ahead, Starting
  <2> QED
    BY <2>1, <2>3, OwnerMoves
(* startLoop() returns only a loop that was published. *)
<1>6. CASE WaitLoop
  <2>0. owner = "wait" /\ cur \in Workers /\ Starting
    BY <1>0, <1>6 DEF WaitLoop, OwnerPcs, Starting
  <2>1. UNCHANGED <<started, tid, count, published, io, quit, asked>>
    BY <1>6 DEF WaitLoop, startVars, loopVars
  <2>2. CASE published[cur]
    <3>1. loops' = Append(loops, cur) /\ owner' = "idle" /\ cur' = cur + 1
      BY <1>6, <2>2 DEF WaitLoop
    <3>2. Len(loops') = Len(loops) + 1 /\ Len(loops) = cur
      BY <1>0, <2>0, <3>1
    <3>3. io[cur] \in {"enter", "check", "poll", "leave", "done"}
      BY <2>0, <2>2 DEF ThreadsOK, ThreadOK
    <3>4. \A i \in Workers : OwnerOK(i)'
      <4> TAKE i \in Workers
      <4>1. Ahead(i)' => io[i] = "none"
        BY <1>0, <2>0, <3>1 DEF ThreadsOK, OwnerOK, Ahead, Starting
      <4>2. i < Len(loops') => io[i] \in {"enter", "check", "poll", "leave", "done"}
        BY <1>0, <2>0, <3>2, <3>3 DEF ThreadsOK, OwnerOK
      <4> QED
        BY <2>1, <3>1, <4>1, <4>2 DEF OwnerOK
    <3> QED
      BY <2>1, <3>4, OwnerMoves
  <2>3. CASE ~published[cur]
    <3>1. UNCHANGED <<loops, cur>> /\ owner' = "wait_cv"
      BY <1>6, <2>3 DEF WaitLoop
    <3>2. \A i \in Workers : OwnerOK(i)'
      BY <1>0, <2>0, <2>1, <3>1 DEF ThreadsOK, OwnerOK, Ahead, Starting
    <3> QED
      BY <2>1, <3>2, OwnerMoves
  <2> QED
    BY <2>2, <2>3
<1>7. CASE SpuriousWakeup \/ getNextLoop \/ Destroy \/ quitWakeup \/ join
  <2>1. /\ UNCHANGED <<loops, started, tid, count, published, io, quit, asked>>
        /\ \/ UNCHANGED cur /\ owner = "latch_cv" /\ owner' = "latch"
           \/ UNCHANGED cur /\ owner = "wait_cv" /\ owner' = "wait"
           \/ /\ owner \in {"ready", "quit_wake", "join"}
              /\ owner' \in {"ready", "destroyed", "quit", "join"}
    BY <1>7 DEF SpuriousWakeup, getNextLoop, Destroy, quitWakeup, join, startVars, loopVars
  <2>2. \A i \in Workers : OwnerOK(i)'
    BY <1>0, <2>1 DEF ThreadsOK, OwnerOK, Ahead, Starting
  <2> QED
    BY <2>1, <2>2, OwnerMoves
<1> QED
  BY <1>1, <1>2, <1>3, <1>4, <1>5, <1>6, <1>7 DEF OwnerStep

(* A thread moves on.  The owner stays where it is, or a notification      *)
(* takes it out of a wait it then repeats.                                 *)
LEMMA IoOwner ==
  ASSUME PoolInv, NEW i \in Workers, NEW pc \in IoPcs,
         io' = [io EXCEPT ![i] = pc], UNCHANGED <<cur, loops>>,
         io[i] # "none", pc # "none",
         io[i] \in {"enter", "check", "poll", "leave", "done"} =>
           pc \in {"enter", "check", "poll", "leave", "done"},
         io[i] \notin {"created", "countDown"} => pc \notin {"created", "countDown"},
         \/ owner' = owner
         \/ owner = "latch_cv" /\ owner' = "latch"
         \/ owner = "wait_cv" /\ owner' = "wait"
  PROVE  \A j \in Workers : OwnerOK(j)'
<1> TAKE j \in Workers
<1>1. OwnerOK(j) /\ io'[i] = pc /\ (j # i => io'[j] = io[j])
  BY DEF PoolInv, ThreadsOK, IoTypes
<1>2. Ahead(j)' => Ahead(j)
  BY DEF Ahead, Starting
<1> QED
  BY <1>1, <1>2 DEF OwnerOK

LEMMA IoThreads ==
  ASSUME PoolInv, NEW i \in Workers, IoStep(i) \/ PollOther(i)
  PROVE  IoTypes' /\ ThreadsOK'
<1> USE DEF PoolInv
<1>0. IoTypes /\ ThreadOK(i) /\ \A j \in Workers : ThreadOK(j)
  BY DEF ThreadsOK
<1>1. CASE SetTid(i)
  <2>1. /\ io[i] = "created" /\ io' = [io EXCEPT ![i] = "countDown"]
        /\ tid' = [tid EXCEPT ![i] = TRUE]
        /\ UNCHANGED <<owner, cur, loops, started, count, published>>
        /\ UNCHANGED <<quit, wakeup_fd, asked, lostQuit, dangling>>
    BY <1>1 DEF SetTid, Go, loopVars
  <2>2. IoTypes'
    BY <1>0, <2>1 DEF IoTypes, IoPcs
  <2>3. \A j \in Workers : ThreadOK(j)'
    BY <1>0, <2>1 DEF ThreadOK, IoTypes
  <2>4. \A j \in Workers : OwnerOK(j)'
    BY <2>1, IoOwner DEF IoPcs
  <2> QED
    BY <2>2, <2>3, <2>4 DEF ThreadsOK
<1>2. CASE countDown(i)
  <2>1. /\ io[i] = "countDown" /\ io' = [io EXCEPT ![i] = "construct"]
        /\ count' = [count EXCEPT ![i] = @ - 1]
        /\ UNCHANGED <<cur, loops, started, tid, published>>
        /\ UNCHANGED <<quit, wakeup_fd, asked, lostQuit, dangling>>
        /\ owner' = owner \/ (owner = "latch_cv" /\ owner' = "latch")
    BY <1>2 DEF countDown, NotifyAll, Go, loopVars
  <2>2. IoTypes'
    BY <1>0, <2>1 DEF IoTypes, IoPcs
  <2>3. \A j \in Workers : ThreadOK(j)'
    BY <1>0, <2>1 DEF ThreadOK, IoTypes
  <2>4. \A j \in Workers : OwnerOK(j)'
    BY <2>1, IoOwner DEF IoPcs
  <2> QED
    BY <2>2, <2>3, <2>4 DEF ThreadsOK
<1>3. CASE ConstructLoop(i) \/ LeaveLoop(i) \/ CheckQuit(i)
  <2>1. PICK pc \in {"publish", "leave", "poll", "done"} :
        /\ \/ io[i] = "construct" /\ pc = "publish"
           \/ io[i] = "leave" /\ pc = "done"
           \/ io[i] = "check" /\ pc = "leave" /\ quit[i]
           \/ io[i] = "check" /\ pc = "poll"
        /\ io' = [io EXCEPT ![i] = pc]
        /\ UNCHANGED <<owner, cur, loops, started, tid, count, published>>
        /\ UNCHANGED <<quit, wakeup_fd, asked, lostQuit, dangling>>
    BY <1>3 DEF ConstructLoop, LeaveLoop, CheckQuit, Go, startVars, loopVars
  <2>2. IoTypes'
    BY <1>0, <2>1 DEF IoTypes, IoPcs
  <2>3. \A j \in Workers : ThreadOK(j)'
    BY <1>0, <2>1 DEF ThreadOK, IoTypes
  <2>4. \A j \in Workers : OwnerOK(j)'
    BY <2>1, IoOwner DEF IoPcs
  <2> QED
    BY <2>2, <2>3, <2>4 DEF ThreadsOK
<1>4. CASE PublishLoop(i)
  <2>1. /\ io[i] = "publish" /\ io' = [io EXCEPT ![i] = "enter"]
        /\ published' = [published EXCEPT ![i] = TRUE]
        /\ UNCHANGED <<cur, loops, started, tid, count>>
        /\ UNCHANGED <<quit, wakeup_fd, asked, lostQuit, dangling>>
        /\ owner' = owner \/ (owner = "wait_cv" /\ owner' = "wait")
    BY <1>4 DEF PublishLoop, Go, loopVars
  <2>2. IoTypes'
    BY <1>0, <2>1 DEF IoTypes, IoPcs
  <2>3. \A j \in Workers : ThreadOK(j)'
    BY <1>0, <2>1 DEF ThreadOK, IoTypes
  <2>4. \A j \in Workers : OwnerOK(j)'
    BY <2>1, IoOwner DEF IoPcs
  <2> QED
    BY <2>2, <2>3, <2>4 DEF ThreadsOK
<1>5. CASE EnterLoop(i)
  <2>1. /\ io[i] = "enter" /\ io' = [io EXCEPT ![i] = "check"]
        /\ lostQuit' = [lostQuit EXCEPT ![i] = asked[i]]
        /\ quit' = [quit EXCEPT ![i] = FALSE]
        /\ UNCHANGED <<owner, cur, loops, started, tid, count, published>>
        /\ UNCHANGED <<wakeup_fd, asked, dangling>>
    BY <1>5 DEF EnterLoop, ResetQuit, Go, startVars
  <2>2. IoTypes'
    BY <1>0, <2>1 DEF IoTypes, IoPcs
  <2>3. \A j \in Workers : ThreadOK(j)'
    BY <1>0, <2>1 DEF ThreadOK, IoTypes
  <2>4. \A j \in Workers : OwnerOK(j)'
    BY <2>1, IoOwner DEF IoPcs
  <2> QED
    BY <2>2, <2>3, <2>4 DEF ThreadsOK
<1>6. CASE PollWoken(i) \/ PollOther(i)
  <2>1. /\ io[i] = "poll" /\ io' = [io EXCEPT ![i] = "check"]
        /\ UNCHANGED <<owner, cur, loops, started, tid, count, published, lostQuit, dangling>>
    BY <1>6 DEF PollWoken, PollOther, Go, startVars
  <2>2. /\ wakeup_fd' \in [Workers -> BOOLEAN] /\ quit' \in [Workers -> BOOLEAN]
        /\ asked' \in [Workers -> BOOLEAN]
        /\ \A j \in Workers : j # i => (quit'[j] <=> quit[j]) /\ (asked'[j] <=> asked[j])
        /\ (quit[i] => asked[i]) => (quit'[i] => asked'[i])
    BY <1>0, <1>6 DEF PollWoken, PollOther, IoTypes
  <2>3. IoTypes'
    BY <1>0, <2>1, <2>2 DEF IoTypes, IoPcs
  <2>4. \A j \in Workers : ThreadOK(j)'
    BY <1>0, <2>1, <2>2 DEF ThreadOK, IoTypes
  <2>5. \A j \in Workers : OwnerOK(j)'
    BY <2>1, IoOwner DEF IoPcs
  <2> QED
    BY <2>3, <2>4, <2>5 DEF ThreadsOK
<1> QED
  BY <1>1, <1>2, <1>3, <1>4, <1>5, <1>6 DEF IoStep

LEMMA NextPool == PoolInv /\ [Next]_vars => PoolInv'
<1> SUFFICES ASSUME PoolInv, [Next]_vars PROVE PoolInv'
  OBVIOUS
<1>1. PickInv'
  BY NextPick DEF PoolInv
<1>2. CASE OwnerStep \/ CreateFails \/ SpuriousWakeup \/ getNextLoop \/ Destroy
  BY <1>1, <1>2, OwnerTypes, OwnerThreads DEF PoolInv
<1>3. CASE \E i \in Workers : IoStep(i) \/ PollOther(i)
  BY <1>1, <1>3, IoThreads DEF PoolInv
<1>4. CASE UNCHANGED vars
  <2>1. IoTypes'
    BY <1>4 DEF PoolInv, IoTypes, vars, startVars, loopVars
  <2>2. \A i \in Workers : OwnerOK(i)'
    BY <1>4 DEF PoolInv, ThreadsOK, OwnerOK, Ahead, Starting, vars
  <2>3. ThreadsOK'
    BY <1>4, <2>2, OwnerMoves DEF vars, startVars, loopVars
  <2> QED
    BY <1>1, <2>1, <2>3 DEF PoolInv
<1> QED
  BY <1>2, <1>3, <1>4 DEF Next

LEMMA PoolCorrect == Spec => []PoolInv
<1>1. Init => PoolInv
  BY InitPick, InitThreads DEF PoolInv
<1> QED
  BY <1>1, NextPool, PTL DEF Spec

(* The types of the pool and of its threads hold, for every number of      *)
(* threads: startLoop() appends only loops of the pool to loops_, and      *)
(* cur, the EventLoopThread being started or joined, stays one of them.    *)
THEOREM TypeCorrect == Spec => []TypeOK
<1>1. PoolInv => TypeOK
  BY DEF PoolInv, PickInv, LoopsInOrder, PicksEven, IoTypes, TypeOK
<1> QED
  BY <1>1, PoolCorrect, PTL

(* The assertion of Thread::start() holds: the latch lets the owner pass   *)
(* only when the new thread has written its tid.                           *)
THEOREM TidIsKnown == Spec => []TidKnown
<1>1. PoolInv => TidKnown
  <2> SUFFICES ASSUME PoolInv, owner \in {"wait", "wait_cv"}, started[cur] PROVE tid[cur]
    BY DEF TidKnown
  <2>1. cur \in Workers
    BY Numbers DEF OwnerPcs
  <2> QED
    BY <2>1 DEF PoolInv, ThreadsOK, ThreadOK, OwnerOK
<1> QED
  BY <1>1, PoolCorrect, PTL

(* A loop that startLoop() returned is alive until quit() is called on it. *)
THEOREM LoopsStayAlive == Spec => []ReturnedLoopsAlive
<1>1. PoolInv => ReturnedLoopsAlive
  <2> SUFFICES ASSUME PoolInv, NEW k \in DOMAIN loops
               PROVE  Alive(loops[k]) \/ asked[loops[k]]
    BY DEF ReturnedLoopsAlive
  <2>1. loops \in Seq(Workers) /\ k \in 1..Len(loops) /\ loops[k] = k - 1 /\ loops[k] \in Workers
    BY DEF PoolInv, PickInv, LoopsInOrder
  <2>2. loops[k] < Len(loops)
    BY <2>1
  <2> QED
    BY <2>1, <2>2 DEF PoolInv, ThreadsOK, ThreadOK, OwnerOK, Alive
<1> QED
  BY <1>1, PoolCorrect, PTL
=============================================================================
