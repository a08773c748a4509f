------------------------------ MODULE TaskQueue ------------------------------
(***************************************************************************)
(* What EventLoop promises to whoever calls queueInLoop(): every loop owns *)
(* a queue of functors; any thread may put a functor at its end; the loop  *)
(* executes functors one at a time, always the oldest one, each exactly as *)
(* often as it was put there.  Threads, the mutex, the eventfd and the     *)
(* phases of loop() do not appear.                                         *)
(***************************************************************************)
EXTENDS Sequences

CONSTANTS
  Loops,     \* the event loops
  Functors   \* the callbacks that can be queued

VARIABLES
  queue,     \* queue[l]: functors queued in l and not yet started
  executed   \* executed[l]: functors l has started, in order

vars == <<queue, executed>>

Init ==
  /\ queue = [l \in Loops |-> <<>>]
  /\ executed = [l \in Loops |-> <<>>]

Submit(l, f) ==
  /\ queue' = [queue EXCEPT ![l] = Append(@, f)]
  /\ UNCHANGED executed

Execute(l) ==
  /\ queue[l] # <<>>
  /\ executed' = [executed EXCEPT ![l] = Append(@, Head(queue[l]))]
  /\ queue' = [queue EXCEPT ![l] = Tail(@)]

Next ==
  \E l \in Loops : Execute(l) \/ \E f \in Functors : Submit(l, f)

Spec == Init /\ [][Next]_vars
=============================================================================
