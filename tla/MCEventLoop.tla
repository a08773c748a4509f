----------------------------- MODULE MCEventLoop -----------------------------
(***************************************************************************)
(* Instances of EventLoop for TLC: what the threads, the handlers and the  *)
(* functors of each run call.                                              *)
(***************************************************************************)
EXTENDS EventLoop

CONSTANTS l1, l2, f1, f2, f3

O(kind, tgt, f) == [kind |-> kind, tgt |-> tgt, f |-> f]
Nothing == [f \in Functors |-> NopOp]

(* Two loops.  An I/O handler of either loop queues f1 in l1, which passes *)
(* f3 on to l2, which runs f2 at once; a thread, or the thread of a loop   *)
(* before loop(), runs f2 in l1.  f2 stops l2.                             *)
ChainBody == [Nothing EXCEPT ![f1] = O("queueInLoop", l2, f3),
                             ![f2] = O("quit", l2, f2),
                             ![f3] = O("runInLoop", l2, f2)]
ChainHandlerOps == {NopOp, O("queueInLoop", l1, f1)}
ChainThreadOps == {O("runInLoop", l1, f2)}
ChainPreLoopOps == ChainThreadOps

(* Two loops whose functors queue into one another's loop. *)
CrossBody == [Nothing EXCEPT ![f1] = O("queueInLoop", l2, f3),
                             ![f2] = O("queueInLoop", l1, f3)]
CrossThreadOps == {O("queueInLoop", l1, f1), O("queueInLoop", l2, f2)}

(* One loop, whose thread queues f3 before it enters loop(). *)
EarlyOps == {O("queueInLoop", l1, f3)}

(* One loop; a thread queues f3 in it, and tells it to quit. *)
LeaveOps == {O("queueInLoop", l1, f3), O("quit", l1, f3)}

None == {}
NopOnly == {NopOp}
=============================================================================
