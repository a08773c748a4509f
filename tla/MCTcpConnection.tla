--------------------------- MODULE MCTcpConnection ---------------------------
(* Instances of TcpConnection for TLC: how the connection is used. *)
EXTENDS TcpConnection

LoopOnly == [calls |-> {}, complete |-> FALSE]
Shared == [calls |-> {"send", "shutdown"}, complete |-> TRUE]

LoopOnlyOrShared == {LoopOnly, Shared}
Sender == {[calls |-> {"send"}, complete |-> FALSE]}
Closer == {[calls |-> {"shutdown"}, complete |-> FALSE]}
Notified == {[calls |-> {"send"}, complete |-> TRUE]}
=============================================================================
