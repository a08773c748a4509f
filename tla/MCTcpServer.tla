---------------------------- MODULE MCTcpServer ----------------------------
(* Instances of TcpServer for TLC. *)
EXTENDS TcpServer

CONSTANTS c1, c2, c3

ByteCounts == [c \in Clients |-> CASE c = c1 -> 2 [] c = c2 -> 0 [] c = c3 -> 1]
=============================================================================
