------------------------------ MODULE ByteQueue ------------------------------
(***************************************************************************)
(* What Buffer is to its users: a queue of bytes.  Bytes are added at the  *)
(* end, may be put back at the front, and are taken from the front.        *)
(***************************************************************************)
EXTENDS Naturals, Sequences

CONSTANT Bytes

VARIABLE content

Init == content = <<>>

Put(s) == content' = content \o s
PutFront(s) == content' = s \o content
Take(n) == content' = SubSeq(content, n + 1, Len(content))

(* At most max bytes are added at a time. *)
Next(max) ==
  \/ \E n \in 0..Len(content) : Take(n)
  \/ \E n \in 0..max : \E s \in [1..n -> Bytes] : Put(s) \/ PutFront(s)
=============================================================================
