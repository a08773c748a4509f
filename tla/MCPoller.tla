------------------------------ MODULE MCPoller ------------------------------
(***************************************************************************)
(* Instances of Poller for TLC.  Descriptor 4 is used twice: c4 can be     *)
(* constructed only when c3 is destroyed.                                  *)
(***************************************************************************)
EXTENDS Poller, TLC

CONSTANTS c1, c2, c3, c4

FdOf == [c \in Channels |-> IF c = c1 THEN 0 ELSE IF c = c2 THEN 3 ELSE 4]

(* The two channels on descriptor 4 can be exchanged. *)
Reusers == Permutations({c3, c4})

(* A peer that sent data, and one that is gone: two callbacks for one event.*)
FewAnswers == {{"IN"}, {"HUP", "ERR"}}

(* For the runs with fewer channels. *)
SomeAnswers == {{"IN"}, {"PRI", "OUT"}, {"HUP"}, {"IN", "HUP"}, {"OUT", "ERR"}}
=============================================================================
