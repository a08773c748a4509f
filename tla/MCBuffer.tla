------------------------------ MODULE MCBuffer ------------------------------
(* Buffer with the constants its configurations give. *)
EXTENDS Buffer
=============================================================================
