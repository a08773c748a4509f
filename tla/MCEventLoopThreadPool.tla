----------------------- MODULE MCEventLoopThreadPool -----------------------
(* EventLoopThreadPool with the constants its configurations give. *)
EXTENDS EventLoopThreadPool
=============================================================================
