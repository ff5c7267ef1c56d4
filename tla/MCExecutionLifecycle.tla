------------------------ MODULE MCExecutionLifecycle ------------------------
(* ExecutionLifecycle for TLC. *)
EXTENDS ExecutionLifecycle
=============================================================================
