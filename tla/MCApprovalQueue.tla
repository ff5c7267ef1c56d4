-------------------------- MODULE MCApprovalQueue ---------------------------
(* ApprovalQueue for TLC: the web threads are interchangeable. *)
EXTENDS ApprovalQueue, TLC

ThreadSymmetry == Permutations(Threads)
=============================================================================
