----------------------------- MODULE MCAgentRun -----------------------------
(* AgentRun for TLC: a call costs one or two cents, and the client expects one. *)
EXTENDS AgentRun

MCCosts == {1, 2}
=============================================================================
