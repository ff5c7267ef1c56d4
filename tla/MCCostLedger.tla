---------------------------- MODULE MCCostLedger ----------------------------
(* CostLedger for TLC: two live runs, two days of two hours each. *)
EXTENDS CostLedger, TLC

RunSymmetry == Permutations(Runs)
=============================================================================
