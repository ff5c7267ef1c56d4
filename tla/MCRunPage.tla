------------------------------ MODULE MCRunPage ------------------------------
(* Two tabs, so that clicks cross and one tab takes the other's snapshot away. *)
EXTENDS RunPage
=============================================================================
