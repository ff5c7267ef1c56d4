------------------------------ MODULE Approval ------------------------------
(***************************************************************************)
(* What ApprovalGate.requestApproval promises to the loop that awaits it:  *)
(* requests are asked one at a time, the next one only after the answer to *)
(* the last, and each gets one answer that never changes.                  *)
(***************************************************************************)
EXTENDS Naturals

CONSTANT MaxRequests  \* bound: approvals one run asks for

VARIABLES
  asked,    \* requests made so far
  verdict   \* the answer to each of them

Requests == 1 .. MaxRequests
Verdicts == {"approve", "reject"}
Unanswered == "none"

Init ==
  /\ asked = 0
  /\ verdict = [r \in Requests |-> Unanswered]

Ask ==
  /\ asked < MaxRequests
  /\ \A r \in 1 .. asked : verdict[r] # Unanswered
  /\ asked' = asked + 1
  /\ UNCHANGED verdict

Answer ==
  /\ asked \in Requests /\ verdict[asked] = Unanswered
  /\ \E v \in Verdicts : verdict' = [verdict EXCEPT ![asked] = v]
  /\ UNCHANGED asked

Next == Ask \/ Answer

Spec == Init /\ [][Next]_<<asked, verdict>>
=============================================================================
