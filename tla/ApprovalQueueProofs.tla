------------------------ MODULE ApprovalQueueProofs -------------------------
(***************************************************************************)
(* Theorems about ApprovalQueue, for every number of requests a run makes  *)
(* and every number of web threads: the verdict an agent resumes with was  *)
(* posted to its request, nothing is kept for a later request, and the     *)
(* queue implements the gate the loop relies on (module Approval).         *)
(***************************************************************************)
EXTENDS ApprovalQueue, TLAPS

\* The slot follows the agent: what is parked is the request it waits for, and
\* a request is answered exactly when the agent has gone past it.
SlotInv ==
  /\ agent \in {"running", "closed"} => PENDING = None
  /\ agent \in {"waiting", "resumed"} => PENDING = current /\ current \in Requests
  /\ \A r \in Requests :
       outcome[r] # Unanswered <=> r <= current /\ ~(r = current /\ agent = "waiting")

\* Every POST in progress saw a request, and holds one only if it was made.
PostInv ==
  \A t \in Threads :
    /\ post[t].at # "idle" => post[t].seen \in Requests
    /\ post[t].at \in {"held", "written"} =>
         post[t].request \in Requests /\ post[t].request <= current
    /\ post[t].at = "written" => decision[post[t].request] # Unanswered

\* A decision is of a request already made and was posted to it, and only a
\* request with a decision is woken.
DecisionInv ==
  /\ \A r \in Requests : decision[r] # Unanswered =>
       r <= current /\ \E p \in posted : p.request = r /\ p.verdict = decision[r]
  /\ \A r \in signalled : decision[r] # Unanswered

\* The inductive invariant: the slot, the POSTs and the decisions together give
\* the two safety properties.
QueueInv == TypeOK /\ SlotInv /\ PostInv /\ DecisionInv /\ OutcomeWasPosted

-----------------------------------------------------------------------------
\* A POST that is being served is a record of its type, whatever is changed in it.
LEMMA PostType ==
  /\ Idle \in Post
  /\ \A p \in Post, v \in Verdicts, s \in MaybeRequest :
       [Idle EXCEPT !.at = "sent", !.verdict = v, !.seen = s] \in Post
  /\ \A p \in Post, a \in {"idle", "sent", "found", "held", "written"} :
       [p EXCEPT !.at = a] \in Post
  /\ \A p \in Post, r \in MaybeRequest :
       [p EXCEPT !.at = "held", !.request = r] \in Post
  BY DEF Post, Idle, Verdicts, MaybeRequest

\* The four parts hold together in every reachable state.
LEMMA QueueInvariant == Spec => []QueueInv
<1> USE RequestsAssumption, NoneAssumption
    DEF RequestsAssumption, NoneAssumption, Requests, MaybeRequest, Verdicts, Unanswered
<1>1. Init => QueueInv
  <2>1. Init => TypeOK
    <3> SUFFICES ASSUME Init PROVE TypeOK
      OBVIOUS
    <3>1. post \in [Threads -> Post]
      BY PostType DEF Init
    <3> QED
      BY <3>1 DEF Init, TypeOK
  <2>2. Init => SlotInv /\ DecisionInv /\ OutcomeWasPosted
    BY DEF Init, SlotInv, DecisionInv, OutcomeWasPosted
  <2>3. Init => PostInv
    BY DEF Init, PostInv, Idle
  <2> QED
    BY <2>1, <2>2, <2>3 DEF QueueInv
<1>2. QueueInv /\ [Next]_vars => QueueInv'
  <2> SUFFICES ASSUME QueueInv, [Next]_vars PROVE QueueInv'
    OBVIOUS
  <2> USE DEF QueueInv, TypeOK
  <2>1. CASE Park
    <3>1. TypeOK' /\ SlotInv'
      BY <2>1 DEF Park, SlotInv
    <3>2. PostInv'
      BY <2>1 DEF Park, PostInv
    <3>3. DecisionInv' /\ OutcomeWasPosted'
      BY <2>1 DEF Park, DecisionInv, OutcomeWasPosted
    <3> QED
      BY <3>1, <3>2, <3>3
  <2>2. CASE Resume
    <3>1. TypeOK' /\ SlotInv'
      BY <2>2 DEF Resume, SlotInv
    <3>2. PostInv' /\ DecisionInv'
      BY <2>2 DEF Resume, PostInv, DecisionInv
    <3>3. OutcomeWasPosted'
      <4>1. current \in Requests /\ decision[current] \in {"approve", "reject"}
        BY <2>2 DEF Resume, SlotInv, DecisionInv
      <4>2. outcome' = [outcome EXCEPT ![current] = decision[current]] /\ posted' = posted
        BY <2>2, <4>1 DEF Resume
      <4> QED
        BY <4>1, <4>2 DEF OutcomeWasPosted, DecisionInv
    <3> QED
      BY <3>1, <3>2, <3>3
  <2>3. CASE Unpark
    BY <2>3 DEF Unpark, SlotInv, PostInv, DecisionInv, OutcomeWasPosted
  <2>4. CASE CloseLoop
    BY <2>4 DEF CloseLoop, SlotInv, PostInv, DecisionInv, OutcomeWasPosted
  <2>5. CASE Poll
    BY <2>5 DEF Poll, SlotInv, PostInv, DecisionInv, OutcomeWasPosted
  <2>6. CASE DeleteTask
    BY <2>6 DEF DeleteTask, SlotInv, PostInv, DecisionInv, OutcomeWasPosted
  <2>7. ASSUME NEW t \in Threads, Click(t)
        PROVE  QueueInv'
    <3>1. PICK v \in Verdicts :
            post' = [post EXCEPT ![t] = [Idle EXCEPT !.at = "sent", !.verdict = v, !.seen = shown]]
      BY <2>7 DEF Click
    <3>2. post' \in [Threads -> Post] /\ TypeOK'
      BY <2>7, <3>1, PostType DEF Click
    <3>3. PostInv'
      BY <2>7, <3>1 DEF Click, PostInv, Idle
    <3> QED
      BY <2>7, <3>2, <3>3 DEF Click, SlotInv, DecisionInv, OutcomeWasPosted
  <2>8. ASSUME NEW t \in Threads, FindExecution(t)
        PROVE  QueueInv'
    <3>1. post' \in [Threads -> Post] /\ TypeOK'
      BY <2>8, PostType DEF FindExecution
    <3>2. PostInv'
      BY <2>8 DEF FindExecution, PostInv, Idle, Post
    <3> QED
      BY <2>8, <3>1, <3>2 DEF FindExecution, SlotInv, DecisionInv, OutcomeWasPosted
  <2>9. ASSUME NEW t \in Threads, Lookup(t)
        PROVE  QueueInv'
    <3>1. post' \in [Threads -> Post] /\ TypeOK'
      BY <2>9, PostType DEF Lookup
    <3>2. PENDING # None => PENDING = current
      BY DEF SlotInv
    <3>3. PostInv'
      BY <2>9, <3>2 DEF Lookup, PostInv, Idle, Post
    <3> QED
      BY <2>9, <3>1, <3>3 DEF Lookup, SlotInv, DecisionInv, OutcomeWasPosted
  <2>10. ASSUME NEW t \in Threads, WriteDecision(t)
         PROVE  QueueInv'
    <3> DEFINE new == [request |-> post[t].request, verdict |-> post[t].verdict,
                       seen |-> post[t].seen]
    <3>1. /\ new.request \in Requests /\ new.request <= current
          /\ new.seen \in Requests /\ new.verdict \in Verdicts
      BY <2>10 DEF WriteDecision, PostInv, Post
    <3>2. /\ decision' = [decision EXCEPT ![new.request] = new.verdict]
          /\ posted' = posted \cup {new}
          /\ post' = [post EXCEPT ![t].at = "written"]
      BY <2>10 DEF WriteDecision
    <3>3. TypeOK'
      <4>1. post' \in [Threads -> Post]
        BY <3>2, PostType
      <4> QED
        BY <2>10, <3>1, <3>2, <4>1 DEF WriteDecision
    <3>4. PostInv'
      BY <2>10, <3>1, <3>2 DEF WriteDecision, PostInv, Post
    <3>5. DecisionInv'
      <4>1. ASSUME NEW r \in Requests, decision'[r] # Unanswered
            PROVE  r <= current /\ \E p \in posted' : p.request = r /\ p.verdict = decision'[r]
        <5>1. CASE r = new.request
          <6>1. decision'[r] = new.verdict /\ new \in posted'
            BY <3>1, <3>2, <5>1
          <6> QED
            BY <3>1, <5>1, <6>1
        <5>2. CASE r # new.request
          BY <3>1, <3>2, <4>1, <5>2 DEF DecisionInv
        <5> QED
          BY <5>1, <5>2
      <4>2. signalled' = signalled /\ current' = current
        BY <2>10 DEF WriteDecision
      <4>3. \A r \in signalled : decision'[r] # Unanswered
        BY <3>1, <3>2 DEF DecisionInv
      <4> QED
        BY <4>1, <4>2, <4>3 DEF DecisionInv
    <3>6. SlotInv' /\ OutcomeWasPosted'
      BY <2>10, <3>2 DEF WriteDecision, SlotInv, OutcomeWasPosted
    <3> QED
      BY <3>3, <3>4, <3>5, <3>6
  <2>11. ASSUME NEW t \in Threads, Signal(t)
         PROVE  QueueInv'
    <3>1. /\ post[t].request \in Requests
          /\ decision[post[t].request] # Unanswered
      BY <2>11 DEF Signal, PostInv
    <3>2. post' \in [Threads -> Post] /\ TypeOK'
      BY <2>11, <3>1, PostType DEF Signal
    <3>3. PostInv'
      BY <2>11 DEF Signal, PostInv, Idle
    <3>4. SlotInv' /\ DecisionInv' /\ OutcomeWasPosted'
      BY <2>11, <3>1 DEF Signal, SlotInv, DecisionInv, OutcomeWasPosted
    <3> QED
      BY <3>2, <3>3, <3>4
  <2>12. CASE UNCHANGED vars
    BY <2>12 DEF vars, SlotInv, PostInv, DecisionInv, OutcomeWasPosted
  <2> QED
    BY <2>1, <2>2, <2>3, <2>4, <2>5, <2>6, <2>7, <2>8, <2>9, <2>10, <2>11, <2>12
    DEF Next, AgentStep, WebStep
<1> QED
  BY <1>1, <1>2, PTL DEF Spec

-----------------------------------------------------------------------------
\* approval_queue.py keeps its types, whatever the threads do.
THEOREM TypeCorrect == Spec => []TypeOK
  BY QueueInvariant, PTL DEF QueueInv

\* awaitDecision returns a verdict that some POST wrote for this very request,
\* however many threads answer it and in whatever order their steps come.
THEOREM VerdictWasPosted == Spec => []OutcomeWasPosted
  BY QueueInvariant, PTL DEF QueueInv

\* submitDecision never writes to, or wakes, a request that was not parked yet.
THEOREM NoBankedDecision == Spec => []NothingBanked
<1>1. QueueInv => NothingBanked
  BY RequestsAssumption
  DEF QueueInv, TypeOK, DecisionInv, NothingBanked, Requests, RequestsAssumption
<1> QED
  BY <1>1, QueueInvariant, PTL

\* The queue is an implementation of the gate: seen through the requests made and
\* the verdicts returned, every step of the agent and of the web threads is a
\* question, an answer to the last question, or nothing.
THEOREM QueueImplementsGate == Spec => ImplementsApproval
<1> USE RequestsAssumption
    DEF RequestsAssumption, Requests, Verdicts, Unanswered,
        Gate!Requests, Gate!Verdicts, Gate!Unanswered
<1>1. Init => Gate!Init
  BY DEF Init, Gate!Init
<1>2. QueueInv /\ [Next]_vars => [Gate!Next]_<<current, outcome>>
  <2> SUFFICES ASSUME QueueInv, [Next]_vars
               PROVE  [Gate!Next]_<<current, outcome>>
    OBVIOUS
  <2>1. CASE Park
    BY <2>1 DEF Park, QueueInv, TypeOK, SlotInv, Gate!Next, Gate!Ask
  <2>2. CASE Resume
    BY <2>2 DEF Resume, QueueInv, TypeOK, SlotInv, Gate!Next, Gate!Answer
  <2>3. CASE UNCHANGED <<current, outcome>>
    BY <2>3
  <2> QED
    BY <2>1, <2>2, <2>3
    DEF Next, AgentStep, WebStep, vars, Unpark, CloseLoop, Poll, DeleteTask, Click,
        FindExecution, Lookup, WriteDecision, Signal
<1> QED
  BY <1>1, <1>2, QueueInvariant, PTL DEF Spec, ImplementsApproval, Gate!Spec
=============================================================================
