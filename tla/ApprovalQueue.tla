--------------------------- MODULE ApprovalQueue ----------------------------
(***************************************************************************)
(* apps/tasks/approval_queue.py: the agent's thread parks a request of its *)
(* execution in the process-wide dictionary _PENDING and waits on an       *)
(* asyncio event of its own loop; the web threads that serve the approval  *)
(* page read the dictionary, write the decision into the parked object     *)
(* outside the lock and schedule the event on the agent's loop.  This is   *)
(* the slot of one execution: others have other keys and other loops.      *)
(*                                                                         *)
(* An operator whose name starts with Wrong is a version of the definition *)
(* after it with a plausible bug, which a property must be able to see.    *)
(***************************************************************************)
EXTENDS Naturals, FiniteSets

CONSTANTS
  MaxRequests,  \* bound: approvals the run asks for
  Threads,      \* the web server's threads that serve approval_decide
  None          \* no request

ASSUME RequestsAssumption == MaxRequests \in Nat
ASSUME NoneAssumption == None \notin 1 .. MaxRequests

VARIABLES
  agent,      \* where the agent's coroutine is
  current,    \* requests the agent has made
  PENDING,    \* the request parked for this execution, or None
  decision,   \* PendingDecision.decision of each request
  signalled,  \* requests whose event.set was scheduled on the agent's loop
  outcome,    \* what awaitDecision returned to the gate
  shown,      \* the request the approval page displays, or None
  post,       \* the POST each web thread serves
  posted,     \* decisions written so far, with what their sender saw
  exists      \* the execution row is still there

vars == <<agent, current, PENDING, decision, signalled, outcome, shown,
          post, posted, exists>>

Requests == 1 .. MaxRequests
Verdicts == {"approve", "reject"}
Unanswered == "none"
MaybeRequest == Requests \cup {None}

Post == [at : {"idle", "sent", "found", "held", "written"}, verdict : Verdicts,
         seen : MaybeRequest, request : MaybeRequest]
Idle == [at |-> "idle", verdict |-> "reject", seen |-> None, request |-> None]

Init ==
  /\ agent = "running" /\ current = 0
  /\ PENDING = None
  /\ decision = [r \in Requests |-> Unanswered]
  /\ signalled = {}
  /\ outcome = [r \in Requests |-> Unanswered]
  /\ shown = None
  /\ post = [t \in Threads |-> Idle]
  /\ posted = {}
  /\ exists = TRUE

-----------------------------------------------------------------------------
(* The agent's thread: awaitDecision and its event loop. *)

\* Two requests of one run may wait together.
WrongPark ==
  /\ agent \in {"running", "waiting"} /\ current < MaxRequests
  /\ current' = current + 1
  /\ PENDING' = current + 1
  /\ agent' = "waiting"
  /\ UNCHANGED <<decision, signalled, outcome, shown, post, posted, exists>>

\* A new PendingDecision, with an event of its own, replaces the slot.
Park ==
  /\ agent = "running" /\ current < MaxRequests
  /\ current' = current + 1
  /\ PENDING' = current + 1
  /\ agent' = "waiting"
  /\ UNCHANGED <<decision, signalled, outcome, shown, post, posted, exists>>

\* The loop runs event.set and then the coroutine: return bool(pending.decision),
\* where a decision that is still None is a rejection.
Resume ==
  /\ agent = "waiting" /\ current \in signalled
  /\ outcome' = [outcome EXCEPT ![current] =
                   IF decision[current] = "approve" THEN "approve" ELSE "reject"]
  /\ agent' = "resumed"
  /\ UNCHANGED <<current, PENDING, decision, signalled, shown, post, posted, exists>>

\* The finally clause.
Unpark ==
  /\ agent = "resumed"
  /\ PENDING' = None
  /\ agent' = "running"
  /\ UNCHANGED <<current, decision, signalled, outcome, shown, post, posted, exists>>

\* The run is over: asyncio.run closes the loop.
CloseLoop ==
  /\ agent = "running"
  /\ agent' = "closed"
  /\ UNCHANGED <<current, PENDING, decision, signalled, outcome, shown, post, posted, exists>>

-----------------------------------------------------------------------------
(* The user's page and the web threads. *)

\* approval_pending polls every second; on a 404 the page keeps what it shows.
Poll ==
  /\ exists
  /\ shown' = PENDING
  /\ UNCHANGED <<agent, current, PENDING, decision, signalled, outcome,
                 post, posted, exists>>

\* A click leaves the modal in place (hx-swap none): it can be clicked again
\* until the next poll.
Click(t) ==
  /\ shown # None /\ post[t].at = "idle"
  /\ \E v \in Verdicts :
       post' = [post EXCEPT ![t] = [Idle EXCEPT !.at = "sent", !.verdict = v, !.seen = shown]]
  /\ UNCHANGED <<agent, current, PENDING, decision, signalled, outcome,
                 shown, posted, exists>>

\* approval_decide answers 404 when the row is gone.
FindExecution(t) ==
  /\ post[t].at = "sent"
  /\ post' = [post EXCEPT ![t] = IF exists THEN [@ EXCEPT !.at = "found"] ELSE Idle]
  /\ UNCHANGED <<agent, current, PENDING, decision, signalled, outcome,
                 shown, posted, exists>>

\* The lookup does not check that something is parked.
WrongLookupUnchecked(t) ==
  /\ post[t].at = "found"
  /\ post' = [post EXCEPT ![t] = [@ EXCEPT !.at = "held", !.request = PENDING]]
  /\ UNCHANGED <<agent, current, PENDING, decision, signalled, outcome,
                 shown, posted, exists>>

\* The event is set before the decision is written.
WrongLookupSignals(t) ==
  /\ post[t].at = "found" /\ PENDING # None
  /\ post' = [post EXCEPT ![t] = [@ EXCEPT !.at = "held", !.request = PENDING]]
  /\ signalled' = signalled \cup {PENDING}
  /\ UNCHANGED <<agent, current, PENDING, decision, outcome, shown, posted, exists>>

\* submitDecision reads the slot.
Lookup(t) ==
  /\ post[t].at = "found"
  /\ post' = [post EXCEPT ![t] = IF PENDING # None
                                   THEN [@ EXCEPT !.at = "held", !.request = PENDING]
                                   ELSE Idle]
  /\ UNCHANGED <<agent, current, PENDING, decision, signalled, outcome,
                 shown, posted, exists>>

\* A decision that comes too late for its request is kept for the next one.
WrongWriteDecision(t) ==
  /\ post[t].at = "held"
  /\ LET late == outcome[post[t].request] # Unanswered
         target == IF late /\ post[t].request < MaxRequests THEN post[t].request + 1
                                                           ELSE post[t].request
     IN  decision' = [decision EXCEPT ![target] = post[t].verdict]
  /\ post' = [post EXCEPT ![t].at = "written"]
  /\ UNCHANGED <<agent, current, PENDING, signalled, outcome, shown, posted, exists>>

WriteDecision(t) ==
  /\ post[t].at = "held"
  /\ decision' = [decision EXCEPT ![post[t].request] = post[t].verdict]
  /\ posted' = posted \cup
       {[request |-> post[t].request, verdict |-> post[t].verdict, seen |-> post[t].seen]}
  /\ post' = [post EXCEPT ![t].at = "written"]
  /\ UNCHANGED <<agent, current, PENDING, signalled, outcome, shown, exists>>

\* event.set is called outside the loop, which is not woken.
WrongSignal(t) ==
  /\ post[t].at = "written"
  /\ post' = [post EXCEPT ![t] = Idle]
  /\ UNCHANGED <<agent, current, PENDING, decision, signalled, outcome, shown, posted, exists>>

\* call_soon_threadsafe raises on a closed loop, and the POST fails.
Signal(t) ==
  /\ post[t].at = "written"
  /\ signalled' = IF agent = "closed" THEN signalled ELSE signalled \cup {post[t].request}
  /\ post' = [post EXCEPT ![t] = Idle]
  /\ UNCHANGED <<agent, current, PENDING, decision, outcome, shown, posted, exists>>

\* delete_task removes the execution under the running agent.
DeleteTask ==
  /\ exists
  /\ exists' = FALSE
  /\ UNCHANGED <<agent, current, PENDING, decision, signalled, outcome,
                 shown, post, posted>>

-----------------------------------------------------------------------------
AgentStep == Park \/ Resume \/ Unpark \/ CloseLoop
WebStep(t) == FindExecution(t) \/ Lookup(t) \/ WriteDecision(t) \/ Signal(t)

Next ==
  \/ AgentStep \/ Poll \/ DeleteTask
  \/ \E t \in Threads : Click(t) \/ WebStep(t)

Spec == Init /\ [][Next]_vars

\* The loop runs what is ready and a request once received is served; nobody is
\* obliged to look at the page or to click.
FairSpec ==
  /\ Spec
  /\ WF_vars(Resume) /\ WF_vars(Unpark)
  /\ \A t \in Threads : WF_vars(WebStep(t))

-----------------------------------------------------------------------------
\* The dictionary slot, the parked objects and the POSTs keep their types.
TypeOK ==
  /\ agent \in {"running", "waiting", "resumed", "closed"}
  /\ current \in 0 .. MaxRequests
  /\ PENDING \in MaybeRequest /\ shown \in MaybeRequest
  /\ decision \in [Requests -> Verdicts \cup {Unanswered}]
  /\ outcome \in [Requests -> Verdicts \cup {Unanswered}]
  /\ signalled \subseteq Requests
  /\ post \in [Threads -> Post]
  /\ posted \subseteq [request : Requests, verdict : Verdicts, seen : Requests]
  /\ exists \in BOOLEAN

\* Whatever the threads' interleaving, the agent resumes with a verdict somebody
\* posted to this request: it is never woken before the verdict is written.
OutcomeWasPosted ==
  \A r \in Requests : outcome[r] # Unanswered =>
    \E p \in posted : p.request = r /\ p.verdict = outcome[r]

\* No decision and no wake-up is banked for a request not made yet: a POST that
\* comes late for one request cannot release the next before it was parked.
NothingBanked ==
  \A r \in Requests : r > current =>
    decision[r] = Unanswered /\ r \notin signalled

\* A decision that was written reaches the agent: no wake-up is lost between the
\* web thread and the agent's loop.
DecisionArrives ==
  \A r \in Requests : (\E p \in posted : p.request = r) ~> outcome[r] # Unanswered

Gate == INSTANCE Approval WITH asked <- current, verdict <- outcome

\* The queue implements the gate's promise to the loop.
ImplementsApproval == Gate!Spec

-----------------------------------------------------------------------------
\* README.md: a high-risk action waits for the user's explicit approval, so an
\* approved request is one whose description somebody who approved it had seen.
ApprovedWasSeen ==
  \A r \in Requests : outcome[r] = "approve" =>
    \E p \in posted : p.request = r /\ p.verdict = "approve" /\ p.seen = r
=============================================================================
