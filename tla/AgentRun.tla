------------------------------ MODULE AgentRun ------------------------------
(***************************************************************************)
(* One run of the computer-use agent: ComputerUseRunner.run and every      *)
(* routine it awaits (agent/harness/computer_use_loop.py), as              *)
(* runner_factory.buildLiveCuRunnerForUser composes it: a preview hook, a  *)
(* replay planner, a fragment matcher, the CAPTCHA and injection guards,   *)
(* the wallet caps, the heartbeat, an approval gate whose decider asks the *)
(* user, a progress callback and an audit sink that may both raise, and no *)
(* memory (apps/tasks schedules the reflection itself).                    *)
(*                                                                         *)
(* An action carries one of two risks: "high" is RiskLevel.HIGH and "low"  *)
(* everything ApprovalGate approves by itself.  What the page, the model   *)
(* and the stored procedures contain is chosen when it is looked at.  The  *)
(* hourly and daily ledger is an oracle here (see CostLedger).             *)
(*                                                                         *)
(* An operator whose name starts with Wrong is a version of the definition *)
(* after it with a plausible bug, which a property must be able to see.    *)
(***************************************************************************)
EXTENDS Integers, Sequences, FiniteSets

CONSTANTS
  MaxSteps,     \* self.maxSteps
  MaxRetries,   \* self.maxRetriesPerStep
  MaxStored,    \* bound: actions of a replay plan or of a prematched prefix
  Cap,          \* self.maxCostUsdPerTask, in cents; 0 disables it
  Estimate,     \* client.estimatedStepCostUsd, in cents; 0 when it has none
  Costs         \* what one model call may cost, in cents

ASSUME StepsAssumption == MaxSteps \in Nat \ {0}
ASSUME RetriesAssumption == MaxRetries \in Nat
ASSUME StoredAssumption == MaxStored \in Nat \ {0}
ASSUME MoneyAssumption == Cap \in Nat /\ Estimate \in Nat /\ Costs \subseteq Nat

VARIABLES
  pc,        \* where run() stands
  hasUrl,    \* self.initialUrl is not empty
  plan,      \* what run() replays first: a whole template, a prefix, nothing
  left,      \* stored actions still to replay
  index,     \* stepIndex of the model loop
  attempts,  \* attempts of _executeOneStepWithRetry
  cur,       \* the action in flight
  history,   \* state.history
  audited,   \* audit entries written
  total,     \* state.totalCostUsd
  billed,    \* what the model calls of this run have really cost
  reason,    \* state.completionReason; "" while state.isComplete is FALSE
  consent,   \* how the preview ended
  browser    \* the browser session

vars == <<pc, hasUrl, plan, left, index, attempts, cur, history, audited,
          total, billed, reason, consent, browser>>

Origins == {"replay", "graph", "navigation", "fragment", "model"}
Risks == {"low", "high"}

Step == [origin : Origins, index : Nat, risk : Risks, tagged : BOOLEAN,
         finish : BOOLEAN, cost : Nat, asked : BOOLEAN, ok : BOOLEAN]

NoStep == [origin |-> "model", index |-> 0, risk |-> "low", tagged |-> FALSE,
           finish |-> FALSE, cost |-> 0, asked |-> FALSE, ok |-> FALSE]

\* A completed run is reported as a success only for these reasons.  A FINISH
\* of the model completes with the model's own words, which the classifier may
\* read as one of its failure prefixes ("misworded").
SuccessReasons == {"finished", "replay_success"}
Rejections == {"rejected_by_user", "rejected_by_user_replay",
               "rejected_by_user_graph_replay", "rejected_by_user_fragment_replay"}
Reasons == SuccessReasons \cup Rejections \cup
  {"", "misworded", "preview_timeout", "user_cancelled_preview", "replay_failed",
   "auth_expired", "captcha_detected", "cost_cap_reached", "wallclock_heartbeat",
   "replay_fragment_failed", "action_failed", "max_steps_reached"}
Terminal == {"done", "raised"}
Places == {"preview", "start", "plan", "stored", "navigate", "enter", "top",
           "observe", "caps", "gate", "parked", "act", "record", "progress",
           "audit", "after", "stopping", "unwinding"} \cup Terminal

completionReasonSucceeded(r) == r \in SuccessReasons
stepCount == Len(history)

Init ==
  /\ pc = "preview"
  /\ hasUrl \in BOOLEAN
  /\ plan = "none" /\ left = 0
  /\ index = 0 /\ attempts = 0
  /\ cur = NoStep /\ history = <<>> /\ audited = 0
  /\ total = 0 /\ billed = 0
  /\ reason = "" /\ consent = "unasked" /\ browser = "off"

-----------------------------------------------------------------------------
\* state.markComplete(r) followed by the way out of the try block.
complete(r) == reason' = r /\ pc' = "stopping"

-----------------------------------------------------------------------------
(* The preview, the browser and the choice of what to replay. *)

\* A hook that is absent, returns nothing or raises lets the run proceed.
PreviewProceeds ==
  /\ pc = "preview"
  /\ consent' \in {"approved", "skipped", "hook_raised"}
  /\ pc' = "start"
  /\ UNCHANGED <<hasUrl, plan, left, index, attempts, cur, history, audited,
                 total, billed, reason, browser>>

PreviewStops ==
  /\ pc = "preview"
  /\ \/ consent' = "timeout" /\ reason' = "preview_timeout"
     \/ consent' = "cancelled" /\ reason' = "user_cancelled_preview"
  /\ pc' = "done"
  /\ UNCHANGED <<hasUrl, plan, left, index, attempts, cur, history, audited,
                 total, billed, browser>>

StartBrowser ==
  /\ pc = "start"
  /\ browser' = "on" /\ pc' = "plan"
  /\ UNCHANGED <<hasUrl, plan, left, index, attempts, cur, history, audited,
                 total, billed, reason, consent>>

\* browser.start() is awaited before the try block: nothing stops it again.
StartRaises ==
  /\ pc = "start"
  /\ browser' = "leaked" /\ pc' = "raised"
  /\ UNCHANGED <<hasUrl, plan, left, index, attempts, cur, history, audited,
                 total, billed, reason, consent>>

\* A template found by the replay planner wins over a prematched prefix, which
\* wins over the initial navigation.
ChoosePlan ==
  /\ pc = "plan"
  /\ \/ /\ plan' \in {"replay", "graph"}
        /\ left' \in 1 .. MaxStored
        /\ pc' = "stored"
     \/ /\ UNCHANGED <<plan, left>>
        /\ pc' = IF hasUrl THEN "navigate" ELSE "enter"
  /\ UNCHANGED <<hasUrl, index, attempts, cur, history, audited, total, billed,
                 reason, consent, browser>>

-----------------------------------------------------------------------------
(* The stored actions: _executeReplay and _executePrematchedNodes. *)

StoredExhausted ==
  /\ pc = "stored" /\ left = 0
  /\ IF plan = "replay" THEN complete("replay_success")
                        ELSE pc' = "enter" /\ UNCHANGED reason
  /\ UNCHANGED <<hasUrl, plan, left, index, attempts, cur, history, audited,
                 total, billed, consent, browser>>

\* A prefix node of an unknown type is skipped; one whose expected page is not
\* the current one hands the rest of the run to the model.
PrefixNodeDropped ==
  /\ pc = "stored" /\ plan = "graph" /\ left > 0
  /\ \/ left' = left - 1 /\ UNCHANGED pc
     \/ left' = 0 /\ pc' = "enter"
  /\ UNCHANGED <<hasUrl, plan, index, attempts, cur, history, audited, total,
                 billed, reason, consent, browser>>

\* The risk of a stored action is what classifyRisk says now; the approval that
\* its risk:high tag asks for survives in requires_approval.
TakeStored ==
  /\ pc = "stored" /\ left > 0
  /\ left' = left - 1
  /\ \E risk \in Risks, tagged \in (IF plan = "replay" THEN BOOLEAN ELSE {FALSE}) :
       /\ cur' = [NoStep EXCEPT !.origin = plan, !.index = stepCount,
                                !.risk = risk, !.tagged = tagged]
       /\ pc' = IF tagged \/ risk = "high" THEN "gate" ELSE "act"
  /\ UNCHANGED <<hasUrl, plan, index, attempts, history, audited, total, billed,
                 reason, consent, browser>>

\* _recordInitialNavigation classifies its action but never asks for approval.
Navigate ==
  /\ pc = "navigate"
  /\ \E risk \in Risks :
       cur' = [NoStep EXCEPT !.origin = "navigation", !.index = stepCount, !.risk = risk]
  /\ pc' = "act"
  /\ UNCHANGED <<hasUrl, plan, left, index, attempts, history, audited, total,
                 billed, reason, consent, browser>>

-----------------------------------------------------------------------------
(* The model loop: _runLoop. *)

\* The loop counts from 0, whatever was replayed before it.
WrongEnterLoop ==
  /\ pc = "enter"
  /\ index' = 0 /\ pc' = "top"
  /\ UNCHANGED <<hasUrl, plan, left, attempts, cur, history, audited, total,
                 billed, reason, consent, browser>>

\* range(stepCount, maxSteps) is fixed here, after prefix or navigation.
EnterLoop ==
  /\ pc = "enter"
  /\ index' = stepCount /\ pc' = "top"
  /\ UNCHANGED <<hasUrl, plan, left, attempts, cur, history, audited, total,
                 billed, reason, consent, browser>>

AuthExpired ==
  /\ pc = "enter" /\ hasUrl
  /\ complete("auth_expired")
  /\ UNCHANGED <<hasUrl, plan, left, index, attempts, cur, history, audited,
                 total, billed, consent, browser>>

WrongLoopExhausted ==
  /\ pc = "top" /\ index > MaxSteps
  /\ pc' = "stopping"
  /\ UNCHANGED <<hasUrl, plan, left, index, attempts, cur, history, audited,
                 total, billed, reason, consent, browser>>

LoopExhausted ==
  /\ pc = "top" /\ index >= MaxSteps
  /\ pc' = "stopping"
  /\ UNCHANGED <<hasUrl, plan, left, index, attempts, cur, history, audited,
                 total, billed, reason, consent, browser>>

\* A fragment that needs no model value is dispatched as it is stored: risk and
\* requires_approval come from its risk:high tag alone.  Fragments carry no
\* expected page, so _handlePlanDrift always lets them proceed.
TakeFragment ==
  /\ pc = "top" /\ index < MaxSteps
  /\ \E tagged, finish \in BOOLEAN :
       /\ cur' = [NoStep EXCEPT !.origin = "fragment", !.index = index,
                                !.risk = IF tagged THEN "high" ELSE "low",
                                !.tagged = tagged, !.finish = finish]
       /\ pc' = IF tagged THEN "gate" ELSE "act"
  /\ UNCHANGED <<hasUrl, plan, left, index, attempts, history, audited, total,
                 billed, reason, consent, browser>>

BeginModelStep ==
  /\ pc = "top" /\ index < MaxSteps
  /\ attempts' = 0 /\ pc' = "observe"
  /\ UNCHANGED <<hasUrl, plan, left, index, cur, history, audited, total, billed,
                 reason, consent, browser>>

-----------------------------------------------------------------------------
(* One attempt of the model: _executeOneStepWithRetry. *)

overTaskCap(cost) == Cap > 0 /\ total + cost > Cap

CaptchaStops ==
  /\ pc = "observe"
  /\ complete("captcha_detected")
  /\ UNCHANGED <<hasUrl, plan, left, index, attempts, cur, history, audited,
                 total, billed, consent, browser>>

\* The estimate breaks the task cap, or the ledger says it would.
PreflightStops ==
  /\ pc = "observe" /\ Estimate > 0
  /\ complete("cost_cap_reached")
  /\ UNCHANGED <<hasUrl, plan, left, index, attempts, cur, history, audited,
                 total, billed, consent, browser>>

WrongPreflightPasses == TRUE
preflightPasses == Estimate > 0 => ~overTaskCap(Estimate)

CallModel ==
  /\ pc = "observe" /\ preflightPasses
  /\ \E cost \in Costs, risk \in Risks, finish \in BOOLEAN :
       /\ cur' = [NoStep EXCEPT !.index = index, !.risk = risk,
                                !.finish = finish, !.cost = cost]
       /\ billed' = billed + cost
  /\ pc' = "caps"
  /\ UNCHANGED <<hasUrl, plan, left, index, attempts, history, audited, total,
                 reason, consent, browser>>

\* The task cap, the ledger or the heartbeat ends the run after the call.
GuardStops ==
  /\ pc = "caps"
  /\ complete("cost_cap_reached") \/ complete("wallclock_heartbeat")
  /\ UNCHANGED <<hasUrl, plan, left, index, attempts, cur, history, audited,
                 total, billed, consent, browser>>

\* The cap is left to the next preflight.
WrongGuardsPassOverCap ==
  /\ pc = "caps"
  /\ pc' = IF cur.risk = "high" THEN "gate" ELSE "act"
  /\ UNCHANGED <<hasUrl, plan, left, index, attempts, cur, history, audited,
                 total, billed, reason, consent, browser>>

\* The risk is classified and the gate forgotten.
WrongGuardsPassUngated ==
  /\ pc = "caps" /\ ~overTaskCap(cur.cost)
  /\ pc' = "act"
  /\ UNCHANGED <<hasUrl, plan, left, index, attempts, cur, history, audited,
                 total, billed, reason, consent, browser>>

GuardsPass ==
  /\ pc = "caps" /\ ~overTaskCap(cur.cost)
  /\ pc' = IF cur.risk = "high" THEN "gate" ELSE "act"
  /\ UNCHANGED <<hasUrl, plan, left, index, attempts, cur, history, audited,
                 total, billed, reason, consent, browser>>

-----------------------------------------------------------------------------
(* Approval: ApprovalGate.requestApproval and the queue behind its decider. *)

rejection(origin) ==
  CASE origin = "replay"   -> "rejected_by_user_replay"
    [] origin = "graph"    -> "rejected_by_user_graph_replay"
    [] origin = "fragment" -> "rejected_by_user_fragment_replay"
    [] OTHER               -> "rejected_by_user"

\* Nothing at or below MEDIUM reaches the user, whoever required the approval.
GateAutoApproves ==
  /\ pc = "gate" /\ cur.risk = "low"
  /\ pc' = "act"
  /\ UNCHANGED <<hasUrl, plan, left, index, attempts, cur, history, audited,
                 total, billed, reason, consent, browser>>

GateAsks ==
  /\ pc = "gate" /\ cur.risk = "high"
  /\ pc' = "parked"
  /\ UNCHANGED <<hasUrl, plan, left, index, attempts, cur, history, audited,
                 total, billed, reason, consent, browser>>

\* The run waits here for as long as the user does not answer.
UserApproves ==
  /\ pc = "parked"
  /\ cur' = [cur EXCEPT !.asked = TRUE]
  /\ pc' = "act"
  /\ UNCHANGED <<hasUrl, plan, left, index, attempts, history, audited, total,
                 billed, reason, consent, browser>>

\* The loop goes on after the run was marked complete.
WrongUserRejects ==
  /\ pc = "parked"
  /\ reason' = rejection(cur.origin) /\ pc' = "top"
  /\ UNCHANGED <<hasUrl, plan, left, index, attempts, cur, history, audited,
                 total, billed, consent, browser>>

UserRejects ==
  /\ pc = "parked"
  /\ complete(rejection(cur.origin))
  /\ UNCHANGED <<hasUrl, plan, left, index, attempts, cur, history, audited,
                 total, billed, consent, browser>>

-----------------------------------------------------------------------------
(* The tail every routine shares: execute, record, publish, audit. *)

\* browser.execute turns every error into a failed result; a FINISH is a no-op
\* that cannot fail.
Execute ==
  /\ pc = "act"
  /\ \E ok \in BOOLEAN :
       /\ cur.finish => ok
       /\ cur' = [cur EXCEPT !.ok = ok]
  /\ pc' = "record"
  /\ UNCHANGED <<hasUrl, plan, left, index, attempts, history, audited, total,
                 billed, reason, consent, browser>>

appendStep ==
  /\ pc = "record"
  /\ history' = Append(history, cur)
  /\ total' = total + cur.cost
  /\ pc' = "progress"
  /\ UNCHANGED <<hasUrl, plan, left, index, attempts, cur, audited, billed,
                 reason, consent, browser>>

\* The audit is only written for steps that worked.
WrongEmitProgress ==
  /\ pc = "progress"
  /\ pc' = IF cur.ok THEN "audit" ELSE "after"
  /\ UNCHANGED <<hasUrl, plan, left, index, attempts, cur, history, audited,
                 total, billed, reason, consent, browser>>

EmitProgress ==
  /\ pc = "progress"
  /\ pc' = "audit"
  /\ UNCHANGED <<hasUrl, plan, left, index, attempts, cur, history, audited,
                 total, billed, reason, consent, browser>>

WriteAudit ==
  /\ pc = "audit"
  /\ audited' = audited + 1
  /\ pc' = "after"
  /\ UNCHANGED <<hasUrl, plan, left, index, attempts, cur, history, total,
                 billed, reason, consent, browser>>

-----------------------------------------------------------------------------
(* What each routine does with the result. *)

\* The result is not looked at.
WrongAfterReplay ==
  /\ pc = "after" /\ cur.origin = "replay"
  /\ pc' = "stored" /\ cur' = NoStep
  /\ UNCHANGED <<hasUrl, plan, left, index, attempts, history, audited, total,
                 billed, reason, consent, browser>>

AfterReplay ==
  /\ pc = "after" /\ cur.origin = "replay"
  /\ IF cur.ok THEN pc' = "stored" /\ UNCHANGED reason ELSE complete("replay_failed")
  /\ cur' = NoStep
  /\ UNCHANGED <<hasUrl, plan, left, index, attempts, history, audited, total,
                 billed, consent, browser>>

\* A failed prefix action or a failed navigation is left to the model.
AfterPrefix ==
  /\ pc = "after" /\ cur.origin \in {"graph", "navigation"}
  /\ IF cur.ok /\ cur.origin = "graph"
       THEN pc' = "stored" /\ UNCHANGED left
       ELSE pc' = "enter" /\ left' = 0
  /\ cur' = NoStep
  /\ UNCHANGED <<hasUrl, plan, index, attempts, history, audited, total, billed,
                 reason, consent, browser>>

WrongRetry ==
  /\ pc = "after" /\ cur.origin = "model" /\ ~cur.ok /\ attempts <= MaxRetries
  /\ attempts' = attempts + 1
  /\ pc' = "observe"
  /\ cur' = NoStep
  /\ UNCHANGED <<hasUrl, plan, left, index, history, audited, total, billed,
                 reason, consent, browser>>

Retry ==
  /\ pc = "after" /\ cur.origin = "model" /\ ~cur.ok /\ attempts < MaxRetries
  /\ attempts' = attempts + 1
  /\ pc' = "observe"
  /\ cur' = NoStep
  /\ UNCHANGED <<hasUrl, plan, left, index, history, audited, total, billed,
                 reason, consent, browser>>

\* A FINISH is looked at before success; the words a fragment finishes with are
\* a bullet's id, those of the model are free.
AfterLoopStep ==
  /\ pc = "after" /\ cur.origin \in {"fragment", "model"}
  /\ cur.origin = "model" => cur.ok \/ attempts >= MaxRetries
  /\ CASE cur.finish -> /\ \/ complete("finished")
                           \/ cur.origin = "model" /\ complete("misworded")
                        /\ UNCHANGED index
       [] ~cur.finish /\ ~cur.ok ->
                        /\ complete(IF cur.origin = "model" THEN "action_failed"
                                                            ELSE "replay_fragment_failed")
                        /\ UNCHANGED index
       [] OTHER -> index' = index + 1 /\ pc' = "top" /\ UNCHANGED reason
  /\ cur' = NoStep
  /\ UNCHANGED <<hasUrl, plan, left, attempts, history, audited, total, billed,
                 consent, browser>>

-----------------------------------------------------------------------------
(* The ways out. *)

\* The awaits that nobody guards: the replay planner, the page's address and
\* picture, the model, the progress callback and the audit sink.
mayRaise ==
  \/ pc \in {"plan", "enter", "observe", "progress", "audit"}
  \/ pc = "record" /\ cur.origin # "navigation"
  \/ pc = "after" /\ cur.origin \in {"fragment", "model"}

Raise ==
  /\ mayRaise
  /\ pc' = "unwinding"
  /\ cur' = NoStep
  /\ UNCHANGED <<hasUrl, plan, left, index, attempts, history, audited, total,
                 billed, reason, consent, browser>>

StopBrowser ==
  /\ pc \in {"stopping", "unwinding"}
  /\ browser' = "stopped"
  /\ IF pc = "unwinding"
       THEN pc' = "raised" /\ UNCHANGED reason
       ELSE /\ pc' = "done"
            /\ reason' = IF reason = "" THEN "max_steps_reached" ELSE reason
  /\ UNCHANGED <<hasUrl, plan, left, index, attempts, cur, history, audited,
                 total, billed, consent>>

\* Closing the context or the browser raises; in the second case Playwright is
\* never stopped.
StopRaises ==
  /\ pc \in {"stopping", "unwinding"}
  /\ browser' \in {"stopped", "leaked"}
  /\ pc' = "raised"
  /\ UNCHANGED <<hasUrl, plan, left, index, attempts, cur, history, audited,
                 total, billed, reason, consent>>

Ended == pc \in Terminal /\ UNCHANGED vars

AgentStep ==
  \/ PreviewProceeds \/ PreviewStops \/ StartBrowser \/ StartRaises \/ ChoosePlan
  \/ StoredExhausted \/ PrefixNodeDropped \/ TakeStored \/ Navigate
  \/ EnterLoop \/ AuthExpired \/ LoopExhausted \/ TakeFragment \/ BeginModelStep
  \/ CaptchaStops \/ PreflightStops \/ CallModel \/ GuardStops \/ GuardsPass
  \/ GateAutoApproves \/ GateAsks
  \/ Execute \/ appendStep \/ EmitProgress \/ WriteAudit
  \/ AfterReplay \/ AfterPrefix \/ Retry \/ AfterLoopStep
  \/ Raise \/ StopBrowser \/ StopRaises

Next == AgentStep \/ UserApproves \/ UserRejects \/ Ended

Spec == Init /\ [][Next]_vars

\* The worker thread keeps running; the user owes nothing.
FairSpec == Spec /\ WF_vars(AgentStep)

-----------------------------------------------------------------------------
\* Every variable keeps its type (the fields AgentState and the loop assign).
TypeOK ==
  /\ pc \in Places
  /\ hasUrl \in BOOLEAN
  /\ plan \in {"none", "replay", "graph"}
  /\ left \in 0 .. MaxStored
  /\ index \in Nat /\ attempts \in 0 .. MaxRetries
  /\ cur \in Step
  /\ history \in Seq(Step)
  /\ audited \in Nat /\ total \in Nat /\ billed \in Nat
  /\ reason \in Reasons
  /\ consent \in {"unasked", "approved", "skipped", "hook_raised", "timeout", "cancelled"}
  /\ browser \in {"off", "on", "leaked", "stopped"}

\* A run reported as a success earned it: either a FINISH was executed last, or
\* a whole template was replayed without one failed action.  This is what the
\* memory, the procedure store and the planner's reward learn from
\* (agentStateSucceeded).
SuccessIsEarned ==
  completionReasonSucceeded(reason) =>
    /\ history # <<>>
    /\ \/ history[Len(history)].finish
       \/ plan = "replay" /\ left = 0 /\ \A i \in 1 .. Len(history) : history[i].ok

\* appendStep of the repository MERGEs a step on its index.  Two steps of one
\* run share an index only when the second is the retry of the first, which
\* failed, so that the row of a step that took effect is never overwritten.
IndexReuseIsRetry ==
  \A i, j \in 1 .. Len(history) :
    i < j /\ history[i].index = history[j].index =>
      /\ history[i].origin = "model" /\ history[j].origin = "model"
      /\ \A k \in i .. j - 1 : history[k].index = history[i].index /\ ~history[k].ok

\* An action the code itself rates HIGH takes effect only after the user
\* approved that very action.  The initial navigation is the one exception: it
\* is classified and never gated.
HighRiskIsAsked ==
  /\ pc = "record" /\ cur.risk = "high" /\ cur.origin # "navigation" => cur.asked
  /\ \A i \in 1 .. Len(history) :
       history[i].risk = "high" /\ history[i].origin # "navigation" => history[i].asked

\* What the run records against the user's task never exceeds the task cap.
RecordedWithinCap == Cap > 0 => total <= Cap

\* What it really spent exceeds the cap by no more than the error of one
\* estimate: one call may be paid for and dropped, and it is the last.
SpendingIsBounded ==
  Cap > 0 => \/ billed <= Cap
             \/ \E c \in Costs : billed <= Cap + c - Estimate

\* Every executed step is audited before the next one is executed, and a run
\* that returns a state has audited all of it.
AuditKeepsUp ==
  /\ audited \in {Len(history), Len(history) - 1}
  /\ pc \in {"act", "done"} => audited = Len(history)

\* Once the run is complete its reason is final and nothing more is executed,
\* recorded or paid for.
CompletionIsFinal ==
  [][reason # "" => UNCHANGED <<reason, history, billed, total>> /\ pc' # "act"]_vars

\* The approval prompt is the only place that can hold a run for ever.
EndsOrAwaitsUser == <>(pc \in Terminal) \/ <>[](pc = "parked")

=============================================================================
