------------------------- MODULE ExecutionLifecycle -------------------------
(***************************************************************************)
(* The executions of one user's tasks: the web view that starts a run, the *)
(* background thread that drives it and writes its rows, the view that     *)
(* deletes a task meanwhile, and the page that polls for progress          *)
(* (apps/tasks: api.py, services.py, repo.py, progress_backend.py).        *)
(*                                                                         *)
(* One action per query.  A query may fail, and one that writes may fail   *)
(* after its effect has landed.  What the agent does is AgentRun's; here a *)
(* run makes steps, waits for the user, ends with some result or raises.   *)
(* Progress is kept by _Neo4jBackend, as in production.                    *)
(*                                                                         *)
(* An operator whose name starts with Wrong is a version of the definition *)
(* after it with a plausible bug, which a property must be able to see.    *)
(***************************************************************************)
EXTENDS Naturals, FiniteSets

CONSTANTS
  Executions,  \* the ids minted by run_task_view, one per request
  Tasks,       \* the user's tasks
  MaxSteps,    \* bound: steps of a run
  None         \* no task

ASSUME StepsAssumption == MaxSteps \in Nat
ASSUME NoneAssumption == None \notin Tasks

VARIABLES
  task,      \* Task.status, or "deleted"
  row,       \* Execution.status, or "absent"; active_user_id is set while running
  steps,     \* indexes of the execution's Step rows
  owner,     \* the task an execution was requested for
  worker,    \* where the request, then the background thread, stands
  made,      \* steps the agent has made: len(state.history)
  earned,    \* agentStateSucceeded of the final state
  snapshot,  \* the ProgressSnapshot node
  crashed    \* the web process has died once (bound: once)

vars == <<task, row, steps, owner, worker, made, earned, snapshot, crashed>>

Starting == {"asked", "free"}
Driving == {"running", "parked", "publishing", "saving"}
Persisting == {"ended", "flushing", "finalizing"}
Reporting == {"charging", "announcing"}
Failing == {"failing", "failFinalize", "failTask", "failAnnounce"}
Over == {"refused", "over", "gaveUp", "dead"}
Places == {"idle"} \cup Starting \cup Driving \cup Persisting \cup Reporting
            \cup Failing \cup Over

Init ==
  /\ task = [t \in Tasks |-> "draft"]
  /\ row = [e \in Executions |-> "absent"]
  /\ steps = [e \in Executions |-> {}]
  /\ owner = [e \in Executions |-> None]
  /\ worker = [e \in Executions |-> "idle"]
  /\ made = [e \in Executions |-> 0]
  /\ earned = [e \in Executions |-> FALSE]
  /\ snapshot = [e \in Executions |-> "none"]
  /\ crashed = FALSE

goto(e, place) == worker' = [worker EXCEPT ![e] = place]
isRunning(e) == row[e] = "running"
someoneRuns == \E f \in Executions : isRunning(f)

-----------------------------------------------------------------------------
(* run_task_view: getTask, findActiveExecutionForUser, createExecution. *)

RequestRun(e) ==
  /\ worker[e] = "idle"
  /\ \E t \in Tasks :
       /\ task[t] # "deleted"
       /\ owner' = [owner EXCEPT ![e] = t]
  /\ goto(e, "asked")
  /\ UNCHANGED <<task, row, steps, made, earned, snapshot, crashed>>

FindActiveExecution(e) ==
  /\ worker[e] = "asked"
  /\ \/ goto(e, IF someoneRuns THEN "refused" ELSE "free")
     \/ goto(e, "refused")   \* the query fails
  /\ UNCHANGED <<task, row, steps, owner, made, earned, snapshot, crashed>>

\* Only the check before it, no unique constraint.
WrongCreateExecution(e) ==
  /\ worker[e] = "free"
  /\ IF task[owner[e]] = "deleted"
       THEN goto(e, "refused") /\ UNCHANGED row
       ELSE goto(e, "running") /\ row' = [row EXCEPT ![e] = "running"]
  /\ UNCHANGED <<task, steps, owner, made, earned, snapshot, crashed>>

\* The unique constraint on active_user_id refuses a second running row, and
\* without its task the statement matches nothing.
CreateExecution(e) ==
  /\ worker[e] = "free"
  /\ IF task[owner[e]] = "deleted" \/ someoneRuns
       THEN goto(e, "refused") /\ UNCHANGED row
       ELSE \/ /\ row' = [row EXCEPT ![e] = "running"]
               /\ goto(e, "running")
            \/ /\ row' \in {row, [row EXCEPT ![e] = "running"]}
               /\ goto(e, "refused")
  /\ UNCHANGED <<task, steps, owner, made, earned, snapshot, crashed>>

-----------------------------------------------------------------------------
(* The agent's run, seen from outside, and _progressCallback. *)

MakeStep(e) ==
  /\ worker[e] = "running" /\ made[e] < MaxSteps
  /\ made' = [made EXCEPT ![e] = @ + 1]
  /\ goto(e, "publishing")
  /\ UNCHANGED <<task, row, steps, owner, earned, snapshot, crashed>>

\* Publishing also sweeps the snapshots nobody wrote to for five minutes.
publish(e, status) ==
  \E stale \in SUBSET (Executions \ {e}) :
    snapshot' = [f \in Executions |-> IF f = e THEN status
                                      ELSE IF f \in stale THEN "none" ELSE snapshot[f]]

\* publishProgress stands outside the try block of the callback.
PublishStep(e) ==
  /\ worker[e] = "publishing"
  /\ \/ publish(e, "live") /\ goto(e, "saving")
     \/ publish(e, "live") /\ goto(e, "failing")   \* the sweep fails
     \/ UNCHANGED snapshot /\ goto(e, "failing")
  /\ UNCHANGED <<task, row, steps, owner, made, earned, crashed>>

\* The step is merged without matching its execution.
WrongSaveStep(e) ==
  /\ worker[e] = "saving"
  /\ steps' = [steps EXCEPT ![e] = @ \cup {made[e]}]
  /\ goto(e, "running") \/ goto(e, "failing")
  /\ UNCHANGED <<task, row, owner, made, earned, snapshot, crashed>>

\* appendStep matches nothing when the row is gone, and its failure is ignored;
\* the audit entry written next may raise.
SaveStep(e) ==
  /\ worker[e] = "saving"
  /\ \/ /\ row[e] # "absent"
        /\ steps' = [steps EXCEPT ![e] = @ \cup {made[e]}]
     \/ UNCHANGED steps
  /\ goto(e, "running") \/ goto(e, "failing")
  /\ UNCHANGED <<task, row, owner, made, earned, snapshot, crashed>>

AskUser(e) ==
  /\ worker[e] = "running"
  /\ goto(e, "parked")
  /\ UNCHANGED <<task, row, steps, owner, made, earned, snapshot, crashed>>

\* approval_decide answers 404 once the row is gone: nobody can release the run.
AnswerUser(e) ==
  /\ worker[e] = "parked" /\ row[e] # "absent"
  /\ goto(e, "running")
  /\ UNCHANGED <<task, row, steps, owner, made, earned, snapshot, crashed>>

EndRun(e) ==
  /\ worker[e] = "running"
  /\ \E ok \in BOOLEAN : earned' = [earned EXCEPT ![e] = ok]
  /\ goto(e, "ended")
  /\ UNCHANGED <<task, row, steps, owner, made, snapshot, crashed>>

RunRaises(e) ==
  /\ worker[e] = "running"
  /\ goto(e, "failing")
  /\ UNCHANGED <<task, row, steps, owner, made, earned, snapshot, crashed>>

-----------------------------------------------------------------------------
(* runTaskForUser after the run: upsertTemplate, persistAgentState, publish. *)

\* The two vocabularies of status are confused.
WrongOutcome(e) == IF earned[e] THEN "completed" ELSE "failed"

outcome(e) == IF earned[e] THEN "complete" ELSE "failed"
taskOutcome(e) == IF earned[e] THEN "completed" ELSE "failed"
finalize(e, status) == row' = [row EXCEPT ![e] = IF @ = "absent" THEN @ ELSE status]
updateTaskStatus(e, status) ==
  task' = [task EXCEPT ![owner[e]] = IF @ = "deleted" THEN @ ELSE status]

\* A row that is missing is created again, which needs its task and a free slot.
EnsureRow(e) ==
  /\ worker[e] = "ended"
  /\ \/ row[e] # "absent" /\ goto(e, "flushing") /\ UNCHANGED row
     \/ /\ row[e] = "absent" /\ task[owner[e]] # "deleted" /\ ~someoneRuns
        /\ row' = [row EXCEPT ![e] = "running"]
        /\ goto(e, "flushing")
     \/ goto(e, "failing") /\ UNCHANGED row   \* upsertTemplate or this raises
  /\ UNCHANGED <<task, steps, owner, made, earned, snapshot, crashed>>

\* A step that cannot be saved is skipped.
WrongFlushSteps(e) ==
  /\ worker[e] = "flushing"
  /\ \E n \in 0 .. made[e] :
       steps' = [steps EXCEPT ![e] = IF row[e] = "absent" THEN {} ELSE @ \cup 1 .. n]
  /\ goto(e, "finalizing")
  /\ UNCHANGED <<task, row, owner, made, earned, snapshot, crashed>>

\* The upserts of all steps in one action, which may fail after any number of them.
FlushSteps(e) ==
  /\ worker[e] = "flushing"
  /\ \/ /\ steps' = [steps EXCEPT ![e] = IF row[e] = "absent" THEN {} ELSE 1 .. made[e]]
        /\ goto(e, "finalizing")
     \/ /\ \E n \in 0 .. made[e] :
             steps' = [steps EXCEPT ![e] = IF row[e] = "absent" THEN {} ELSE @ \cup 1 .. n]
        /\ goto(e, "failing")
  /\ UNCHANGED <<task, row, owner, made, earned, snapshot, crashed>>

FinalizeExecution(e) ==
  /\ worker[e] = "finalizing"
  /\ \/ finalize(e, outcome(e)) /\ (goto(e, "charging") \/ goto(e, "failing"))
     \/ UNCHANGED row /\ goto(e, "failing")
  /\ UNCHANGED <<task, steps, owner, made, earned, snapshot, crashed>>

UpdateTaskStatus(e) ==
  /\ worker[e] = "charging"
  /\ \/ updateTaskStatus(e, taskOutcome(e)) /\ (goto(e, "announcing") \/ goto(e, "failing"))
     \/ UNCHANGED task /\ goto(e, "failing")
  /\ UNCHANGED <<row, steps, owner, made, earned, snapshot, crashed>>

AnnounceEnd(e) ==
  /\ worker[e] = "announcing"
  /\ \/ publish(e, "finished") /\ (goto(e, "over") \/ goto(e, "failing"))
     \/ UNCHANGED snapshot /\ goto(e, "failing")
  /\ UNCHANGED <<task, row, steps, owner, made, earned, crashed>>

-----------------------------------------------------------------------------
(* _finalizeFailedBackgroundRun; a query of its own that fails ends it. *)

\* A run that is already reported is reported again, as failed.
WrongReadFailedRow(e) ==
  /\ worker[e] = "failing"
  /\ goto(e, "failFinalize") \/ goto(e, "gaveUp")
  /\ UNCHANGED <<task, row, steps, owner, made, earned, snapshot, crashed>>

ReadFailedRow(e) ==
  /\ worker[e] = "failing"
  /\ \/ goto(e, IF row[e] \in {"running", "absent"} THEN "failFinalize" ELSE "over")
     \/ goto(e, "gaveUp")
  /\ UNCHANGED <<task, row, steps, owner, made, earned, snapshot, crashed>>

\* A failing query does not stop the handler.
WrongFailFinalize(e) ==
  /\ worker[e] = "failFinalize"
  /\ finalize(e, "failed") \/ UNCHANGED row
  /\ goto(e, "failTask")
  /\ UNCHANGED <<task, steps, owner, made, earned, snapshot, crashed>>

FailFinalize(e) ==
  /\ worker[e] = "failFinalize"
  /\ \/ finalize(e, "failed") /\ (goto(e, "failTask") \/ goto(e, "gaveUp"))
     \/ UNCHANGED row /\ goto(e, "gaveUp")
  /\ UNCHANGED <<task, steps, owner, made, earned, snapshot, crashed>>

FailTask(e) ==
  /\ worker[e] = "failTask"
  /\ \/ updateTaskStatus(e, "failed") /\ (goto(e, "failAnnounce") \/ goto(e, "gaveUp"))
     \/ UNCHANGED task /\ goto(e, "gaveUp")
  /\ UNCHANGED <<row, steps, owner, made, earned, snapshot, crashed>>

FailAnnounce(e) ==
  /\ worker[e] = "failAnnounce"
  /\ \/ publish(e, "finished") /\ (goto(e, "over") \/ goto(e, "gaveUp"))
     \/ UNCHANGED snapshot /\ goto(e, "gaveUp")
  /\ UNCHANGED <<task, row, steps, owner, made, earned, crashed>>

-----------------------------------------------------------------------------
(* The other views, and the end of the process. *)

\* One statement deletes the task, its executions and their steps.
DeleteTask(t) ==
  /\ task[t] # "deleted"
  /\ task' = [task EXCEPT ![t] = "deleted"]
  /\ row' = [e \in Executions |-> IF owner[e] = t THEN "absent" ELSE row[e]]
  /\ steps' = [e \in Executions |-> IF owner[e] = t THEN {} ELSE steps[e]]
  /\ UNCHANGED <<owner, worker, made, earned, snapshot, crashed>>

\* A status poll drops a snapshot that says finished once it has read it.
PollStatus(e) ==
  /\ snapshot[e] = "finished"
  /\ snapshot' = [snapshot EXCEPT ![e] = "none"]
  /\ UNCHANGED <<task, row, steps, owner, worker, made, earned, crashed>>

\* Daemon threads and requests die with the process; the rows stay.
Crash ==
  /\ ~crashed /\ crashed' = TRUE
  /\ worker' = [e \in Executions |-> IF worker[e] \in {"idle"} \cup Over
                                       THEN worker[e] ELSE "dead"]
  /\ UNCHANGED <<task, row, steps, owner, made, earned, snapshot>>

-----------------------------------------------------------------------------
WorkerStep(e) ==
  \/ FindActiveExecution(e) \/ CreateExecution(e)
  \/ MakeStep(e) \/ PublishStep(e) \/ SaveStep(e) \/ AskUser(e) \/ EndRun(e) \/ RunRaises(e)
  \/ EnsureRow(e) \/ FlushSteps(e) \/ FinalizeExecution(e) \/ UpdateTaskStatus(e)
  \/ AnnounceEnd(e)
  \/ ReadFailedRow(e) \/ FailFinalize(e) \/ FailTask(e) \/ FailAnnounce(e)

Next ==
  \/ \E e \in Executions : RequestRun(e) \/ WorkerStep(e) \/ AnswerUser(e) \/ PollStatus(e)
  \/ \E t \in Tasks : DeleteTask(t)
  \/ Crash

Spec == Init /\ [][Next]_vars

\* Threads keep running, a run does not ask for ever (AgentRun), and here the
\* user answers what can be answered.
FairSpec ==
  /\ Spec
  /\ \A e \in Executions :
       /\ WF_vars(WorkerStep(e)) /\ WF_vars(AnswerUser(e))
       /\ SF_vars(EndRun(e) \/ RunRaises(e))

-----------------------------------------------------------------------------
\* Rows, snapshots and threads keep their types.
TypeOK ==
  /\ task \in [Tasks -> {"draft", "completed", "failed", "deleted"}]
  /\ row \in [Executions -> {"absent", "running", "complete", "failed"}]
  /\ steps \in [Executions -> SUBSET (1 .. MaxSteps)]
  /\ owner \in [Executions -> Tasks \cup {None}]
  /\ worker \in [Executions -> Places]
  /\ made \in [Executions -> 0 .. MaxSteps]
  /\ earned \in [Executions -> BOOLEAN]
  /\ snapshot \in [Executions -> {"none", "live", "finished"}]
  /\ crashed \in BOOLEAN

working(e) == worker[e] \in Driving \cup Persisting

\* A run that is being driven owns the user's slot for as long as its task
\* exists, so two live agents of one user never work on tasks that exist: the
\* check before the insert may be stale, and the constraint decides.
LiveRunsOwnTheSlot ==
  \A e \in Executions : working(e) =>
    \/ task[owner[e]] = "deleted"
    \/ isRunning(e) /\ \A f \in Executions \ {e} : ~isRunning(f)

\* A row that says complete tells the truth about the run, and holds every step.
CompleteIsTrue ==
  \A e \in Executions : row[e] = "complete" =>
    earned[e] /\ steps[e] = 1 .. made[e]

\* The outcome of an execution is written once: a failure while reporting a
\* finished run never turns it into a failed one, and nothing revives it.
OutcomeIsFinal ==
  [][\A e \in Executions : row[e] \in {"complete", "failed"} => row'[e] \in {row[e], "absent"}]_vars

\* Deleting a task while its run goes on leaves nothing behind that a later
\* write of that run could attach to or bring back.
NothingOutlivesItsTask ==
  \A e \in Executions : owner[e] # None /\ task[owner[e]] = "deleted" =>
    row[e] = "absent" /\ steps[e] = {}

\* Every run gives the user's slot back, unless the process died under it, the
\* failure handler failed too, or the insert landed in spite of its error.
SlotIsReleased ==
  \A e \in Executions :
    isRunning(e) ~> ~isRunning(e) \/ worker[e] \in {"dead", "gaveUp", "refused"}
=============================================================================
