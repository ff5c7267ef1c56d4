------------------------------- MODULE RunPage -------------------------------
(***************************************************************************)
(* One execution as its user sees it: the preview the run waits for before *)
(* it starts its browser (agent/harness/preview.py, the hook around it in  *)
(* computer_use_loop.py, apps/tasks/preview_queue.py) and the progress the *)
(* page polls (progress_backend.py, api.py, partials.py).  The run, the    *)
(* tabs of the page and other runs meet in three places: the preview node, *)
(* the progress snapshot and the execution's row.                          *)
(*                                                                         *)
(* A POST of a decision and a poll of the status are one action each,      *)
(* though the code asks for the row first and for the node, or for the     *)
(* snapshot first and for the row, in queries of their own: the update of  *)
(* the node matches only a node that is there, and a poll answers what it  *)
(* would have answered at one of its two reads, or 404 when the task is    *)
(* deleted between them.                                                   *)
(*                                                                         *)
(* An operator whose name starts with Wrong is a version of the definition *)
(* after it with a plausible bug, which a property must be able to see.    *)
(***************************************************************************)
EXTENDS Naturals

CONSTANTS
  Tabs,         \* tabs in which the page is open
  Stores,       \* progress backends that may be configured: "neo4j", "memory"
  MaxSteps,     \* bound: steps the run publishes
  MaxFailures,  \* bound: queries that fail
  MaxOpens      \* bound: times a tab is loaded again

ASSUME StoreAssumption == Stores \subseteq {"neo4j", "memory"}
ASSUME BoundAssumption == MaxSteps \in Nat /\ MaxFailures \in Nat /\ MaxOpens \in Nat

Decisions == {"approved", "cancelled"}
None == "none"

VARIABLES
  store,     \* the progress backend
  phase,     \* where the run stands
  node,      \* status of the :PreviewApproval node
  decided,   \* the last decision that was delivered
  outcome,   \* how the run ended, before its row says so
  row,       \* status of the execution's row; "gone" when its task was deleted
  snapshot,  \* the progress snapshot
  old,       \* whether the snapshot has outlived NEO4J_TTL_SECONDS
  steps,     \* steps published
  announced, \* whether the end was published
  modal,     \* per tab: whether the preview modal is up
  post,      \* per tab: a decision on its way to the server
  pill,      \* per tab: what the progress card says
  since,     \* per tab: whether it polled since the end was published
  failures, opens

vars == <<store, phase, node, decided, outcome, row, snapshot, old, steps, announced,
          modal, post, pill, since, failures, opens>>
preview == <<node, decided>>
progress == <<snapshot, old, steps, announced>>
page == <<modal, post, pill, since, opens>>

Snapshot(finished, completed) == [finished |-> finished, completed |-> completed]
NoSnapshot == Snapshot(FALSE, TRUE)

Init ==
  /\ store \in Stores
  /\ phase = "resolve" /\ node = None /\ decided = None
  /\ outcome = None /\ row = "running"
  /\ snapshot = NoSnapshot /\ old = FALSE /\ steps = 0 /\ announced = FALSE
  /\ modal = [t \in Tabs |-> FALSE] /\ post = [t \in Tabs |-> None]
  /\ pill = [t \in Tabs |-> "loading"] /\ since = [t \in Tabs |-> FALSE]
  /\ failures = 0 /\ opens = 0

-----------------------------------------------------------------------------
(* The run: _runPreviewAndAwaitApproval around runPreviewAndWait. *)

\* The node is merged, pending whatever it was.
AskPreview ==
  /\ phase = "resolve" /\ phase' = "poll" /\ node' = "pending"
  /\ UNCHANGED <<store, decided, outcome, row, progress, page, failures>>

\* Only a cancellation is read as an answer: whatever else the node says, the run starts.
WrongReadDecision ==
  /\ phase = "poll" /\ node # None
  /\ IF node = "cancelled"
     THEN phase' = "finalize" /\ outcome' = "failed"
     ELSE phase' = "going" /\ UNCHANGED outcome
  /\ UNCHANGED <<store, preview, row, progress, page, failures>>

\* The poll looks for the word the button says and not for the one that is stored.
WrongReadApproval ==
  /\ phase = "poll" /\ node = "approved" /\ phase' = "going"
  /\ UNCHANGED <<store, preview, outcome, row, progress, page, failures>>

\* One poll of the hook that finds an answer; between two answers to be read the
\* later one overwrote the earlier.
ReadDecision ==
  /\ phase = "poll" /\ node \in Decisions
  /\ IF node = "approved"
     THEN phase' = "going" /\ UNCHANGED outcome
     ELSE phase' = "finalize" /\ outcome' = "failed"
  /\ UNCHANGED <<store, preview, row, progress, page, failures>>

\* The row is given a status that the page does not know.
WrongNodeIsGone ==
  /\ phase = "poll" /\ node = None
  /\ phase' = "finalize" /\ outcome' = "cancelled"
  /\ UNCHANGED <<store, preview, row, progress, page, failures>>

\* The node is gone with its task, which counts as cancelled.
NodeIsGone ==
  /\ phase = "poll" /\ node = None
  /\ phase' = "finalize" /\ outcome' = "failed"
  /\ UNCHANGED <<store, preview, row, progress, page, failures>>

\* The timer around the hook. It starts before the hook's own of the same length,
\* which therefore never ends the wait; an answer not yet read is lost.
TimesOut ==
  /\ phase = "poll"
  /\ phase' = "finalize" /\ outcome' = "failed"
  /\ UNCHANGED <<store, preview, row, progress, page, failures>>

\* A query of the hook raises, before or after its effect: the preview is skipped.
HookFails ==
  /\ phase \in {"resolve", "poll"}
  /\ failures < MaxFailures /\ failures' = failures + 1
  /\ node' \in IF phase = "resolve" THEN {node, "pending"} ELSE {node}
  /\ phase' = "going"
  /\ UNCHANGED <<store, decided, outcome, row, progress, page>>

-----------------------------------------------------------------------------
(* The run: what it publishes. *)

\* _publishProgress of _progressCallback; "completed" is told at the end only.
PublishStep ==
  /\ phase = "going" /\ steps < MaxSteps
  /\ steps' = steps + 1 /\ snapshot' = Snapshot(FALSE, FALSE) /\ old' = FALSE
  /\ UNCHANGED <<store, phase, preview, outcome, row, announced, page, failures>>

\* The loop ends by any of its reasons, or an exception leaves it.
EndRun ==
  /\ phase = "going" /\ phase' = "finalize"
  /\ outcome' \in {"complete", "failed"}
  /\ UNCHANGED <<store, preview, row, progress, page, failures>>

\* persistAgentState, or finalizeExecution of the failure handler.
FinalizeRow ==
  /\ phase = "finalize" /\ phase' = "announce"
  /\ row' = IF row = "gone" THEN row ELSE outcome
  /\ UNCHANGED <<store, preview, outcome, progress, page, failures>>

AnnounceEnd ==
  /\ phase = "announce" /\ phase' = "over"
  /\ snapshot' = Snapshot(TRUE, outcome = "complete") /\ old' = FALSE
  /\ announced' = TRUE
  /\ since' = [t \in Tabs |-> FALSE]
  /\ UNCHANGED <<store, preview, outcome, row, steps, modal, post, pill, opens, failures>>

\* The publish fails: the failure handler finds the row ended and returns.
AnnounceFails ==
  /\ phase = "announce" /\ phase' = "over"
  /\ failures < MaxFailures /\ failures' = failures + 1
  /\ UNCHANGED <<store, preview, outcome, row, progress, page>>

-----------------------------------------------------------------------------
(* Other runs, the clock and deletion. *)

\* More than NEO4J_TTL_SECONDS pass without a step: the run waits, or is over.
Age ==
  /\ snapshot # NoSnapshot /\ ~old /\ old' = TRUE
  /\ UNCHANGED <<store, phase, preview, outcome, row, snapshot, steps, announced, page, failures>>

\* The lazy sweep in another run's publish.
Sweep ==
  /\ store = "neo4j" /\ old
  /\ snapshot' = NoSnapshot /\ old' = FALSE
  /\ UNCHANGED <<store, phase, preview, outcome, row, steps, announced, page, failures>>

\* deleteTask takes the execution along and, in a later query that may find the
\* node not yet there or fail, its preview; the snapshot it leaves.
DeleteTask ==
  /\ row # "gone" /\ row' = "gone"
  /\ UNCHANGED <<store, phase, preview, outcome, progress, page, failures>>

DeletePreview ==
  /\ row = "gone" /\ node # None /\ node' = None
  /\ UNCHANGED <<store, phase, decided, outcome, row, progress, page, failures>>

-----------------------------------------------------------------------------
(* The page. *)

\* A tab is loaded, or loaded again.
Open(t) ==
  /\ opens < MaxOpens /\ opens' = opens + 1
  /\ modal' = [modal EXCEPT ![t] = FALSE]
  /\ pill' = [pill EXCEPT ![t] = "loading"]
  /\ since' = [since EXCEPT ![t] = FALSE]
  /\ UNCHANGED <<store, phase, preview, outcome, row, progress, post, failures>>

\* preview_pending and renderPreviewModal: 404 leaves the slot as it is.
PollPreview(t) ==
  /\ row # "gone"
  /\ modal' = [modal EXCEPT ![t] = node = "pending"]
  /\ UNCHANGED <<store, phase, preview, outcome, row, progress, post, pill, since, opens, failures>>

Click(t) ==
  /\ modal[t] /\ post[t] = None
  /\ \E d \in Decisions : post' = [post EXCEPT ![t] = d]
  /\ UNCHANGED <<store, phase, preview, outcome, row, progress, modal, pill, since, opens, failures>>

\* preview_decide and setPreviewStatus: any node that exists takes the decision.
Decide(t) ==
  /\ post[t] # None /\ post' = [post EXCEPT ![t] = None]
  /\ IF row # "gone" /\ node # None
     THEN node' = post[t] /\ decided' = post[t]
     ELSE UNCHANGED preview
  /\ UNCHANGED <<store, phase, outcome, row, progress, modal, pill, since, opens, failures>>

\* The row's status is passed on as it is: a run that has ended keeps the page polling.
WrongFallback == Snapshot(FALSE, row = "complete")

\* Every row that has ended counts as completed.
WrongCompleted == Snapshot(TRUE, row # "running")

\* What task_status makes of the row when there is no snapshot.
fallback == Snapshot(TRUE, row = "complete")

pillOf(shown) ==
  IF shown.completed THEN "complete" ELSE IF shown.finished THEN "finished" ELSE "running"

\* The card asks again every two seconds until an answer says finished.
polling(t) == pill[t] \in {"loading", "running"}

\* task_status, fetchProgress and renderStatusPartial.  The first tab that sees
\* the end takes the snapshot away; 404 leaves the card as it is.
PollStatus(t) ==
  /\ polling(t)
  /\ IF snapshot # NoSnapshot
     THEN /\ pill' = [pill EXCEPT ![t] = pillOf(snapshot)]
          /\ IF store = "neo4j" /\ snapshot.finished
             THEN snapshot' = NoSnapshot /\ old' = FALSE
             ELSE UNCHANGED <<snapshot, old>>
     ELSE /\ pill' = IF row = "gone" THEN pill ELSE [pill EXCEPT ![t] = pillOf(fallback)]
          /\ UNCHANGED <<snapshot, old>>
  /\ since' = [since EXCEPT ![t] = announced]
  /\ UNCHANGED <<store, phase, preview, outcome, row, steps, announced, modal, post, opens, failures>>

-----------------------------------------------------------------------------
Run == AskPreview \/ ReadDecision \/ NodeIsGone \/ TimesOut \/ HookFails
       \/ PublishStep \/ EndRun \/ FinalizeRow \/ AnnounceEnd \/ AnnounceFails
Page(t) == Open(t) \/ PollPreview(t) \/ Click(t) \/ Decide(t) \/ PollStatus(t)
Next == Run \/ Age \/ Sweep \/ DeleteTask \/ DeletePreview \/ \E t \in Tabs : Page(t)

\* The hook's poll and the cards' go on by themselves; the timer need not be
\* awaited, and nobody has to click.
Fairness == WF_vars(ReadDecision \/ NodeIsGone) /\ \A t \in Tabs : WF_vars(PollStatus(t))
Spec == Init /\ [][Next]_vars /\ Fairness

-----------------------------------------------------------------------------
\* Every variable stays in its domain.
TypeOK ==
  /\ store \in Stores
  /\ phase \in {"resolve", "poll", "going", "finalize", "announce", "over"}
  /\ node \in Decisions \union {"pending", None} /\ decided \in Decisions \union {None}
  /\ outcome \in {"complete", "failed", None}
  /\ row \in {"running", "complete", "failed", "gone"}
  /\ snapshot \in [finished : BOOLEAN, completed : BOOLEAN]
  /\ old \in BOOLEAN /\ announced \in BOOLEAN /\ steps \in 0 .. MaxSteps
  /\ modal \in [Tabs -> BOOLEAN] /\ post \in [Tabs -> Decisions \union {None}]
  /\ pill \in [Tabs -> {"loading", "running", "finished", "complete"}]
  /\ since \in [Tabs -> BOOLEAN]
  /\ failures \in 0 .. MaxFailures /\ opens \in 0 .. MaxOpens

\* Consent: a run whose hook did not fail starts its browser only on an approval,
\* and on one that no later decision of any tab had taken back.  Timers, a
\* deleted task and crossing clicks must not amount to it.
StartNeedsApproval ==
  [][(phase # "going" /\ phase' = "going" /\ failures' = failures)
       => decided = "approved"]_vars

\* Either answer, once it has reached the server, releases the waiting run by
\* the next polls of its node and not only by the timer.
AnswerReleases ==
  decided # None /\ phase = "poll" ~> phase # "poll"

\* Once the end is published every tab that polls reads the outcome of the row,
\* whether it gets the snapshot or, after another tab or a sweep has taken that
\* away, the row itself.
EndIsShown ==
  \A t \in Tabs : since[t] /\ row # "gone" =>
    pill[t] = IF row = "complete" THEN "complete" ELSE "finished"

\* Every tab that still polls when the end is published stops polling.
EndReachesTabs ==
  \A t \in Tabs : announced /\ polling(t) ~> ~polling(t) \/ row = "gone"

\* progress_backend.py:18: pollers stop "once the run ends": no card says
\* finished while the row is running.
RunningIsNotFinished ==
  \A t \in Tabs : pill[t] = "finished" => row # "running"
=============================================================================
