# CUTIEE in TLA+

CUTIEE is a web application (Django, Neo4j) in which a user describes a task and
an agent carries it out in a browser: it replays what it has learned, asks a
model for the rest, stops for the user's approval before a dangerous action, and
keeps a ledger of what the model costs. This directory holds TLA+ modules of the
parts where several actors or several failures meet, from the model clients at
the bottom to the page at the top, the TLC runs that check them, and TLAPS proofs
about all the stateful ones, in eight proof modules. Paths below are relative to the
repository.

## The system

| Part | State | Operations | Hard because |
| --- | --- | --- | --- |
| Agent loop, `agent/harness/computer_use_loop.py` | `AgentState`: history, cost, completion reason; the browser | preview, replay, prefix, navigation, fragments, model steps with retries, caps, approval, audit | four routines repeat the same tail with different guards; every await may raise |
| Approval, `agent/safety/approval_gate.py`, `apps/tasks/approval_queue.py` | `_PENDING`, one parked request per execution, an asyncio event | `awaitDecision`, `submitDecision`, the polling page | two kinds of threads, a write outside the lock, wake-ups across event loops |
| Execution lifecycle, `apps/tasks/api.py`, `services.py`, `repo.py` | `Task`, `Execution` and `Step` rows, `ProgressSnapshot` | start, per-step save, finalize, failure handler, delete, status poll | one query at a time, each may fail; the thread dies with the process |
| Wallet ledger, `agent/harness/cost_ledger.py` | `CostLedger` rows per hour | `wouldExceed`, `incrementAndCheck`, `pruneOldLedgers` | concurrent runs, fails open, hour and day boundaries |
| Preview consent, `agent/harness/preview.py`, `apps/tasks/preview_queue.py` | `PreviewApproval` node | merge, poll, user's answer | two timers, late answers, deletion |
| ACE memory, `agent/memory/ace_memory.py`, `pipeline.py`, `curator.py`, `reflector.py`, ... | bullets | reflection, quality gate, curation, refinement, retrieval | each reflection and each run works on its own copy |
| Replay selection, `agent/memory/replay.py`, `fragment_replay.py`, `bullet_reconstruct.py` | none (pure) | choose and rebuild what to replay | thresholds, redacted values |
| Procedure graphs, `agent/memory/action_graph.py`, `subgraph_match.py`, `decomposer.py`, `state_verifier.py`, `apps/memory_app/action_graph_store.py` | `ProcedureGraph` and `ActionNode` nodes and their edges | save, load, sweep, match, verify before replay | saved and read in many queries |
| Model clients, `agent/routing/models/gemini_cu.py`, `browser_use_client.py` | Gemini's conversation, browser-use's agent | `primeTask`, `nextAction`, trimming | one screenshot through several routines, calls and responses in pairs |
| The page, `apps/tasks/api.py`, `partials.py`, `progress_backend.py` | cards and modals of the open tabs | polls and clicks | three sources of truth, several tabs |
| Around them: guards (heartbeat, CAPTCHA, injection), risk classifier, model clients, browser controller, audit and screenshots, accounts, pages, evaluation | | | see `PROJECT.json` |

How they interact. `run_task_view` inserts an `Execution` row and starts a daemon
thread; the thread runs the agent loop in an event loop of its own. The loop calls
back into `apps/tasks` after every step (progress snapshot, step row), into the
approval queue when an action is HIGH, and into the ledger around every model call.
The page polls the snapshot, the approval slot and the preview node, and its POSTs
run in other threads of the same process. `deleteTask` may remove all the rows
under a running agent.

What makes each part correct: the loop must gate every HIGH action, stay within
its caps, never skip a failure, never go on after completion, audit what it does,
and end; the queue must deliver exactly the posted verdicts; the rows must tell the
truth about the run, once, and give the user's slot back; the ledger must lose no
cent and bound the overspending; the memory and the procedures must hold only what
was done in a run that succeeded, and keep what was forgotten forgotten; a model
must be asked about the page as it is, in a conversation it can read; the page must
start a run on an approval only and show every tab its end.

## Modules

`AgentRun` is one run of the agent. `pc` is the place in `run()` and the routines
it awaits, `plan`/`left` what is being replayed, `index`/`attempts` the loop's
counters, `cur` the `Action` in flight, `history`, `total`, `reason` the fields of
`AgentState`, `billed` what was really paid. One action stands for one step
between two awaits that may raise or one branch of a routine (`TakeStored`,
`Navigate`, `TakeFragment`, `CallModel` prepare an action; `Execute`,
`appendStep`, `EmitProgress`, `WriteAudit` are the tail they share; `AfterReplay`,
`AfterPrefix`, `Retry`, `AfterLoopStep` are what each routine does with the
result). The page, the model and the memory are choices. Risk is `high` or `low`,
the only distinction `ApprovalGate` makes.

`ApprovalQueue` is the slot of one execution: the agent's coroutine (`Park`,
`Resume`, `Unpark`), the polling page (`Poll`, `Click`) and the web threads, whose
POST is four steps (`FindExecution`, `Lookup`, `WriteDecision`, `Signal`) because
the decision is written outside the lock. `Approval` is what the loop may assume of
it, one answer per request, in order; `ApprovalQueue` implements it (`Gate`, with
`asked <- current`, `verdict <- outcome`).

`ExecutionLifecycle` is the life of the executions of one user. `worker[e]` is the
place of the request and then of its background thread, in the order of
`run_task_view`, `_progressCallback`, `persistAgentState`, the final publish and
`_finalizeFailedBackgroundRun`. Each action is one query, which may fail before or
after its effect; only `FlushSteps` is several, the upserts of all steps, and may fail
after any number of them. `AgentRun` appears as: make a step, ask, end, raise.

`CostLedger` is the hourly and daily ledger under several runs; `AgentRun` leaves
its verdict open (`PreflightStops`, `GuardStops`). `pruneOldLedgers` has no caller
in the repository yet (its docstring says a nightly job); it is an action so that
the day's total can be checked against it.

`Lessons`, `Bullets` and `AceMemory` are the memory. `Lessons` is what a reflection
makes of a run (heuristic, LLM and local reflectors, the quality gate): pure
operators from a trace to lessons. `Bullets` is what the memory does with its
bullets: curation, decay, refinement with quotas, scoring, retrieval, and the plans
read out of them; scores are the code's floats as exact integers, so that ties and
thresholds fall as in the code. `AceMemory` is the state: `stored` the user's
`MemoryBullet` nodes, `run` the live run with the copy it loaded when it was built
and its two retrievals (fragments, then whole replay), `worker[w]` a background
reflection with its own copy. A retrieval, a delta and a refinement are one step
each, cut short after any number of its writes by a query that fails before or after
its effect.

`ActionGraph` is the pure part of procedures (canonical action, decomposition of a
task, longest common prefix, reuse report); `ProcedureStore` the rows, with a save
in four kinds of query (row, nodes, the edge to the first node, the edges between
nodes), a load in two, the lease that reading a row renews, the sweep by age, and a
run that verifies each node against its page before replaying it (`Distance` is the
Hamming distance of the screenshots' hashes).

`CuClients` is the loop around one client, Gemini's, browser-use's or the scripted
one. `page` counts the effects on the page, `shown` is the page of the screenshot
the loop holds, `history` Gemini's conversation, where an entry carries the number
of the call it makes or answers. What a model answers is free.

`RunPage` is one execution as its tabs see it: `node` the `PreviewApproval` status,
`row`, `snapshot`, and per tab `modal`, `post` and `pill` (the progress card). The
run above it is reduced to `phase`: it asks for the preview, publishes steps, ends,
finalizes its row and announces the end. `Decide` and `PollStatus` take the two or
three queries of a request as one step: the update behind `Decide` matches only a node
that is still there, and a poll answers what it would have answered at one of its two
reads, or 404 when the task is deleted between them, which leaves the card as it is.

The modules meet at named steps: `GateAsks`, `UserApproves`, `UserRejects` of
`AgentRun` are `Park`, `Resume` of `ApprovalQueue`; its `EmitProgress` is
`PublishStep`, `SaveStep` of `ExecutionLifecycle`; its preflight and caps are
`Preflight`, `incrementAndCheck` of `CostLedger`; its `PreviewProceeds` and
`PreviewStops` are `ReadDecision`, `HookFails`, `TimesOut` of `RunPage`, its
`ChoosePlan` and `TakeStored` what `FindReplay` of `AceMemory` and `Match` of
`ProcedureStore` found, its `CallModel` the ask and answer of `CuClients`.

An operator whose name starts with `Wrong` is a version of the definition after it
with a plausible bug; `PROJECT.json` says which property sees it.

Where a model or a database could do more than the modules let it, that is an
assumption about the environment:

- A Gemini reply makes at most one function call. The code takes the first part that
  is one (`gemini_cu.py:199-205`), as its comment says the API behaves; a second call
  would stay in the conversation without a response, and `RequestIsWellFormed` would
  not hold.
- A lesson written by a model names no action (`isStep`). Its prompt asks it not to
  copy actions, but `bullet_reconstruct.py:48` reads `action=<type>` in any content:
  a lesson with these words would be replayed as a step that no run has done, and
  `LearnedWasDone` speaks only of bullets that steps have made.
- Bullets are loaded in the order of their creation, though the query has no
  `ORDER BY` (`memory_app/repo.py:182-184`). Only ties of scores depend on it.
- A run records no more steps than a reader of its graph follows edges
  (`DepthAssumption` of `ProcedureStore`): 25 steps, each tried twice, against the 51
  nodes of `NEXT*0..50`.
- A query of `ProcedureStore` fails before its effect. One that fails after it leaves
  what the next one leaves that fails before its own, and the last one what a save that
  succeeds leaves.

## Runs

| Run | Bounds | Shows |
| --- | --- | --- |
| `agent_run` | 3 steps, 1 retry, 2 stored actions, cap 4, estimate 1, prices 1 and 2 | the loop's safety, `CompletionIsFinal`, and that a run ends unless it awaits the user |
| `approval_queue` | 2 requests, 2 web threads | the queue's safety, no lost wake-up, refinement of `Approval` |
| `execution_lifecycle` | 2 executions, 2 tasks, 1 step, one crash | the rows' truth, the one slot, its release |
| `cost_ledger` | 2 places, 2 later runs, 2 days of 2 hours, caps 2 and 3, prices 1 and 2, 1 failing query | accounting and overshoot |
| `ace_memory` | 2 tasks, 3 runs, 2 reflections at a time, 4 bullets, 1 failing query | what was not done is not learned, what was forgotten stays so, refinement is fair to each type, fragments never reach the loop |
| `procedures` | 2 users, 2 runs at a time of up to 3 steps, 2 graphs, 1 failing query, 2 days | a finished save is read whole, what is replayed was earned |
| `cu_clients` | 3 clients, 6 steps, 2 turns kept, 1 retry, a fragment at step 2 | conversations stay readable, the screenshot is current |
| `run_page` | 2 tabs, 2 backends, 1 step, 1 failing query, 1 reload | consent, the release by an answer, the end reaches every tab |
| `approval_unseen` | as `approval_queue` | a late click approves a request its sender never saw |
| `ace_marker` | as `ace_memory` | a whole replay types the redaction marker |
| `procedure_first` | as `procedures` | the first node of a prefix is verified, against the wrong page |
| `page_early` | as `run_page` | the page is told a run has finished that goes on |

The last four runs expect a violation: the code does not do what a comment or
document says (see `findings`).

Why the bounds are enough. Three steps let a stored prefix, a fragment, a retried
and a failing model step follow each other in one run; two stored actions give a
first and a last one; with cap 4 and prices up to 2 the cap is hit exactly, missed
by one, and exceeded with the preflight passed. Two requests are what a late POST
needs to hit the wrong one, and two threads what two POSTs need to race. Two
executions race for the slot, on one task or two, and one step suffices to tell a
complete step set from a partial one. Two days of two hours have a rollover of each
kind, and pruning reaches a row of the day before. Three runs of two tasks let the
second read what the first taught while the third's reflection works on a copy older
than both, and four bullets with three types are one too few for what two tasks
teach, so refinement evicts. Two graphs are one that was saved and one still being
saved, or two to choose from; the second user's is what the matcher must not see. A
run of three steps has a failed one between two that worked. Six steps with two
turns kept trim the conversation several times, before and after a retry and a
fragment. Two tabs are one that takes the finished snapshot away and one that finds
it gone.

`MaxFailures`, `MaxStarts`, `MaxHour`, `MaxRequests`, `MaxStored`,
`ExecutionLifecycle!MaxSteps` and `crashed` bound what the code does not bound;
`AgentRun!MaxSteps`, `MaxRetries` and the caps are the code's own parameters.
`MaxRuns` and `Workers` of `AceMemory`, `MaxOpens` of `RunPage` and the finite
`Traces`, `Replies`, `GeminiCalls`, `AgentCalls` do the same for what users and
models may do; `MaxBullets`, `TopK`, `Keep`, `GraphLimit`, `TtlDays` are the code's
own parameters, made small, and so is `MaxHops`, the depth of a chain. Threads and runs
are interchangeable; the symmetry is used in runs without liveness properties only.

Deadlock is not checked where the system may really stop: no more requests in
`ApprovalQueue`, all executions over in `ExecutionLifecycle`, all runs stopped in
`CostLedger`, all runs and reflections over in `AceMemory`, the tabs at rest in
`RunPage`. `AgentRun` and `CuClients` stutter explicitly when they have ended, and
check it.

Fairness. `AgentRun`: weak fairness of the agent's own steps, since its thread runs
on and each of its awaits returns or raises (Playwright and the clients have
timeouts); none of the user's answer. `ApprovalQueue`: weak fairness of the loop's
ready callbacks and of a POST once received; none of polling, clicking or asking.
`ExecutionLifecycle`: weak fairness of each thread, and of the user's answer where
one is possible, strong fairness of the end of a run, because a run takes finitely
many steps and asks finitely often (`EndsOrAwaitsUser` shows it). `RunPage`: weak fairness
of the hook's poll, a loop without a way to stall, and of each card's poll, which
the page repeats every two seconds; none of the timer, of clicks or of the run.

## What is proved

For all values of the constants that satisfy the modules' assumptions, by TLAPS.
Each proof finds an inductive invariant, the property strengthened by what the code
relies on without saying so; those formulas are named in the proof modules.

`AgentRunProofs`:

- `TypeCorrect`: `Spec => []TypeOK`. The invariant is `TypeInv`.
- `HighRiskConsent`: `HighRiskIsAsked` speaks of what is recorded; `GateInv` adds
  what must hold of the action in flight between its classification and its record:
  at `act` and `record` a HIGH action that is not the navigation was asked.
- `SpendingBounded`, `RecordedBounded`: `SpendingInv` relates `billed` to `total`
  place by place: equal outside an attempt, apart by the price of the call between
  the call and its record, and a run whose last call was dropped is on its way out.
  The preflight then bounds the one dropped call by its price less the estimate.
- `CompletionFinal`: a run that has a reason stands at `stopping` or has ended.
- `AuditUpToDate`: `AuditInv` names the one window in which the audit is a step
  behind: from the record to its entry, or to the way out when the progress callback
  or the audit sink raises in between.
- `SuccessEarned`: `RecordInv` says that what a routine looks at after the record is
  the last entry of the history, `ReplayInv` that a template still being replayed
  has not failed yet.
- `IndexesAreRetried`: `IndexInv` says where an index is fresh (`Fresh`: above all
  recorded) and where only failed attempts of the same step bear it (`Retried`), and
  how each routine numbers its steps: stored actions by their place in the history,
  the loop by its counter.

`ApprovalQueueProofs`, for any number of threads and requests:

- `TypeCorrect`, `VerdictWasPosted`, `NoBankedDecision`, from `QueueInv`. `SlotInv`
  ties the slot to the agent's place; `PostInv` says what a POST knows between two of
  its steps: the request it holds was made, whichever is parked by now; `DecisionInv`
  that a decision was posted to its own request and a woken request has one.
- `QueueImplementsGate`: `Spec => ImplementsApproval`. `Park` is `Ask`, the `Resume`
  of a request is `Answer`, by the verdict of `VerdictWasPosted`; everything else
  leaves `current` and `outcome` alone and stutters.

`ExecutionLifecycleProofs`, from `LifecycleInv` (with `StepsAssumption` and
`NoneAssumption`):

- `OneLiveRun`: `SlotInv` adds that two rows never run, which the insert's own
  condition gives; the rest is that no handler of another execution writes the row.
- `CompleteRowsAreTrue`: needs `ThreadInv`, that a row is finalized after its steps
  were flushed and never by the failure handler once it has ended.
- `DeletionIsFinal`, `OutcomeWrittenOnce`: from the same, with `RequestInv`, that a
  request has no rows before its insert.

`CostLedgerProofs`, for any number of places, any caps and any clock:

- `CentsAccounted`: with `AccountInv`, that only a run between its call and its
  charge has a price open. A sum of rows is defined as the number of their cents
  (`sum`, `cents`), because a fold could not be reasoned about: `GrownSum`,
  `PrunedSum` and `EmptySum` are what a charge and pruning do to it.
- `BudgetKept`: a row of the current day is never old enough to be pruned
  (`Pruned`), which needs that a day is no longer than the retention
  (`ClockAssumption`).
- `OvershootBounded`: the bound alone is not inductive, since a charge raises the
  total with nothing to show for it. `OvershootInv` gives each total only as much
  room as the places that wait and the queries that failed account for (`slack`): a
  preflight that passes resets it, a charge makes its own place wait again.

`CuClientsProofs`, for any limits of steps, kept turns and retries:

- `RequestsShowThePage`: `ClientInv` says where the runner's screenshot is fresh and
  that a trimmed conversation has room for the reply.
- `RequestsStayReadable`, for `Keep > 0`: `ConversationInv` says that the
  conversation is a seed and then pairs, with the reply's call still open between
  two requests. With `Keep = 0` it is false of the code, whose slice `[-0:]` keeps
  everything behind a second seed; the hypothesis is needed.

`RunPageProofs`, for any number of tabs, both backends:

- `ConsentBeforeStart`: from `ConsentInv`, that the node bears the last answer
  delivered.
- `TabsReadTheOutcome`: `RowInv` says that the end is announced after the row was
  finalized, `SnapshotInv` that a finished snapshot tells the row's outcome and no
  unfinished one follows it.

`ProcedureStoreProofs`, for any number of runs, users and procedures, any site and any
reply of the decomposer (`SiteAssumption`: pages and actions lead somewhere;
`ReplyAssumption`: replies are finite; `DepthAssumption`: a run is no longer than the
chain a reader follows; `StoreAssumption`: procedures are numbered from
1, which is the order in which the rows are created). The inductive invariant is `Inv`:

- `GraphInv`: a stored graph holds the first steps of the chain it was given, and
  every edge and its start once its save is over.
- `RunsOk`: how far a save has come is what its graph holds (`SaveOk`); rows that a
  run has read are of its user and still there as long as the lease that reading them
  gave (`LeaseOk`); the history is bounded and follows the replayed prefix (`PlayOk`);
  prefix and plan are owned and reported safe (`EarnedOk`).
- `OwnInv`: no two runs save the same graph. Without it a step of one save could undo
  `SaveOk` of another.

`TypeCorrect`, `LoadedWhole` and `ReplayEarned` follow from it. `LoadedWhole` needs
that a chain followed node by node, to that depth, is the whole of a complete graph
(`ChainIsWhole`);
`ReplayEarned` that the longest common prefix is a prefix of the plan and of one of the
chains, no longer than what is reported safe. These lemmas use the least number principle
(`Least`, `Greatest`) on sets where a recursive definition would need an induction.

`AceMemoryProofs`, for any traces, replies, likeness of texts, number of reflections and
size of the memory (`TraceAssumption`: a history is a finite, nonempty sequence of steps,
and an index a number; `TextAssumption`: a reply is a sequence, and the likeness of a task
to what a bullet may say a number; `MemoryAssumption`: the limits are positive). The
inductive invariant is `Inv`:

- `StoreInv`: every bullet has an id below the next one and says what a bullet may say;
  one that says a step is procedural, and the step was taught; nothing taught is a secret;
  removed ids are below the next one and not stored.
- `RunOk`: the same of the run's copy; each fragment repeats a taught step that is at
  least 0.86 like the task, and each action of the plan a taught step.
- `WorkersInv`: the same of each reflection's copy; the state it is about says, step by
  step, what was taught.
- `AgreeInv`: where a reflection's copy and the database have the same bullet, they agree
  on its type, although both are written between the load and the refinement.

`TypeCorrect`, `LearnedDone` and `RemovedForever` follow from it: the gate, the curator
and a failed delta only leave lessons out (`Taught`, `Curated`, `FirstLessons`), a patch
changes no content (`PatchedBullet`), and an update never brings a row back
(`UpdatedMemory`). `ReplayShadows` is about the step into the loop: were a fragment's
bullet retrieved again and nothing procedural but steps, its topic would have 0.86 at
least (`AllPercents`), the best topic no less (`Leader`), and a bullet for the plan
(`Chosen`, `PlanExists`). So that these could be proved, a selection is defined by the
places it keeps (`those`), an order by how many come before (`sorted`), and the score of a
topic as a number of percents (`percents`): none needs an induction.

`RefineFair` has a hypothesis on the size, `SizeOk`: `MaxBullets` is not 1, 2, 3 or 6. At
these the rounded quotas of two types are the whole memory (`quota`; 6 has 4, 2 and 1),
so that the third may be left with nothing, in the code as in the model; the code runs
with 100, and `Quotas` shows that no other size has this. Among the bullets in their order
(`Ranking`), `Turns` shows `KeptOk` after each turn: no more than `MaxBullets` and no more
than its quota of any type, and something of the type of every bullet that had a turn. A
bullet is refused because it is like a kept one of its type, its type's quota is used up,
or the memory is full; when nothing of its type is kept, the last is left, and the two
other types have no quotas for it (`ByType`). `refine` is a recursive function of the
number of turns (`greedy`), whose equation is proved from the least number for which
there is none (`Greedy`).

Only model-checked. Liveness (`EndsOrAwaitsUser`, `DecisionArrives`,
`SlotIsReleased`, `AnswerReleases`, `EndReachesTabs`), which needs fairness. What the
quality gate adds up is a fold (`total`); the proofs need only that it passes all or
nothing.

## What else the models show

Behaviours that are in the models, that no property forbids and that a reader of the
code may not expect:

- A `risk:high` tag of a replayed bullet asks for an approval that the gate then
  grants by itself, because the risk is classified anew (`TakeStored`,
  `GateAutoApproves`); a fragment's tag is kept.
- A preview hook that raises lets the run start (`HookFails`), an approval that
  nobody answers holds a run for ever (`parked`), and an hourly cap of 0 beside a
  daily cap stops a run at its first charge (`exceeded`).
- After a preview timeout the node stays pending: the modal stays up, and a click is
  answered as delivered. The timer around the hook starts first, so the hook's own
  never ends the wait. A cancellation after the hook read the approval is also
  answered as delivered.
- When the last publish fails, the cards go on polling (`AnnounceFails`) until the
  snapshot is swept.
- A found fragment implies a whole replay (`ReplayShadowsFragments`), because 0.80 for a
  fragment takes a likeness of 0.86 and 0.85 are enough for a template. Off its domain a
  fragment scores at most 0.7999, and a high-risk one 0.75. Two things let fragments into
  the loop: between the two retrievals of a run, the touching of what was retrieved (and
  the clock of the second) may push the bullet out of the best `TopK`; and procedural
  lessons of an LLM name no action but count for the score of their topic, so that a
  topic of nothing but advice may win and leave no plan.
- The curator sets `helpful_count` to the count of the batch, where its docstring
  adds one to it (`patchOf`); a failed step of a verified run teaches nothing, but is
  part of the procedure graph that is saved.
- With a memory of 1, 2, 3 or 6 bullets a refinement may evict a whole type, which the
  docstring of `refine` says its quotas prevent (see `RefineFair`).
- Two refinements that overlap may empty a memory type together (`RefineIsFair`
  speaks of one); a run that replays a prefix saves a graph of its own each time.
- Decomposed plans carry no coordinates, so a stored click or typing at a point is
  never matched by one; what is matched are navigations, keys, waits and the like.
- Anything Gemini or browser-use says that the adapters do not understand becomes a
  FINISH or a wait, and a FINISH counts as success (`typeOf`, `AgentStepFailed`). Only
  a browser-use step that cannot be read at all, because it is translated outside the
  `try`, ends the run with an error (`AgentStepUnreadable`).
- With `historyKeepTurns = 0` the slice `[-0:]` keeps the whole conversation and
  repeats the seed.

## Not modelled

`PROJECT.json` lists every part with its reason. Text (risk keywords, prompts,
summaries, redaction), pictures (CAPTCHA, injection, screenshots) and numbers of
embeddings are choices, constants or left out. `_handlePlanDrift` asks the user again
when a fragment's page is not the expected one, but no fragment carries an expected
page, so the loop never gets past its first return and neither does the model. The
strategy planner is written by every run and read by none. In the memory: seed
bullets, facets (no caller passes them), the sweep script (its access clock starts at
0, so no bullet has decayed), template rows. In the procedures: `deleteGraphsForUser`
and `loadGraphsByTopic`, which nothing calls. In the clients: prompts, prices, and
what browser-use does to the browser inside its own step. The Redis progress backend
behaves as the in-memory one with an expiry of a day and is not a case of its own.
Accounts, sessions, dashboards, evaluation and demonstration sites are framework
configuration, read-only pages and tooling.

## Plan

1. Done: `AgentRun`, `AgentRunProofs`, `Approval`, `ApprovalQueue`,
   `ExecutionLifecycle`, `CostLedger`; `Lessons`, `Bullets`, `AceMemory`;
   `ActionGraph`, `ProcedureStore`; `CuClients`; `RunPage`.
2. Done: the safety properties of every module, in a proof module for each.
3. Left: nothing that is checked as a safety property is without a theorem. A further
   theorem would say what the recursive operators compute (`total`), which needs an
   induction over data; the liveness properties stay with TLC.
