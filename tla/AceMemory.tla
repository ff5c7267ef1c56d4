------------------------------ MODULE AceMemory ------------------------------
(***************************************************************************)
(* The bullets of one user in the database, and everybody who works on a   *)
(* copy of them: the one live run, which reads its replay plans through a  *)
(* memory it loaded when it was built (apps/tasks/runner_factory.py,       *)
(* agent/harness/computer_use_loop.py), and the background reflections     *)
(* that runTaskForUser starts after every success and nobody waits for     *)
(* (apps/tasks/services.py, agent/memory/pipeline.py).  Writes go through  *)
(* apps/memory_app/repo.py, one query per bullet, any of which may fail,   *)
(* before or after its effect.                                             *)
(*                                                                         *)
(* A retrieval, a delta and a refinement are each one step: the queries    *)
(* inside one touch different bullets.  A wholesale replay and a run that  *)
(* fails teach nothing and only reward the planner, which is not modelled. *)
(***************************************************************************)
EXTENDS Bullets

CONSTANTS
  Traces,       \* what the model may do: AgentStates, complete when they succeed
  Workers,      \* bound: reflections that may be under way together
  MaxRuns,      \* bound: runs of the user
  MaxFailures   \* bound: bullet queries that fail

ASSUME TraceAssumption ==
  /\ IsFiniteSet(Workers) /\ MaxRuns \in Nat /\ MaxFailures \in Nat
  /\ \A t \in Traces :
       /\ DOMAIN t = {"task", "site", "history", "complete", "cost"}
       /\ t.complete /\ t.history # <<>> /\ t.history \in Seq(ToSet(t.history))
       /\ \A step \in ToSet(t.history) :
            DOMAIN step = {"index", "act", "value", "ok", "high", "conf"} /\ step.index \in Nat

\* What a bullet may say.
Steps == UNION {ToSet(t.history) : t \in Traces}
StepContents ==
  [kind : {"step"}, index : {step.index : step \in Steps}, act : {step.act : step \in Steps},
   value : {step.value : step \in Steps} \cup {"", "marker"}]
Contents ==
  StepContents
  \cup {summaryContent(t) : t \in Traces} \cup {affinityContent(t) : t \in Traces}
  \cup {[kind |-> "text", say |-> raw.say, words |-> raw.words] : raw \in UNION {ToSet(r) : r \in Replies}}

ASSUME TextAssumption ==
  /\ \A reply \in Replies : reply \in Seq(ToSet(reply))
  /\ \A t \in Traces, content \in Contents : Similarity(Query(t.task), content) \in Nat

VARIABLES
  stored,    \* the user's :MemoryBullet nodes
  nextId,    \* ids are given in order; none is given twice
  run,       \* the live run: phase, trace's task and site, its memory and its plans
  worker,    \* each reflection: phase, the AgentState it is about, its memory
  runs,      \* runs begun
  failures,  \* queries that failed
  taught,    \* what the verified steps of successful runs say
  removed,   \* ids that were deleted
  typed      \* values that replays have typed into pages

vars == <<stored, nextId, run, worker, runs, failures, taught, removed, typed>>

NoMemory == <<>>
NoState == [task |-> "none"]
Idle == [phase |-> "idle", task |-> "none", site |-> "", memory |-> NoMemory, fragments |-> {}, plan |-> <<>>]
Free == [phase |-> "free", state |-> NoState, memory |-> NoMemory]

Init ==
  /\ stored = NoMemory /\ nextId = 1
  /\ run = Idle
  /\ worker = [w \in Workers |-> Free]
  /\ runs = 0 /\ failures = 0
  /\ taught = {} /\ removed = {} /\ typed = {}

Fail == failures < MaxFailures /\ failures' = failures + 1

-----------------------------------------------------------------------------
(* The database.  upsertBullet merges, updateBulletFields and removeBullet *)
(* match: they do nothing to a node that is gone.                          *)

\* The update merges, as the upsert does.
WrongUpdated(db, patches) ==
  LET blank == [content |-> [kind |-> "none"], type |-> "semantic", high |-> FALSE, site |-> "",
                credential |-> FALSE, topic |-> "", helpful |-> 0, strength |-> 2, access |-> 0]
      row(id) == IF id \in DOMAIN db THEN db[id] ELSE blank
  IN  [id \in DOMAIN db \cup DOMAIN patches |->
         IF id \in DOMAIN patches THEN patched(row(id), patches[id]) ELSE db[id]]

\* updateBulletFields for each patch.
updated(db, patches) ==
  [id \in DOMAIN db |-> IF id \in DOMAIN patches THEN patched(db[id], patches[id]) ELSE db[id]]

upserted(db, first, lessons) ==
  [id \in DOMAIN db \cup first .. first + Len(lessons) - 1 |->
     IF id < first THEN db[id] ELSE newBullet(lessons[id - first + 1])]

without(db, ids) == [id \in DOMAIN db \ ids |-> db[id]]

\* applyDelta: the new bullets, then the patches.
applied(db, lessons, patches) == updated(upserted(db, nextId, lessons), patches)

-----------------------------------------------------------------------------
(* The live run *)

\* buildLiveCuRunnerForUser loads the memory both planners share.
Begin ==
  /\ run.phase = "idle" /\ runs < MaxRuns /\ runs' = runs + 1
  /\ \E t \in Traces :
       run' = [Idle EXCEPT !.phase = "fragments", !.task = t.task, !.site = t.site, !.memory = stored]
  /\ UNCHANGED <<stored, nextId, worker, failures, taught, removed, typed>>

\* _touchBullet on the first n of order: the memory of the run first, then the
\* database, from the copy the run has.
touches(order, n, clock) ==
  [id \in {order[i] : i \in 1 .. n} |-> touched(run.memory[id], clock)]
memoryTouched(order, n, clock) == updated(run.memory, touches(order, n, clock))
storedTouched(order, n, clock) == updated(stored, touches(order, n, clock))

\* _resolveFragmentPlan: the first retrieval of the run; a failure costs the plan only.
FindFragments ==
  LET order == retrieved(run.memory, run.task, 1)
  IN  /\ run.phase = "fragments"
      /\ \/ /\ stored' = storedTouched(order, Len(order), 1)
            /\ run' = [run EXCEPT !.phase = "replay", !.memory = memoryTouched(order, Len(order), 1),
                                  !.fragments = fragmentPlan(order, run.memory, run.task, run.site)]
            /\ UNCHANGED failures
         \/ \E n \in 1 .. Len(order) : \E k \in {n - 1, n} :
              /\ Fail
              /\ stored' = storedTouched(order, k, 1)
              /\ run' = [run EXCEPT !.phase = "replay", !.memory = memoryTouched(order, n, 1)]
      /\ UNCHANGED <<nextId, worker, runs, taught, removed, typed>>

\* The preview is refused, or the run ends before it looks for a replay.
Cancel ==
  /\ run.phase = "replay"
  /\ run' = Idle
  /\ UNCHANGED <<stored, nextId, worker, runs, failures, taught, removed, typed>>

\* findReplayPlan: the second retrieval; a failure ends the run.
FindReplay ==
  LET order == retrieved(run.memory, run.task, 2)
      plan == replayPlan(order, run.memory, run.task)
  IN  /\ run.phase = "replay"
      /\ \/ /\ stored' = storedTouched(order, Len(order), 2)
            /\ run' = [run EXCEPT !.phase = IF plan = <<>> THEN "loop" ELSE "replaying", !.plan = plan,
                                  !.memory = NoMemory]
            /\ UNCHANGED failures
         \/ \E k \in 0 .. Len(order) :
              /\ Fail /\ order # <<>>
              /\ stored' = storedTouched(order, k, 2)
              /\ run' = Idle
      /\ UNCHANGED <<nextId, worker, runs, taught, removed, typed>>

\* _executeReplay: as many actions as the user approves and the page takes.
ExecuteReplay ==
  /\ run.phase = "replaying"
  /\ \E n \in 0 .. Len(run.plan) :
       typed' = typed \cup ({run.plan[i].value : i \in {j \in 1 .. n : run.plan[j].act = "type"}} \ {""})
  /\ run' = Idle
  /\ UNCHANGED <<stored, nextId, worker, runs, failures, taught, removed>>

\* _runLoop: after the first step, a fragment stands in for the model at its index
\* unless its value is to come from the model.
executed(t) ==
  LET stands(i) == {f \in run.fragments : i > 1 /\ f.index = t.history[i].index /\ ~f.model}
  IN  [t EXCEPT !.history =
        [i \in DOMAIN t.history |->
           IF stands(i) = {} THEN t.history[i]
           ELSE [t.history[i] EXCEPT !.act = (CHOOSE f \in stands(i) : TRUE).act, !.value = ""]]]

\* agentStateSucceeded guards the reflection, not the run.
WrongRunLoop ==
  /\ run.phase = "loop"
  /\ run' = Idle
  /\ \E t \in {u \in Traces : u.task = run.task /\ u.site = run.site}, succeeds \in BOOLEAN,
        w \in {v \in Workers : worker[v] = Free} :
       /\ worker' = [worker EXCEPT ![w] = [Free EXCEPT !.phase = "load", !.state = executed(t)]]
       /\ taught' = IF succeeds
                    THEN taught \cup {stepContent(s) : s \in ToSet(successfulSteps(executed(t).history))}
                    ELSE taught
  /\ UNCHANGED <<stored, nextId, runs, failures, removed, typed>>

\* The run fails, or succeeds and starts its reflection.
RunLoop ==
  /\ run.phase = "loop"
  /\ run' = Idle
  /\ \/ UNCHANGED <<worker, taught>>
     \/ \E t \in {u \in Traces : u.task = run.task /\ u.site = run.site},
           w \in {v \in Workers : worker[v] = Free} :
          /\ worker' = [worker EXCEPT ![w] = [Free EXCEPT !.phase = "load", !.state = executed(t)]]
          /\ taught' = taught \cup {stepContent(s) : s \in ToSet(successfulSteps(executed(t).history))}
  /\ UNCHANGED <<stored, nextId, runs, failures, removed, typed>>

-----------------------------------------------------------------------------
(* A background reflection.  Whatever it raises ends it, silently.         *)

Load(w) ==
  /\ worker[w].phase = "load"
  /\ worker' = [worker EXCEPT ![w].phase = "reflect", ![w].memory = stored]
  /\ UNCHANGED <<stored, nextId, run, runs, failures, taught, removed, typed>>

Remember(w, phase, memory) ==
  worker' = [worker EXCEPT ![w] = IF phase = "free" THEN Free
                                  ELSE [@ EXCEPT !.phase = phase, !.memory = memory]]

\* processExecution up to applyDelta: the delta goes into the memory, then into the
\* database bullet by bullet, new ones first; a query that fails stops the rest.
Reflect(w) ==
  LET memory == worker[w].memory
      state == worker[w].state
  IN  /\ worker[w].phase = "reflect"
      /\ \E lessons \in reflections(state) :
           LET passed == qualityGate(lessons, state)
               delta == curate(passed, memory)
               known == DOMAIN delta.patch
               n == Len(delta.fresh)
           IN  \/ /\ passed = <<>>
                  /\ Remember(w, "free", NoMemory)
                  /\ UNCHANGED <<stored, nextId, failures>>
               \/ /\ passed # <<>>
                  /\ stored' = applied(stored, delta.fresh, delta.patch)
                  /\ nextId' = nextId + n
                  /\ Remember(w, "refine", applied(memory, delta.fresh, delta.patch))
                  /\ UNCHANGED failures
               \/ /\ passed # <<>> /\ Fail
                  /\ \E m \in 0 .. n, ids \in SUBSET known :
                       /\ n > 0 \/ known # {}
                       /\ m < n => ids = {}
                       /\ stored' = applied(stored, SubSeq(delta.fresh, 1, m), Restrict(delta.patch, ids))
                       /\ nextId' = nextId + m
                  /\ Remember(w, "free", NoMemory)
      /\ UNCHANGED <<run, runs, taught, removed, typed>>

\* memory.refine; the bullets it gives up are deleted one by one.
Refine(w) ==
  LET memory == worker[w].memory
      gone == DOMAIN memory \ refine(memory, 0)
  IN  /\ worker[w].phase = "refine"
      /\ \/ /\ stored' = without(stored, gone) /\ removed' = removed \cup (gone \cap DOMAIN stored)
            /\ UNCHANGED failures
         \/ /\ Fail /\ gone # {}
            /\ \E ids \in SUBSET gone :
                 stored' = without(stored, ids) /\ removed' = removed \cup (ids \cap DOMAIN stored)
      /\ Remember(w, "free", NoMemory)
      /\ UNCHANGED <<nextId, run, runs, taught, typed>>

\* A query fails while the reflection loads, or the model never answers it.
Abandon(w) ==
  /\ worker[w].phase \in {"load", "reflect"}
  /\ Fail
  /\ Remember(w, "free", NoMemory)
  /\ UNCHANGED <<stored, nextId, run, runs, taught, removed, typed>>

Next ==
  \/ Begin \/ FindFragments \/ Cancel \/ FindReplay \/ ExecuteReplay \/ RunLoop
  \/ \E w \in Workers : Load(w) \/ Reflect(w) \/ Refine(w) \/ Abandon(w)

Spec == Init /\ [][Next]_vars

-----------------------------------------------------------------------------
\* The database, the run and the reflections keep their types.
TypeOK ==
  /\ DOMAIN stored \subseteq 1 .. nextId - 1 /\ nextId \in Nat
  /\ \A id \in DOMAIN stored :
       /\ stored[id].type \in MemoryTypes /\ stored[id].strength \in 2 .. 10
       /\ stored[id].helpful \in Nat /\ stored[id].access \in 0 .. 2
  /\ run.phase \in {"idle", "fragments", "replay", "replaying", "loop"}
  /\ \A w \in Workers : worker[w].phase \in {"free", "load", "reflect", "refine"}
  /\ runs \in 0 .. MaxRuns /\ failures \in 0 .. MaxFailures

\* services.py: failed runs avoid teaching bad procedures.  Every step the memory
\* holds, or a plan is about to replay, was verified in a run that succeeded, and no
\* secret is part of it.
LearnedWasDone ==
  LET held == {stored[id].content : id \in DOMAIN stored} \cup {f.from : f \in run.fragments}
                \cup {run.plan[i].from : i \in DOMAIN run.plan}
  IN  \A c \in held : c.kind = "step" => c \in taught /\ c.value # "secret"

\* A bullet that was forgotten stays forgotten, whoever still works on a copy of it.
RemovedStaysRemoved == removed \cap DOMAIN stored = {}

\* ace_memory.py: no memory type evicts every bullet of another.  Of what a reflection
\* knew, its refinement leaves at most MaxBullets, and at least one of each type as
\* long as nobody else has deleted any of it.
Types(db) == {db[id].type : id \in DOMAIN db}
Refined(w) == worker[w].phase = "refine" /\ worker'[w] = Free /\ failures' = failures
RefineIsFair ==
  [][\A w \in Workers : Refined(w) =>
       /\ Cardinality(DOMAIN worker[w].memory \cap DOMAIN stored') <= MaxBullets
       /\ DOMAIN worker[w].memory \subseteq DOMAIN stored => Types(worker[w].memory) \subseteq Types(stored')]_vars

\* With the thresholds of the code, a run that found a fragment replays wholesale, and
\* what it found is not interleaved with the model: unless the second retrieval no longer
\* finds that bullet, or finds advice, which is procedural but names no action.
ReplayShadowsFragments ==
  [][run.phase = "replay" /\ run'.phase = "loop" =>
       LET found == {run.memory[id] : id \in ToSet(retrieved(run.memory, run.task, 2))}
           advice == {b \in found : b.type = "procedural" /\ ~isStep(b)}
       IN  advice # {} \/ \A f \in run.fragments : f.from \notin {b.content : b \in found}]_vars

\* bullet_reconstruct.py: a replay never surfaces the marker of a redacted value.
NoMarkerIsTyped == "marker" \notin typed
=============================================================================
