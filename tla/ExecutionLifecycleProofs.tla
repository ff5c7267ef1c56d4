---------------------- MODULE ExecutionLifecycleProofs ----------------------
(***************************************************************************)
(* Theorems about ExecutionLifecycle, for every set of executions and of   *)
(* tasks and every length of the runs.                                     *)
(***************************************************************************)
EXTENDS ExecutionLifecycle, TLAPS

\* A request has no row before its insert, and a task from the start.
RequestInv ==
  \A e \in Executions :
    /\ worker[e] \in {"idle", "asked", "free"} => row[e] = "absent" /\ steps[e] = {}
    /\ worker[e] # "idle" => owner[e] \in Tasks

\* The slot: two rows never run, and the row of a run that is driven or being
\* persisted runs, or went with its task.
SlotInv ==
  /\ \A e, f \in Executions : isRunning(e) /\ isRunning(f) => e = f
  /\ \A e \in Executions : working(e) => isRunning(e) \/ task[owner[e]] = "deleted"

\* What a thread knows where it stands: it publishes a step it has made, it
\* finalizes a row whose steps were flushed, and its failure handler touches no
\* row that has ended.
ThreadInv ==
  \A e \in Executions :
    /\ worker[e] \in {"publishing", "saving"} => made[e] >= 1
    /\ worker[e] = "finalizing" => row[e] = "absent" \/ steps[e] = 1 .. made[e]
    /\ worker[e] = "failFinalize" => row[e] \in {"running", "absent"}

\* The inductive invariant.
LifecycleInv ==
  TypeOK /\ RequestInv /\ SlotInv /\ ThreadInv /\ NothingOutlivesItsTask /\ CompleteIsTrue

-----------------------------------------------------------------------------
\* The row of a run that is driven or being persisted has not ended.
LEMMA DrivenRowsAreOpen ==
  LifecycleInv => \A e \in Executions : working(e) => row[e] \in {"running", "absent"}
  BY NoneAssumption
  DEF LifecycleInv, TypeOK, RequestInv, SlotInv, NothingOutlivesItsTask, NoneAssumption,
      working, isRunning, Driving, Persisting

\* The six parts hold together in every reachable state.
LEMMA LifecycleInvariant == Spec => []LifecycleInv
<1> USE StepsAssumption, NoneAssumption
    DEF StepsAssumption, NoneAssumption, Starting, Driving, Persisting, Reporting, Failing,
        Over, Places, goto, isRunning, someoneRuns, working
<1>1. Init => LifecycleInv
  <2> SUFFICES ASSUME Init PROVE LifecycleInv
    OBVIOUS
  <2>1. earned \in [Executions -> BOOLEAN] /\ crashed \in BOOLEAN
    BY Zenon DEF Init
  <2>2. TypeOK
    BY <2>1 DEF Init, TypeOK
  <2> QED
    BY <2>2 DEF Init, LifecycleInv, RequestInv, SlotInv, ThreadInv, NothingOutlivesItsTask,
                CompleteIsTrue
<1>2. LifecycleInv /\ [Next]_vars => LifecycleInv'
  <2> SUFFICES ASSUME LifecycleInv, [Next]_vars PROVE LifecycleInv'
    OBVIOUS
  <2> USE DEF LifecycleInv
  <2>1. ASSUME NEW e \in Executions, RequestRun(e)
        PROVE  LifecycleInv'
    <3>1. TypeOK'
      BY <2>1 DEF RequestRun, TypeOK, ThreadInv
    <3>2. RequestInv'
      BY <2>1 DEF RequestRun, TypeOK, RequestInv
    <3>3. SlotInv'
      BY <2>1 DEF RequestRun, TypeOK, RequestInv, SlotInv
    <3>4. ThreadInv'
      BY <2>1 DEF RequestRun, TypeOK, RequestInv, SlotInv, ThreadInv,
                NothingOutlivesItsTask
    <3>5. NothingOutlivesItsTask'
      BY <2>1 DEF RequestRun, TypeOK, RequestInv, NothingOutlivesItsTask
    <3>6. CompleteIsTrue'
      BY <2>1 DEF RequestRun, TypeOK, RequestInv, SlotInv, ThreadInv,
                NothingOutlivesItsTask, CompleteIsTrue
    <3> QED
      BY <3>1, <3>2, <3>3, <3>4, <3>5, <3>6
  <2>2. ASSUME NEW e \in Executions, FindActiveExecution(e)
        PROVE  LifecycleInv'
    <3>1. TypeOK'
      BY <2>2 DEF FindActiveExecution, TypeOK, ThreadInv
    <3>2. RequestInv'
      BY <2>2 DEF FindActiveExecution, TypeOK, RequestInv
    <3>3. SlotInv'
      BY <2>2 DEF FindActiveExecution, TypeOK, RequestInv, SlotInv
    <3>4. ThreadInv'
      BY <2>2 DEF FindActiveExecution, TypeOK, RequestInv, SlotInv, ThreadInv,
                NothingOutlivesItsTask
    <3>5. NothingOutlivesItsTask'
      BY <2>2 DEF FindActiveExecution, TypeOK, RequestInv, NothingOutlivesItsTask
    <3>6. CompleteIsTrue'
      BY <2>2 DEF FindActiveExecution, TypeOK, RequestInv, SlotInv, ThreadInv,
                NothingOutlivesItsTask, CompleteIsTrue
    <3> QED
      BY <3>1, <3>2, <3>3, <3>4, <3>5, <3>6
  <2>3. ASSUME NEW e \in Executions, CreateExecution(e)
        PROVE  LifecycleInv'
    <3>1. TypeOK'
      BY <2>3 DEF CreateExecution, TypeOK, ThreadInv
    <3>2. RequestInv'
      BY <2>3 DEF CreateExecution, TypeOK, RequestInv
    <3>3. SlotInv'
      BY <2>3 DEF CreateExecution, TypeOK, RequestInv, SlotInv
    <3>4. ThreadInv'
      BY <2>3 DEF CreateExecution, TypeOK, RequestInv, SlotInv, ThreadInv,
                NothingOutlivesItsTask
    <3>5. NothingOutlivesItsTask'
      BY <2>3 DEF CreateExecution, TypeOK, RequestInv, NothingOutlivesItsTask
    <3>6. CompleteIsTrue'
      BY <2>3 DEF CreateExecution, TypeOK, RequestInv, SlotInv, ThreadInv,
                NothingOutlivesItsTask, CompleteIsTrue
    <3> QED
      BY <3>1, <3>2, <3>3, <3>4, <3>5, <3>6
  <2>4. ASSUME NEW e \in Executions, MakeStep(e)
        PROVE  LifecycleInv'
    BY <2>4 DEF MakeStep, TypeOK, RequestInv, SlotInv, ThreadInv,
              NothingOutlivesItsTask, CompleteIsTrue
  <2>5. ASSUME NEW e \in Executions, PublishStep(e)
        PROVE  LifecycleInv'
    BY <2>5 DEF PublishStep, publish, TypeOK, RequestInv, SlotInv, ThreadInv,
              NothingOutlivesItsTask, CompleteIsTrue
  <2>6. ASSUME NEW e \in Executions, SaveStep(e)
        PROVE  LifecycleInv'
    <3>1. TypeOK'
      <4>1. made[e] \in 1 .. MaxSteps
        BY <2>6 DEF SaveStep, TypeOK, ThreadInv
      <4>2. steps' \in [Executions -> SUBSET (1 .. MaxSteps)]
        BY <2>6, <4>1 DEF SaveStep, TypeOK
      <4>3. worker' \in [Executions -> Places]
        BY <2>6 DEF SaveStep, TypeOK
      <4>4. UNCHANGED <<task, row, owner, made, earned, snapshot, crashed>>
        BY <2>6 DEF SaveStep
      <4> QED
        BY <4>2, <4>3, <4>4 DEF TypeOK
    <3>2. RequestInv'
      BY <2>6 DEF SaveStep, TypeOK, RequestInv
    <3>3. SlotInv'
      BY <2>6 DEF SaveStep, TypeOK, RequestInv, SlotInv
    <3>4. ThreadInv'
      BY <2>6 DEF SaveStep, TypeOK, RequestInv, SlotInv, ThreadInv,
                NothingOutlivesItsTask
    <3>5. NothingOutlivesItsTask'
      BY <2>6 DEF SaveStep, TypeOK, RequestInv, NothingOutlivesItsTask
    <3>6. CompleteIsTrue'
      BY <2>6 DEF SaveStep, TypeOK, RequestInv, SlotInv, ThreadInv,
                NothingOutlivesItsTask, CompleteIsTrue
    <3> QED
      BY <3>1, <3>2, <3>3, <3>4, <3>5, <3>6
  <2>7. ASSUME NEW e \in Executions, AskUser(e)
        PROVE  LifecycleInv'
    BY <2>7 DEF AskUser, TypeOK, RequestInv, SlotInv, ThreadInv,
              NothingOutlivesItsTask, CompleteIsTrue
  <2>8. ASSUME NEW e \in Executions, EndRun(e)
        PROVE  LifecycleInv'
    <3>1. TypeOK'
      BY <2>8 DEF EndRun, TypeOK, ThreadInv
    <3>2. RequestInv'
      BY <2>8 DEF EndRun, TypeOK, RequestInv
    <3>3. SlotInv'
      BY <2>8 DEF EndRun, TypeOK, RequestInv, SlotInv
    <3>4. ThreadInv'
      BY <2>8 DEF EndRun, TypeOK, RequestInv, SlotInv, ThreadInv,
                NothingOutlivesItsTask
    <3>5. NothingOutlivesItsTask'
      BY <2>8 DEF EndRun, TypeOK, RequestInv, NothingOutlivesItsTask
    <3>6. CompleteIsTrue'
      BY <2>8 DEF EndRun, TypeOK, RequestInv, SlotInv, ThreadInv,
                NothingOutlivesItsTask, CompleteIsTrue
    <3> QED
      BY <3>1, <3>2, <3>3, <3>4, <3>5, <3>6
  <2>9. ASSUME NEW e \in Executions, RunRaises(e)
        PROVE  LifecycleInv'
    BY <2>9 DEF RunRaises, TypeOK, RequestInv, SlotInv, ThreadInv,
              NothingOutlivesItsTask, CompleteIsTrue
  <2>10. ASSUME NEW e \in Executions, AnswerUser(e)
         PROVE  LifecycleInv'
    BY <2>10 DEF AnswerUser, TypeOK, RequestInv, SlotInv, ThreadInv,
              NothingOutlivesItsTask, CompleteIsTrue
  <2>11. ASSUME NEW e \in Executions, EnsureRow(e)
         PROVE  LifecycleInv'
    <3>1. TypeOK'
      BY <2>11 DEF EnsureRow, TypeOK, ThreadInv
    <3>2. RequestInv'
      BY <2>11 DEF EnsureRow, TypeOK, RequestInv
    <3>3. SlotInv'
      BY <2>11 DEF EnsureRow, TypeOK, RequestInv, SlotInv
    <3>4. ThreadInv'
      BY <2>11 DEF EnsureRow, TypeOK, RequestInv, SlotInv, ThreadInv,
                NothingOutlivesItsTask
    <3>5. NothingOutlivesItsTask'
      BY <2>11 DEF EnsureRow, TypeOK, RequestInv, NothingOutlivesItsTask
    <3>6. CompleteIsTrue'
      BY <2>11 DEF EnsureRow, TypeOK, RequestInv, SlotInv, ThreadInv,
                NothingOutlivesItsTask, CompleteIsTrue
    <3> QED
      BY <3>1, <3>2, <3>3, <3>4, <3>5, <3>6
  <2>12. ASSUME NEW e \in Executions, FlushSteps(e)
         PROVE  LifecycleInv'
    <3>1. \A n \in 0 .. made[e] : 1 .. n \in SUBSET (1 .. MaxSteps)
      BY DEF TypeOK
    <3>2. made[e] \in 0 .. made[e] /\ steps[e] \in SUBSET (1 .. MaxSteps)
      BY DEF TypeOK
    <3>3. PICK kept \in SUBSET (1 .. MaxSteps) :
            /\ steps' = [steps EXCEPT ![e] = kept]
            /\ row[e] = "absent" => kept = {}
            /\ \/ kept = (IF row[e] = "absent" THEN {} ELSE 1 .. made[e]) /\ goto(e, "finalizing")
               \/ goto(e, "failing")
      <4>1. CASE row[e] = "absent"
        BY <2>12, <4>1 DEF FlushSteps
      <4>2. CASE row[e] # "absent" /\ goto(e, "finalizing")
        <5>1. 1 .. made[e] \in SUBSET (1 .. MaxSteps) /\ steps' = [steps EXCEPT ![e] = 1 .. made[e]]
          BY <2>12, <3>1, <3>2, <4>2 DEF FlushSteps, TypeOK
        <5> QED
          BY <4>2, <5>1
      <4>3. CASE row[e] # "absent" /\ ~goto(e, "finalizing")
        <5>1. PICK n \in 0 .. made[e] : steps' = [steps EXCEPT ![e] = @ \cup 1 .. n]
          BY <2>12, <4>3 DEF FlushSteps
        <5>2. steps[e] \cup 1 .. n \in SUBSET (1 .. MaxSteps)
          BY <3>1, <3>2
        <5> QED
          BY <2>12, <4>3, <5>1, <5>2 DEF FlushSteps
      <4> QED
        BY <4>1, <4>2, <4>3
    <3>4. worker[e] = "flushing" /\ UNCHANGED <<task, row, owner, made, earned, snapshot, crashed>>
      BY <2>12 DEF FlushSteps
    <3>5. row[e] # "complete"
      BY <3>4, DrivenRowsAreOpen
    <3>6. TypeOK'
      <4>1. worker' \in [Executions -> Places] /\ steps' \in [Executions -> SUBSET (1 .. MaxSteps)]
        BY <3>3 DEF TypeOK
      <4> QED
        BY <3>4, <4>1 DEF TypeOK
    <3>7. RequestInv' /\ SlotInv'
      BY <3>3, <3>4 DEF TypeOK, RequestInv, SlotInv
    <3>8. ThreadInv'
      BY <3>3, <3>4 DEF TypeOK, ThreadInv
    <3>9. NothingOutlivesItsTask'
      BY <3>3, <3>4 DEF TypeOK, NothingOutlivesItsTask
    <3>10. CompleteIsTrue'
      BY <3>3, <3>4, <3>5 DEF TypeOK, CompleteIsTrue
    <3> QED
      BY <3>6, <3>7, <3>8, <3>9, <3>10
  <2>13. ASSUME NEW e \in Executions, FinalizeExecution(e)
         PROVE  LifecycleInv'
    <3>1. TypeOK'
      BY <2>13 DEF FinalizeExecution, finalize, outcome, TypeOK, ThreadInv
    <3>2. RequestInv'
      BY <2>13 DEF FinalizeExecution, finalize, outcome, TypeOK, RequestInv
    <3>3. SlotInv'
      BY <2>13 DEF FinalizeExecution, finalize, outcome, TypeOK, RequestInv, SlotInv
    <3>4. ThreadInv'
      BY <2>13 DEF FinalizeExecution, finalize, outcome, TypeOK, RequestInv, SlotInv, ThreadInv,
                NothingOutlivesItsTask
    <3>5. NothingOutlivesItsTask'
      BY <2>13 DEF FinalizeExecution, finalize, outcome, TypeOK, RequestInv, NothingOutlivesItsTask
    <3>6. CompleteIsTrue'
      BY <2>13 DEF FinalizeExecution, finalize, outcome, TypeOK, RequestInv, SlotInv, ThreadInv,
                NothingOutlivesItsTask, CompleteIsTrue
    <3> QED
      BY <3>1, <3>2, <3>3, <3>4, <3>5, <3>6
  <2>14. ASSUME NEW e \in Executions, UpdateTaskStatus(e)
         PROVE  LifecycleInv'
    <3>1. TypeOK'
      BY <2>14 DEF UpdateTaskStatus, updateTaskStatus, taskOutcome, TypeOK, ThreadInv
    <3>2. RequestInv'
      BY <2>14 DEF UpdateTaskStatus, updateTaskStatus, taskOutcome, TypeOK, RequestInv
    <3>3. SlotInv'
      BY <2>14 DEF UpdateTaskStatus, updateTaskStatus, taskOutcome, TypeOK, RequestInv, SlotInv
    <3>4. ThreadInv'
      BY <2>14 DEF UpdateTaskStatus, updateTaskStatus, taskOutcome, TypeOK, RequestInv, SlotInv, ThreadInv,
                NothingOutlivesItsTask
    <3>5. NothingOutlivesItsTask'
      BY <2>14 DEF UpdateTaskStatus, updateTaskStatus, taskOutcome, TypeOK, RequestInv, NothingOutlivesItsTask
    <3>6. CompleteIsTrue'
      BY <2>14 DEF UpdateTaskStatus, updateTaskStatus, taskOutcome, TypeOK, RequestInv, SlotInv, ThreadInv,
                NothingOutlivesItsTask, CompleteIsTrue
    <3> QED
      BY <3>1, <3>2, <3>3, <3>4, <3>5, <3>6
  <2>15. ASSUME NEW e \in Executions, AnnounceEnd(e)
         PROVE  LifecycleInv'
    <3>1. TypeOK'
      <4>1. snapshot' \in [Executions -> {"none", "live", "finished"}]
        BY <2>15 DEF AnnounceEnd, publish, TypeOK
      <4>2. worker' \in [Executions -> Places]
        BY <2>15 DEF AnnounceEnd, TypeOK
      <4>3. UNCHANGED <<task, row, steps, owner, made, earned, crashed>>
        BY <2>15 DEF AnnounceEnd
      <4> QED
        BY <4>1, <4>2, <4>3 DEF TypeOK
    <3>2. RequestInv'
      BY <2>15 DEF AnnounceEnd, publish, TypeOK, RequestInv
    <3>3. SlotInv'
      BY <2>15 DEF AnnounceEnd, publish, TypeOK, RequestInv, SlotInv
    <3>4. ThreadInv'
      BY <2>15 DEF AnnounceEnd, publish, TypeOK, RequestInv, SlotInv, ThreadInv,
                NothingOutlivesItsTask
    <3>5. NothingOutlivesItsTask'
      BY <2>15 DEF AnnounceEnd, publish, TypeOK, RequestInv, NothingOutlivesItsTask
    <3>6. CompleteIsTrue'
      BY <2>15 DEF AnnounceEnd, publish, TypeOK, RequestInv, SlotInv, ThreadInv,
                NothingOutlivesItsTask, CompleteIsTrue
    <3> QED
      BY <3>1, <3>2, <3>3, <3>4, <3>5, <3>6
  <2>16. ASSUME NEW e \in Executions, ReadFailedRow(e)
         PROVE  LifecycleInv'
    <3>1. TypeOK'
      BY <2>16 DEF ReadFailedRow, TypeOK, ThreadInv
    <3>2. RequestInv'
      BY <2>16 DEF ReadFailedRow, TypeOK, RequestInv
    <3>3. SlotInv'
      BY <2>16 DEF ReadFailedRow, TypeOK, RequestInv, SlotInv
    <3>4. ThreadInv'
      BY <2>16 DEF ReadFailedRow, TypeOK, RequestInv, SlotInv, ThreadInv,
                NothingOutlivesItsTask
    <3>5. NothingOutlivesItsTask'
      BY <2>16 DEF ReadFailedRow, TypeOK, RequestInv, NothingOutlivesItsTask
    <3>6. CompleteIsTrue'
      BY <2>16 DEF ReadFailedRow, TypeOK, RequestInv, SlotInv, ThreadInv,
                NothingOutlivesItsTask, CompleteIsTrue
    <3> QED
      BY <3>1, <3>2, <3>3, <3>4, <3>5, <3>6
  <2>17. ASSUME NEW e \in Executions, FailFinalize(e)
         PROVE  LifecycleInv'
    <3>1. TypeOK'
      BY <2>17 DEF FailFinalize, finalize, TypeOK, ThreadInv
    <3>2. RequestInv'
      BY <2>17 DEF FailFinalize, finalize, TypeOK, RequestInv
    <3>3. SlotInv'
      BY <2>17 DEF FailFinalize, finalize, TypeOK, RequestInv, SlotInv
    <3>4. ThreadInv'
      BY <2>17 DEF FailFinalize, finalize, TypeOK, RequestInv, SlotInv, ThreadInv,
                NothingOutlivesItsTask
    <3>5. NothingOutlivesItsTask'
      BY <2>17 DEF FailFinalize, finalize, TypeOK, RequestInv, NothingOutlivesItsTask
    <3>6. CompleteIsTrue'
      BY <2>17 DEF FailFinalize, finalize, TypeOK, RequestInv, SlotInv, ThreadInv,
                NothingOutlivesItsTask, CompleteIsTrue
    <3> QED
      BY <3>1, <3>2, <3>3, <3>4, <3>5, <3>6
  <2>18. ASSUME NEW e \in Executions, FailTask(e)
         PROVE  LifecycleInv'
    <3>1. TypeOK'
      <4>1. task' \in [Tasks -> {"draft", "completed", "failed", "deleted"}]
        BY <2>18 DEF FailTask, updateTaskStatus, TypeOK
      <4>2. worker' \in [Executions -> Places]
        BY <2>18 DEF FailTask, TypeOK
      <4>3. UNCHANGED <<row, steps, owner, made, earned, snapshot, crashed>>
        BY <2>18 DEF FailTask
      <4> QED
        BY <4>1, <4>2, <4>3 DEF TypeOK
    <3>2. RequestInv'
      BY <2>18 DEF FailTask, updateTaskStatus, TypeOK, RequestInv
    <3>3. SlotInv'
      BY <2>18 DEF FailTask, updateTaskStatus, TypeOK, RequestInv, SlotInv
    <3>4. ThreadInv'
      BY <2>18 DEF FailTask, updateTaskStatus, TypeOK, RequestInv, SlotInv, ThreadInv,
                NothingOutlivesItsTask
    <3>5. NothingOutlivesItsTask'
      BY <2>18 DEF FailTask, updateTaskStatus, TypeOK, RequestInv, NothingOutlivesItsTask
    <3>6. CompleteIsTrue'
      BY <2>18 DEF FailTask, updateTaskStatus, TypeOK, RequestInv, SlotInv, ThreadInv,
                NothingOutlivesItsTask, CompleteIsTrue
    <3> QED
      BY <3>1, <3>2, <3>3, <3>4, <3>5, <3>6
  <2>19. ASSUME NEW e \in Executions, FailAnnounce(e)
         PROVE  LifecycleInv'
    <3>1. TypeOK'
      <4>1. snapshot' \in [Executions -> {"none", "live", "finished"}]
        BY <2>19 DEF FailAnnounce, publish, TypeOK
      <4>2. worker' \in [Executions -> Places]
        BY <2>19 DEF FailAnnounce, TypeOK
      <4>3. UNCHANGED <<task, row, steps, owner, made, earned, crashed>>
        BY <2>19 DEF FailAnnounce
      <4> QED
        BY <4>1, <4>2, <4>3 DEF TypeOK
    <3>2. RequestInv'
      BY <2>19 DEF FailAnnounce, publish, TypeOK, RequestInv
    <3>3. SlotInv'
      BY <2>19 DEF FailAnnounce, publish, TypeOK, RequestInv, SlotInv
    <3>4. ThreadInv'
      BY <2>19 DEF FailAnnounce, publish, TypeOK, RequestInv, SlotInv, ThreadInv,
                NothingOutlivesItsTask
    <3>5. NothingOutlivesItsTask'
      BY <2>19 DEF FailAnnounce, publish, TypeOK, RequestInv, NothingOutlivesItsTask
    <3>6. CompleteIsTrue'
      BY <2>19 DEF FailAnnounce, publish, TypeOK, RequestInv, SlotInv, ThreadInv,
                NothingOutlivesItsTask, CompleteIsTrue
    <3> QED
      BY <3>1, <3>2, <3>3, <3>4, <3>5, <3>6
  <2>20. ASSUME NEW e \in Executions, PollStatus(e)
         PROVE  LifecycleInv'
    BY <2>20 DEF PollStatus, TypeOK, RequestInv, SlotInv, ThreadInv,
              NothingOutlivesItsTask, CompleteIsTrue
  <2>21. ASSUME NEW t \in Tasks, DeleteTask(t)
       PROVE  LifecycleInv'
    <3>1. TypeOK' /\ RequestInv'
      BY <2>21 DEF DeleteTask, TypeOK, RequestInv
    <3>2. SlotInv' /\ ThreadInv'
      BY <2>21 DEF DeleteTask, TypeOK, RequestInv, SlotInv, ThreadInv
    <3>3. NothingOutlivesItsTask' /\ CompleteIsTrue'
      BY <2>21 DEF DeleteTask, TypeOK, RequestInv, NothingOutlivesItsTask, CompleteIsTrue
    <3> QED
      BY <3>1, <3>2, <3>3
  <2>22. CASE Crash
    <3>1. TypeOK' /\ RequestInv'
      BY <2>22 DEF Crash, TypeOK, RequestInv
    <3>2. SlotInv' /\ ThreadInv'
      BY <2>22 DEF Crash, TypeOK, RequestInv, SlotInv, ThreadInv
    <3>3. NothingOutlivesItsTask' /\ CompleteIsTrue'
      BY <2>22 DEF Crash, TypeOK, RequestInv, NothingOutlivesItsTask, CompleteIsTrue
    <3> QED
      BY <3>1, <3>2, <3>3
  <2>23. CASE UNCHANGED vars
    <3>1. TypeOK' /\ RequestInv'
      BY <2>23 DEF vars, TypeOK, RequestInv
    <3>2. SlotInv' /\ ThreadInv'
      BY <2>23 DEF vars, TypeOK, RequestInv, SlotInv, ThreadInv
    <3>3. NothingOutlivesItsTask' /\ CompleteIsTrue'
      BY <2>23 DEF vars, TypeOK, RequestInv, NothingOutlivesItsTask, CompleteIsTrue
    <3> QED
      BY <3>1, <3>2, <3>3
  <2> QED
    BY <2>1, <2>2, <2>3, <2>4, <2>5, <2>6, <2>7, <2>8, <2>9, <2>10, <2>11, <2>12, <2>13, <2>14, <2>15, <2>16, <2>17, <2>18, <2>19, <2>20, <2>21, <2>22, <2>23
    DEF Next, WorkerStep
<1> QED
  BY <1>1, <1>2, PTL DEF Spec

-----------------------------------------------------------------------------
\* Rows, snapshots and threads keep their types.
THEOREM TypeCorrect == Spec => []TypeOK
  BY LifecycleInvariant, PTL DEF LifecycleInv

\* The unique constraint on active_user_id holds wherever a run is driven: its row
\* is the only running one of its user, or its task is gone.
THEOREM OneLiveRun == Spec => []LiveRunsOwnTheSlot
<1>1. LifecycleInv => LiveRunsOwnTheSlot
  BY DEF LifecycleInv, SlotInv, LiveRunsOwnTheSlot
<1> QED
  BY <1>1, LifecycleInvariant, PTL

\* An execution that says complete earned it, and all its steps are stored.
THEOREM CompleteRowsAreTrue == Spec => []CompleteIsTrue
  BY LifecycleInvariant, PTL DEF LifecycleInv

\* delete_task leaves nothing behind, whatever the deleted run still writes.
THEOREM DeletionIsFinal == Spec => []NothingOutlivesItsTask
  BY LifecycleInvariant, PTL DEF LifecycleInv

\* Neither persistAgentState, nor the failure handler behind it, nor a run that
\* creates its row again changes the outcome of a row that has one.
THEOREM OutcomeWrittenOnce == Spec => OutcomeIsFinal
<1> DEFINE Kept == \A e \in Executions :
                     row[e] \in {"complete", "failed"} => row'[e] \in {row[e], "absent"}
<1>1. LifecycleInv /\ [Next]_vars => [Kept]_vars
  <2> SUFFICES ASSUME LifecycleInv, Next PROVE Kept
    OBVIOUS
  <2> USE DEF LifecycleInv, TypeOK, goto, working, isRunning, Driving, Persisting
  <2>1. ASSUME NEW e \in Executions, FinalizeExecution(e)
        PROVE  Kept
    <3>1. row[e] \in {"running", "absent"}
      BY <2>1, DrivenRowsAreOpen DEF FinalizeExecution
    <3> QED
      BY <2>1, <3>1 DEF FinalizeExecution, finalize
  <2>2. ASSUME NEW e \in Executions, FailFinalize(e)
        PROVE  Kept
    BY <2>2 DEF FailFinalize, finalize, ThreadInv
  <2>3. ASSUME NEW e \in Executions, CreateExecution(e) \/ EnsureRow(e)
        PROVE  Kept
    BY <2>3 DEF CreateExecution, EnsureRow, RequestInv
  <2>4. ASSUME NEW t \in Tasks, DeleteTask(t)
        PROVE  Kept
    BY <2>4 DEF DeleteTask
  <2>5. CASE UNCHANGED row
    BY <2>5
  <2> QED
    BY <2>1, <2>2, <2>3, <2>4, <2>5
    DEF Next, WorkerStep, RequestRun, FindActiveExecution, MakeStep, PublishStep, SaveStep,
        AskUser, AnswerUser, EndRun, RunRaises, FlushSteps, UpdateTaskStatus, AnnounceEnd,
        ReadFailedRow, FailTask, FailAnnounce, PollStatus, Crash
<1> QED
  BY <1>1, LifecycleInvariant, PTL DEF Spec, OutcomeIsFinal
=============================================================================
