---------------------------- MODULE RunPageProofs ----------------------------
(***************************************************************************)
(* Theorems about RunPage, for every set of tabs and every bound on steps, *)
(* failures and reloads: a run that starts was approved, and what a tab    *)
(* reads once the end is published is what the row says.                   *)
(***************************************************************************)
EXTENDS RunPage, TLAPS

\* The answer on the node is the last one that was delivered.
ConsentInv == node \in Decisions => decided = node

\* The end is published once the row has been finalized: from then on the row
\* is the outcome, unless the task was deleted.
RowInv ==
  /\ phase \in {"finalize", "announce", "over"} => outcome # None
  /\ phase \in {"announce", "over"} => row \in {outcome, "gone"}
  /\ announced => phase = "over"
  /\ \A t \in Tabs : since[t] => announced

\* A snapshot that says finished is that of the end and tells the outcome; after
\* the end there is no other.
SnapshotInv ==
  /\ snapshot.finished => announced /\ snapshot.completed = (outcome = "complete")
  /\ announced /\ ~snapshot.finished => snapshot = NoSnapshot

\* The inductive invariant.
PageInv == TypeOK /\ ConsentInv /\ RowInv /\ SnapshotInv /\ EndIsShown

-----------------------------------------------------------------------------
\* A card shows one of three words, whatever it is told.
LEMMA PillType ==
  \A s \in [finished : BOOLEAN, completed : BOOLEAN] :
    pillOf(s) \in {"running", "finished", "complete"}
  BY DEF pillOf

\* The absent snapshot, and that of a step, say nothing of the end.
LEMMA NoSnapshotType ==
  /\ NoSnapshot \in [finished : BOOLEAN, completed : BOOLEAN] /\ ~NoSnapshot.finished
  /\ Snapshot(FALSE, FALSE) \in [finished : BOOLEAN, completed : BOOLEAN]
  /\ ~Snapshot(FALSE, FALSE).finished
  BY DEF NoSnapshot, Snapshot

\* What task_status makes of an ended row when the snapshot is gone.
LEMMA FallbackShowsTheEnd ==
  pillOf(fallback) = IF row = "complete" THEN "complete" ELSE "finished"
  BY DEF pillOf, fallback, Snapshot

\* The five parts hold together in every reachable state.
LEMMA PageInvariant == Spec => []PageInv
<1> USE StoreAssumption, BoundAssumption
    DEF StoreAssumption, BoundAssumption, Decisions, None, preview, progress, page
<1>1. Init => PageInv
  <2> SUFFICES ASSUME Init PROVE PageInv
    OBVIOUS
  <2>1. TypeOK
    <3>1. snapshot \in [finished : BOOLEAN, completed : BOOLEAN]
      BY NoSnapshotType DEF Init
    <3>2. modal \in [Tabs -> BOOLEAN] /\ since \in [Tabs -> BOOLEAN]
      BY DEF Init
    <3>3. old \in BOOLEAN /\ announced \in BOOLEAN
      BY DEF Init
    <3> QED
      BY <3>1, <3>2, <3>3 DEF Init, TypeOK
  <2> QED
    BY <2>1, NoSnapshotType DEF Init, PageInv, ConsentInv, RowInv, SnapshotInv, EndIsShown
<1>2. PageInv /\ [Next]_vars => PageInv'
  <2> SUFFICES ASSUME PageInv, [Next]_vars PROVE PageInv'
    OBVIOUS
  <2> USE DEF PageInv, TypeOK
  <2>1. CASE AskPreview
    BY <2>1 DEF AskPreview, ConsentInv, RowInv, SnapshotInv, EndIsShown
  <2>2. CASE ReadDecision
    BY <2>2 DEF ReadDecision, ConsentInv, RowInv, SnapshotInv, EndIsShown
  <2>3. CASE NodeIsGone \/ TimesOut
    BY <2>3 DEF NodeIsGone, TimesOut, ConsentInv, RowInv, SnapshotInv, EndIsShown
  <2>4. CASE HookFails
    BY <2>4 DEF HookFails, ConsentInv, RowInv, SnapshotInv, EndIsShown
  <2>5. CASE PublishStep
    <3>1. snapshot' \in [finished : BOOLEAN, completed : BOOLEAN] /\ ~snapshot'.finished
      BY <2>5, NoSnapshotType DEF PublishStep
    <3>2. old' = FALSE /\ steps' \in 0 .. MaxSteps
      BY <2>5 DEF PublishStep
    <3>3. UNCHANGED <<store, phase, node, decided, outcome, row, announced, modal, post,
                      pill, since, opens, failures>>
      BY <2>5 DEF PublishStep
    <3>4. TypeOK'
      BY <3>1, <3>2, <3>3
    <3> QED
      BY <2>5, <3>1, <3>4 DEF PublishStep, ConsentInv, RowInv, SnapshotInv, EndIsShown
  <2>6. CASE EndRun
    BY <2>6 DEF EndRun, ConsentInv, RowInv, SnapshotInv, EndIsShown
  <2>7. CASE FinalizeRow
    BY <2>7 DEF FinalizeRow, ConsentInv, RowInv, SnapshotInv, EndIsShown
  <2>8. CASE AnnounceEnd
    <3>1. snapshot'.finished /\ snapshot'.completed = (outcome = "complete") /\ TypeOK'
      BY <2>8 DEF AnnounceEnd, Snapshot
    <3>2. \A t \in Tabs : ~since'[t]
      BY <2>8 DEF AnnounceEnd
    <3> QED
      BY <2>8, <3>1, <3>2 DEF AnnounceEnd, ConsentInv, RowInv, SnapshotInv, EndIsShown
  <2>9. CASE AnnounceFails
    BY <2>9 DEF AnnounceFails, ConsentInv, RowInv, SnapshotInv, EndIsShown
  <2>10. CASE Age
    BY <2>10 DEF Age, ConsentInv, RowInv, SnapshotInv, EndIsShown
  <2>11. CASE Sweep
    <3>1. snapshot' = NoSnapshot /\ UNCHANGED <<store, phase, node, decided, outcome, row,
                                               steps, announced, page, failures>>
      BY <2>11 DEF Sweep
    <3>2. snapshot' \in [finished : BOOLEAN, completed : BOOLEAN] /\ ~snapshot'.finished
      BY <3>1, NoSnapshotType
    <3>3. TypeOK'
      BY <2>11, <3>1, <3>2 DEF Sweep
    <3> QED
      BY <3>1, <3>2, <3>3 DEF ConsentInv, RowInv, SnapshotInv, EndIsShown
  <2>12. CASE DeleteTask
    BY <2>12 DEF DeleteTask, ConsentInv, RowInv, SnapshotInv, EndIsShown
  <2>13. CASE DeletePreview
    BY <2>13 DEF DeletePreview, ConsentInv, RowInv, SnapshotInv, EndIsShown
  <2>14. ASSUME NEW t \in Tabs, Open(t)
         PROVE  PageInv'
    BY <2>14 DEF Open, ConsentInv, RowInv, SnapshotInv, EndIsShown
  <2>15. ASSUME NEW t \in Tabs, PollPreview(t)
         PROVE  PageInv'
    BY <2>15 DEF PollPreview, ConsentInv, RowInv, SnapshotInv, EndIsShown
  <2>16. ASSUME NEW t \in Tabs, Click(t)
         PROVE  PageInv'
    BY <2>16 DEF Click, ConsentInv, RowInv, SnapshotInv, EndIsShown
  <2>17. ASSUME NEW t \in Tabs, Decide(t)
         PROVE  PageInv'
    BY <2>17 DEF Decide, ConsentInv, RowInv, SnapshotInv, EndIsShown
  <2>18. ASSUME NEW t \in Tabs, PollStatus(t)
         PROVE  PageInv'
    <3>1. /\ UNCHANGED <<store, phase, node, decided, outcome, row, steps, announced,
                         modal, post, opens, failures>>
          /\ since' = [since EXCEPT ![t] = announced]
      BY <2>18 DEF PollStatus
    <3>2. \/ snapshot' = snapshot /\ old' = old
          \/ snapshot' = NoSnapshot /\ old' = FALSE
      BY <2>18 DEF PollStatus
    <3>3. \/ pill' = pill
          \/ \E s \in [finished : BOOLEAN, completed : BOOLEAN] :
               pill' = [pill EXCEPT ![t] = pillOf(s)]
      BY <2>18 DEF PollStatus, fallback, Snapshot
    <3>4. TypeOK'
      <4>1. snapshot' \in [finished : BOOLEAN, completed : BOOLEAN] /\ old' \in BOOLEAN
        BY <3>2, NoSnapshotType
      <4>2. pill' \in [Tabs -> {"loading", "running", "finished", "complete"}]
        BY <3>3, PillType
      <4>3. since' \in [Tabs -> BOOLEAN]
        BY <3>1
      <4> QED
        BY <3>1, <4>1, <4>2, <4>3
    <3>5. SnapshotInv'
      BY <3>1, <3>2, NoSnapshotType DEF SnapshotInv
    <3>6. EndIsShown'
      <4> SUFFICES ASSUME NEW u \in Tabs, since'[u], row # "gone"
                   PROVE  pill'[u] = IF row = "complete" THEN "complete" ELSE "finished"
        BY <3>1 DEF EndIsShown
      <4>1. CASE u # t
        BY <3>1, <3>3, <4>1 DEF EndIsShown
      <4>2. CASE u = t /\ snapshot = NoSnapshot
        BY <2>18, <4>2, FallbackShowsTheEnd DEF PollStatus
      <4>3. CASE u = t /\ snapshot # NoSnapshot
        <5>1. announced /\ snapshot.finished /\ row = outcome
          BY <3>1, <4>3 DEF RowInv, SnapshotInv
        <5>2. pill'[t] = pillOf(snapshot)
          BY <2>18, <4>3 DEF PollStatus
        <5> QED
          BY <4>3, <5>1, <5>2 DEF SnapshotInv, pillOf
      <4> QED
        BY <4>1, <4>2, <4>3
    <3> QED
      BY <3>1, <3>4, <3>5, <3>6 DEF ConsentInv, RowInv
  <2>19. CASE UNCHANGED vars
    BY <2>19 DEF vars, ConsentInv, RowInv, SnapshotInv, EndIsShown
  <2> QED
    BY <2>1, <2>2, <2>3, <2>4, <2>5, <2>6, <2>7, <2>8, <2>9, <2>10, <2>11, <2>12,
       <2>13, <2>14, <2>15, <2>16, <2>17, <2>18, <2>19
    DEF Next, Run, Page
<1> QED
  BY <1>1, <1>2, PTL DEF Spec

-----------------------------------------------------------------------------
\* The preview, the snapshot, the row and the tabs keep their types.
THEOREM TypeCorrect == Spec => []TypeOK
  BY PageInvariant, PTL DEF PageInv

\* After the end is published every tab that asks reads the row's outcome, from
\* the snapshot or, when another tab or a sweep took it away, from the row.
THEOREM TabsReadTheOutcome == Spec => []EndIsShown
  BY PageInvariant, PTL DEF PageInv

\* _runPreviewAndAwaitApproval lets a run start only on an approval that no later
\* decision took back, or because a query of the hook failed.
THEOREM ConsentBeforeStart == Spec => StartNeedsApproval
<1> DEFINE Start == phase # "going" /\ phase' = "going" /\ failures' = failures
<1>1. PageInv /\ [Next]_vars => [Start => decided = "approved"]_vars
  <2> SUFFICES ASSUME PageInv, Next, Start PROVE decided = "approved"
    OBVIOUS
  <2>1. ~HookFails
    BY BoundAssumption DEF HookFails, PageInv, TypeOK, BoundAssumption
  <2>2. CASE ReadDecision
    BY <2>2 DEF ReadDecision, PageInv, ConsentInv
  <2> QED
    BY <2>1, <2>2
    DEF Next, Run, Page, AskPreview, NodeIsGone, TimesOut, PublishStep, EndRun, FinalizeRow,
        AnnounceEnd, AnnounceFails, Age, Sweep, DeleteTask, DeletePreview, Open,
        PollPreview, Click, Decide, PollStatus
<1> QED
  BY <1>1, PageInvariant, PTL DEF Spec, StartNeedsApproval
=============================================================================
