--------------------------- MODULE AgentRunProofs ---------------------------
(***************************************************************************)
(* Theorems about AgentRun, for every number of steps and retries, every   *)
(* length of the stored procedures, every cap and every price of a call.   *)
(***************************************************************************)
EXTENDS AgentRun, TLAPS

\* The placeholder for "no action in flight" is itself a step record.
LEMMA NoStepType == NoStep \in Step /\ NoStep.origin = "model"
  BY DEF NoStep, Step, Origins, Risks

\* TypeOK, and what makes it inductive: stored actions are only replayed once a
\* template or a prefix was chosen, and they carry its name as their origin.
TypeInv ==
  /\ TypeOK
  /\ pc = "stored" => plan # "none"
  /\ cur.origin \in {"replay", "graph"} => plan = cur.origin
  /\ pc \in {"preview", "start", "plan"} => cur.origin = "model"

LEMMA TypeInvariant == Spec => []TypeInv
<1> USE StepsAssumption, RetriesAssumption, StoredAssumption, MoneyAssumption
    DEF StepsAssumption, RetriesAssumption, StoredAssumption, MoneyAssumption
<1>1. Init => TypeInv
  <2>1. ASSUME Init PROVE TypeOK
    <3>1. history = <<>> /\ left = 0 /\ attempts = 0
      BY <2>1 DEF Init
    <3>2. history \in Seq(Step) /\ left \in 0 .. MaxStored /\ attempts \in 0 .. MaxRetries
      BY <3>1
    <3>3. cur \in Step /\ reason \in Reasons /\ pc \in Places
      BY <2>1, NoStepType DEF Init, Reasons, Places
    <3> QED
      BY <2>1, <3>2, <3>3 DEF Init, TypeOK
  <2>2. ASSUME Init PROVE pc = "preview" /\ cur.origin = "model"
    BY <2>2, NoStepType DEF Init
  <2> QED
    BY <2>1, <2>2 DEF TypeInv
<1>2. TypeInv /\ [Next]_vars => TypeInv'
  <2> SUFFICES ASSUME TypeInv, [Next]_vars PROVE TypeInv'
    OBVIOUS
  <2> USE DEF TypeInv, TypeOK, Places, Terminal
  <2>1. CASE PreviewProceeds
    BY <2>1 DEF PreviewProceeds
  <2>2. CASE PreviewStops
    BY <2>2 DEF PreviewStops, Reasons
  <2>3. CASE StartBrowser \/ StartRaises
    BY <2>3 DEF StartBrowser, StartRaises
  <2>4. CASE ChoosePlan
    BY <2>4 DEF ChoosePlan
  <2>5. CASE StoredExhausted
    BY <2>5 DEF StoredExhausted, complete, Reasons, SuccessReasons
  <2>6. CASE PrefixNodeDropped
    BY <2>6 DEF PrefixNodeDropped
  <2>7. CASE TakeStored
    <3>1. PICK risk \in Risks, tagged \in BOOLEAN :
            cur' = [NoStep EXCEPT !.origin = plan, !.index = stepCount,
                                  !.risk = risk, !.tagged = tagged]
      BY <2>7 DEF TakeStored
    <3>2. plan \in Origins /\ stepCount \in Nat
      BY <2>7 DEF TakeStored, Origins, stepCount
    <3>3. cur' \in Step /\ cur'.origin = plan
      BY <3>1, <3>2, NoStepType DEF Step
    <3>4. pc' \in {"gate", "act"} /\ left' \in 0 .. MaxStored
      BY <2>7 DEF TakeStored
    <3> QED
      BY <2>7, <3>3, <3>4 DEF TakeStored
  <2>8. CASE Navigate
    <3>1. stepCount \in Nat
      BY DEF stepCount
    <3>2. cur' \in Step /\ cur'.origin = "navigation"
      BY <2>8, <3>1, NoStepType DEF Navigate, Step, Origins
    <3> QED
      BY <2>8, <3>2 DEF Navigate
  <2>9. CASE EnterLoop
    BY <2>9 DEF EnterLoop, stepCount
  <2>10. CASE AuthExpired
    BY <2>10 DEF AuthExpired, complete, Reasons
  <2>11. CASE LoopExhausted
    BY <2>11 DEF LoopExhausted
  <2>12. CASE TakeFragment
    <3>1. cur' \in Step /\ cur'.origin = "fragment"
      BY <2>12, NoStepType DEF TakeFragment, Step, Origins, Risks
    <3> QED
      BY <2>12, <3>1 DEF TakeFragment
  <2>13. CASE BeginModelStep
    BY <2>13 DEF BeginModelStep
  <2>14. CASE CaptchaStops
    BY <2>14 DEF CaptchaStops, complete, Reasons
  <2>15. CASE PreflightStops
    BY <2>15 DEF PreflightStops, complete, Reasons
  <2>16. CASE CallModel
    <3>1. cur' \in Step /\ cur'.origin = "model"
      BY <2>16, NoStepType DEF CallModel, Step, Risks
    <3>2. billed' \in Nat
      BY <2>16 DEF CallModel
    <3> QED
      BY <2>16, <3>1, <3>2 DEF CallModel
  <2>17. CASE GuardStops
    BY <2>17 DEF GuardStops, complete, Reasons
  <2>18. CASE GuardsPass
    BY <2>18 DEF GuardsPass
  <2>19. CASE GateAutoApproves \/ GateAsks
    BY <2>19 DEF GateAutoApproves, GateAsks
  <2>20. CASE UserApproves
    <3>1. cur' \in Step /\ cur'.origin = cur.origin
      BY <2>20 DEF UserApproves, Step
    <3> QED
      BY <2>20, <3>1 DEF UserApproves
  <2>21. CASE UserRejects
    BY <2>21 DEF UserRejects, complete, rejection, Reasons, Rejections
  <2>22. CASE Execute
    <3>1. cur' \in Step /\ cur'.origin = cur.origin
      BY <2>22 DEF Execute, Step
    <3> QED
      BY <2>22, <3>1 DEF Execute
  <2>23. CASE appendStep
    <3>1. total' \in Nat /\ history' \in Seq(Step)
      BY <2>23 DEF appendStep, Step
    <3> QED
      BY <2>23, <3>1 DEF appendStep
  <2>24. CASE EmitProgress \/ WriteAudit
    BY <2>24 DEF EmitProgress, WriteAudit
  <2>25. NoStep \in Step /\ NoStep.origin = "model"
    BY NoStepType DEF NoStep
  <2>26. CASE AfterReplay
    BY <2>25, <2>26 DEF AfterReplay, complete, Reasons
  <2>27. CASE AfterPrefix
    BY <2>25, <2>27 DEF AfterPrefix
  <2>28. CASE Retry
    BY <2>25, <2>28 DEF Retry
  <2>29. CASE AfterLoopStep
    <3>1. cur.finish \in BOOLEAN /\ cur.ok \in BOOLEAN
      BY DEF Step
    <3>2. CASE cur.finish
      <4>1. reason' \in {"finished", "misworded"} /\ index' = index /\ pc' = "stopping"
        BY <2>29, <3>2 DEF AfterLoopStep, complete
      <4> QED
        BY <2>25, <2>29, <4>1 DEF AfterLoopStep, Reasons, SuccessReasons
    <3>3. CASE ~cur.finish /\ ~cur.ok
      <4>1. /\ reason' \in {"action_failed", "replay_fragment_failed"}
            /\ index' = index /\ pc' = "stopping"
        BY <2>29, <3>3 DEF AfterLoopStep, complete
      <4> QED
        BY <2>25, <2>29, <4>1 DEF AfterLoopStep, Reasons
    <3>4. CASE ~cur.finish /\ cur.ok
      <4>1. reason' = reason /\ index' = index + 1 /\ pc' = "top"
        BY <2>29, <3>4 DEF AfterLoopStep
      <4> QED
        BY <2>25, <2>29, <4>1 DEF AfterLoopStep
    <3> QED
      BY <3>1, <3>2, <3>3, <3>4
  <2>30. CASE Raise
    BY <2>25, <2>30 DEF Raise
  <2>31. CASE StopBrowser
    BY <2>31 DEF StopBrowser, Reasons
  <2>32. CASE StopRaises
    BY <2>32 DEF StopRaises
  <2>33. CASE UNCHANGED vars
    BY <2>33 DEF vars
  <2>34. CASE Ended
    BY <2>33, <2>34 DEF Ended
  <2> QED
    BY <2>1, <2>2, <2>3, <2>4, <2>5, <2>6, <2>7, <2>8, <2>9, <2>10, <2>11, <2>12,
       <2>13, <2>14, <2>15, <2>16, <2>17, <2>18, <2>19, <2>20, <2>21, <2>22, <2>23,
       <2>24, <2>26, <2>27, <2>28, <2>29, <2>30, <2>31, <2>32, <2>33, <2>34
    DEF Next, AgentStep
<1> QED
  BY <1>1, <1>2, PTL DEF Spec

\* Every reachable state of a run is well typed: the fields that AgentState and
\* the loop of ComputerUseRunner assign keep their types.
THEOREM TypeCorrect == Spec => []TypeOK
<1>1. TypeInv => TypeOK
  BY DEF TypeInv
<1> QED
  BY <1>1, TypeInvariant, PTL

-----------------------------------------------------------------------------
(* Approval. *)

\* HighRiskIsAsked one place earlier: the action about to be executed.
GateInv ==
  /\ HighRiskIsAsked
  /\ pc = "act" /\ cur.risk = "high" /\ cur.origin # "navigation" => cur.asked

\* The user approved every HIGH-risk action of a run before it was executed,
\* whichever routine of the loop issued it, the initial navigation excepted.
THEOREM HighRiskConsent == Spec => []HighRiskIsAsked
<1>1. Init => GateInv
  <2>1. Init => history = <<>> /\ pc = "preview"
    BY DEF Init
  <2>2. history = <<>> => 1 .. Len(history) = {}
    OBVIOUS
  <2> QED
    BY <2>1, <2>2 DEF GateInv, HighRiskIsAsked
<1>2. TypeInv /\ GateInv /\ [Next]_vars => GateInv'
  <2> SUFFICES ASSUME TypeInv, GateInv, [Next]_vars PROVE GateInv'
    OBVIOUS
  <2> DEFINE Gated(step) == step.risk = "high" /\ step.origin # "navigation" => step.asked
             Quiet == history' = history /\ pc' \notin {"act", "record"}
  <2>0. cur \in Step /\ history \in Seq(Step)
    BY DEF TypeInv, TypeOK
  <2>1. ASSUME Quiet PROVE GateInv'
    BY <2>1 DEF GateInv, HighRiskIsAsked
  <2>2. ASSUME history' = history, pc' \in {"act", "record"} => Gated(cur')
        PROVE  GateInv'
    BY <2>2 DEF GateInv, HighRiskIsAsked
  <2>3. CASE PreviewProceeds \/ PreviewStops \/ StartBrowser \/ StartRaises \/ ChoosePlan
    BY <2>1, <2>3 DEF PreviewProceeds, PreviewStops, StartBrowser, StartRaises, ChoosePlan
  <2>4. CASE StoredExhausted \/ PrefixNodeDropped
    BY <2>1, <2>4 DEF StoredExhausted, PrefixNodeDropped, complete
  <2>5. CASE TakeStored
    <3>1. PICK risk \in Risks, tagged \in BOOLEAN :
            /\ cur' = [NoStep EXCEPT !.origin = plan, !.index = stepCount,
                                     !.risk = risk, !.tagged = tagged]
            /\ pc' = IF tagged \/ risk = "high" THEN "gate" ELSE "act"
      BY <2>5 DEF TakeStored
    <3>2. cur'.risk = risk
      BY <3>1, NoStepType DEF Step
    <3>3. history' = history
      BY <2>5 DEF TakeStored
    <3> QED
      BY <2>2, <3>1, <3>2, <3>3
  <2>6. CASE Navigate
    <3>1. cur'.origin = "navigation" /\ history' = history
      BY <2>6, NoStepType DEF Navigate, Step
    <3> QED
      BY <2>2, <3>1
  <2>7. CASE EnterLoop \/ AuthExpired \/ LoopExhausted \/ BeginModelStep
    BY <2>1, <2>7 DEF EnterLoop, AuthExpired, LoopExhausted, BeginModelStep, complete
  <2>8. CASE TakeFragment
    <3>1. PICK tagged \in BOOLEAN, finish \in BOOLEAN :
            /\ cur' = [NoStep EXCEPT !.origin = "fragment", !.index = index,
                                     !.risk = IF tagged THEN "high" ELSE "low",
                                     !.tagged = tagged, !.finish = finish]
            /\ pc' = IF tagged THEN "gate" ELSE "act"
      BY <2>8 DEF TakeFragment
    <3>2. cur'.risk = IF tagged THEN "high" ELSE "low"
      BY <3>1, NoStepType DEF Step
    <3>3. history' = history
      BY <2>8 DEF TakeFragment
    <3> QED
      BY <2>2, <3>1, <3>2, <3>3
  <2>9. CASE CaptchaStops \/ PreflightStops \/ CallModel \/ GuardStops
    BY <2>1, <2>9 DEF CaptchaStops, PreflightStops, CallModel, GuardStops, complete
  <2>10. CASE GuardsPass
    BY <2>2, <2>10 DEF GuardsPass
  <2>11. CASE GateAutoApproves
    BY <2>2, <2>11 DEF GateAutoApproves
  <2>12. CASE GateAsks \/ UserRejects
    BY <2>1, <2>12 DEF GateAsks, UserRejects, complete
  <2>13. CASE UserApproves
    <3>1. cur'.asked /\ history' = history
      BY <2>0, <2>13 DEF UserApproves, Step
    <3> QED
      BY <2>2, <3>1
  <2>14. CASE Execute
    <3>1. /\ cur'.risk = cur.risk /\ cur'.origin = cur.origin /\ cur'.asked = cur.asked
          /\ history' = history /\ pc = "act"
      BY <2>0, <2>14 DEF Execute, Step
    <3> QED
      BY <2>2, <3>1 DEF GateInv
  <2>15. CASE appendStep
    <3>1. \A i \in 1 .. Len(history) : Gated(history[i])
      BY DEF GateInv, HighRiskIsAsked
    <3>2. Gated(cur) /\ pc' = "progress" /\ history' = Append(history, cur)
      BY <2>15 DEF appendStep, GateInv, HighRiskIsAsked
    <3>3. \A i \in 1 .. Len(history') : Gated(history'[i])
      BY <2>0, <3>1, <3>2
    <3> QED
      BY <3>2, <3>3 DEF GateInv, HighRiskIsAsked
  <2>16. CASE EmitProgress \/ WriteAudit
    BY <2>1, <2>16 DEF EmitProgress, WriteAudit
  <2>17. CASE AfterReplay \/ AfterPrefix \/ Retry
    BY <2>1, <2>17 DEF AfterReplay, AfterPrefix, Retry, complete
  <2>18. CASE AfterLoopStep
    <3>1. cur.finish \in BOOLEAN /\ cur.ok \in BOOLEAN
      BY <2>0 DEF Step
    <3>2. pc' \in {"stopping", "top"} /\ history' = history
      BY <2>18, <3>1 DEF AfterLoopStep, complete
    <3> QED
      BY <2>1, <3>2
  <2>19. CASE Raise \/ StopBrowser \/ StopRaises
    BY <2>1, <2>19 DEF Raise, StopBrowser, StopRaises
  <2>20. CASE Ended \/ UNCHANGED vars
    BY <2>20 DEF Ended, vars, GateInv, HighRiskIsAsked
  <2> QED
    BY <2>3, <2>4, <2>5, <2>6, <2>7, <2>8, <2>9, <2>10, <2>11, <2>12, <2>13, <2>14,
       <2>15, <2>16, <2>17, <2>18, <2>19, <2>20
    DEF Next, AgentStep
<1>3. GateInv => HighRiskIsAsked
  BY DEF GateInv
<1> QED
  BY <1>1, <1>2, <1>3, TypeInvariant, PTL DEF Spec

-----------------------------------------------------------------------------
(* Money. *)

\* SpendingIsBounded, and why it is inductive: outside of a call the run has
\* recorded all it spent, so a call that is dropped is the first and the last.
SpendingInv ==
  /\ SpendingIsBounded
  /\ RecordedWithinCap
  /\ pc \notin Terminal \cup {"stopping", "unwinding"} =>
       billed = total + (IF pc \in {"caps", "gate", "parked", "act", "record"}
                           THEN cur.cost ELSE 0)
  /\ pc \in {"gate", "parked", "act", "record"} => (Cap > 0 => total + cur.cost <= Cap)

\* Every placeholder step is free.
LEMMA NoStepIsFree == NoStep.cost = 0
  BY DEF NoStep

LEMMA SpendingInvariant == Spec => []SpendingInv
<1> USE MoneyAssumption DEF MoneyAssumption
<1>1. Init => SpendingInv
  <2>1. Init => total = 0 /\ billed = 0 /\ pc = "preview"
    BY DEF Init
  <2> QED
    BY <2>1 DEF SpendingInv, SpendingIsBounded, RecordedWithinCap, Terminal
<1>2. TypeInv /\ SpendingInv /\ [Next]_vars => SpendingInv'
  <2> SUFFICES ASSUME TypeInv, SpendingInv, [Next]_vars PROVE SpendingInv'
    OBVIOUS
  <2> DEFINE Owed == {"caps", "gate", "parked", "act", "record"}
             Within == {"gate", "parked", "act", "record"}
             Out == Terminal \cup {"stopping", "unwinding"}
             Still == total' = total /\ billed' = billed
  <2>0. total \in Nat /\ billed \in Nat /\ cur \in Step /\ cur.cost \in Nat
    BY DEF TypeInv, TypeOK, Step
  <2>1. ASSUME Still, pc' \in Out PROVE SpendingInv'
    BY <2>1 DEF SpendingInv, SpendingIsBounded, RecordedWithinCap, Terminal
  <2>2. ASSUME Still, pc \notin Owed \cup Out, pc' \notin Owed PROVE SpendingInv'
    BY <2>2 DEF SpendingInv, SpendingIsBounded, RecordedWithinCap, Terminal
  <2>3. ASSUME Still, pc \notin Owed \cup Out, pc' \in Within, cur'.cost = 0
        PROVE  SpendingInv'
    BY <2>0, <2>3 DEF SpendingInv, SpendingIsBounded, RecordedWithinCap, Terminal
  <2>4. ASSUME Still, pc \in Within, pc' \in Within, cur'.cost = cur.cost
        PROVE  SpendingInv'
    BY <2>0, <2>4 DEF SpendingInv, SpendingIsBounded, RecordedWithinCap, Terminal
  <2>5. CASE PreviewProceeds \/ PreviewStops \/ StartBrowser \/ StartRaises \/ ChoosePlan
    BY <2>1, <2>2, <2>5
    DEF PreviewProceeds, PreviewStops, StartBrowser, StartRaises, ChoosePlan, Terminal
  <2>6. CASE StoredExhausted \/ PrefixNodeDropped
    BY <2>1, <2>2, <2>6 DEF StoredExhausted, PrefixNodeDropped, complete, Terminal
  <2>7. CASE TakeStored
    <3>1. PICK risk \in Risks, tagged \in BOOLEAN :
            cur' = [NoStep EXCEPT !.origin = plan, !.index = stepCount,
                                  !.risk = risk, !.tagged = tagged]
      BY <2>7 DEF TakeStored
    <3>2. cur'.cost = 0
      BY <3>1, NoStepType, NoStepIsFree DEF Step
    <3> QED
      BY <2>3, <2>7, <3>2 DEF TakeStored, Terminal
  <2>8. CASE Navigate
    <3>1. cur'.cost = 0
      BY <2>8, NoStepType, NoStepIsFree DEF Navigate, Step
    <3> QED
      BY <2>3, <2>8, <3>1 DEF Navigate, Terminal
  <2>9. CASE EnterLoop \/ AuthExpired \/ LoopExhausted \/ BeginModelStep
    BY <2>1, <2>2, <2>9
    DEF EnterLoop, AuthExpired, LoopExhausted, BeginModelStep, complete, Terminal
  <2>10. CASE TakeFragment
    <3>1. cur'.cost = 0
      BY <2>10, NoStepType, NoStepIsFree DEF TakeFragment, Step
    <3> QED
      BY <2>3, <2>10, <3>1 DEF TakeFragment, Terminal
  <2>11. CASE CaptchaStops \/ PreflightStops \/ GuardStops
    BY <2>1, <2>11 DEF CaptchaStops, PreflightStops, GuardStops, complete
  <2>12. CASE CallModel
    <3>1. PICK cost \in Costs, risk \in Risks, finish \in BOOLEAN :
            /\ cur' = [NoStep EXCEPT !.index = index, !.risk = risk,
                                     !.finish = finish, !.cost = cost]
            /\ billed' = billed + cost
      BY <2>12 DEF CallModel
    <3>2. cur'.cost = cost
      BY <3>1, NoStepType DEF Step
    <3>3. /\ pc = "observe" /\ pc' = "caps" /\ total' = total
          /\ preflightPasses
      BY <2>12 DEF CallModel
    <3>4. billed = total /\ RecordedWithinCap
      BY <2>0, <3>3 DEF SpendingInv, Terminal
    <3>5. Cap > 0 => total + Estimate <= Cap
      BY <2>0, <3>3, <3>4 DEF preflightPasses, overTaskCap, RecordedWithinCap
    <3>6. SpendingIsBounded'
      BY <2>0, <3>1, <3>4, <3>5 DEF SpendingIsBounded
    <3> QED
      BY <2>0, <3>1, <3>2, <3>3, <3>4, <3>6 DEF SpendingInv, RecordedWithinCap, Terminal
  <2>13. CASE GuardsPass
    <3>1. /\ pc = "caps" /\ pc' \in {"gate", "act"} /\ cur' = cur /\ Still
          /\ ~overTaskCap(cur.cost)
      BY <2>13 DEF GuardsPass
    <3>2. Cap > 0 => total + cur.cost <= Cap
      BY <2>0, <3>1 DEF overTaskCap
    <3> QED
      BY <2>0, <3>1, <3>2 DEF SpendingInv, SpendingIsBounded, RecordedWithinCap, Terminal
  <2>14. CASE GateAutoApproves \/ GateAsks
    BY <2>4, <2>14 DEF GateAutoApproves, GateAsks
  <2>15. CASE UserApproves
    <3>1. cur'.cost = cur.cost
      BY <2>0, <2>15 DEF UserApproves, Step
    <3> QED
      BY <2>4, <2>15, <3>1 DEF UserApproves
  <2>16. CASE UserRejects
    BY <2>1, <2>16 DEF UserRejects, complete
  <2>17. CASE Execute
    <3>1. cur'.cost = cur.cost
      BY <2>0, <2>17 DEF Execute, Step
    <3> QED
      BY <2>4, <2>17, <3>1 DEF Execute
  <2>18. CASE appendStep
    <3>1. /\ pc = "record" /\ pc' = "progress" /\ total' = total + cur.cost
          /\ billed' = billed /\ cur' = cur
      BY <2>18 DEF appendStep
    <3> QED
      BY <2>0, <3>1 DEF SpendingInv, SpendingIsBounded, RecordedWithinCap, Terminal
  <2>19. CASE EmitProgress \/ WriteAudit
    BY <2>2, <2>19 DEF EmitProgress, WriteAudit, Terminal
  <2>20. CASE AfterReplay \/ AfterPrefix \/ Retry
    BY <2>1, <2>2, <2>20 DEF AfterReplay, AfterPrefix, Retry, complete, Terminal
  <2>21. CASE AfterLoopStep
    <3>1. cur.finish \in BOOLEAN /\ cur.ok \in BOOLEAN
      BY <2>0 DEF Step
    <3>2. pc = "after" /\ pc' \in {"stopping", "top"} /\ Still
      BY <2>21, <3>1 DEF AfterLoopStep, complete
    <3> QED
      BY <2>1, <2>2, <3>2 DEF Terminal
  <2>22. CASE Raise \/ StopBrowser \/ StopRaises
    BY <2>1, <2>22 DEF Raise, StopBrowser, StopRaises, Terminal
  <2>23. CASE Ended \/ UNCHANGED vars
    BY <2>23 DEF Ended, vars, SpendingInv, SpendingIsBounded, RecordedWithinCap
  <2> QED
    BY <2>5, <2>6, <2>7, <2>8, <2>9, <2>10, <2>11, <2>12, <2>13, <2>14, <2>15, <2>16,
       <2>17, <2>18, <2>19, <2>20, <2>21, <2>22, <2>23
    DEF Next, AgentStep
<1> QED
  BY <1>1, <1>2, TypeInvariant, PTL DEF Spec

\* Whatever a call may cost, a run overspends the task cap by at most the error
\* of one estimate (_checkCostPreflight before the call, _checkCostCaps after).
THEOREM SpendingBounded == Spec => []SpendingIsBounded
<1>1. SpendingInv => SpendingIsBounded
  BY DEF SpendingInv
<1> QED
  BY <1>1, SpendingInvariant, PTL

\* What a run records against its task stays within the task cap.
THEOREM RecordedBounded == Spec => []RecordedWithinCap
<1>1. SpendingInv => RecordedWithinCap
  BY DEF SpendingInv
<1> QED
  BY <1>1, SpendingInvariant, PTL
-----------------------------------------------------------------------------
(* Completion. *)

\* A run with a completion reason has left its loop: it only stops the browser.
CompletionInv == reason # "" => pc \in {"stopping"} \cup Terminal

LEMMA CompletionInvariant == Spec => []CompletionInv
<1> USE DEF CompletionInv, Terminal
<1>1. Init => CompletionInv
  BY DEF Init
<1>2. CompletionInv /\ [Next]_vars => CompletionInv'
  <2> SUFFICES ASSUME CompletionInv, [Next]_vars PROVE CompletionInv'
    OBVIOUS
  <2>1. CASE \/ PreviewProceeds \/ PreviewStops \/ StartBrowser \/ StartRaises
             \/ ChoosePlan \/ StoredExhausted \/ PrefixNodeDropped \/ TakeStored
             \/ Navigate
    BY <2>1 DEF PreviewProceeds, PreviewStops, StartBrowser, StartRaises, ChoosePlan,
                StoredExhausted, PrefixNodeDropped, TakeStored, Navigate, complete
  <2>2. CASE \/ EnterLoop \/ AuthExpired \/ LoopExhausted \/ TakeFragment
             \/ BeginModelStep \/ CaptchaStops \/ PreflightStops \/ CallModel
             \/ GuardStops \/ GuardsPass
    BY <2>2 DEF EnterLoop, AuthExpired, LoopExhausted, TakeFragment, BeginModelStep,
                CaptchaStops, PreflightStops, CallModel, GuardStops, GuardsPass, complete
  <2>3. CASE \/ GateAutoApproves \/ GateAsks \/ UserApproves \/ UserRejects \/ Execute
             \/ appendStep \/ EmitProgress \/ WriteAudit
    BY <2>3 DEF GateAutoApproves, GateAsks, UserApproves, UserRejects, Execute,
                appendStep, EmitProgress, WriteAudit, complete
  <2>4. CASE AfterReplay \/ AfterPrefix \/ Retry
    BY <2>4 DEF AfterReplay, AfterPrefix, Retry, complete
  <2>5. CASE AfterLoopStep
    <3>1. pc = "after" /\ (pc' = "stopping" \/ (pc' = "top" /\ reason' = reason))
      BY <2>5 DEF AfterLoopStep, complete
    <3> QED
      BY <3>1
  <2>6. CASE Raise
    BY <2>6 DEF Raise, mayRaise
  <2>7. CASE StopBrowser \/ StopRaises
    BY <2>7 DEF StopBrowser, StopRaises
  <2>8. CASE Ended \/ UNCHANGED vars
    BY <2>8 DEF Ended, vars
  <2> QED
    BY <2>1, <2>2, <2>3, <2>4, <2>5, <2>6, <2>7, <2>8 DEF Next, AgentStep
<1> QED
  BY <1>1, <1>2, PTL DEF Spec

\* markComplete is called once: after it no action is executed or recorded, no
\* model call is paid for, and the reason reported to the user, the memory and
\* the planner stays what it was.
THEOREM CompletionFinal == Spec => CompletionIsFinal
<1>1. ASSUME CompletionInv, [Next]_vars, reason # ""
      PROVE  UNCHANGED <<reason, history, billed, total>> /\ pc' # "act"
  <2>1. pc \in {"stopping"} \cup Terminal
    BY <1>1 DEF CompletionInv
  <2>2. StopBrowser \/ StopRaises \/ Ended \/ UNCHANGED vars
    BY <1>1, <2>1
    DEF Next, AgentStep, Terminal, PreviewProceeds, PreviewStops, StartBrowser,
        StartRaises, ChoosePlan, StoredExhausted, PrefixNodeDropped, TakeStored,
        Navigate, EnterLoop, AuthExpired, LoopExhausted, TakeFragment, BeginModelStep,
        CaptchaStops, PreflightStops, CallModel, GuardStops, GuardsPass,
        GateAutoApproves, GateAsks, UserApproves, UserRejects, Execute, appendStep,
        EmitProgress, WriteAudit, AfterReplay, AfterPrefix, Retry, AfterLoopStep,
        Raise, mayRaise
  <2>3. CASE StopBrowser \/ StopRaises
    BY <1>1, <2>3 DEF StopBrowser, StopRaises
  <2>4. CASE Ended \/ UNCHANGED vars
    BY <2>1, <2>4 DEF Ended, vars, Terminal
  <2> QED
    BY <2>2, <2>3, <2>4
<1>2. CompletionInv /\ [Next]_vars =>
        [reason # "" => UNCHANGED <<reason, history, billed, total>> /\ pc' # "act"]_vars
  BY <1>1
<1> QED
  BY <1>2, CompletionInvariant, PTL DEF Spec, CompletionIsFinal

-----------------------------------------------------------------------------
(* The audit. *)

\* AuditKeepsUp, with the one window in which the audit is behind: from the
\* recording of a step to the entry written for it, or to the way out when the
\* progress callback or the audit sink raises in between.
AuditInv ==
  /\ audited \in {Len(history), Len(history) - 1}
  /\ pc \notin {"progress", "audit", "unwinding", "raised"} => audited = Len(history)
  /\ pc \in {"progress", "audit"} => audited = Len(history) - 1

LEMMA AuditInvariant == Spec => []AuditInv
<1>1. Init => AuditInv
  <2>1. Init => history = <<>> /\ audited = 0 /\ pc = "preview"
    BY DEF Init
  <2> QED
    BY <2>1 DEF AuditInv
<1>2. TypeInv /\ AuditInv /\ [Next]_vars => AuditInv'
  <2> SUFFICES ASSUME TypeInv, AuditInv, [Next]_vars PROVE AuditInv'
    OBVIOUS
  <2> DEFINE Behind == {"progress", "audit"}
             Lost == {"unwinding", "raised"}
             Still == history' = history /\ audited' = audited
  <2>0. history \in Seq(Step) /\ cur \in Step /\ audited \in Nat
    BY DEF TypeInv, TypeOK
  <2>1. ASSUME Still, pc \notin Behind \cup Lost, pc' \notin Behind PROVE AuditInv'
    BY <2>1 DEF AuditInv
  <2>2. ASSUME Still, pc' \in Lost PROVE AuditInv'
    BY <2>2 DEF AuditInv
  <2>3. CASE \/ PreviewProceeds \/ PreviewStops \/ StartBrowser \/ StartRaises
             \/ ChoosePlan \/ StoredExhausted \/ PrefixNodeDropped \/ TakeStored
             \/ Navigate
    BY <2>1, <2>2, <2>3
    DEF PreviewProceeds, PreviewStops, StartBrowser, StartRaises, ChoosePlan,
        StoredExhausted, PrefixNodeDropped, TakeStored, Navigate, complete
  <2>4. CASE \/ EnterLoop \/ AuthExpired \/ LoopExhausted \/ TakeFragment
             \/ BeginModelStep \/ CaptchaStops \/ PreflightStops \/ CallModel
             \/ GuardStops \/ GuardsPass
    BY <2>1, <2>4
    DEF EnterLoop, AuthExpired, LoopExhausted, TakeFragment, BeginModelStep,
        CaptchaStops, PreflightStops, CallModel, GuardStops, GuardsPass, complete
  <2>5. CASE GateAutoApproves \/ GateAsks \/ UserApproves \/ UserRejects \/ Execute
    BY <2>1, <2>5
    DEF GateAutoApproves, GateAsks, UserApproves, UserRejects, Execute, complete
  <2>6. CASE appendStep
    <3>1. Len(history') = Len(history) + 1 /\ Len(history) \in Nat
      BY <2>0, <2>6 DEF appendStep
    <3>2. pc = "record" /\ pc' = "progress" /\ audited' = audited
      BY <2>6 DEF appendStep
    <3> QED
      BY <2>0, <3>1, <3>2 DEF AuditInv
  <2>7. CASE EmitProgress
    BY <2>7 DEF EmitProgress, AuditInv
  <2>8. CASE WriteAudit
    <3>1. Len(history) \in Nat /\ history' = history
      BY <2>0, <2>8 DEF WriteAudit
    <3> QED
      BY <2>0, <2>8, <3>1 DEF WriteAudit, AuditInv
  <2>9. CASE AfterReplay \/ AfterPrefix \/ Retry
    BY <2>1, <2>9 DEF AfterReplay, AfterPrefix, Retry, complete
  <2>10. CASE AfterLoopStep
    <3>1. pc = "after" /\ pc' \in {"stopping", "top"} /\ Still
      <4>1. cur.finish \in BOOLEAN /\ cur.ok \in BOOLEAN
        BY <2>0 DEF Step
      <4> QED
        BY <2>10, <4>1 DEF AfterLoopStep, complete
    <3> QED
      BY <2>1, <3>1
  <2>11. CASE Raise
    BY <2>2, <2>11 DEF Raise
  <2>12. CASE StopBrowser \/ StopRaises
    BY <2>1, <2>2, <2>12 DEF StopBrowser, StopRaises
  <2>13. CASE Ended \/ UNCHANGED vars
    BY <2>13 DEF Ended, vars, AuditInv
  <2> QED
    BY <2>3, <2>4, <2>5, <2>6, <2>7, <2>8, <2>9, <2>10, <2>11, <2>12, <2>13
    DEF Next, AgentStep
<1> QED
  BY <1>1, <1>2, TypeInvariant, PTL DEF Spec

\* No step is executed while an earlier one is missing from the audit, and a
\* run that returns its state has audited every step of it (_emitProgress and
\* _writeAudit after every appendStep).
THEOREM AuditUpToDate == Spec => []AuditKeepsUp
<1>1. AuditInv => AuditKeepsUp
  BY DEF AuditInv, AuditKeepsUp
<1> QED
  BY <1>1, AuditInvariant, PTL

-----------------------------------------------------------------------------
(* Success. *)

\* Where an action is on its way to be executed, and where it has been recorded.
Before == {"gate", "parked", "act", "record"}
Recorded == {"progress", "audit", "after"}

\* The action in flight is the model's own while its call is being paid for, and
\* from its recording to what the routine does with its result it is the last
\* one of the history.
RecordInv ==
  /\ pc = "caps" => cur.origin = "model"
  /\ pc \in Recorded => history # <<>> /\ history[Len(history)] = cur

LEMMA RecordInvariant == Spec => []RecordInv
<1> USE DEF RecordInv, Recorded
<1>1. Init => RecordInv
  BY DEF Init
<1>2. TypeInv /\ RecordInv /\ [Next]_vars => RecordInv'
  <2> SUFFICES ASSUME TypeInv, RecordInv, [Next]_vars PROVE RecordInv'
    OBVIOUS
  <2>0. history \in Seq(Step) /\ cur \in Step
    BY DEF TypeInv, TypeOK
  <2>1. CASE \/ PreviewProceeds \/ PreviewStops \/ StartBrowser \/ StartRaises
             \/ ChoosePlan \/ StoredExhausted \/ PrefixNodeDropped \/ TakeStored
             \/ Navigate
    BY <2>1 DEF PreviewProceeds, PreviewStops, StartBrowser, StartRaises, ChoosePlan,
                StoredExhausted, PrefixNodeDropped, TakeStored, Navigate, complete
  <2>2. CASE \/ EnterLoop \/ AuthExpired \/ LoopExhausted \/ TakeFragment
             \/ BeginModelStep \/ CaptchaStops \/ PreflightStops \/ GuardStops
             \/ GuardsPass
    BY <2>2 DEF EnterLoop, AuthExpired, LoopExhausted, TakeFragment, BeginModelStep,
                CaptchaStops, PreflightStops, GuardStops, GuardsPass, complete
  <2>3. CASE CallModel
    <3>1. cur'.origin = "model" /\ pc' = "caps"
      BY <2>3, NoStepType DEF CallModel, Step
    <3> QED
      BY <3>1
  <2>4. CASE GateAutoApproves \/ GateAsks \/ UserApproves \/ UserRejects \/ Execute
    BY <2>4 DEF GateAutoApproves, GateAsks, UserApproves, UserRejects, Execute, complete
  <2>5. CASE appendStep
    <3>1. history' = Append(history, cur) /\ cur' = cur /\ pc' = "progress"
      BY <2>5 DEF appendStep
    <3>2. history' # <<>> /\ history'[Len(history')] = cur
      BY <2>0, <3>1
    <3> QED
      BY <3>1, <3>2
  <2>6. CASE EmitProgress \/ WriteAudit
    BY <2>6 DEF EmitProgress, WriteAudit
  <2>7. CASE AfterReplay \/ AfterPrefix \/ Retry
    BY <2>7 DEF AfterReplay, AfterPrefix, Retry, complete
  <2>8. CASE AfterLoopStep
    <3>1. cur.finish \in BOOLEAN /\ cur.ok \in BOOLEAN
      BY <2>0 DEF Step
    <3> QED
      BY <2>8, <3>1 DEF AfterLoopStep, complete
  <2>9. CASE Raise \/ StopBrowser \/ StopRaises
    BY <2>9 DEF Raise, StopBrowser, StopRaises
  <2>10. CASE Ended \/ UNCHANGED vars
    BY <2>10 DEF Ended, vars
  <2> QED
    BY <2>1, <2>2, <2>3, <2>4, <2>5, <2>6, <2>7, <2>8, <2>9, <2>10 DEF Next, AgentStep
<1> QED
  BY <1>1, <1>2, TypeInvariant, PTL DEF Spec

\* The replay of a template is cut off by its first failed action, so that all
\* the history behind the action in flight worked; and a template is not empty,
\* so that something was recorded when none of it is left.
ReplayInv ==
  /\ pc \in {"preview", "start", "plan"} => history = <<>>
  /\ pc = "stored" /\ plan = "replay" =>
       /\ left = 0 => history # <<>>
       /\ \A i \in 1 .. Len(history) : history[i].ok
  /\ pc \in Before /\ cur.origin = "replay" =>
       \A i \in 1 .. Len(history) : history[i].ok
  /\ pc \in Recorded /\ cur.origin = "replay" =>
       \A i \in 1 .. Len(history) - 1 : history[i].ok

LEMMA ReplayInvariant == Spec => []ReplayInv
<1> USE DEF Before, Recorded
<1>1. Init => ReplayInv
  BY DEF Init, ReplayInv
<1>2. TypeInv /\ RecordInv /\ ReplayInv /\ [Next]_vars => ReplayInv'
  <2> SUFFICES ASSUME TypeInv, RecordInv, ReplayInv, [Next]_vars PROVE ReplayInv'
    OBVIOUS
  <2> DEFINE Early == {"preview", "start", "plan"}
             Still == history' = history
  <2>0. history \in Seq(Step) /\ cur \in Step
    BY DEF TypeInv, TypeOK
  <2>1. ASSUME Still, pc' \notin Early \cup {"stored"} \cup Before \cup Recorded
        PROVE  ReplayInv'
    BY <2>1 DEF ReplayInv
  <2>2. ASSUME Still, pc' \in Before, cur'.origin # "replay" PROVE ReplayInv'
    BY <2>2 DEF ReplayInv
  <2>3. ASSUME Still, pc \in Before, pc' \in Before, cur'.origin = cur.origin
        PROVE  ReplayInv'
    BY <2>3 DEF ReplayInv
  <2>4. CASE PreviewProceeds \/ StartBrowser
    BY <2>4 DEF PreviewProceeds, StartBrowser, ReplayInv
  <2>5. CASE PreviewStops \/ StartRaises
    BY <2>1, <2>5 DEF PreviewStops, StartRaises
  <2>6. CASE ChoosePlan
    <3>1. history' = <<>> /\ pc' \in {"stored", "navigate", "enter"}
      BY <2>6 DEF ChoosePlan, ReplayInv
    <3>2. pc' = "stored" => left' # 0
      BY <2>6 DEF ChoosePlan
    <3> QED
      BY <3>1, <3>2 DEF ReplayInv
  <2>7. CASE StoredExhausted
    BY <2>1, <2>7 DEF StoredExhausted, complete
  <2>8. CASE PrefixNodeDropped
    <3>1. pc' \in {"stored", "enter"} /\ plan' = "graph" /\ Still
      BY <2>8 DEF PrefixNodeDropped
    <3> QED
      BY <3>1 DEF ReplayInv
  <2>9. CASE TakeStored
    <3>1. PICK risk \in Risks, tagged \in BOOLEAN :
            cur' = [NoStep EXCEPT !.origin = plan, !.index = stepCount,
                                  !.risk = risk, !.tagged = tagged]
      BY <2>9 DEF TakeStored
    <3>2. cur'.origin = plan
      BY <3>1, NoStepType DEF Step
    <3>3. pc = "stored" /\ pc' \in Before /\ Still
      BY <2>9 DEF TakeStored
    <3> QED
      BY <3>2, <3>3 DEF ReplayInv
  <2>10. CASE Navigate
    <3>1. cur'.origin = "navigation"
      BY <2>10, NoStepType DEF Navigate, Step
    <3> QED
      BY <2>2, <2>10, <3>1 DEF Navigate
  <2>11. CASE EnterLoop \/ AuthExpired \/ LoopExhausted \/ BeginModelStep
    BY <2>1, <2>11 DEF EnterLoop, AuthExpired, LoopExhausted, BeginModelStep, complete
  <2>12. CASE TakeFragment
    <3>1. cur'.origin = "fragment"
      BY <2>12, NoStepType DEF TakeFragment, Step
    <3>2. pc' \in Before /\ Still
      BY <2>12 DEF TakeFragment
    <3> QED
      BY <2>2, <3>1, <3>2
  <2>13. CASE CaptchaStops \/ PreflightStops \/ CallModel \/ GuardStops
    BY <2>1, <2>13 DEF CaptchaStops, PreflightStops, CallModel, GuardStops, complete
  <2>14. CASE GateAutoApproves \/ GateAsks
    BY <2>3, <2>14 DEF GateAutoApproves, GateAsks
  <2>15. CASE UserApproves
    <3>1. cur'.origin = cur.origin
      BY <2>0, <2>15 DEF UserApproves, Step
    <3> QED
      BY <2>3, <2>15, <3>1 DEF UserApproves
  <2>16. CASE UserRejects
    BY <2>1, <2>16 DEF UserRejects, complete
  <2>17. CASE Execute
    <3>1. cur'.origin = cur.origin
      BY <2>0, <2>17 DEF Execute, Step
    <3> QED
      BY <2>3, <2>17, <3>1 DEF Execute
  <2>18. CASE appendStep
    <3>1. /\ pc = "record" /\ pc' = "progress" /\ cur' = cur
          /\ history' = Append(history, cur)
      BY <2>18 DEF appendStep
    <3>2. ASSUME cur.origin = "replay", NEW i \in 1 .. Len(history') - 1
          PROVE  history'[i].ok
      <4>1. i \in 1 .. Len(history) /\ history'[i] = history[i]
        BY <2>0, <3>1, <3>2
      <4> QED
        BY <3>1, <3>2, <4>1 DEF ReplayInv
    <3> QED
      BY <3>1, <3>2 DEF ReplayInv
  <2>19. CASE EmitProgress \/ WriteAudit
    BY <2>19 DEF EmitProgress, WriteAudit, ReplayInv
  <2>20. CASE AfterReplay
    <3>1. CASE cur.ok
      <4>1. /\ pc = "after" /\ pc' = "stored" /\ Still
            /\ history # <<>> /\ history[Len(history)] = cur
        BY <2>20, <3>1 DEF AfterReplay, RecordInv
      <4>2. \A i \in 1 .. Len(history) - 1 : history[i].ok
        BY <2>20, <4>1 DEF AfterReplay, ReplayInv
      <4>3. \A i \in 1 .. Len(history) : history[i].ok
        BY <2>0, <3>1, <4>1, <4>2
      <4> QED
        BY <4>1, <4>3 DEF ReplayInv
    <3>2. CASE ~cur.ok
      BY <2>1, <2>20, <3>2 DEF AfterReplay, complete
    <3> QED
      BY <3>1, <3>2
  <2>21. CASE AfterPrefix
    <3>1. pc' = "stored" => plan = "graph"
      BY <2>21 DEF AfterPrefix, TypeInv
    <3>2. pc' \in {"stored", "enter"} /\ Still /\ plan' = plan
      BY <2>21 DEF AfterPrefix
    <3> QED
      BY <3>1, <3>2 DEF ReplayInv
  <2>22. CASE Retry
    BY <2>1, <2>22 DEF Retry
  <2>23. CASE AfterLoopStep
    <3>1. cur.finish \in BOOLEAN /\ cur.ok \in BOOLEAN
      BY <2>0 DEF Step
    <3>2. pc' \in {"stopping", "top"} /\ Still
      BY <2>23, <3>1 DEF AfterLoopStep, complete
    <3> QED
      BY <2>1, <3>2
  <2>24. CASE Raise \/ StopBrowser \/ StopRaises
    BY <2>1, <2>24 DEF Raise, StopBrowser, StopRaises
  <2>25. CASE Ended \/ UNCHANGED vars
    BY <2>25 DEF Ended, vars, ReplayInv
  <2>26. CASE GuardsPass
    <3>1. cur'.origin = "model" /\ pc' \in Before /\ Still
      BY <2>26 DEF GuardsPass, RecordInv
    <3> QED
      BY <2>2, <3>1
  <2> QED
    BY <2>4, <2>5, <2>6, <2>7, <2>8, <2>9, <2>10, <2>11, <2>12, <2>13, <2>14, <2>15,
       <2>16, <2>17, <2>18, <2>19, <2>20, <2>21, <2>22, <2>23, <2>24, <2>25, <2>26
    DEF Next, AgentStep
<1> QED
  BY <1>1, <1>2, TypeInvariant, RecordInvariant, PTL DEF Spec

\* A run that agentStateSucceeded reports as a success earned it: a FINISH was
\* its last step, or a whole template was replayed and every action worked.
THEOREM SuccessEarned == Spec => []SuccessIsEarned
<1>1. Init => SuccessIsEarned
  BY DEF Init, SuccessIsEarned, completionReasonSucceeded, SuccessReasons
<1>2. TypeInv /\ RecordInv /\ ReplayInv /\ CompletionInv /\ SuccessIsEarned
        /\ [Next]_vars => SuccessIsEarned'
  <2> SUFFICES ASSUME TypeInv, RecordInv, ReplayInv, CompletionInv, SuccessIsEarned,
                      [Next]_vars
               PROVE  SuccessIsEarned'
    OBVIOUS
  <2> USE DEF completionReasonSucceeded, SuccessReasons
  <2>0. history \in Seq(Step) /\ cur \in Step
    BY DEF TypeInv, TypeOK
  <2>1. ASSUME reason' \notin SuccessReasons PROVE SuccessIsEarned'
    BY <2>1 DEF SuccessIsEarned
  <2>2. ASSUME pc \notin {"stopping"} \cup Terminal, reason' = reason PROVE SuccessIsEarned'
    BY <2>2 DEF SuccessIsEarned, CompletionInv
  <2>3. ASSUME UNCHANGED <<plan, left, history>>,
               reason' = reason \/ reason' \notin SuccessReasons
        PROVE  SuccessIsEarned'
    BY <2>3 DEF SuccessIsEarned
  <2>4. CASE PreviewProceeds \/ PreviewStops \/ StartBrowser \/ StartRaises \/ ChoosePlan
    BY <2>1, <2>2, <2>4
    DEF PreviewProceeds, PreviewStops, StartBrowser, StartRaises, ChoosePlan, Terminal
  <2>5. CASE StoredExhausted
    <3>1. CASE plan = "replay"
      <4>1. /\ left = 0 /\ history # <<>>
            /\ \A i \in 1 .. Len(history) : history[i].ok
        BY <2>5, <3>1 DEF StoredExhausted, ReplayInv
      <4> QED
        BY <2>5, <3>1, <4>1 DEF StoredExhausted, SuccessIsEarned
    <3>2. CASE plan # "replay"
      BY <2>3, <2>5, <3>2 DEF StoredExhausted
    <3> QED
      BY <3>1, <3>2
  <2>6. CASE \/ PrefixNodeDropped \/ TakeStored \/ Navigate \/ EnterLoop \/ LoopExhausted
             \/ TakeFragment \/ BeginModelStep \/ CallModel \/ GuardsPass
    BY <2>2, <2>6
    DEF PrefixNodeDropped, TakeStored, Navigate, EnterLoop, LoopExhausted, TakeFragment,
        BeginModelStep, CallModel, GuardsPass, Terminal
  <2>7. CASE AuthExpired \/ CaptchaStops \/ PreflightStops \/ GuardStops
    BY <2>1, <2>7 DEF AuthExpired, CaptchaStops, PreflightStops, GuardStops, complete
  <2>8. CASE GateAutoApproves \/ GateAsks \/ UserApproves \/ Execute \/ appendStep
    BY <2>2, <2>8
    DEF GateAutoApproves, GateAsks, UserApproves, Execute, appendStep, Terminal
  <2>9. CASE UserRejects
    BY <2>1, <2>9 DEF UserRejects, complete, rejection
  <2>10. CASE EmitProgress \/ WriteAudit
    BY <2>2, <2>10 DEF EmitProgress, WriteAudit, Terminal
  <2>11. CASE AfterReplay \/ AfterPrefix \/ Retry
    BY <2>1, <2>2, <2>11 DEF AfterReplay, AfterPrefix, Retry, complete, Terminal
  <2>12. CASE AfterLoopStep
    <3>1. cur.finish \in BOOLEAN /\ cur.ok \in BOOLEAN /\ pc = "after"
      BY <2>0, <2>12 DEF Step, AfterLoopStep
    <3>2. CASE cur.finish
      <4>1. history # <<>> /\ history[Len(history)].finish /\ history' = history
        BY <2>12, <3>1, <3>2 DEF AfterLoopStep, RecordInv, Recorded
      <4> QED
        BY <4>1 DEF SuccessIsEarned
    <3>3. CASE ~cur.finish /\ ~cur.ok
      <4>1. reason' \in {"action_failed", "replay_fragment_failed"}
        BY <2>12, <3>3 DEF AfterLoopStep, complete
      <4> QED
        BY <2>1, <4>1
    <3>4. CASE ~cur.finish /\ cur.ok
      <4>1. reason' = reason
        BY <2>12, <3>4 DEF AfterLoopStep
      <4> QED
        BY <2>2, <3>1, <4>1 DEF Terminal
    <3> QED
      BY <3>1, <3>2, <3>3, <3>4
  <2>13. CASE Raise
    BY <2>3, <2>13 DEF Raise
  <2>14. CASE StopBrowser \/ StopRaises
    BY <2>3, <2>14 DEF StopBrowser, StopRaises
  <2>15. CASE Ended \/ UNCHANGED vars
    BY <2>3, <2>15 DEF Ended, vars
  <2> QED
    BY <2>4, <2>5, <2>6, <2>7, <2>8, <2>9, <2>10, <2>11, <2>12, <2>13, <2>14, <2>15
    DEF Next, AgentStep
<1> QED
  BY <1>1, <1>2, TypeInvariant, RecordInvariant, ReplayInvariant, CompletionInvariant,
     PTL DEF Spec

-----------------------------------------------------------------------------
(* The indexes of the steps. *)

\* Every recorded step has an index below n.
Fresh(n) == \A i \in 1 .. Len(history) : history[i].index < n

\* Or it begins a row of failed attempts at n that lasts to the step `last`.
Retried(n, last) ==
  \A i \in 1 .. Len(history) :
    \/ history[i].index < n
    \/ \A k \in i .. last :
         history[k].index = n /\ history[k].origin = "model" /\ ~history[k].ok

\* What an action takes its index from: the loop's counter, or the length that
\* the history had.
Numbered(len) == cur.index = IF cur.origin \in {"fragment", "model"} THEN index ELSE len

\* IndexReuseIsRetry, and why it is inductive: an index is new when the loop or
\* a stored procedure takes it, and between the attempts of one step nothing but
\* its failed attempts bears it.
IndexInv ==
  /\ IndexReuseIsRetry
  /\ pc \in {"preview", "start", "plan", "stored", "navigate", "enter"} =>
       Fresh(Len(history))
  /\ pc = "top" => Fresh(index)
  /\ pc = "observe" => Retried(index, Len(history))
  /\ pc \in {"caps"} \cup Before =>
       /\ Numbered(Len(history))
       /\ IF cur.origin = "model" THEN Retried(cur.index, Len(history))
                                  ELSE Fresh(cur.index)
  /\ pc \in Recorded =>
       /\ Numbered(Len(history) - 1)
       /\ IF cur.origin = "model"
            THEN Retried(cur.index, Len(history) - 1)
            ELSE \A i \in 1 .. Len(history) - 1 : history[i].index < cur.index

\* Once an action is recorded no step bears a higher index than it.
LEMMA RecordedIsHighest ==
  ASSUME TypeInv, RecordInv, IndexInv, pc \in Recorded
  PROVE  Fresh(cur.index + 1)
<1>0. history \in Seq(Step) /\ cur \in Step /\ cur.index \in Nat
  BY DEF TypeInv, TypeOK, Step
<1>1. history # <<>> /\ history[Len(history)] = cur
  BY DEF RecordInv
<1>2. ASSUME NEW i \in 1 .. Len(history) PROVE history[i].index < cur.index + 1
  <2>0. history[i] \in Step
    BY <1>0
  <2>1. history[i].index \in Nat
    BY <2>0 DEF Step
  <2>2. CASE i = Len(history)
    BY <1>0, <1>1, <2>2
  <2>3. CASE i # Len(history)
    <3>1. i \in 1 .. Len(history) - 1
      BY <1>0, <2>3
    <3>2. CASE cur.origin = "model"
      <4>1. Retried(cur.index, Len(history) - 1)
        BY <3>2 DEF IndexInv
      <4>2. \/ history[i].index < cur.index
            \/ \A k \in i .. Len(history) - 1 : history[k].index = cur.index
        BY <4>1 DEF Retried
      <4>3. i \in i .. Len(history) - 1
        BY <1>0, <3>1
      <4>4. history[i].index < cur.index \/ history[i].index = cur.index
        BY <4>2, <4>3
      <4> QED
        BY <1>0, <2>1, <4>4
    <3>3. CASE cur.origin # "model"
      <4>1. history[i].index < cur.index
        BY <3>1, <3>3 DEF IndexInv
      <4> QED
        BY <1>0, <2>1, <4>1
    <3> QED
      BY <3>2, <3>3
  <2> QED
    BY <2>2, <2>3
<1> QED
  BY <1>2 DEF Fresh

LEMMA IndexInvariant == Spec => []IndexInv
<1> USE DEF Before, Recorded
<1>1. Init => IndexInv
  <2>0. Init => pc = "preview" /\ history = <<>>
    BY DEF Init
  <2>1. Init => pc = "preview" /\ 1 .. Len(history) = {}
    BY <2>0
  <2> QED
    BY <2>1 DEF IndexInv, IndexReuseIsRetry, Fresh
<1>2. TypeInv /\ RecordInv /\ IndexInv /\ [Next]_vars => IndexInv'
  <2> SUFFICES ASSUME TypeInv, RecordInv, IndexInv, [Next]_vars PROVE IndexInv'
    OBVIOUS
  <2> DEFINE Early == {"preview", "start", "plan", "stored", "navigate", "enter"}
             Asking == {"caps"} \cup Before
             Out == {"stopping", "unwinding"} \cup Terminal
             Still == history' = history
  <2>0. /\ history \in Seq(Step) /\ Len(history) \in Nat
        /\ cur \in Step /\ cur.index \in Nat /\ index \in Nat
    BY DEF TypeInv, TypeOK, Step
  <2>1. ASSUME Still, pc' \in Out PROVE IndexInv'
    BY <2>1 DEF IndexInv, IndexReuseIsRetry, Terminal
  <2>2. ASSUME Still, pc' \in Early, Fresh(Len(history)) PROVE IndexInv'
    BY <2>2 DEF IndexInv, IndexReuseIsRetry, Fresh
  <2>3. ASSUME Still, pc \in Asking, pc' \in Asking, index' = index,
               cur'.index = cur.index, cur'.origin = cur.origin
        PROVE  IndexInv'
    <3>1. CASE cur.origin = "model"
      BY <2>3, <3>1 DEF IndexInv, IndexReuseIsRetry, Fresh, Retried, Numbered
    <3>2. CASE cur.origin # "model"
      BY <2>3, <3>2 DEF IndexInv, IndexReuseIsRetry, Fresh, Retried, Numbered
    <3> QED
      BY <3>1, <3>2
  <2>4. ASSUME Still, pc' \in Asking, cur'.origin # "model",
               Numbered(Len(history))', Fresh(cur'.index)
        PROVE  IndexInv'
    BY <2>4 DEF IndexInv, IndexReuseIsRetry, Fresh
  <2>5. CASE \/ PreviewProceeds \/ PreviewStops \/ StartBrowser \/ StartRaises
             \/ ChoosePlan \/ StoredExhausted \/ PrefixNodeDropped
    <3>1. Fresh(Len(history))
      BY <2>5 DEF PreviewProceeds, PreviewStops, StartBrowser, StartRaises, ChoosePlan,
                  StoredExhausted, PrefixNodeDropped, IndexInv
    <3>2. Still /\ pc' \in Early \cup Out
      BY <2>5 DEF PreviewProceeds, PreviewStops, StartBrowser, StartRaises, ChoosePlan,
                  StoredExhausted, PrefixNodeDropped, complete, Terminal
    <3> QED
      BY <2>1, <2>2, <3>1, <3>2
  <2>6. CASE TakeStored
    <3>1. PICK risk \in Risks, tagged \in BOOLEAN :
            cur' = [NoStep EXCEPT !.origin = plan, !.index = stepCount,
                                  !.risk = risk, !.tagged = tagged]
      BY <2>6 DEF TakeStored
    <3>2. cur'.origin = plan /\ cur'.index = Len(history)
      BY <3>1, NoStepType DEF Step, stepCount
    <3>3. plan \in {"replay", "graph"}
      BY <2>6 DEF TakeStored, TypeInv, TypeOK
    <3>4. Still /\ pc' \in Before /\ Fresh(Len(history))
      BY <2>6 DEF TakeStored, IndexInv
    <3> QED
      BY <2>4, <3>2, <3>3, <3>4 DEF Numbered
  <2>7. CASE Navigate
    <3>1. cur'.origin = "navigation" /\ cur'.index = Len(history)
      BY <2>7, NoStepType DEF Navigate, Step, stepCount
    <3>2. Still /\ pc' \in Before /\ Fresh(Len(history))
      BY <2>7 DEF Navigate, IndexInv
    <3> QED
      BY <2>4, <3>1, <3>2 DEF Numbered
  <2>8. CASE EnterLoop
    <3>1. Fresh(Len(history)) /\ index' = Len(history) /\ pc' = "top" /\ Still
      BY <2>8 DEF EnterLoop, IndexInv, stepCount
    <3> QED
      BY <3>1 DEF IndexInv, IndexReuseIsRetry, Fresh
  <2>9. CASE AuthExpired \/ LoopExhausted \/ CaptchaStops \/ PreflightStops \/ GuardStops
    BY <2>1, <2>9
    DEF AuthExpired, LoopExhausted, CaptchaStops, PreflightStops, GuardStops, complete
  <2>10. CASE TakeFragment
    <3>1. cur'.origin = "fragment" /\ cur'.index = index
      BY <2>10, NoStepType DEF TakeFragment, Step
    <3>2. Still /\ pc' \in Before /\ Fresh(index) /\ index' = index
      BY <2>10 DEF TakeFragment, IndexInv
    <3> QED
      BY <2>4, <3>1, <3>2 DEF Numbered
  <2>11. CASE BeginModelStep
    <3>1. Fresh(index) /\ pc' = "observe" /\ index' = index /\ Still
      BY <2>11 DEF BeginModelStep, IndexInv
    <3>2. Retried(index, Len(history))
      BY <3>1 DEF Fresh, Retried
    <3> QED
      BY <3>1, <3>2 DEF IndexInv, IndexReuseIsRetry, Retried
  <2>12. CASE CallModel
    <3>1. cur'.origin = "model" /\ cur'.index = index
      BY <2>12, NoStepType DEF CallModel, Step
    <3>2. /\ Still /\ pc' = "caps" /\ index' = index
          /\ Retried(index, Len(history))
      BY <2>12 DEF CallModel, IndexInv
    <3> QED
      BY <3>1, <3>2 DEF IndexInv, IndexReuseIsRetry, Retried, Numbered
  <2>13. CASE GuardsPass \/ GateAutoApproves \/ GateAsks
    BY <2>3, <2>13 DEF GuardsPass, GateAutoApproves, GateAsks
  <2>14. CASE UserApproves
    <3>1. cur'.origin = cur.origin /\ cur'.index = cur.index
      BY <2>0, <2>14 DEF UserApproves, Step
    <3> QED
      BY <2>3, <2>14, <3>1 DEF UserApproves
  <2>15. CASE UserRejects
    BY <2>1, <2>15 DEF UserRejects, complete
  <2>16. CASE Execute
    <3>1. cur'.origin = cur.origin /\ cur'.index = cur.index
      BY <2>0, <2>16 DEF Execute, Step
    <3> QED
      BY <2>3, <2>16, <3>1 DEF Execute
  <2>17. CASE appendStep
    <3>1. /\ pc = "record" /\ pc' = "progress" /\ cur' = cur /\ index' = index
          /\ history' = Append(history, cur)
      BY <2>17 DEF appendStep
    <3>2. /\ Len(history') = Len(history) + 1 /\ history'[Len(history')] = cur
          /\ \A i \in 1 .. Len(history) : history'[i] = history[i]
      BY <2>0, <3>1
    <3>3. IndexReuseIsRetry'
      <4> SUFFICES ASSUME NEW i \in 1 .. Len(history'), NEW j \in 1 .. Len(history'),
                          i < j, history'[i].index = history'[j].index
                   PROVE  /\ history'[i].origin = "model" /\ history'[j].origin = "model"
                          /\ \A k \in i .. j - 1 :
                               history'[k].index = history'[i].index /\ ~history'[k].ok
        BY DEF IndexReuseIsRetry
      <4>9. i \in 1 .. Len(history) /\ history'[i] = history[i] /\ history[i] \in Step
        BY <2>0, <3>2
      <4>0. i \in 1 .. Len(history) /\ history'[i] = history[i]
            /\ history[i].index \in Nat
        BY <4>9 DEF Step
      <4>1. CASE j \in 1 .. Len(history)
        <5>1. history'[j] = history[j]
          BY <3>2, <4>1
        <5>2. /\ history[i].origin = "model" /\ history[j].origin = "model"
              /\ \A k \in i .. j - 1 : history[k].index = history[i].index /\ ~history[k].ok
          BY <4>0, <4>1, <5>1 DEF IndexInv, IndexReuseIsRetry
        <5>3. \A k \in i .. j - 1 : history'[k] = history[k]
          BY <2>0, <3>2, <4>0, <4>1
        <5> QED
          BY <4>0, <5>1, <5>2, <5>3
      <4>2. CASE j = Len(history')
        <5>1. history[i].index = cur.index /\ j - 1 = Len(history)
          BY <2>0, <3>2, <4>0, <4>2
        <5>2. ~(history[i].index < cur.index)
          BY <2>0, <4>0, <5>1
        <5>3. cur.origin = "model"
          BY <3>1, <4>0, <5>2 DEF IndexInv, Fresh
        <5>4. \A k \in i .. Len(history) :
                /\ history[k].index = cur.index
                /\ history[k].origin = "model" /\ ~history[k].ok
          BY <3>1, <4>0, <5>2, <5>3 DEF IndexInv, Retried
        <5>5. \A k \in i .. Len(history) : history'[k] = history[k]
          BY <2>0, <3>2, <4>0
        <5>6. i \in i .. Len(history)
          BY <2>0, <4>0
        <5> QED
          BY <3>2, <4>0, <4>2, <5>1, <5>3, <5>4, <5>5, <5>6
      <4> QED
        BY <2>0, <3>2, <4>1, <4>2
    <3>4. Numbered(Len(history) - 1)'
      <4>1. Numbered(Len(history))
        BY <3>1 DEF IndexInv
      <4> QED
        BY <2>0, <3>1, <3>2, <4>1 DEF Numbered
    <3>5. CASE cur.origin = "model"
      <4>1. Retried(cur.index, Len(history))
        BY <3>1, <3>5 DEF IndexInv
      <4>2. ASSUME NEW i \in 1 .. Len(history')
            PROVE  \/ history'[i].index < cur.index
                   \/ \A k \in i .. Len(history) :
                        /\ history'[k].index = cur.index
                        /\ history'[k].origin = "model" /\ ~history'[k].ok
        <5>1. CASE i \in 1 .. Len(history)
          <6>1. \A k \in i .. Len(history) : history'[k] = history[k]
            BY <2>0, <3>2, <5>1
          <6> QED
            BY <3>2, <4>1, <5>1, <6>1 DEF Retried
        <5>2. CASE i = Len(history')
          BY <2>0, <3>2, <5>2
        <5> QED
          BY <2>0, <3>2, <5>1, <5>2
      <4>3. Retried(cur.index, Len(history) - 1)'
        BY <2>0, <3>1, <3>2, <4>2 DEF Retried
      <4> QED
        BY <3>1, <3>3, <3>4, <3>5, <4>3 DEF IndexInv
    <3>6. CASE cur.origin # "model"
      <4>1. Fresh(cur.index)
        BY <3>1, <3>6 DEF IndexInv
      <4>2. \A i \in 1 .. Len(history') - 1 : history'[i].index < cur.index
        BY <2>0, <3>2, <4>1 DEF Fresh
      <4> QED
        BY <3>1, <3>3, <3>4, <3>6, <4>2 DEF IndexInv
    <3> QED
      BY <3>5, <3>6
  <2>18. CASE EmitProgress \/ WriteAudit
    <3>1. /\ pc \in Recorded /\ pc' \in Recorded
          /\ cur' = cur /\ index' = index /\ Still
      BY <2>18 DEF EmitProgress, WriteAudit
    <3>2. CASE cur.origin = "model"
      BY <3>1, <3>2 DEF IndexInv, IndexReuseIsRetry, Retried, Numbered
    <3>3. CASE cur.origin # "model"
      BY <3>1, <3>3 DEF IndexInv, IndexReuseIsRetry, Numbered
    <3> QED
      BY <3>2, <3>3
  <2>19. CASE AfterReplay \/ AfterPrefix
    <3>1. /\ pc = "after" /\ cur.origin \notin {"fragment", "model"} /\ Still
          /\ pc' \in {"stored", "enter", "stopping"}
      BY <2>19 DEF AfterReplay, AfterPrefix, complete
    <3>2. cur.index = Len(history) - 1
      BY <3>1 DEF IndexInv, Numbered
    <3>3. Fresh(Len(history))
      BY <2>0, <3>1, <3>2, RecordedIsHighest
    <3> QED
      BY <2>1, <2>2, <3>1, <3>3
  <2>20. CASE Retry
    <3>1. /\ pc = "after" /\ pc' = "observe" /\ index' = index /\ Still
          /\ cur.origin = "model" /\ ~cur.ok
      BY <2>20 DEF Retry
    <3>2. /\ cur.index = index /\ Retried(cur.index, Len(history) - 1)
          /\ history # <<>> /\ history[Len(history)] = cur
      BY <3>1 DEF IndexInv, Numbered, RecordInv
    <3>3. ASSUME NEW i \in 1 .. Len(history)
          PROVE  \/ history[i].index < index
                 \/ \A k \in i .. Len(history) :
                      /\ history[k].index = index
                      /\ history[k].origin = "model" /\ ~history[k].ok
      <4>1. \/ history[i].index < index
            \/ \A k \in i .. Len(history) - 1 :
                 /\ history[k].index = index
                 /\ history[k].origin = "model" /\ ~history[k].ok
        BY <3>2 DEF Retried
      <4>2. \A k \in i .. Len(history) : k = Len(history) \/ k \in i .. Len(history) - 1
        BY <2>0
      <4>3. /\ history[Len(history)].index = index
            /\ history[Len(history)].origin = "model" /\ ~history[Len(history)].ok
        BY <3>1, <3>2
      <4> QED
        BY <4>1, <4>2, <4>3
    <3> QED
      BY <3>1, <3>3 DEF IndexInv, IndexReuseIsRetry, Retried
  <2>21. CASE AfterLoopStep
    <3>1. cur.finish \in BOOLEAN /\ cur.ok \in BOOLEAN
      BY <2>0 DEF Step
    <3>2. /\ pc = "after" /\ cur.origin \in {"fragment", "model"} /\ Still
          /\ pc' = "stopping" \/ (pc' = "top" /\ index' = index + 1)
      BY <2>21, <3>1 DEF AfterLoopStep, complete
    <3>3. CASE pc' = "stopping"
      BY <2>1, <3>2, <3>3
    <3>4. CASE pc' = "top" /\ index' = index + 1
      <4>1. cur.index = index
        BY <3>2 DEF IndexInv, Numbered
      <4>2. Fresh(index + 1)
        BY <3>2, <4>1, RecordedIsHighest
      <4> QED
        BY <3>2, <3>4, <4>2 DEF IndexInv, IndexReuseIsRetry, Fresh
    <3> QED
      BY <3>2, <3>3, <3>4
  <2>22. CASE Raise \/ StopBrowser \/ StopRaises
    BY <2>1, <2>22 DEF Raise, StopBrowser, StopRaises, Terminal
  <2>23. CASE Ended \/ UNCHANGED vars
    BY <2>23 DEF Ended, vars, IndexInv, IndexReuseIsRetry, Fresh, Retried, Numbered
  <2> QED
    BY <2>5, <2>6, <2>7, <2>8, <2>9, <2>10, <2>11, <2>12, <2>13, <2>14, <2>15, <2>16,
       <2>17, <2>18, <2>19, <2>20, <2>21, <2>22, <2>23
    DEF Next, AgentStep
<1> QED
  BY <1>1, <1>2, TypeInvariant, RecordInvariant, PTL DEF Spec

\* The row that appendStep MERGEs for a step that took effect is never
\* overwritten: an index is used again only to retry the step that failed there,
\* whatever mixture of stored actions, fragments and model steps the run took.
THEOREM IndexesAreRetried == Spec => []IndexReuseIsRetry
<1>1. IndexInv => IndexReuseIsRetry
  BY DEF IndexInv
<1> QED
  BY <1>1, IndexInvariant, PTL
=============================================================================
