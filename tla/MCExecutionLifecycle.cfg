SPECIFICATION FairSpec
CONSTANTS
  Executions = {e1, e2}
  Tasks = {t1, t2}
  MaxSteps = 1
  None = None
INVARIANTS
  TypeOK
  LiveRunsOwnTheSlot
  CompleteIsTrue
  NothingOutlivesItsTask
PROPERTIES
  OutcomeIsFinal
  SlotIsReleased
CHECK_DEADLOCK FALSE
