SPECIFICATION FairSpec
CONSTANTS
  MaxRequests = 2
  Threads = {t1, t2}
  None = None
INVARIANTS
  TypeOK
  OutcomeWasPosted
  NothingBanked
PROPERTIES
  DecisionArrives
  ImplementsApproval
CHECK_DEADLOCK FALSE
