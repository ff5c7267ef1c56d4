SPECIFICATION FairSpec
CONSTANTS
  MaxSteps = 3
  MaxRetries = 1
  MaxStored = 2
  Cap = 4
  Estimate = 1
  Costs <- MCCosts
INVARIANTS
  TypeOK
  SuccessIsEarned
  IndexReuseIsRetry
  HighRiskIsAsked
  RecordedWithinCap
  SpendingIsBounded
  AuditKeepsUp
PROPERTIES
  CompletionIsFinal
  EndsOrAwaitsUser
