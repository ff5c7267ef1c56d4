CONSTANTS
  Pages <- MCPages
  Blank = "blank"
  Site <- MCSite
  Distance <- MCDistance
  Canonical <- MCCanonical
  StartPages = {"blank"}
  Kept = {TRUE}
  Users = {u1, u2}
  Runs = {r1, r2}
  Actions <- MCActions
  Leads <- MCLeads
  InitialUrl <- open
  Replies <- MCReplies
  Deeds <- MCDeeds
  MaxFailures = 1
  MaxSteps = 3
  Procedures <- MCProcedures
  GraphLimit = 20
  MaxHops = 2
  TtlDays = 0
  MaxDay = 1
SYMMETRY WorkerSymmetry
SPECIFICATION Spec
INVARIANTS
  FirstNodeIsReplayed
