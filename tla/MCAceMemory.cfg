SPECIFICATION Spec
CONSTANTS
  UseLlm = TRUE
  GeminiKey = TRUE
  LocalLlm = TRUE
  ForceLocalLlm = FALSE
  AccountTasks = {}
  Replies <- MCReplies
  Similarity <- MCSimilarity
  MaxBullets = 4
  TopK = 3
  MaxActions = 3
  Traces <- MCTraces
  Workers = {w1, w2}
  MaxRuns = 3
  MaxFailures = 1
SYMMETRY WorkerSymmetry
INVARIANTS
  TypeOK
  LearnedWasDone
  RemovedStaysRemoved
PROPERTIES
  ReplayShadowsFragments
  RefineIsFair
CHECK_DEADLOCK FALSE
