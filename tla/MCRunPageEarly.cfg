CONSTANTS
  Tabs = {t1, t2}
  Stores = {"neo4j", "memory"}
  MaxSteps = 1
  MaxFailures = 1
  MaxOpens = 1
SPECIFICATION Spec
CHECK_DEADLOCK FALSE
INVARIANT
  RunningIsNotFinished
