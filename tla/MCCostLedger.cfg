SPECIFICATION Spec
CONSTANTS
  Runs = {r1, r2}
  MaxHour = 3
  HoursPerDay = 2
  Retention = 2
  MaxPerHour = 2
  MaxPerDay = 3
  Estimate = 1
  MaxCost = 2
  MaxFailures = 1
  MaxStarts = 2
SYMMETRY RunSymmetry
INVARIANTS
  TypeOK
  EveryCentIsAccounted
  OvershootIsBounded
PROPERTIES
  BudgetIsNotReturned
CHECK_DEADLOCK FALSE
