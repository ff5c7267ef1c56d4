SPECIFICATION Spec
CONSTANTS
  MaxRequests = 2
  Threads = {t1, t2}
  None = None
SYMMETRY ThreadSymmetry
INVARIANTS
  ApprovedWasSeen
CHECK_DEADLOCK FALSE
