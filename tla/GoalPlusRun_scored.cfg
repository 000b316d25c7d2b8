\* A repaired experiment is finished without a final evaluation of its result.
CONSTANTS
  NumCands = 1
  MaxIterations = 1
  MaxRepairs = 1
  MaxCrashes = 1
SPECIFICATION Spec
CHECK_DEADLOCK FALSE
INVARIANTS
  FinishedIsScored
