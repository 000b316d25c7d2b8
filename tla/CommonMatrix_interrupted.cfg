\* A stop while a cell is at work.
CONSTANTS
  Cells = {c1}
  Concurrency = 1
  MaxRuns = 1
  MaxCrashes = 0
SPECIFICATION Spec
CHECK_DEADLOCK FALSE
INVARIANT
  InterruptedIsResumable
