\* A stop after a write failed between Popen and the queue's own record.
CONSTANTS
  Cells = {c1}
  Concurrency = 1
  MaxLaunches = 1
  MaxCrashes = 0
SPECIFICATION Spec
CHECK_DEADLOCK FALSE
INVARIANT
  EveryRunIsStopped
