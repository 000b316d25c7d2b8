\* A stop that reaches the controller before its handlers are installed.
CONSTANTS
  Cells = {c1}
  Concurrency = 1
  MaxLaunches = 1
  MaxCrashes = 0
SPECIFICATION Spec
CHECK_DEADLOCK FALSE
INVARIANT
  StoppedIsTerminal
