\* One run of three cells on two slots, stopped anywhere.
CONSTANTS
  Cells = {c1, c2, c3}
  Concurrency = 2
  MaxRuns = 1
  MaxCrashes = 0
SPECIFICATION Spec
CHECK_DEADLOCK FALSE
INVARIANTS
  NoChildLeft
PROPERTIES
  FailFastStops
  StopEnds
  RunEnds
  RefinesPool
