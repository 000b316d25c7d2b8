\* One execution, nobody killed: three cells on two slots.
CONSTANTS
  Cells = {c1, c2, c3}
  Concurrency = 2
  MaxLaunches = 1
  MaxCrashes = 0
SPECIFICATION Spec
SYMMETRY CellSymmetry
CHECK_DEADLOCK FALSE
INVARIANTS
  TypeOK
  SlotBound
  StopReachesChildren
  NoChildLeftBehind
  LedgersAgree
