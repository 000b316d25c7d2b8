\* One experiment: executed, killed once, repaired twice.
CONSTANTS
  NumCands = 2
  MaxIterations = 2
  MaxRepairs = 2
  MaxCrashes = 1
SPECIFICATION Spec
CHECK_DEADLOCK FALSE
INVARIANTS
  TypeOK
  ReceiptFirst
  FinishedResult
PROPERTIES
  AskedOnce
  GateDecides
  ReuseAccepted
  CommandEnds
  RefinesSettlement
