\* Two runs on the same campaign, stops anywhere and one controller killed.
CONSTANTS
  Cells = {c1, c2}
  Concurrency = 2
  MaxRuns = 2
  MaxCrashes = 1
INIT Init
NEXT Next
SYMMETRY CellSymmetry
CHECK_DEADLOCK FALSE
INVARIANTS
  FinishedIsReal
  CampaignFinished
PROPERTIES
  TerminalIsFinal
