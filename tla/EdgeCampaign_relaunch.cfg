\* Two executions on the same files, one controller killed anywhere; both end.
CONSTANTS
  Cells = {c1, c2}
  Concurrency = 1
  MaxLaunches = 2
  MaxCrashes = 1
SPECIFICATION StopSpec
CHECK_DEADLOCK FALSE
INVARIANTS
  CompletedIsScored
  CompletedCampaign
  CleanExit
PROPERTIES
  RefinesCellSlots
  NoStartAfterForward
  StopEnds
  CampaignEnds
