\* Each controller, and each command that provides for them, by itself.
SPECIFICATION Spec
CHECK_DEADLOCK FALSE
CONSTANTS
  FrontierControllers = 1
  FrontierCells = 2
  RaceControllers = 2
  RaceCells = 1
  FrontierGrouped = {1}
  AIBenchCells = 3
  AIBenchConcurrency = 2
  ZSoftCells = 3
  SweRuns = 2
  SearchAsks = {"off", "peers"}
  SearchK = 2
  SearchIterations = 1
  SearchSessions = 1
  PlainLanesAsked = 2
  BatchCells = 2
  BatchRuns = 3
  EvolveSlots = 2
  EvolveRuns = 2
  EvolveRepairs = 2
  AloneCommands = 1
  AloneChanges = 2
  AloneEdits = 1
  RivalCommands = 2
  RivalChanges = 1
  RivalEdits = 1
  PackImages = 2
  PackSources = 2
  PackRuns = 2
  PackTouches = 2
  AloneNames = {"heurigym", "frontier_cs", "autolab", "malloclab", "ale", "torchbench",
                "frontier_engineering", "local_vliw", "zsoft_l1", "zsoft_detect"}
  AloneLanes = 2
  AlonePrepares = 1
  AloneRuns = 1
  AloneMoves = 2
  RivalNames = {"frontier_cs"}
  RivalLanes = 2
  RivalPrepares = 2
  RivalRuns = 2
  RivalMoves = 1
  FreezeTasks = 2
  FreezePrepares = 2
  FreezeLaunches = 1
  FreezeMoves = 1
  LaunchTasks = 1
  LaunchPrepares = 1
  LaunchLaunches = 2
  LaunchMoves = 2
INVARIANTS
  AttemptIsSound
  FrontierIsSound
  CellsAreSound
  OpenEvolveIsSound
  ProvisionIsSound
