\* Each shared record, and each kind of evidence, by itself.
SPECIFICATION Spec
CHECK_DEADLOCK FALSE
CONSTANTS
  RecordLaunches = 2
  RecordStops = 2
  JudgeControllers = 2
  AgentSlots = 2
  AgentCommands = 3
  WorkerRequests = 3
  WorkerGenerations = 2
  BudgetCalls = 3
  BudgetPublic = 1
  BudgetReserve = 1
  BudgetEdits = 1
  JudgementCandidates = 2
  Judgements = 2
  CacheCalls = 2
  CacheMoves = 1
  CacheBatches = 2
  AdapterNames = {"frontier_engineering", "malloclab", "frontier_cs", "heurigym", "autolab",
                  "local_vliw", "ale", "torchbench", "zsoft_l1", "zsoft_detect"}
  AdapterCalls = 1
  AdapterEdits = 2
  AdapterMoves = 1
  CallNames = {"frontier_cs", "zsoft_l1"}
  CallCalls = 2
  CallEdits = 1
  CallMoves = 0
  SearchWorkers = 2
  SearchCands = 2
  SearchGens = 1
  LoneRuns = 1
  LoneSessions = 3
  NextRuns = 2
  NextSessions = 2
  AuditWorkers = 2
  AuditDeadline = 3
  AuditIdle = 0
  AuditFirst = 2
  AuditOthers = 1
  CurveAnchors = 1
  CurveEntries = 2
  CurveExtracts = 1
  CurveReports = 4
  CurveRank <- FourRanks
  CurvePoints <- FourPoints
  CurveScaled = {1, 2, 4}
  CurveValid = {1, 2, 3}
  WatchCheckpoint = 1
  WatchWindow = 1
  WatchPass = 1
  AgainCells = 1
  AgainWatchers = 1
  AgainTime = 4
  AgainLaunches = 2
  AcrossCells = 2
  AcrossWatchers = 1
  AcrossTime = 3
  AcrossLaunches = 1
  TogetherCells = 1
  TogetherWatchers = 2
  TogetherTime = 2
  TogetherLaunches = 1
INVARIANTS
  RecordIsSound
  JudgeIsSound
  PhasesAreSound
  EvaluationIsSound
  SandboxIsSound
  EvidenceIsSound
  CurveIsSound
