---------------------------- MODULE MCControllers ----------------------------
(***************************************************************************)
(* The controllers that share nothing with one another, side by side: in   *)
(* each behaviour one of them runs, and v1, v2, ... are the variables of   *)
(* its module.  Frontier-Engineering is there twice, as one controller     *)
(* over two cells and as two controllers racing for one.  The commands     *)
(* that provide their checkouts, images and directories are here too, and  *)
(* three of them are there twice: once alone, where more can change around *)
(* them, and once with several commands at a time.                         *)
(*                                                                         *)
(* The bounds of every part are parameters: its theorems (in               *)
(* ControllersProofs, RunsProofs and ProvisionProofs) hold for all values. *)
(***************************************************************************)
EXTENDS Naturals
CONSTANTS
  FrontierControllers, FrontierCells,   \* Frontier-Engineering: one controller over its cells
  RaceControllers, RaceCells,           \* the same: controllers started on one campaign
  FrontierGrouped,                      \* cells whose agent has a process group of its own
  AIBenchCells, AIBenchConcurrency,     \* AIBench: cells, and threads of the pool
  ZSoftCells,                           \* ZSoft: cells
  SweRuns,                              \* SWE-bench: runs of the command
  SearchAsks, SearchK,                  \* a Goal Plus search there: audits, concurrency,
  SearchIterations, SearchSessions,     \*   iterations per session, further sessions
  PlainLanesAsked,                      \* OpenEvolve: lanes of a plain run,
  BatchCells, BatchRuns,                \*   cells and runs of a batch,
  EvolveSlots, EvolveRuns, EvolveRepairs,  \*   concurrency, runs and closeouts of a run
  \* a checkout: its commands, changes of the remote, edits of the user
  AloneCommands, AloneChanges, AloneEdits,
  RivalCommands, RivalChanges, RivalEdits,
  PackImages, PackSources, PackRuns, PackTouches,  \* an image pack: provisions, touches by others
  \* a run directory: adapters, lanes, prepares, runs, moves of the checkout
  AloneNames, AloneLanes, AlonePrepares, AloneRuns, AloneMoves,
  RivalNames, RivalLanes, RivalPrepares, RivalRuns, RivalMoves,
  \* an EdgeBench campaign's directory: tasks, prepares, launches, moves of what is frozen
  FreezeTasks, FreezePrepares, FreezeLaunches, FreezeMoves,
  LaunchTasks, LaunchPrepares, LaunchLaunches, LaunchMoves

ASSUME FrontierBounds == FrontierCells \in Nat /\ RaceCells \in Nat
ASSUME AIBenchBounds == AIBenchCells \in Nat /\ AIBenchConcurrency \in Nat
ASSUME ZSoftBounds == ZSoftCells \in Nat
ASSUME SweBounds == SweRuns \in Nat
ASSUME SearchBounds ==
  SearchK \in Nat /\ SearchIterations \in Nat \ {0} /\ SearchSessions \in Nat
ASSUME PlainBounds == PlainLanesAsked \in Nat \ {0}
ASSUME BatchBounds == BatchCells \in Nat /\ BatchRuns \in Nat
ASSUME OpenEvolveBounds ==
  EvolveSlots \in Nat \ {0} /\ EvolveRuns \in Nat /\ EvolveRepairs \in Nat

\* A checkout, a run directory and a campaign directory are within bounds of their own.
CheckoutBounds == [commands : Nat, changes : Nat, edits : Nat]
CheckoutAlone == [commands |-> AloneCommands, changes |-> AloneChanges, edits |-> AloneEdits]
CheckoutRival == [commands |-> RivalCommands, changes |-> RivalChanges, edits |-> RivalEdits]
ASSUME BootstrapBounds == CheckoutAlone \in CheckoutBounds /\ CheckoutRival \in CheckoutBounds

ASSUME PackBounds ==
  PackImages \in Nat /\ PackSources \in Nat /\ PackRuns \in Nat /\ PackTouches \in Nat

PreparedAdapters ==
  {"heurigym", "frontier_cs", "autolab", "malloclab", "ale", "torchbench", "frontier_engineering",
   "local_vliw", "zsoft_l1", "zsoft_detect"}
RunBounds == [names : SUBSET PreparedAdapters, lanes : Nat \ {0}, prepares : Nat, runs : Nat,
              moves : Nat]
RunAlone == [names |-> AloneNames, lanes |-> AloneLanes, prepares |-> AlonePrepares,
             runs |-> AloneRuns, moves |-> AloneMoves]
RunRival == [names |-> RivalNames, lanes |-> RivalLanes, prepares |-> RivalPrepares,
             runs |-> RivalRuns, moves |-> RivalMoves]
ASSUME PreparedBounds == RunAlone \in RunBounds /\ RunRival \in RunBounds

CampaignBounds == [tasks : Nat \ {0}, prepares : Nat, launches : Nat, moves : Nat]
CampaignFrozen == [tasks |-> FreezeTasks, prepares |-> FreezePrepares,
                   launches |-> FreezeLaunches, moves |-> FreezeMoves]
CampaignLaunched == [tasks |-> LaunchTasks, prepares |-> LaunchPrepares,
                     launches |-> LaunchLaunches, moves |-> LaunchMoves]
ASSUME FrozenBounds ==
  CampaignFrozen \in CampaignBounds /\ CampaignLaunched \in CampaignBounds

VARIABLES part,   \* which part is at work
          \* its variables, in the order in which its module declares them
          v1, v2, v3, v4, v5, v6, v7, v8, v9, v10, v11, v12, v13, v14, v15, v16, v17, v18, v19,
          v20, v21

vars == <<part, v1, v2, v3, v4, v5, v6, v7, v8, v9, v10, v11, v12, v13, v14, v15, v16, v17, v18,
         v19, v20, v21>>

Swe == INSTANCE SweAttempt WITH
  MaxRuns <- SweRuns, gp <- v1, retain <- v2, blocked <- v3, disk <- v4, mem <- v5, network <- v6,
  bridge <- v7, box <- v8, open <- v9, agent <- v10, known <- v11, patch <- v12,
  torn <- v13, closed <- v14, exported <- v15, raised <- v16, pc <- v17, asked <- v18,
  runs <- v19

Search == INSTANCE SweSearch WITH
  Asks <- SearchAsks, K <- SearchK, MaxIterations <- SearchIterations,
  MaxSessions <- SearchSessions, asked <- v1,
  sess <- v2, iters <- v3, scope <- v4, run <- v5, chosen <- v6, gate <- v7,
  applied <- v8, goal <- v9, step <- v10, passed <- v11, overlap <- v12, together <- v13,
  learnt <- v14, found <- v15

Frontier(M, N) == INSTANCE FrontierCampaign WITH
  MaxControllers <- M, NumCells <- N, Grouped <- FrontierGrouped, disk <- v1, exper <- v2, fin <- v3,
  ctl <- v4, leader <- v5, pc <- v6, mem <- v7, cur <- v8, flag <- v9, agent <- v10,
  ok <- v11, stop <- v12, begun <- v13, after <- v14, audit <- v15

AIBench == INSTANCE AIBenchPool WITH
  NumCells <- AIBenchCells, CellConcurrency <- AIBenchConcurrency, camp <- v1, cells <- v2,
  mem <- v3, exper <- v4, future <- v5, result <- v6, pc <- v7, taken <- v8, ran <- v9

ZSoft == INSTANCE ZSoftCampaign WITH
  NumCells <- ZSoftCells, camp <- v1, cells <- v2, mem <- v3, cur <- v4, active <- v5,
  native <- v6, child <- v7, code <- v8, scored <- v9, interrupted <- v10, pc <- v11, started <- v12

Plain == INSTANCE PlainLanes WITH
  NumLanes <- PlainLanesAsked, only <- v1, status <- v2, pc <- v3, raised <- v4, lane <- v5,
  soft <- v6,
  hard <- v7, late <- v8, eval <- v9, copy <- v10, final <- v11, artifact <- v12,
  torn <- v13

Batch == INSTANCE BatchResume WITH
  NumCells <- BatchCells, MaxRuns <- BatchRuns, prepared <- v1, exper <- v2, disk <- v3,
  selected <- v4,
  fast <- v5, mem <- v6, cur <- v7, outcome <- v8, pc <- v9, code <- v10, asked <- v11,
  runs <- v12, ran <- v13, first <- v14, broke <- v15

OpenEvolve == INSTANCE OpenEvolveRun WITH
  Slots <- EvolveSlots, MaxRuns <- EvolveRuns, MaxRepairs <- EvolveRepairs,
  method <- v1, dir <- v2, status <- v3,
  record <- v4, repaired <- v5, artifact <- v6, goal <- v7, verified <- v8,
  selected <- v9, hit <- v10, agent <- v11, pc <- v12, control <- v13, done <- v14,
  final <- v15, rpc <- v16, copy <- v17, runs <- v18, repairs <- v19, agents <- v20,
  torn <- v21

Bootstrap(b) == INSTANCE Checkouts WITH
  NumCommands <- b.commands, MaxChanges <- b.changes, MaxEdits <- b.edits, remote <- v1,
  disk <- v2, staging <- v3, staged <- v4, op <- v5, pc <- v6, seen <- v7, healthy <- v8,
  code <- v9, changes <- v10, edits <- v11, work <- v12, moved <- v13

Images == INSTANCE ImagePack WITH
  NumImages <- PackImages, NumSources <- PackSources, MaxRuns <- PackRuns,
  MaxTouches <- PackTouches, source <- v1, base <- v2, image <- v3, backups <- v4, pc <- v5,
  at <- v6, tries <- v7, before <- v8, answer <- v9, runs <- v10, touches <- v11, had <- v12,
  mixed <- v13

Prepare(b) == INSTANCE RunPreparation WITH
  Names <- b.names, Lanes <- b.lanes, NumPrepares <- b.prepares, NumRuns <- b.runs,
  MaxMoves <- b.moves, adapter <- v1, method <- v2, external <- v3, source <- v4, host <- v5,
  dir <- v6, lane <- v7, manifest <- v8, prep <- v9, run <- v10, maker <- v11, moves <- v12

Freeze(b) == INSTANCE EdgePreparation WITH
  NumTasks <- b.tasks, NumPrepares <- b.prepares, NumLaunches <- b.launches,
  MaxMoves <- b.moves, protocol <- v1, methods <- v2, assets <- v3, source <- v4, edge <- v5,
  live <- v6, config <- v7, dir <- v8, copied <- v9, cells <- v10, files <- v11, prep <- v12,
  launch <- v13, maker <- v14, moves <- v15

\* A part of n variables leaves the others unused.
Unused == "unused"
UnusedBeyond(n) ==
  /\ IF n < 10 THEN v10 = Unused ELSE TRUE
  /\ IF n < 11 THEN v11 = Unused ELSE TRUE
  /\ IF n < 12 THEN v12 = Unused ELSE TRUE
  /\ IF n < 13 THEN v13 = Unused ELSE TRUE
  /\ IF n < 14 THEN v14 = Unused ELSE TRUE
  /\ IF n < 15 THEN v15 = Unused ELSE TRUE
  /\ IF n < 16 THEN v16 = Unused ELSE TRUE
  /\ IF n < 17 THEN v17 = Unused ELSE TRUE
  /\ IF n < 18 THEN v18 = Unused ELSE TRUE
  /\ IF n < 19 THEN v19 = Unused ELSE TRUE
  /\ IF n < 20 THEN v20 = Unused ELSE TRUE
  /\ IF n < 21 THEN v21 = Unused ELSE TRUE
UnchangedBeyond(n) ==
  /\ IF n < 10 THEN UNCHANGED v10 ELSE TRUE
  /\ IF n < 11 THEN UNCHANGED v11 ELSE TRUE
  /\ IF n < 12 THEN UNCHANGED v12 ELSE TRUE
  /\ IF n < 13 THEN UNCHANGED v13 ELSE TRUE
  /\ IF n < 14 THEN UNCHANGED v14 ELSE TRUE
  /\ IF n < 15 THEN UNCHANGED v15 ELSE TRUE
  /\ IF n < 16 THEN UNCHANGED v16 ELSE TRUE
  /\ IF n < 17 THEN UNCHANGED v17 ELSE TRUE
  /\ IF n < 18 THEN UNCHANGED v18 ELSE TRUE
  /\ IF n < 19 THEN UNCHANGED v19 ELSE TRUE
  /\ IF n < 20 THEN UNCHANGED v20 ELSE TRUE
  /\ IF n < 21 THEN UNCHANGED v21 ELSE TRUE

Init ==
  \/ part = "swe" /\ Swe!Init /\ UnusedBeyond(19)
  \/ part = "search" /\ Search!Init /\ UnusedBeyond(15)
  \/ part = "frontier" /\ UnusedBeyond(15)
     /\ Frontier(FrontierControllers, FrontierCells)!Init
  \/ part = "race" /\ UnusedBeyond(15)
     /\ Frontier(RaceControllers, RaceCells)!Init
  \/ part = "aibench" /\ AIBench!Init /\ UnusedBeyond(9)
  \/ part = "zsoft" /\ ZSoft!Init /\ UnusedBeyond(12)
  \/ part = "lanes" /\ Plain!Init /\ UnusedBeyond(13)
  \/ part = "batch" /\ Batch!Init /\ UnusedBeyond(15)
  \/ part = "openevolve" /\ OpenEvolve!Init /\ UnusedBeyond(21)
  \/ part = "bootstrap" /\ Bootstrap(CheckoutAlone)!Init /\ UnusedBeyond(13)
  \/ part = "bootstraps" /\ Bootstrap(CheckoutRival)!Init /\ UnusedBeyond(13)
  \/ part = "images" /\ Images!Init /\ UnusedBeyond(13)
  \/ part = "prepare" /\ Prepare(RunAlone)!Init /\ UnusedBeyond(12)
  \/ part = "prepares" /\ Prepare(RunRival)!Init /\ UnusedBeyond(12)
  \/ part = "freeze" /\ Freeze(CampaignFrozen)!Init /\ UnusedBeyond(15)
  \/ part = "launches" /\ Freeze(CampaignLaunched)!Init /\ UnusedBeyond(15)

Next ==
  \/ part = "swe" /\ Swe!Next /\ UNCHANGED part /\ UnchangedBeyond(19)
  \/ part = "search" /\ Search!Next /\ UNCHANGED part /\ UnchangedBeyond(15)
  \/ part = "frontier" /\ UNCHANGED part /\ UnchangedBeyond(15)
     /\ Frontier(FrontierControllers, FrontierCells)!Next
  \/ part = "race" /\ UNCHANGED part /\ UnchangedBeyond(15)
     /\ Frontier(RaceControllers, RaceCells)!Next
  \/ part = "aibench" /\ AIBench!Next /\ UNCHANGED part /\ UnchangedBeyond(9)
  \/ part = "zsoft" /\ ZSoft!Next /\ UNCHANGED part /\ UnchangedBeyond(12)
  \/ part = "lanes" /\ Plain!Next /\ UNCHANGED part /\ UnchangedBeyond(13)
  \/ part = "batch" /\ Batch!Next /\ UNCHANGED part /\ UnchangedBeyond(15)
  \/ part = "openevolve" /\ OpenEvolve!Next /\ UNCHANGED part /\ UnchangedBeyond(21)
  \/ part = "bootstrap" /\ Bootstrap(CheckoutAlone)!Next /\ UNCHANGED part /\ UnchangedBeyond(13)
  \/ part = "bootstraps" /\ Bootstrap(CheckoutRival)!Next /\ UNCHANGED part /\ UnchangedBeyond(13)
  \/ part = "images" /\ Images!Next /\ UNCHANGED part /\ UnchangedBeyond(13)
  \/ part = "prepare" /\ Prepare(RunAlone)!Next /\ UNCHANGED part /\ UnchangedBeyond(12)
  \/ part = "prepares" /\ Prepare(RunRival)!Next /\ UNCHANGED part /\ UnchangedBeyond(12)
  \/ part = "freeze" /\ Freeze(CampaignFrozen)!Next /\ UNCHANGED part /\ UnchangedBeyond(15)
  \/ part = "launches" /\ Freeze(CampaignLaunched)!Next /\ UNCHANGED part /\ UnchangedBeyond(15)

Spec == Init /\ [][Next]_vars

-----------------------------------------------------------------------------
\* SWE-bench: the one official evaluation sees a stopped Agent, a confined Agent has no
\* public route, and a completed campaign is what it says (run_agent, execute_campaign);
\* a passed search was carried out, in parallel (closeout, collect_goal_plus_state).
AttemptIsSound ==
  /\ part = "swe" => Swe!TypeOK /\ Swe!AttemptIsSound
  /\ part = "search" => Search!TypeOK /\ Search!SearchIsSound

\* Frontier-Engineering: completed is real over races, kills and audits, and a stop is
\* heard and wakes the agent (execute_campaign, stop_campaign, finalize_campaign).
FrontierIsSound ==
  /\ part = "frontier" =>
       /\ Frontier(FrontierControllers, FrontierCells)!TypeOK
       /\ Frontier(FrontierControllers, FrontierCells)!FrontierIsSound
  /\ part = "race" =>
       /\ Frontier(RaceControllers, RaceCells)!TypeOK
       /\ Frontier(RaceControllers, RaceCells)!FrontierIsSound

\* AIBench and ZSoft: the pool's children are bounded and waited for and their results
\* recorded (aibench execute_campaign, _run_cell); completion rests on this attempt's
\* evidence and an interrupt ends the campaign (zsoft execute_campaign).
CellsAreSound ==
  /\ part = "aibench" => AIBench!TypeOK /\ AIBench!PoolIsSound
  /\ part = "zsoft" => ZSoft!TypeOK /\ ZSoft!ZSoftIsSound

\* OpenEvolve: nothing is evaluated while an agent runs and the best lane is delivered
\* (execute_plain, run_controlled_many), every cell of a batch runs once and its record is
\* final (run_batch), a run's verdict is about its own agents and state (execute, closeout).
OpenEvolveIsSound ==
  /\ part = "lanes" => Plain!TypeOK /\ Plain!LanesAreSound
  /\ part = "batch" => Batch!TypeOK /\ Batch!BatchIsSound
  /\ part = "openevolve" => OpenEvolve!TypeOK /\ OpenEvolve!RunIsSound

\* Provisioning: a bootstrap loses no local work and what it reports is what is there
\* (repro_env), an image pack is what its labels say (skydiscover environment), a run
\* directory and an EdgeBench campaign hold what their records name, and a launch starts
\* from what was prepared (the two prepare commands, prepare_runtime_resources).
ProvisionIsSound ==
  /\ part = "bootstrap" =>
       Bootstrap(CheckoutAlone)!TypeOK /\ Bootstrap(CheckoutAlone)!CheckoutIsSound
  /\ part = "bootstraps" =>
       Bootstrap(CheckoutRival)!TypeOK /\ Bootstrap(CheckoutRival)!CheckoutIsSound
  /\ part = "images" => Images!TypeOK /\ Images!PackIsSound
  /\ part = "prepare" =>
       Prepare(RunAlone)!TypeOK /\ Prepare(RunAlone)!PreparationIsSound
  /\ part = "prepares" =>
       Prepare(RunRival)!TypeOK /\ Prepare(RunRival)!PreparationIsSound
  /\ part = "freeze" =>
       Freeze(CampaignFrozen)!TypeOK /\ Freeze(CampaignFrozen)!EdgePreparationIsSound
  /\ part = "launches" =>
       Freeze(CampaignLaunched)!TypeOK /\ Freeze(CampaignLaunched)!EdgePreparationIsSound
=============================================================================
