# A TLA+ model of the bench-goal-plus campaign controllers

The repository prepares, runs, stops and finalizes coding-agent benchmark campaigns. A
campaign is a directory of JSON files and a controller process that works through a matrix
of cells. What is hard in it is not any one function but what happens between them: signals
that arrive between two statements, children that exit while nobody looks, files that are
written one after the other, controllers that are killed and started again on the same
directory. That is what is modelled here.

## Inventory

| Component (source) | State it keeps | Operations | What is hard | What makes it correct | Module |
|---|---|---|---|---|---|
| EdgeBench controller (`experiments/edgebench/controller/runtime.py`) | `campaign.json`, `cells/*/cell.json`; in memory `pending`, `active`, the stop flags, the exit code | launch, execute, start/finish a cell, forward the stop | stop signals at any statement, one-shot forwarding, two ledgers, kills and relaunches | slots, every child told to stop, none left behind, ledgers agree, completed means scored | `EdgeCampaign` |
| `controller.json` (same file, `io.py`) | one file, rewritten in place by four writers | launch, execute, the signal handler, stop | nested and lost writes | the controller's last word stands, the living are named | `ControllerRecord` |
| Judge and bridges (`start_or_reuse_judge`, `RuntimeResources`, `loopback_bridge.py`) | judge and bridge processes, their record | prepare, reuse, close, the exit | reuse of another's judge, bounded closeout, failing writes, kills | what is left running is said to be, cells have their judge | `EdgeResources` |
| EdgeBench finalization (`reporting.py`, `evidence.py`) | the campaign's files, `incomplete_cells`, a trajectory's archive | finalize, verdict | repairs what an earlier finalization found; evidence read while it grows | a completed campaign has only completed cells; a passed cell had its search | `EdgeCampaign`, `TrajectoryEvidence` |
| EdgeBench preparation and preflight (`preparation.py`, `environment.py`) | the campaign's directory | prepare, compare at launch | what was frozen moves before and during the comparison | what is launched is whole and as prepared | `EdgePreparation` |
| EdgeBench time curves (`timecurve.py`) | curve, snapshots, fast reference | extract, collect, watch | late reports, checkpoints between polls, relaunches | a row shows what was known by then, and none worse than an earlier row's | `TimeCurve`, `GameWatch` |
| Common matrix controller (`experiments/benchmark_campaign/experiment.py`) | `campaign.json` (replaced atomically), `active_cells`, `pending` | run, launch/finish a cell, terminate | the stop is an exception raised anywhere, the `finally` block included | slots, no child left, terminal cells final, finished means finished | `CommonMatrix` |
| Single-run harness (`experiments/benchmark_compare/experiment.py`) | run directory, `experiment.json` | prepare, run, closeout | check of `prepared` far from the write of `running`; checkouts that move; killed anywhere | lanes alike, one execution, the best lane delivered | `RunPreparation`, `PlainLanes`, `GoalPlusRun` |
| Controlled processes (`run_controlled`, `run_controlled_many`) | the agents | early stop, deadline, soft stop, hard kill | races between exit, deadline and interrupt | nothing is evaluated under a live agent | `GoalPlusRun`, `PlainLanes`, `OpenEvolveRun` |
| Goal Plus closeout (`finalize_goal_plus_search`), candidate judge | search runs, selections, promotions, receipts | drain, verify, judge, select, promote, repair | retried after an interruption, an agent that lives on | one choice, asked once, promoted once | `GoalPlusRun`, `Settlement`, `CandidateJudge` |
| OpenEvolve runs and batch (`experiments/openevolve_compare/experiment.py`) | `experiment.json`, `campaign-results.json` | prepare, execute, closeout, run-batch | kills between an end and its record, closeout beside a run | one agent per directory, records final | `OpenEvolveRun`, `BatchResume` |
| Evaluators (`adapters/*`) | `budget.json`, history, the reference cache | claim, screen, judge, report | several processes, candidates edited meanwhile, moving checkouts | counted once, judged as pinned | `EvaluatorBudget`, `AdapterEvaluation`, `ReferenceCache` |
| Benchmark agent (`bench_goal_plus/application.py`, `state.py`) | `agent-run.json` | start, resume, stop, status, finish | read, run for hours, write back | never ahead of what happened | `AgentRun` |
| Pi worker launcher (`benchmark_compare/pi_worker_launcher.py`) | a private directory | serve, relay, callback, close | daemon threads against the closeout | one generation, one callback, nothing left | `WorkerSandbox` |
| Parallel execution contract (`bench_goal_plus/parallel_execution.py`) | none: an audit of receipts | audit | touching intervals, lost receipts, idle gaps | passes exactly what was parallel | `ParallelAudit` |
| Frontier Engineering (`experiments/frontier_engineering`) | `campaign.json` | run, detach, stop, finalize | the stop signals children first, the controller after; two controllers | a stop wakes and is heard | `FrontierCampaign` |
| SWE-bench (`experiments/swe_bench_verified`) | `campaign.json`, containers | run, finalize, closeout in the container | docker calls that fail, an Agent that outlives its client | evaluated once, alone, confined | `SweAttempt`, `SweSearch` |
| AIBench, ZSoft controllers | `campaign.json` | run | thread pool and interrupt; stale run directories | completed is real | `AIBenchPool`, `ZSoftCampaign` |
| Provisioning (`scripts/repro_env.py`, `experiments/skydiscover/environment.py`) | checkouts, images | bootstrap, doctor, provision | moving remotes, half-done runs | no work lost, what is ready is pinned | `Checkouts`, `ImagePack` |
| Catalog, profiles, runners, reports | none over time | translate, validate, render | -- | -- | not modelled |

How they interact: `scripts/bench.py` (the benchmark agent) chooses a runner, which calls a
controller as a subprocess. The EdgeBench controller starts the judge, the bridges and one
SForge process per cell; the common matrix controller starts one `run-cell` process per cell,
each of which is the single-run harness and starts the agent through `run_controlled`. Parent
and child share files only: a child writes results, the parent reads them when the child is
gone. `finalize`, `status` and `stop` are further processes on the same files.

## Modules

| Module | Models | Run |
|---|---|---|
| `EdgeCampaign` | one EdgeBench campaign: controller, queue, SForge children, files, finalizer | `edge_*` |
| `CellSlots` | what a cell queue promises: a pool of slots (abstract specification) | refined in `edge_relaunch` and `matrix_run` |
| `EdgeCampaignProofs` | theorems about `EdgeCampaign`, with TLAPS proofs | |
| `CommonMatrix` | one common-matrix campaign: controller, run-cell processes, files | `matrix_*` |
| `GoalPlusRun` | one Goal Plus experiment: agent, closeout, evaluation, verdict, repair | `goal_plus_*` |
| `Settlement` | what the closeout promises: chosen once, installed once, then settled (abstract specification) | refined in `goal_plus_closeout` |
| `SweAttempt`, `SweSearch`, `FrontierCampaign`, `AIBenchPool`, `ZSoftCampaign` | the other controllers | `controllers` |
| `PlainLanes`, `OpenEvolveRun`, `BatchResume` | plain lanes, the life of an OpenEvolve run, the batch over them | `controllers` |
| `Checkouts`, `ImagePack`, `RunPreparation`, `EdgePreparation` | what runs start from: checkouts, images, prepared directories | `controllers` |
| `ControllerRecord`, `EdgeResources` | `controller.json`; judge and bridges | `shared_state`, `edge_judge` |
| `AgentRun`, `EvaluatorBudget`, `WorkerSandbox` | `agent-run.json`; `budget.json`; the worker's private directory | `shared_state` |
| `AdapterEvaluation`, `ReferenceCache`, `CandidateJudge` | ten adapters' evaluations; TorchBench's references; the judge of a closeout | `shared_state` |
| `TrajectoryEvidence`, `ParallelAudit`, `TimeCurve`, `GameWatch` | evidence and curves read while others write | `shared_state` |
| `CommonMatrixProofs`, `GoalPlusRunProofs` | theorems about `CommonMatrix` and `GoalPlusRun` | |
| `SharedStateProofs`, `EvaluationProofs` | theorems about the parts of `MCSharedState` | |
| `ControllersProofs`, `RunsProofs`, `ProvisionProofs` | theorems about the parts of `MCControllers` | |
| `MCEdgeCampaign`, `MCCommonMatrix` | symmetry sets for the model-checking runs | |
| `MCControllers`, `MCSharedState` | several modules in one run each | `controllers`, `shared_state` |

These two put modules that share nothing into one state space: a variable `part` picks one
in the initial state, and that one takes its own steps from its own `Init` with the constants
given in its `INSTANCE`, which also maps the module's variables to `v1`, `v2`, ....
Nothing interleaves that does not in the code; a property of the run is a conjunction over the
parts. Some modules are there more than once with different bounds: their `INSTANCE` has a
parameter, a record of bounds (`Trajectory(b)`), and the lemmas about such a part hold for every
such record. All bounds are constants of these two modules, with values in the cfg, so that the
theorems hold for all of them.

### EdgeCampaign and the code

The controller is one thread, so it is a program counter `pc` whose steps end where another
actor can be seen: at a file write, at a read of the stop flag, at `Popen` and at `poll`.

| Code | Model |
|---|---|
| `prepare` | `Init` |
| `launch`, `execute_campaign` up to the handlers | `Launch`, `BootController`, `BootCampaign`, `InstallHandlers` |
| `prepare_runtime_resources`, `_mark_controller_failure` | `PrepareOk`, `PrepareFails`, `MarkFailed` |
| `while pending and len(active) < cell_concurrency and not stop_requested()` | `MayStart` |
| `start_campaign_cell` | `SkipCompleted`, `TakeCell`, `Spawn`, `RecordRunning`, `MirrorRunning` |
| its `except` in the queue | `SpawnFails` (before `Popen` succeeded), `RecordFails` (after) |
| one iteration of the queue after the launches | `LaunchesDone`, `Forward`, `Poll` |
| `finish_campaign_cell`, `update_campaign_cell` | `FinishCell`, `MirrorDone` |
| the end of `execute_campaign` | `Settle`, `CloseResources`, `LastWrite` |
| `finalize_campaign`, called by either | `UserFinalize`, `ReadEvidence`, `StampCell`, `StampController`, `StampCampaign` |
| `handle_stop` / the default SIGINT | `StopSignal` / `EarlySignal` |
| SForge | `ChildScores`, `ChildExits`; `OrphanExits` once no controller tracks it |
| `kill -9`, an exception nobody handles | `Crash` |

`cellState` is `cell.json`, `campCell`, `campState` and `incomplete` are `campaign.json`,
`ctlFile` is `controller.json`. `child` is what `Popen.poll` would say; `orphan` are running
children that no controller has a handle on. `forwarded` is `stop_forwarded`, `rc` is
`overall_returncode`. The deque's order is left open (any waiting cell may be next), so every
order is covered. Child exit codes other than zero are one value.

Left out: what completion evidence asks for beyond a scored result is a free choice in
`ReadEvidence` (any subset of the scored cells may pass; `TrajectoryEvidence` has the verdict);
file writes are atomic (`ControllerRecord` has the torn ones); `finalize` by a user happens only
while no controller runs; a second `launch` is refused while the first controller lives.

### CommonMatrix and the code

`handle_stop` raises `KeyboardInterrupt` wherever the thread is. The points of `pc` are the
statements between which that matters, and `Interrupt` says where the exception leads: from
inside the `try` to the `finally` block, from everywhere else (the `finally` block included)
out of the controller. Processes that are not in `active_cells` then, and all of them when the
controller is gone, become orphans: they have sessions of their own and go on.

| Code | Model |
|---|---|
| `prepare_campaign` | `Init` (cells prepared or `prepare_failed`) |
| `run_campaign` up to the loop | `Run`, `Begin`, `Select` |
| the loop, `launch_cell` | `LoopTop`, `TakeCell`, `Popen`, `PopenFails`, `Append`, `Record`, `LaunchesDone`, `Poll` |
| `finish_cell`, the bookkeeping after it | `Outcome`, `FinishCell`, `Retire` |
| the `finally` block, `terminate_active_cells` | `EnterFinally`, `Terminate`, `Reap` |
| after it | `FinalState`, `Final` |
| `run_cell` / `benchmark_compare.execute` on `experiment.json` | `CellStep`, `CellRuns`, `OrphanRuns` |

`disk` is `campaign.json`; it is replaced atomically, so it is one value. `cells` is the
controller's copy. `cut` and `doubled` are history: the cells the closing block found at work,
and the cells started while an orphan still worked on them.

### GoalPlusRun, Settlement and the code

| Code | Model |
|---|---|
| `execute` up to the agent, `execute_goal_plus` | `Execute`, `StartAgent` |
| `run_controlled`: the poll, the soft stop, grace and hard kill | `Target`, `PollAgent`, `SoftStop` and the steps after it |
| `finalize_goal_plus_search` | `Drain` and the `pc` steps to the end of the closeout: verification, the gate's snapshot, the judge and its receipt, `Select`, `WriteReceipt`, `Publish`, reuse of a promotion (`Reuse`) |
| `_expected_public_gate_selection`, `_candidate_judge_inputs` | `GateExpected`, `HardBest`, `JudgePool` |
| `finalize_posthoc_official_selection` | `Posthoc` |
| the verdict in `experiment.json` | `Evaluate`, `Verdict` |
| `repair_closeout` | `Repair`, then the closeout again |
| Goal Plus and the agent | `AgentOpens` ... `AgentEnds`, external |
| `kill -9`, an uncaught exception | `Crash`; the agent has a session of its own and lives on |

An artifact is `<<candidate, iteration>>`; a score of 0 is an iteration that the public rule
does not admit. Two harnesses use the closeout and four options change it; every combination the
code accepts is an initial state. The refinement maps the promotion on disk to `Settlement`.

### The other controllers

* `SweAttempt`: `run` of the one SWE-bench cell. `disk` is the saved manifest, `mem` the
  controller's. Every docker call may fail; a timeout kills the docker client, not what runs in
  the container, so the Agent may go on and tear a patch being taken. `SweSearch` is the search
  that Goal Plus keeps in the container, the closeout there and the verdict over its export;
  times are reduced to whether a tick lies between two events. The closeout looks up what is
  published before it verifies and drains and goes by that afterwards (`found`); a search that
  the Agent, which may still act, has selected or promoted since refuses to be once more.
* `FrontierCampaign`: `execute_campaign`, `launch_detached`, `stop_campaign`,
  `finalize_campaign`. Controllers are processes with a manifest each; `stop` lists processes,
  signals them, then signals the controller. `finalize` reads the campaign, repairs its cells
  one by one and writes what it read back, in steps of its own (`audit`), so a controller may
  run in between. Once as one controller over two cells, once as two controllers racing for one.
* `AIBenchPool`: the thread pool, one child per cell, the main thread that records, and an
  interrupt that reaches children too. `ZSoftCampaign`: cells in sequence, with the run directory
  that an earlier attempt has left.
* `PlainLanes`: `execute_plain` and `run_controlled_many`: lanes stopped and awaited together,
  evaluated, ranked. `OpenEvolveRun`: prepare, run and closeout of one OpenEvolve directory for
  each method. `BatchResume`: `run_batch` over several invocations, with a results file that a
  kill may cut.

### Provisioning and preparation

* `Checkouts`: `check --environment` and `bootstrap` over one managed clone, with a user who
  commits, edits and switches branches and a remote that publishes and rewrites. A commit is the
  set of changes in its history.
* `ImagePack`: inventory, provision and doctor of SkyDiscover's evaluator images over one Docker
  daemon that others use too.
* `RunPreparation`: `prepare` of a run directory lane by lane and the start of `run`. An adapter
  is the sequence of what its `materialize_workspace` reads, hashes or records; ten of them.
* `EdgePreparation`: EdgeBench's `prepare` file by file, and the preflight of a launch: the
  Goal Plus source and the provider contract are compared (`Source`, `Contract`, `ProbeBegins`),
  the providers are resolved once more (`WriteRegistry`).

### Shared records and evidence

* `ControllerRecord`: a write is two steps, truncate and fill; the handler's write runs inside
  another; the launcher fills in the pid late; `stop` writes back what it read. `EdgeResources`:
  controllers on one host share the judge's port. `prepare_runtime_resources`, the queue,
  `RuntimeResources.close`, the last record and the closers at exit are steps; each may raise,
  every write of `controller.json` may fail (and leave the file without what was in it), and
  `handle_stop` writes wherever the controller is. `registered` says that `close_judge` exists and
  is called at exit, which is after the write that names the judge. A stop is not handled inside
  the start of a bridge or inside a bridge's own closer.
* `AgentRun`: commands load `agent-run.json`, work, and write their copy through one temporary
  name. `EvaluatorBudget`: calls as processes, the lock, truncation and fill of `budget.json`,
  the archive. `WorkerSandbox`: threads of the proxy against the closeout of the launcher.
* `AdapterEvaluation`: `evaluate_workspace` of ten adapters, each the list of its screens, reads,
  hashes and judge calls, with an agent that edits, a checkout that moves and calls that overlap.
  `ReferenceCache`: TorchBench's reference files. `CandidateJudge`: two nested scopes over the
  process environment.
* `TrajectoryEvidence`: the verdict of EdgeBench finalization over a trajectory that goes on.
  `ParallelAudit`: receipts and worker times joined into a verdict; a session that is stopped or
  closed settles every call still open in it (`StopReads`). `TimeCurve`: rows extracted while
  reports arrive. What the judge can report is a set of numbered reports, each with a `Rank` under
  the task's selection policy and direction, its `score_0_100` (`Points`), whether it has one
  (`Scaled`) and whether it is valid (`Valid`): `select_best` is SForge's, so the model takes any
  of the highest-ranked submissions, and the policy is whatever `Rank` is. `GameWatch`: the
  watcher's passes against a campaign that ends and is launched again.

## Runs

| Run | Instance | Asks |
|---|---|---|
| `edge_single` | 3 cells, 2 slots, 1 launch, no kill (863,000 states) | slots, forwarding, nobody left behind, ledgers |
| `edge_relaunch` | 2 cells, 1 slot, 2 launches, 1 kill, fairness (2.1 million) | what the files may claim across kills and finalizers; the slot pool; no start after the forwarding; the controller ends, after a stop and without one |
| `edge_early` | 1 cell; violation expected | a stop of a running campaign before the handlers |
| `edge_lost` | 1 cell; violation expected | a write that fails after `Popen` |
| `matrix_run` | 3 cells, 2 slots, 1 run, fairness (252,000) | slots, `fail_fast`, the closing block, the end of the run, the whole as `CellSlots` (`RefinesPool`) |
| `matrix_rerun` | 2 cells, 2 slots, 2 runs, 1 kill (731,000) | what the file may claim across stops, kills and orphans |
| `matrix_interrupted` | 1 cell; violation expected | whether an interrupted cell can be run again |
| `goal_plus_closeout` | 2 candidates, 2 iterations, 2 repairs, 1 kill, fairness | one choice, gate, judge asked once, reuse, end of every command, refinement of `Settlement` |
| `goal_plus_scored` | 1 candidate, 1 repair, 1 kill; violation expected | whether a repaired run has been evaluated |
| `controllers` | 16 parts (6.6 million states) | one property per group of controllers, provisioning included |
| `shared_state` | 16 parts (4.4 million) | one property per shared record or kind of evidence |
| `edge_judge` | 1 controller; violation expected | a judge whose start could not be written |

The properties of the two composed runs are conjunctions of the named properties of their
parts, which are where the content is:

| Property | Conjuncts |
|---|---|
| `AttemptIsSound` | `EvaluatedAlone`, `AgentConfined`, `PatchSettled`, `EvaluatedOnce`, `CompletedIsReal` of `SweAttempt`; `PassedIsCarriedOut`, `PassedIsParallel`, `CompletedIsApplied` of `SweSearch` |
| `FrontierIsSound` | `CompletedIsReal`, `StopIsHeard`, `StopWakes` |
| `CellsAreSound` | `CompletedIsReal`, `ChildrenBounded`, `AllRecorded` of `AIBenchPool`; `CompletedIsReal`, `InterruptEnds` of `ZSoftCampaign` |
| `OpenEvolveIsSound` | `EvaluatedQuiet`, `FinishedIsBest`, `NoLaneLeft` of `PlainLanes`; `OnceForAll`, `FinishedIsReal`, `ExitCodeIsReal` of `BatchResume`; `ManifestIsWhole`, `OneAgent`, `EvaluatedQuiet`, `FinishedIsReal`, `RepairIsHonest` of `OpenEvolveRun` |
| `ProvisionIsSound` | `WorkKept`, `CloneIsWhole`, `GoodEndIsCurrent` of `Checkouts`; `ReadyIsPinned`, `NothingUntagged` of `ImagePack`; `OneMaker`, `PreparedIsWhole`, `LanesAlike`, `CopiesAreClean`, `RunOnce`, `HostAsPrepared` of `RunPreparation`; `OneMaker`, `LaunchedIsWhole`, `CellsAgree`, `LaunchedAsPrepared` of `EdgePreparation` |
| `RecordIsSound` | `LastWordStands`, `NamesTheLiving` |
| `JudgeIsSound` | `NothingLeftUnsaid`, `JudgeServes` |
| `PhasesAreSound` | `NeverAhead`, `NeverBehind` |
| `EvaluationIsSound` | `LedgerCounts`, `TicketsDiffer`, `ArchiveIsHonest`; `ScopesNest`, `ChoiceIsAsked`; `OneCandidate`, `ShaIsJudged`, `PinnedIsJudged`, `CasesAreFrozen`, `FinalIsDelivered`, `OneFinal`, `Counted`; `FiledUnderItsCommit`, `SameCommit`, `TornOnlyWhenCut`, `OneBuilder` |
| `SandboxIsSound` | `OneGeneration`, `OneCallback`, `CleanLeave` |
| `EvidenceIsSound` | `PassedIsReal`, `PassedIsBounded`; `NoLaneStoodStill`, `AllAtWork`, `OrderlyPasses`, `UnsettledFails` |
| `CurveIsSound` | `RowsKeepTheirBoundary`, `ChoiceNeverWorsens`, `ReferenceIsWithin`; `StrictIsTimely`, `GivenUpIsTrue`, `TakenStays`, `OverIsComplete` |

Several of these carry an exception in their formula ("unless the checkout moved after the
comparison", "unless a request outlived the proxy"). Each exception is a behaviour the code
really has; dropping it makes TLC find that behaviour. They are collected under "Weaker than it
may look" below.

Bounds. Three cells on two slots is the smallest instance in which a slot is reused while
another is held and a cell still waits; two executions with one kill is the smallest in which
orphans, a stale `incomplete_cells` and a finalizer's repair meet. `MaxLaunches`/`MaxRuns` and
`MaxCrashes` bound only the number of those events; a run may be interrupted by signals any
number of times. `CHECK_DEADLOCK FALSE` everywhere: a campaign that is over and may not be
launched again stops. Symmetry is used only where no liveness property is checked.

In the composed runs two of everything that can collide is enough for each collision the code
can have: two commands on one directory, two controllers, two calls, two lanes, with one or two
moves of what lies outside; `ParallelAudit` has an idle limit of 0 and a deadline of 3, enough for
a gap longer than the limit between two invocations (the theorem covers every limit), `SweSearch`
two candidates for a peer's view, `TimeCurve` two submissions for a late report to overtake
another, and four reports (`FourRanks`, `FourPoints`): of two valid ones the higher-ranked has the
lower `score_0_100`, one has no such score, one is invalid.

Fairness. `EdgeCampaign`: the controller thread keeps running (`WF(Controller)`, nothing
in its loop blocks); `StopEnds` assumes further only that a child that was sent SIGINT
finishes its closeout and exits (what `experiments/edgebench/README.md` describes as SForge's
native closeout), and of no other child. `CampaignEnds` states its assumption in its own
formula: every child ends, by SForge's wall time. In `CommonMatrix` `StopEnds` needs nothing of the processes, since the
controller kills what outlives the grace period; `RunEnds` assumes that each ends. In
`GoalPlusRun` `CommandEnds` assumes only that the command's own thread keeps running: an agent
that ignores the soft stop is killed after the grace period. The composed runs check no
liveness: in most of their parts a step waits for a user or an external process.

## What the violations show

* `edge_early`: `execute_campaign` writes its pid and "running" to `controller.json` (1139), then
  "running" to `campaign.json` (1142), and only then installs its handlers (1152-1153). The run is
  launch, these two writes, and a stop that comes next: SIGINT ends the process by its default
  effect and `campaign.json` keeps saying `running` of a controller that is gone, so `finish`
  refuses the campaign, while the runner registry says that stopped campaigns are finalized as
  partial. (The window is open from the start of the process; before the second write the
  campaign is left `prepared`, which the property does not count.)
* `edge_lost`: the `except` around `start_campaign_cell` (652) also covers the writes after
  `Popen`. If one fails, a running SForge is recorded as a failed launch; no stop reaches it
  and it holds no slot.
* `edge_judge`: `start_or_reuse_judge` starts the judge (407) and names it in `controller.json`
  (426) before `close_judge` exists and is registered (428-438). If that write fails,
  `RuntimeResources.close` still has its no-op and nothing is registered for the exit: the run
  ends with the controller gone, its judge at work and no note of it, while `RuntimeResources`
  says that it owns the judge. `NothingLeftUnsaid` is about the judges a controller came to wait
  for, and leaves this path to `JudgeIsOwned`.
* `matrix_interrupted`: `finish_cell` (359) turns a cell cut short by a stop into `failed` or
  `incomplete`, both terminal, so that the resume the registry promises for interrupted cells
  never takes it up.
* `goal_plus_scored`: `repair_closeout` calls a run `finished` from the Goal Plus state alone; no
  final evaluation is made, and its own closeout may have failed. The README of the comparison
  counts both among what completion records.

### Weaker than it may look

Behaviours met while modelling that no run of its own shows; where a property excludes one, it
does so by a named condition.

EdgeBench
* A controller killed between the `cell.json` and the `campaign.json` write of a completed cell
  leaves a campaign that can only end `partial`, and a user's `finalize` after such a kill can
  pass every cell and leave `campaign.json` at `running`. A relaunched controller's finalizer can
  repair old cells so that `campaign.json` reads `completed` next to a nonzero exit code
  (`RepairedCells` in `CleanExit`).
* A stop signal handled inside the controller's last write garbles `controller.json` for good;
  `launch` and `stop` that overlap put back old pids.
* "external Pi provider configuration changed during host preflight" (runtime.py 898-901) is
  tested against a contract that the preflight computes before its model calls; a change during
  them passes, and `prepare_pi_provider_runtime` resolves the providers again without comparing
  (`late` in `LaunchedAsPrepared`). Task definitions outside `task_assets_dir` and the EdgeBench
  commit are recorded and never compared at launch. A method given twice leaves a directory that
  no prepare accepts.
* A verdict takes unions and maxima over several observations of a cell; the model has one
  trajectory. A late watcher captures rows it calls available where `README.md:396-399` says
  `missing_game_snapshot`; a watcher dies on a torn controller record; cells given up before a
  relaunch are never captured; two watchers may replace a captured snapshot.
* The time curve's `anchor_offset_seconds` is recorded and unchecked; two extracts share one
  temporary file. A row shows the submission that the task's policy ranks highest
  (`pass_rate_first` unless it says otherwise), so `score_0_100` may fall from one row to the next;
  `ChoiceNeverWorsens` speaks of the rank only. The fast reference goes by the evidence tier and
  then by `score_0_100`: the model is of one cell, which has one tier, so that a later boundary's
  lower reference of a higher tier is outside of it.
* `NothingLeftUnsaid` excuses a controller whose last write of `controller.json` failed
  (`unwritten`): a write in place that fails also takes the note that was there.

Single runs, OpenEvolve
* A retry under the public gate recomputes the rule from evidence that `select`'s verifier
  iteration has grown, and refuses for good; a hard kill followed by a crash before the verdict
  is forgotten by repair; repair checks neither the status nor a live agent; a closeout of a
  prepared run makes it incomplete, so that it can never be run.
* Two runs of one directory pass the check of `prepared` (3048) before either writes (3098);
  `require_prepared_goal_plus_source` compares external sources only, so a managed checkout may
  have changed since prepare. The manifest's commits are read last.
* Where no lane has a numeric metric (2244-2256) the exception leaves `experiment.json` at
  `running`; a later lane whose `Popen` fails leaves the earlier ones running (3379).
* A zero-length worker invocation counts as activity in the audit and splits an idle gap. An
  invocation that never ended passes if its session was stopped or closed over it and no session
  record tells of it (`UnsettledFails`).

Evaluators
* A final call killed between the claim and the history uses up the reserve; a budget torn by a
  kill ends all later calls; a killed final of a blind task leaves no final possible.
* The candidate is read twice by the OpenEvolve adapter (491, 511), once per case by HeuriGym; an
  agent's own commit hides other changes from `git diff HEAD`; HeuriGym, ALE, TorchBench and
  ZSoft pin no checkout; the inspect-then-run of the Frontier-CS container makes a good candidate
  invalid when two calls race.
* TorchBench reads HEAD for the identity before it archives: a move in between files a wrong
  reference for good. A reference cut by a kill is used for good.

Others
* Frontier-Engineering: a signal after the handlers are restored (246-248) kills the controller
  with the campaign `running`; the upstream child is not in a session of its own, so `stop` does
  not reach it. AIBench: an interrupt leaves the campaign `running`. SWE-bench: the interval of a
  session without a receipt ends at its `updated_at`, so an overlap can be reported that was not.
* Bootstrap: a detached HEAD with unpublished commits is not stopped, although
  `docs/reproducible-environment.md:86-89` says the script stops for unpushed commits; the doctor
  accepts a checkout that is ahead; the merge acts on the branch checked out by then.
* SkyDiscover: labels carry neither the base's digest nor the tree actually built; the backup
  tag has a resolution of one second.
* Worker launcher: a KeyboardInterrupt while it prepares leaves the private directory; threads
  cut at exit leave the copy of the capability.

## Proofs

A theorem holds for every value of the constants that satisfies the assumptions of its module;
TLC shows the same property on the instance of the run. A strengthening is made of named
conjuncts (`...Inv`) in the module it is about, and TLC has checked each of them as an invariant
before it was proved.

| Module | Theorem | States |
|---|---|---|
| `EdgeCampaignProofs` | `TypeCorrect` | `[]TypeOK` |
| | `SlotsBounded`, `StopReaches`, `NobodyLeftBehind` | `[]SlotBound`, `[]StopReachesChildren`, `[]NoChildLeftBehind` |
| | `ForwardIsFinal` | `NoStartAfterForward` |
| | `CompletedHasScore`, `CampaignCompleted` | `[]CompletedIsScored`, `[]CompletedCampaign` |
| | `LedgersInStep`, `ExitIsHonest` | `[]LedgersAgree`, `[]CleanExit` |
| | `QueueIsSlotPool` | `Spec => RefinesCellSlots` |
| `CommonMatrixProofs` | `TypeCorrect` | `[]TypeOK` |
| | `SlotsBounded`, `NobodyLeft`, `FailFastIsFinal` | `[]SlotBound`, `[]NoChildLeft`, `FailFastStops` |
| | `LoopIsSlotPool` | `Spec => RefinesPool` |
| | `FinishedHasResult`, `CampaignIsFinished`, `TerminalCellsAreFinal` | `[]FinishedIsReal`, `[]CampaignFinished`, `TerminalIsFinal` |
| `GoalPlusRunProofs` | `TypeCorrect` | `[]TypeOK` |
| | `ReceiptIsFirst`, `JudgeIsAskedOnce` | `[]ReceiptFirst`, `AskedOnce` |
| | `GateIsDecisive`, `PromotionIsReused` | `GateDecides`, `ReuseAccepted` |
| | `CloseoutSettles` | `Spec => RefinesSettlement` |
| | `FinishedIsConsistent` | `[]FinishedResult` |
| `SharedStateProofs` | `TheRecordStands`, `JudgesAreAccounted` | `[]RecordIsSound`, `[]JudgeIsSound` |
| | `PhasesAreTrue`, `TheSandboxIsClosed` | `[]PhasesAreSound`, `[]SandboxIsSound` |
| | `EvidenceIsTrue`, `CurvesAreSound` | `[]EvidenceIsSound`, `[]CurveIsSound` |
| `EvaluationProofs` | `EvaluationsAreSound` | `[]EvaluationIsSound` |
| `ControllersProofs` | `FrontierCampaignsAreSound`, `CellsAreReal` | `[]FrontierIsSound`, `[]CellsAreSound` |
| `RunsProofs` | `AttemptsAreSound`, `OpenEvolveRunsAreSound` | `[]AttemptIsSound`, `[]OpenEvolveIsSound` |
| `ProvisionProofs` | `ProvisionsAreSound` | `[]ProvisionIsSound` |

With these every invariant and every action property that a passing run checks is a theorem, and
so are the three refinements; what is left to TLC is listed at the end of this part. `TypeOK` and
`SlotBound` of `CommonMatrix` are stated by their theorems only: `matrix_run` checks `RefinesPool`
instead, which says more about the slots.

### Assumptions

`EdgeCampaign` and `CommonMatrix` assume `Cells` finite and not empty, `Concurrency` positive
and the bounds natural numbers (`MaxRuns` positive); `GoalPlusRun` at least one candidate, the
rest natural numbers. The assumptions of the composed modules say of a bound that it is a natural
number and, where the code has at least one, that it is not zero: the batches of a TorchBench
call, plain lanes, the tasks of an EdgeBench campaign, the launches of a watched campaign, the
deadline of an audit. Where a part is there more than once (`BootstrapBounds`, `PreparedBounds`,
`FrozenBounds`, `TrajectoryBounds`, `WatchedBounds`, `CallBounds`) they say that its records are in
its set of bounds; the last and `PreparedBounds` also that the adapters are among the ten that are
modelled. `AuditBounds` gives each lane a bound on its invocations. Where the proofs need nothing
of a bound (`FrontierControllers`, `AgentSlots`) nothing is assumed. TLC evaluates all of them.

### EdgeCampaign

`SlotBound` is not inductive: it counts live children and the code counts `active`.
`QueueInv` ties the two together: every live child is active or is the one between `Popen` and
the queue's record (`SlotsHeld`), no cell is taken twice (`TakenOnce`), and a launch under way
still has a free slot and precedes the forwarding (`LaunchUnderWay`). The last conjunct is what
makes the one-shot forwarding enough: the thread that forwards is the thread that launches, so
at the forwarding no child is missing from `active`. `CompletionInv` strengthens the claims
about `completed`: a passed verdict has every cell scored, scores are never taken back, and
`campaign.json` reads `running` as long as the queue rewrites its cells. `LedgerInv` records
which of the two files is written first. `CleanExit` compares an exit code with a file that
the finalizer may have rewritten: `OutcomeInv` says, before the verdict, that a cell is failed
only with a code to show for it or after a stop, `SettledInv` carries the settled state and the
code through the last writes, with the cells a finalizer repaired as the exception it is.

The refinement takes `QueueInv` and `QueueFilled` (at the start of the queue the whole campaign
waits and nothing was forwarded) and maps each action to a step of the pool: `Spawn` is `Admit`,
`FinishCell` and `RecordFails` are `Retire`, `SkipCompleted` and `SpawnFails` are `Drop`,
`Forward` of a stop is `Close`, the step to `settle` and `Crash` are `Leave`, `PrepareOk` is `Open`.

### CommonMatrix

The stop is an exception, so nearly every point can lead to the closing block, and the invariants
are stated by regions of `pc`. `SlotInv`: a launch under way has a free slot, and a slot is given
back only when its process has exited. `LaunchInv` and `FailFastInv`: a waiting cell has no
process of this run, and once a cell came back unfinished under `fail_fast` nothing waits.
`WorkerInv` and `FinishedInv`: outside `doubled` a cell has one worker at most, and
`experiment.json` is in the state that worker left it in; this is what carries `FinishedIsReal`
over orphans and reruns. `MemoryInv`: the controller's copy agrees with every terminal state of
the file, which is why a write never takes one back. `CampaignInv`: the campaign reads `running`
while cells are rewritten.

`LoopIsSlotPool` is the second implementation of `CellSlots`. A cell waits until `Popen` returned
and its process holds a slot from then on, although `active_cells` has it only a statement later;
the pool is open inside the `try`. `Select` is `Open` (for any set of cells, where EdgeBench opens
for all of them), `Popen` is `Admit`, `Retire` and the closing block's `Reap` are `Retire`, which
under `fail_fast` also empties the list, and every way out of the `try` is `Leave`: the end of the
loop, a launch that raised, a stop, a kill. `SlotInv` gives the free slot and `LaunchInv` that the
cell admitted is neither waiting nor active.

### GoalPlusRun

`TypesInv` is more than types: a Search with a selection has one (`ChosenInv`), and the receipt a
closeout holds is the one on disk except between the judge's answer and its write (`HeldInv`),
which is the crash that `AskedOnce` is about. `GateInv`: the gate's snapshot is what the public
rule says of the evidence until the evidence grows. `InstalledInv`: only the promoted selection is
installed, and before the goal is complete; with it every step is `Choose`, `Install`, `Settle`
or a stutter of `Settlement`. `ScoredInv` and `FinishedInv` follow a command that may call its run
finished from the evaluation to the verdict. Lemmas about the choice operators (`MinIn`, `MaxIn`,
`BestPublic`, `JudgePoolIn` ...) say that the rule picks an artifact of the evidence whenever one is
eligible.

### Parts of the composed runs

Each section of these five modules proves that its part's `Inv` holds initially and is kept by
`Next` of the part; `part` never changes and a step of `Spec` is a step of the part, so it holds
in `Spec` (`...Stays`). `Inv` is the type invariant and:

| Part | Strengthening |
|---|---|
| `ControllerRecord` | what a process is about to write names the controller, except a stop that read an earlier launch (`NamesInv`); from the controller's last write on its text is the record unless another one was filled in (`LastInv`) |
| `EdgeResources` | what a controller has noted is in its file or was the last it could not write; from the wait on its judge is registered, and a closeout that went its whole way has noted what is left (`CloseoutInv`); a judge found ready held the port until a crash or its owner's closeout (`ServedInv`) |
| `AgentRun` | what is in the file or in a command's copy has happened (`HonestInv`); `finish` works on what is over (`OverInv`); a command by itself owns the temporary (`AloneInv`), so what was reported is in the file or on its way there (`ReportedInv`) |
| `WorkerSandbox` | a closed proxy accepts nothing (`CloseInv`); one request at the projection (`ProjectionInv`); whoever took the capability away runs the callback (`CapabilityInv`) |
| `EvaluatorBudget` | the lock is held from reading `budget.json` to its rewriting (`LockInv`), so whoever writes has counted the tickets given and one more (`ClaimInv`); tickets are no more than the calls (`CallsInv`), which `LedgerCounts` needs; from the first final call on the candidate stays (`FinalInv`) |
| `CandidateJudge` | each scope keeps what it was entered with, and inside them the environment is bare or the backend's (`ScopeInv`); a judgement under way has asked nothing yet (`AskedInv`) |
| `ReferenceCache` | who builds has the lock and a worker (`LockedInv`); what a worker writes is of the commit it is filed under, or marked (`FiledInv`); the references used are of the call's tree until something moves (`UsedInv`) |
| `AdapterEvaluation` | one stage reads the artifact, so what was read is one version, the present one while nobody edits (`CandidateInv`); the checkout is as pinned from the comparison to its next move (`SourceInv`); of a blind task one final call gets to the scorer (`FinalInv`). `AdapterRegular` is all that is used of an adapter, and shown of each of the ten |
| `FrontierCampaign` | whoever reads `completed`, an audit included, has it of an executed cell (`CellsInv`, `VerdictInv`); a cell at work has no other controller's verdict unless executed twice (`ExecutionInv`); the cell taken in spite of a stop is the last (`HeardInv`); an agent on the stop's list is told (`WakeInv`) |
| `AIBenchPool` | `completed` rests on what the one child left, wherever it is said (`ResultInv`); what the main thread has seen it has noted (`CollectInv`); threads at work fit the pool (`BusyInv`) |
| `ZSoftCampaign` | what is at hand in the cell at work is its own launcher's (`EvidenceInv`); the file follows the cells up to an interrupt (`SavedInv`, `EndInv`) |
| `SweAttempt` | the Agent runs in a known container, confined before it begins (`AgentInv`); a patch is taken beside it only under Goal Plus (`PatchInv`); a container stopped for the evaluation stays so, in memory and on disk (`IsolationInv`); a report was asked for once, on a patch, after that (`ReportInv`) |
| `SweSearch` | no worker after the sessions were closed, the goal after the application (`CloseoutInv`); only a session cut off makes an overlap of none (`OverlapInv`); a verification later than its session's read rests on what was seen then (`ExchangeInv`) |
| `PlainLanes` | from the end of the reaping on no agent runs (`QuietInv`), and the lane evaluated last is the best of the scores (`BestInv`) |
| `BatchResume` | an experiment leaves `prepared` with its one run (`RanInv`); an invocation works on what is on disk, which is what was recorded first (`DiskInv`) |
| `OpenEvolveRun` | only a prepared run of a whole directory starts its one process (`CommandInv`); what was evaluated was evaluated after its end (`ProcessInv`); a promoted artifact stays (`ArtifactInv`) |
| `Checkouts` | there is local work only in a clone (`DiskInv`); until something moves, what a command has read is so (`SeenInv`) and each of its steps leads from the commit the remote had to a checkout of it (`CourseInv`) |
| `ImagePack` | what others had (`HadInv`) has a tag before it is replaced (`BuildInv`); a provision under which nothing changed still knows what it saw (`Known`), hence true labels (`LabelInv`) |
| `RunPreparation` | one maker at most (`MakerInv`); the lanes a prepare is through with are whole (`LaneInv`) and, unless the checkout moved, copies of it, adapter by adapter (`ValueInv`, `HostInv`, `DetectInv`); a second run has passed the check before the first wrote `running` (`RunInv`) |
| `EdgePreparation` | one maker at most (`MakerInv`), its place among tasks and methods (`CourseInv`); the cells written agree with what was read for their task (`CellsInv`), which is the commit's unless seen to move (`DriftInv`); a launch holds what `profile.json` says (`LaunchInv`) |
| `TrajectoryEvidence` | candidates and sessions are of opened searches, and a candidate's first session is made with it (`RecordsInv`); who is verified was launched (`VerifiedInv`); the intervals on record hold whenever their workers live (`CountInv`). With K candidates of which K are verified, all are: a lemma on cardinalities |
| `ParallelAudit` | an invocation begins, ends and is read, in this order (`CallInv`), and the invocations of a lane are one after the other (`OrderInv`). The rest is about the audit's own arithmetic: a moment that no invocation touches lies in a gap of the sweep, a gap longer than the limit is a time when the lane stood still, and the peak is reached only when each lane has an invocation at work |
| `TimeCurve` | the rounds are in their order (`HistoryInv`); a row tells what was known of the submissions it counts, and that stays true, and no later row ranks lower (`RowsInv`); the extraction reads a beginning of the history and then newer reports (`ReadInv`); a reference is a valid report of a submission within its boundary (`ReferenceInv`) |
| `GameWatch` | what a pass read of a cell that was over stays so (`PassInv`), and a pass that found the campaign over leaves only cells that never began (`OverInv`, `LeftInv`), unless it is launched again; a strict snapshot is of its window (`SnapshotInv`); a watcher by itself overwrites nothing (`AloneInv`) |

### Only model-checked

* `StopEnds`, `RunEnds`, `CampaignEnds`, `CommandEnds`: liveness under fairness is out of the
  prover's reach, and so is `ENABLED`.
* What the choice operators of `GoalPlusRun` compute beyond the lemmas named above: that would be
  induction over data.

## Not modelled

`components` in `PROJECT.json` lists every part with what is left out of it. In short:

* Sequential validation and inspection without state of its own: profile and catalog loading,
  the doctors (`doctor_payload` of SWE-bench, EdgeBench's image and network checks), asset
  inventories. What they decide appears as a step that may refuse.
* Construction of commands, prompts, goals and mounts; blinding of worker contexts; parsing of
  event streams; report rendering; scoring formulas; the reference-gain tables.
* Goal Plus, SForge, Docker, Git and the model providers: external, modelled from how the code
  uses them.
* Not yet: two finalizers of one EdgeBench campaign at once, two matrix controllers on one
  campaign, a second EdgeBench controller working beside the first, fork continuation and the
  SkyDiscover method of the single-run harness, the Rust runtime cache of the bootstrap.

## Plan

1. `EdgeFinalize`: two finalizers of one EdgeBench campaign at once.
2. `CommonMatrix` with two controllers on one campaign.
