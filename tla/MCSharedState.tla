---------------------------- MODULE MCSharedState ----------------------------
(***************************************************************************)
(* The records and resources that several processes share, one at a time:  *)
(* controller.json, the judge and the bridges, agent-run.json, the budget  *)
(* of the evaluator, the worker's private directory; and the evidence that *)
(* is read while others write it: trajectories, worker calls, searches,    *)
(* judgements, time curves.  In each behaviour one of them is at work, and *)
(* v1, v2, ... are the variables of its module.                            *)
(*                                                                         *)
(* The bounds of every part are parameters: its theorems (in               *)
(* SharedStateProofs and EvaluationProofs) hold for all values.            *)
(***************************************************************************)
EXTENDS Naturals
CONSTANTS
  RecordLaunches, RecordStops,         \* controller.json: launches, and stops, of one campaign
  JudgeControllers,                    \* the judge: controllers on a host
  AgentSlots, AgentCommands,           \* agent-run.json: commands at once, and in all
  WorkerRequests, WorkerGenerations,   \* the worker: its requests, its restarts
  BudgetCalls, BudgetPublic,           \* the evaluator: calls, those that may be public,
  BudgetReserve, BudgetEdits,          \*   those kept for the end, edits of the artifact
  JudgementCandidates, Judgements,     \* the judge of candidates: how many, how often
  CacheCalls, CacheMoves, CacheBatches,  \* the references: calls, moves of HEAD, batches
  \* evaluate_workspace: the adapters, their calls, edits of the artifact and moves of the
  \* checkout; one after the other, and where calls get in each other's way
  AdapterNames, AdapterCalls, AdapterEdits, AdapterMoves,
  CallNames, CallCalls, CallEdits, CallMoves,
  \* a trajectory: workers, candidates and generations of its searches; the searches and the
  \* sessions of one without a successor, and of one with
  SearchWorkers, SearchCands, SearchGens, LoneRuns, LoneSessions, NextRuns, NextSessions,
  AuditWorkers, AuditDeadline, AuditIdle,  \* an audit: its lanes, the time, the limit,
  AuditFirst, AuditOthers,                 \*   invocations of the first lane and of the others
  CurveAnchors, CurveEntries, CurveExtracts,  \* a cell's curve, and extractions
  CurveReports, CurveRank, CurvePoints,       \* what its judge may say: rank under the task's
  CurveScaled, CurveValid,                    \*   policy, score_0_100, those with one, the valid
  \* the watcher of game cells: its clock; one that sees its campaign launched again, one
  \* over several cells, and several over one
  WatchCheckpoint, WatchWindow, WatchPass,
  AgainCells, AgainWatchers, AgainTime, AgainLaunches,
  AcrossCells, AcrossWatchers, AcrossTime, AcrossLaunches,
  TogetherCells, TogetherWatchers, TogetherTime, TogetherLaunches

ASSUME RecordBounds == RecordLaunches \in Nat /\ RecordStops \in Nat
ASSUME JudgeBounds == JudgeControllers \in Nat
ASSUME AgentBounds == AgentCommands \in Nat
ASSUME WorkerBounds == WorkerRequests \in Nat /\ WorkerGenerations \in Nat
ASSUME BudgetBounds ==
  BudgetCalls \in Nat /\ BudgetPublic \in Nat /\ BudgetReserve \in Nat /\ BudgetEdits \in Nat
ASSUME JudgementBounds == JudgementCandidates \in Nat /\ Judgements \in Nat
ASSUME CacheBounds == CacheCalls \in Nat /\ CacheMoves \in Nat /\ CacheBatches \in Nat \ {0}

\* An evaluation is of one of these adapters, and within bounds of its own.
EvaluatedAdapters ==
  {"frontier_engineering", "malloclab", "frontier_cs", "heurigym", "autolab", "local_vliw",
   "ale", "torchbench", "zsoft_l1", "zsoft_detect"}
AdapterBounds == [names : SUBSET EvaluatedAdapters, calls : Nat, edits : Nat, moves : Nat]
OneByOne == [names |-> AdapterNames, calls |-> AdapterCalls,
             edits |-> AdapterEdits, moves |-> AdapterMoves]
Together == [names |-> CallNames, calls |-> CallCalls, edits |-> CallEdits, moves |-> CallMoves]
ASSUME CallBounds == OneByOne \in AdapterBounds /\ Together \in AdapterBounds

\* A trajectory is within bounds of its own.
SearchBounds == [workers : Nat, runs : Nat, cands : Nat, sessions : Nat, gens : Nat]
SearchAlone == [workers |-> SearchWorkers, runs |-> LoneRuns, cands |-> SearchCands,
                sessions |-> LoneSessions, gens |-> SearchGens]
SearchSucceeded == [workers |-> SearchWorkers, runs |-> NextRuns, cands |-> SearchCands,
                    sessions |-> NextSessions, gens |-> SearchGens]
ASSUME TrajectoryBounds == SearchAlone \in SearchBounds /\ SearchSucceeded \in SearchBounds

AuditCalls == [l \in 1..AuditWorkers |-> IF l = 1 THEN AuditFirst ELSE AuditOthers]
ASSUME AuditBounds ==
  /\ AuditWorkers \in Nat /\ AuditDeadline \in Nat \ {0} /\ AuditIdle \in Nat
  /\ AuditCalls \in [1..AuditWorkers -> Nat]

ASSUME CurveBounds ==
  /\ CurveAnchors \in Nat /\ CurveEntries \in Nat /\ CurveExtracts \in Nat
  /\ CurveReports \in Nat /\ CurveRank \in [1..CurveReports -> 1..CurveReports]
  /\ CurvePoints \in [1..CurveReports -> 0..100]
  /\ CurveScaled \subseteq 1..CurveReports /\ CurveValid \subseteq 1..CurveReports

\* Four reports under a policy that does not go by the score.  Of two valid ones the first
\* has fewer points than the second, and ranks higher; the third is valid and has no
\* score_0_100; the fourth has one, the highest, and is invalid.
FourRanks == <<2, 1, 2, 2>>
FourPoints == <<1, 2, 0, 3>>

\* A watch is within bounds of its own; its clock is the same in all of them.
WatchBounds == [cells : Nat, watchers : Nat, time : Nat, launches : Nat \ {0}]
WatchedAgain == [cells |-> AgainCells, watchers |-> AgainWatchers,
                 time |-> AgainTime, launches |-> AgainLaunches]
WatchedAcross == [cells |-> AcrossCells, watchers |-> AcrossWatchers,
                  time |-> AcrossTime, launches |-> AcrossLaunches]
WatchedTogether == [cells |-> TogetherCells, watchers |-> TogetherWatchers,
                    time |-> TogetherTime, launches |-> TogetherLaunches]
ASSUME ClockBounds == WatchCheckpoint \in Nat /\ WatchWindow \in Nat /\ WatchPass \in Nat
ASSUME WatchedBounds ==
  WatchedAgain \in WatchBounds /\ WatchedAcross \in WatchBounds
  /\ WatchedTogether \in WatchBounds

VARIABLES part,   \* which part is at work
          \* its variables, in the order in which its module declares them
          v1, v2, v3, v4, v5, v6, v7, v8, v9, v10, v11, v12, v13, v14, v15, v16

vars == <<part, v1, v2, v3, v4, v5, v6, v7, v8, v9, v10, v11, v12, v13, v14, v15, v16>>

Rec == INSTANCE ControllerRecord WITH
  MaxLaunches <- RecordLaunches, MaxStops <- RecordStops, file <- v1, pc <- v2, pid <- v3,
  mem <- v4, text <- v5, inHandler <- v6, signal <- v7, launcher <- v8, launchCopy <- v9, stopper <- v10,
  stopCopy <- v11, stopSaid <- v12, stops <- v13, late <- v14, undone <- v15

Judge == INSTANCE EdgeResources WITH
  NumControllers <- JudgeControllers, pc <- v1, bridge <- v2, judge <- v3, crashed <- v4, host <- v5,
  registered <- v6, noted <- v7, incomplete <- v8, alive <- v9, unwritten <- v10,
  failed <- v11

Agent == INSTANCE AgentRun WITH
  NumSlots <- AgentSlots, MaxCommands <- AgentCommands, file <- v1, tmp <- v2, kind <- v3,
  pc <- v4, after <- v5, copy <- v6, fd <- v7, camp <- v8, commands <- v9, over <- v10, finalized <- v11,
  reported <- v12, overlapped <- v13, killed <- v14

Budget == INSTANCE EvaluatorBudget WITH
  NumCalls <- BudgetCalls, MaxPublic <- BudgetPublic, Reserve <- BudgetReserve,
  MaxEdits <- BudgetEdits, limited <- v1, budget <- v2,
  lock <- v3, mode <- v4, pc <- v5, seen <- v6, index <- v7, hash <- v8, evaluated <- v9,
  artifact <- v10, agent <- v11, history <- v12, archive <- v13, claims <- v14,
  refused <- v15

Worker == INSTANCE WorkerSandbox WITH
  NumRequests <- WorkerRequests, NumGenerations <- WorkerGenerations, pc <- v1, child <- v2,
  dir <- v3, serving <- v4, relay <- v5, projection <- v6, source <- v7, ticket <- v8, req <- v9, gen <- v10,
  answered <- v11, kicks <- v12, raced <- v13, cut <- v14

Trajectory(b) == INSTANCE TrajectoryEvidence WITH
  K <- b.workers, MaxRuns <- b.runs, MaxCands <- b.cands, MaxSessions <- b.sessions,
  MaxGen <- b.gens, method <- v1, runs <- v2, chosen <- v3, cands <- v4, sess <- v5,
  verified <- v6, ledger <- v7, helpers <- v8, goal <- v9, scored <- v10, peak <- v11,
  cover <- v12, archive <- v13

Audit == INSTANCE ParallelAudit WITH
  Workers <- AuditWorkers, Deadline <- AuditDeadline, MaxIdle <- AuditIdle,
  MaxCalls <- AuditCalls, now <- v1, calls <- v2, dispatches <- v3, over <- v4

Judgement == INSTANCE CandidateJudge WITH
  MaxEligible <- JudgementCandidates, MaxJudgements <- Judgements, mode <- v1, start <- v2, env <- v3, kept <- v4,
  outer <- v5, inner <- v6, eligible <- v7, clean <- v8, pc <- v9, asked <- v10,
  result <- v11, calls <- v12, seen <- v13

Curve == INSTANCE TimeCurve WITH
  NumAnchors <- CurveAnchors, MaxEntries <- CurveEntries, MaxExtracts <- CurveExtracts,
  NumReports <- CurveReports, Rank <- CurveRank, Points <- CurvePoints, Scaled <- CurveScaled,
  Valid <- CurveValid, cell <- v1, full <- v2, history <- v3, report <- v4,
  ticks <- v5, issue <- v6, pc <- v7, extracts <- v8, sawCell <- v9, k <- v10,
  sawHistory <- v11, sawReport <- v12, rows <- v13, curve <- v14, collecting <- v15,
  reference <- v16

Watch(b) == INSTANCE GameWatch WITH
  NumCells <- b.cells, MaxWatchers <- b.watchers, Checkpoint <- WatchCheckpoint,
  Window <- WatchWindow, SlowestPass <- WatchPass,
  MaxTime <- b.time, MaxLaunches <- b.launches, clock <- v1, campaign <- v2, launches <- v3,
  cell <- v4, snapshot <- v5, meta <- v6, pc <- v7, parent <- v8, saw <- v9, saws <- v10,
  now <- v11, at <- v12, left <- v13, twice <- v14, lost <- v15

Adapter(b) == INSTANCE AdapterEvaluation WITH
  Names <- b.names, NumCalls <- b.calls, MaxEdits <- b.edits, MaxMoves <- b.moves,
  adapter <- v1, candidate <- v2, stray <- v3, source <- v4, container <- v5,
  ledger <- v6, agent <- v7, call <- v8, edits <- v9, moves <- v10

Cache == INSTANCE ReferenceCache WITH
  NumCalls <- CacheCalls, MaxMoves <- CacheMoves, MaxBatches <- CacheBatches, head <- v1, file <- v2, lock <- v3,
  call <- v4, writer <- v5, cut <- v6

\* A part of n variables leaves the others unused.
Unused == "unused"
UnusedBeyond(n) ==
  /\ IF n < 5 THEN v5 = Unused ELSE TRUE
  /\ IF n < 6 THEN v6 = Unused ELSE TRUE
  /\ IF n < 7 THEN v7 = Unused ELSE TRUE
  /\ IF n < 8 THEN v8 = Unused ELSE TRUE
  /\ IF n < 9 THEN v9 = Unused ELSE TRUE
  /\ IF n < 10 THEN v10 = Unused ELSE TRUE
  /\ IF n < 11 THEN v11 = Unused ELSE TRUE
  /\ IF n < 12 THEN v12 = Unused ELSE TRUE
  /\ IF n < 13 THEN v13 = Unused ELSE TRUE
  /\ IF n < 14 THEN v14 = Unused ELSE TRUE
  /\ IF n < 15 THEN v15 = Unused ELSE TRUE
  /\ IF n < 16 THEN v16 = Unused ELSE TRUE
UnchangedBeyond(n) ==
  /\ IF n < 5 THEN UNCHANGED v5 ELSE TRUE
  /\ IF n < 6 THEN UNCHANGED v6 ELSE TRUE
  /\ IF n < 7 THEN UNCHANGED v7 ELSE TRUE
  /\ IF n < 8 THEN UNCHANGED v8 ELSE TRUE
  /\ IF n < 9 THEN UNCHANGED v9 ELSE TRUE
  /\ IF n < 10 THEN UNCHANGED v10 ELSE TRUE
  /\ IF n < 11 THEN UNCHANGED v11 ELSE TRUE
  /\ IF n < 12 THEN UNCHANGED v12 ELSE TRUE
  /\ IF n < 13 THEN UNCHANGED v13 ELSE TRUE
  /\ IF n < 14 THEN UNCHANGED v14 ELSE TRUE
  /\ IF n < 15 THEN UNCHANGED v15 ELSE TRUE
  /\ IF n < 16 THEN UNCHANGED v16 ELSE TRUE

Init ==
  \/ part = "record" /\ Rec!Init /\ UnusedBeyond(15)
  \/ part = "judge" /\ Judge!Init /\ UnusedBeyond(11)
  \/ part = "agent" /\ Agent!Init /\ UnusedBeyond(14)
  \/ part = "budget" /\ Budget!Init /\ UnusedBeyond(15)
  \/ part = "worker" /\ Worker!Init /\ UnusedBeyond(14)
  \/ part = "trajectory" /\ Trajectory(SearchAlone)!Init /\ UnusedBeyond(13)
  \/ part = "trajectories" /\ Trajectory(SearchSucceeded)!Init /\ UnusedBeyond(13)
  \/ part = "audit" /\ Audit!Init /\ UnusedBeyond(4)
  \/ part = "judgement" /\ Judgement!Init /\ UnusedBeyond(13)
  \/ part = "curve" /\ Curve!Init /\ UnusedBeyond(16)
  \/ part = "watch" /\ Watch(WatchedAgain)!Init /\ UnusedBeyond(15)
  \/ part = "cells" /\ Watch(WatchedAcross)!Init /\ UnusedBeyond(15)
  \/ part = "watchers" /\ Watch(WatchedTogether)!Init /\ UnusedBeyond(15)
  \/ part = "adapters" /\ Adapter(OneByOne)!Init /\ UnusedBeyond(10)
  \/ part = "calls" /\ Adapter(Together)!Init /\ UnusedBeyond(10)
  \/ part = "cache" /\ Cache!Init /\ UnusedBeyond(6)

Next ==
  \/ part = "record" /\ Rec!Next /\ UNCHANGED part /\ UnchangedBeyond(15)
  \/ part = "judge" /\ Judge!Next /\ UNCHANGED part /\ UnchangedBeyond(11)
  \/ part = "agent" /\ Agent!Next /\ UNCHANGED part /\ UnchangedBeyond(14)
  \/ part = "budget" /\ Budget!Next /\ UNCHANGED part /\ UnchangedBeyond(15)
  \/ part = "worker" /\ Worker!Next /\ UNCHANGED part /\ UnchangedBeyond(14)
  \/ part = "trajectory" /\ Trajectory(SearchAlone)!Next /\ UNCHANGED part /\ UnchangedBeyond(13)
  \/ part = "trajectories" /\ Trajectory(SearchSucceeded)!Next /\ UNCHANGED part /\ UnchangedBeyond(13)
  \/ part = "audit" /\ Audit!Next /\ UNCHANGED part /\ UnchangedBeyond(4)
  \/ part = "judgement" /\ Judgement!Next /\ UNCHANGED part /\ UnchangedBeyond(13)
  \/ part = "curve" /\ Curve!Next /\ UNCHANGED part /\ UnchangedBeyond(16)
  \/ part = "watch" /\ Watch(WatchedAgain)!Next /\ UNCHANGED part /\ UnchangedBeyond(15)
  \/ part = "cells" /\ Watch(WatchedAcross)!Next /\ UNCHANGED part /\ UnchangedBeyond(15)
  \/ part = "watchers" /\ Watch(WatchedTogether)!Next /\ UNCHANGED part /\ UnchangedBeyond(15)
  \/ part = "adapters" /\ Adapter(OneByOne)!Next /\ UNCHANGED part /\ UnchangedBeyond(10)
  \/ part = "calls" /\ Adapter(Together)!Next /\ UNCHANGED part /\ UnchangedBeyond(10)
  \/ part = "cache" /\ Cache!Next /\ UNCHANGED part /\ UnchangedBeyond(6)

Spec == Init /\ [][Next]_vars

-----------------------------------------------------------------------------
\* controller.json: the controller's last word stands and a live controller is named,
\* whatever the launcher and the stops write (launch, execute_campaign, stop_campaign).
RecordIsSound == part = "record" => Rec!TypeOK /\ Rec!RecordIsSound

\* The judge and the bridges: what is left running is said to be, and a cell finds its
\* judge (start_or_reuse_judge, prepare_runtime_resources, RuntimeResources.close).
JudgeIsSound == part = "judge" => Judge!TypeOK /\ Judge!JudgeIsSound

\* agent-run.json: no phase ahead of what has happened, and none behind it for good
\* (start, finish, stop, run over update_observation and update_phase).
PhasesAreSound == part = "agent" => Agent!TypeOK /\ Agent!PhasesAreSound

\* Evaluations: every one is counted, no two share a ticket, and the archived report is
\* the candidate's (evaluate_workspace, claim_evaluator_call); a judgement is of the
\* candidate it names and nothing of its scope survives it (candidate_judge.py).
EvaluationIsSound ==
  /\ part = "budget" => Budget!TypeOK /\ Budget!BudgetIsSound
  /\ part = "judgement" => Judgement!TypeOK /\ Judgement!JudgementIsSound
  /\ part = "adapters" => Adapter(OneByOne)!TypeOK /\ Adapter(OneByOne)!AdapterIsSound
  /\ part = "calls" => Adapter(Together)!TypeOK /\ Adapter(Together)!AdapterIsSound
  /\ part = "cache" => Cache!TypeOK /\ Cache!CacheIsSound

\* The worker's private directory: one generation, one callback, and nothing left when
\* the launcher leaves by its own path (run_launcher, the worker's proxy).
SandboxIsSound == part = "worker" => Worker!TypeOK /\ Worker!SandboxIsSound

\* Evidence: what a verdict says is of this trajectory (evidence.py) and of these workers
\* (parallel_execution.py).
EvidenceIsSound ==
  /\ part = "trajectory" =>
       Trajectory(SearchAlone)!TypeOK /\ Trajectory(SearchAlone)!EvidenceIsSound
  /\ part = "trajectories" =>
       Trajectory(SearchSucceeded)!TypeOK /\ Trajectory(SearchSucceeded)!EvidenceIsSound
  /\ part = "audit" => Audit!TypeOK /\ Audit!AuditIsSound

\* Time curves: a checkpoint shows only what was known by then, and a watcher takes every
\* snapshot it could (timecurve.py).
CurveIsSound ==
  /\ part = "curve" => Curve!TypeOK /\ Curve!CurveIsSound
  /\ part = "watch" => Watch(WatchedAgain)!TypeOK /\ Watch(WatchedAgain)!WatchIsSound
  /\ part = "cells" => Watch(WatchedAcross)!TypeOK /\ Watch(WatchedAcross)!WatchIsSound
  /\ part = "watchers" =>
       Watch(WatchedTogether)!TypeOK /\ Watch(WatchedTogether)!WatchIsSound
=============================================================================
