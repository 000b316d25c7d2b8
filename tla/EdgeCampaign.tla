---------------------------- MODULE EdgeCampaign ----------------------------
(***************************************************************************)
(* One EdgeBench campaign as experiments/edgebench/controller runs it: the *)
(* controller process of execute_campaign, the cell queue it drives, the   *)
(* SForge children it starts, the files it keeps under the campaign        *)
(* directory and the finalizer that stamps completion evidence.            *)
(*                                                                         *)
(* The controller is one thread, written here as a program counter whose   *)
(* steps end where another actor can be seen: at each file write, at each  *)
(* read of the stop flag, at Popen and at poll.  Between two steps a       *)
(* signal may arrive, a child may write its results or exit, and the       *)
(* controller itself may be killed (Crash), which leaves its children      *)
(* running; a later `run` starts a new controller on the same files.       *)
(***************************************************************************)
EXTENDS Naturals, FiniteSets

CONSTANTS Cells,        \* the cells of campaign.json
          Concurrency,  \* profile.json cell_concurrency
          MaxLaunches,  \* bound: how many times `run` is issued
          MaxCrashes    \* bound: how many controllers are killed

ASSUME CellsAssumption == IsFiniteSet(Cells) /\ Cells # {}
ASSUME ConcurrencyAssumption == Concurrency \in Nat \ {0}
ASSUME BoundsAssumption == MaxLaunches \in Nat \ {0} /\ MaxCrashes \in Nat

VARIABLES
  \* files
  cellState,    \* cells/<id>/cell.json: state
  campCell,     \* campaign.json: cells[i].state
  campState,    \* campaign.json: state
  incomplete,   \* campaign.json: keys of incomplete_cells
  ctlFile,      \* controller.json: state and returncode
  scored,       \* cells whose task runs all hold a scored final result
  \* processes
  child,        \* the Popen handle of a cell in the present controller
  signalled,    \* children that were sent SIGINT
  orphan,       \* cells with a running child no controller keeps track of
  \* memory of the controller process
  pc, pending, active, batch, current, stop, forwarded, rc, final,
  \* memory of finalize_campaign, which the controller or `finalize` runs
  finalizer, verdict, work,
  \* history
  launches, crashes, exit

files    == <<cellState, campCell, campState, incomplete, ctlFile>>
procs    == <<child, signalled, orphan>>
queue    == <<pending, active, batch, current>>
flags    == <<stop, forwarded, rc, final>>
closing  == <<finalizer, verdict, work>>
history  == <<launches, crashes, exit>>
vars     == <<files, scored, procs, pc, queue, flags, closing, history>>

None == "none"

CellStates == {"prepared", "running", "completed", "failed", "interrupted",
               "partial"}
Handles    == {"none", "live", "zero", "nonzero"}

\* Program points before the signal handlers are installed, where SIGINT
\* still has its default effect; of the queue; and after the queue.
Unarmed    == {"boot", "bootCampaign", "install"}
Launching  == {"spawn", "record", "mirror"}
Queueing   == Launching \cup {"launch", "forward", "poll", "finish", "mirrorDone"}
Finalizing == {"evidence", "stampCells", "stampCampaign"}
Closing    == {"settle", "close", "lastWrite"}
Points     == {"idle", "prepare", "markFailed"} \cup Unarmed \cup Queueing \cup Finalizing
                \cup Closing

Live == {c \in Cells : child[c] = "live"}

\* `overall_returncode or code`
Or(code, other) == IF code # 0 THEN code ELSE other

FilesOK ==
  /\ cellState \in [Cells -> CellStates]
  /\ campCell \in [Cells -> CellStates]
  /\ campState \in CellStates
  /\ incomplete \in SUBSET Cells
  /\ ctlFile \in [state : CellStates, rc : {0, 1, 2, 130}]
  /\ scored \in SUBSET Cells

ProcsOK ==
  /\ child \in [Cells -> Handles]
  /\ signalled \in SUBSET Cells
  /\ orphan \in SUBSET Cells

QueueOK ==
  /\ pc \in Points
  /\ pending \in SUBSET Cells
  /\ active \in SUBSET Cells
  /\ batch \in SUBSET Cells
  /\ current \in Cells \cup {None}
  /\ pc \in Launching \cup {"mirrorDone"} => current \in Cells

FlagsOK ==
  /\ stop \in BOOLEAN
  /\ forwarded \in BOOLEAN
  /\ rc \in {0, 1, 2, 130}
  /\ final \in CellStates

ClosingOK ==
  /\ finalizer \in {"none", "controller", "user"}
  /\ verdict \in {"none", "passed", "failed"}
  /\ work \in SUBSET Cells

HistoryOK ==
  /\ launches \in Nat
  /\ crashes \in Nat
  /\ exit \in {"none", "clean", "interrupted", "killed"}

TypeOK == FilesOK /\ ProcsOK /\ QueueOK /\ FlagsOK /\ ClosingOK /\ HistoryOK

\* What `prepare` leaves behind: every cell prepared, no controller.
Init ==
  /\ cellState = [c \in Cells |-> "prepared"]
  /\ campCell = [c \in Cells |-> "prepared"]
  /\ campState = "prepared"
  /\ incomplete = {}
  /\ ctlFile = [state |-> "prepared", rc |-> 0]
  /\ scored = {}
  /\ child = [c \in Cells |-> "none"]
  /\ signalled = {}
  /\ orphan = {}
  /\ pc = "idle"
  /\ pending = {} /\ active = {} /\ batch = {} /\ current = None
  /\ stop = FALSE /\ forwarded = FALSE /\ rc = 0 /\ final = "prepared"
  /\ finalizer = "none" /\ verdict = "none" /\ work = {}
  /\ launches = 0 /\ crashes = 0 /\ exit = "none"

-----------------------------------------------------------------------------
(* Launch and start-up                                                     *)

\* `run`: refused while the recorded controller is alive; the state of an
\* earlier execution is not looked at.
Launch ==
  /\ pc = "idle"
  /\ launches < MaxLaunches
  /\ launches' = launches + 1
  /\ pc' = "boot"
  /\ child' = [c \in Cells |-> "none"]
  /\ signalled' = {}
  /\ pending' = {} /\ active' = {} /\ batch' = {} /\ current' = None
  /\ stop' = FALSE /\ forwarded' = FALSE /\ rc' = 0 /\ final' = "prepared"
  /\ finalizer' = "none" /\ verdict' = "none" /\ work' = {}
  /\ exit' = "none"
  /\ UNCHANGED <<files, scored, orphan, crashes>>

\* execute_campaign records itself in controller.json ...
BootController ==
  /\ pc = "boot"
  /\ ctlFile' = [ctlFile EXCEPT !.state = "running"]
  /\ pc' = "bootCampaign"
  /\ UNCHANGED <<cellState, campCell, campState, incomplete, scored, procs,
                 queue, flags, closing, history>>

\* ... then marks campaign.json running; its cells become the queue.
BootCampaign ==
  /\ pc = "bootCampaign"
  /\ campState' = "running"
  /\ pending' = Cells
  /\ pc' = "install"
  /\ UNCHANGED <<cellState, campCell, incomplete, ctlFile, scored, procs,
                 active, batch, current, flags, closing, history>>

\* Only now are SIGINT and SIGTERM caught.
InstallHandlers ==
  /\ pc = "install"
  /\ pc' = "prepare"
  /\ UNCHANGED <<files, scored, procs, queue, flags, closing, history>>

\* The judge and the bridges are up: the queue starts.
PrepareOk ==
  /\ pc = "prepare"
  /\ pc' = "launch"
  /\ UNCHANGED <<files, scored, procs, queue, flags, closing, history>>

\* prepare_runtime_resources raised: _mark_controller_failure, return 1.
PrepareFails ==
  /\ pc = "prepare"
  /\ campState' = "failed"
  /\ rc' = 1
  /\ pc' = "markFailed"
  /\ UNCHANGED <<cellState, campCell, incomplete, ctlFile, scored, procs, queue,
                 stop, forwarded, final, closing, history>>

MarkFailed ==
  /\ pc = "markFailed"
  /\ ctlFile' = [state |-> "failed", rc |-> 1]
  /\ pc' = "idle"
  /\ exit' = "clean"
  /\ UNCHANGED <<cellState, campCell, campState, incomplete, scored, procs,
                 queue, flags, closing, launches, crashes>>

-----------------------------------------------------------------------------
(* The cell queue: execute_cell_queue                                      *)

\* `while pending or active`.
QueueTop(waiting, running) ==
  IF waiting = {} /\ running = {} THEN "settle" ELSE "launch"

\* Mutants: the slot check off by one; the stop flag not looked at.
MayStartOneMore == pending # {} /\ Cardinality(active) <= Concurrency /\ ~stop
MayStartWhileStopping == pending # {} /\ Cardinality(active) < Concurrency

MayStart == pending # {} /\ Cardinality(active) < Concurrency /\ ~stop

\* start_campaign_cell returns None for a cell whose cell.json is completed.
SkipCompleted(c) ==
  /\ pc = "launch" /\ MayStart
  /\ c \in pending /\ cellState[c] = "completed"
  /\ pending' = pending \ {c}
  /\ UNCHANGED <<files, scored, procs, pc, active, batch, current, flags,
                 closing, history>>

\* Mutant: the deque is peeked at instead of popped.
TakeCellPeeked(c) ==
  /\ pc = "launch" /\ MayStart
  /\ c \in pending /\ cellState[c] # "completed"
  /\ current' = c
  /\ pc' = "spawn"
  /\ UNCHANGED <<files, scored, procs, pending, active, batch, flags, closing, history>>

\* The next cell leaves the deque; the stop flag is not read again before Popen.
TakeCell(c) ==
  /\ pc = "launch" /\ MayStart
  /\ c \in pending /\ cellState[c] # "completed"
  /\ pending' = pending \ {c}
  /\ current' = c
  /\ pc' = "spawn"
  /\ UNCHANGED <<files, scored, procs, active, batch, flags, closing, history>>

\* Popen or the command's construction raised: the cell fails, the queue goes on.
SpawnFails ==
  /\ pc = "spawn"
  /\ cellState' = [cellState EXCEPT ![current] = "failed"]
  /\ rc' = Or(rc, 1)
  /\ pc' = "mirrorDone"
  /\ UNCHANGED <<campCell, campState, incomplete, ctlFile, scored, procs, queue,
                 stop, forwarded, final, closing, history>>

Spawn ==
  /\ pc = "spawn"
  /\ child' = [child EXCEPT ![current] = "live"]
  /\ pc' = "record"
  /\ UNCHANGED <<files, scored, signalled, orphan, queue, flags, closing, history>>

RecordRunning ==
  /\ pc = "record"
  /\ cellState' = [cellState EXCEPT ![current] = "running"]
  /\ pc' = "mirror"
  /\ UNCHANGED <<campCell, campState, incomplete, ctlFile, scored, procs, queue,
                 flags, closing, history>>

\* update_campaign_cell, then the queue's own record of the running child.
MirrorRunning ==
  /\ pc = "mirror"
  /\ campCell' = [campCell EXCEPT ![current] = "running"]
  /\ active' = active \cup {current}
  /\ pc' = "launch"
  /\ UNCHANGED <<cellState, campState, incomplete, ctlFile, scored, procs,
                 pending, batch, current, flags, closing, history>>

\* A write after Popen raised.  The queue's handler takes the cell for one that
\* never started: it is marked failed, and its child is lost sight of.
RecordFails ==
  /\ pc \in {"record", "mirror"}
  /\ cellState' = [cellState EXCEPT ![current] = "failed"]
  /\ rc' = Or(rc, 1)
  /\ child' = [child EXCEPT ![current] = "none"]
  /\ orphan' = IF current \in Live THEN orphan \cup {current} ELSE orphan
  /\ pc' = "mirrorDone"
  /\ UNCHANGED <<campCell, campState, incomplete, ctlFile, scored, signalled,
                 queue, stop, forwarded, final, closing, history>>

LaunchesDone ==
  /\ pc = "launch" /\ ~MayStart
  /\ pc' = "forward"
  /\ UNCHANGED <<files, scored, procs, queue, flags, closing, history>>

\* Mutant: the forwarding is noted but nobody is sent the signal.
ForwardToNobody ==
  /\ pc = "forward"
  /\ forwarded' = stop
  /\ pc' = "poll"
  /\ UNCHANGED <<files, scored, procs, queue, stop, rc, final, closing, history>>

\* The stop is forwarded once, to the children still running.
Forward ==
  /\ pc = "forward"
  /\ IF stop /\ ~forwarded
       THEN /\ signalled' = signalled \cup {c \in active : child[c] = "live"}
            /\ forwarded' = TRUE
       ELSE UNCHANGED <<signalled, forwarded>>
  /\ pc' = "poll"
  /\ UNCHANGED <<files, scored, child, orphan, queue, stop, rc, final, closing,
                 history>>

\* Mutants: the loop is left once the stop was forwarded, or not left when
\* nothing is active.
PollGivesUp ==
  /\ pc = "poll"
  /\ batch' = {c \in active : child[c] # "live"}
  /\ pc' = IF batch' # {} THEN "finish"
           ELSE IF active = {} \/ forwarded THEN "settle" ELSE "launch"
  /\ UNCHANGED <<files, scored, procs, pending, active, current, flags, closing,
                 history>>
PollNeverLeaves ==
  /\ pc = "poll"
  /\ batch' = {c \in active : child[c] # "live"}
  /\ pc' = IF batch' # {} THEN "finish" ELSE "launch"
  /\ UNCHANGED <<files, scored, procs, pending, active, current, flags, closing,
                 history>>

\* With nothing finished the loop sleeps, or leaves when nothing is active.
Poll ==
  /\ pc = "poll"
  /\ batch' = {c \in active : child[c] # "live"}
  /\ pc' = IF batch' # {} THEN "finish"
           ELSE IF active = {} THEN "settle" ELSE "launch"
  /\ UNCHANGED <<files, scored, procs, pending, active, current, flags, closing,
                 history>>

\* Mutant: the exit code is believed.
ChildCodeTrusted(c) == IF child[c] = "zero" THEN 0 ELSE 1

\* finish_campaign_cell: a zero exit without a scored result counts as failure,
\* unless a stop was requested, and then the cell is interrupted whatever it did.
ChildCode(c) ==
  IF child[c] = "zero" /\ (stop \/ c \in scored) THEN 0 ELSE 1

\* Mutant: the word stop_campaign uses for the controller gets into a cell.
SettledStateStopping(c) ==
  IF stop THEN "stopping"
  ELSE IF ChildCode(c) = 0 THEN "completed" ELSE "failed"

SettledState(c) ==
  IF stop THEN "interrupted"
  ELSE IF ChildCode(c) = 0 THEN "completed" ELSE "failed"

FinishCell(c) ==
  /\ pc = "finish"
  /\ c \in batch
  /\ batch' = batch \ {c}
  /\ active' = active \ {c}
  /\ current' = c
  /\ cellState' = [cellState EXCEPT ![c] = SettledState(c)]
  /\ rc' = Or(rc, ChildCode(c))
  /\ pc' = "mirrorDone"
  /\ UNCHANGED <<campCell, campState, incomplete, ctlFile, scored, procs,
                 pending, stop, forwarded, final, closing, history>>

\* Mutant: campaign.json is not brought up to date while stopping.
MirrorDoneUnlessStopping ==
  /\ pc = "mirrorDone"
  /\ campCell' = IF stop THEN campCell
                 ELSE [campCell EXCEPT ![current] = cellState[current]]
  /\ pc' = IF child[current] = "none" THEN "launch"
           ELSE IF batch # {} THEN "finish" ELSE QueueTop(pending, active)
  /\ UNCHANGED <<cellState, campState, incomplete, ctlFile, scored, procs, queue,
                 flags, closing, history>>

\* The same state goes to campaign.json; back to the batch, or to the loop's top.
MirrorDone ==
  /\ pc = "mirrorDone"
  /\ campCell' = [campCell EXCEPT ![current] = cellState[current]]
  /\ pc' = IF child[current] = "none" THEN "launch"
           ELSE IF batch # {} THEN "finish" ELSE QueueTop(pending, active)
  /\ UNCHANGED <<cellState, campState, incomplete, ctlFile, scored, procs, queue,
                 flags, closing, history>>

-----------------------------------------------------------------------------
(* Closing the campaign                                                    *)

FinalState ==
  LET states == {campCell[c] : c \in Cells}
  IN  IF stop THEN "interrupted"
      ELSE IF states = {"completed"} THEN "completed"
      ELSE IF "failed" \in states THEN "failed" ELSE "partial"

\* campaign.json gets its terminal state before the judge and bridges close.
Settle ==
  /\ pc = "settle"
  /\ final' = FinalState
  /\ campState' = FinalState
  /\ rc' = CASE FinalState = "interrupted" -> Or(rc, 130)
             [] FinalState = "failed"      -> Or(rc, 1)
             [] OTHER                      -> rc
  /\ pc' = "close"
  /\ UNCHANGED <<cellState, campCell, incomplete, ctlFile, scored, procs, queue,
                 stop, forwarded, closing, history>>

CloseResources ==
  /\ pc = "close"
  /\ ctlFile' = [state |-> final, rc |-> rc]
  /\ finalizer' = "controller"
  /\ pc' = "evidence"
  /\ UNCHANGED <<cellState, campCell, campState, incomplete, scored, procs,
                 queue, flags, verdict, work, history>>

\* `finalize` issued by a user while no controller runs.
UserFinalize ==
  /\ pc = "idle"
  /\ finalizer' = "user"
  /\ pc' = "evidence"
  /\ UNCHANGED <<files, scored, procs, queue, flags, verdict, work, history>>

\* summarize_cell for every cell.  Completion evidence needs a scored result;
\* its other conditions (K workers, verifier, promotion) are left open.
ReadEvidence ==
  /\ pc = "evidence"
  /\ \E passed \in SUBSET scored :
       IF passed = Cells
         THEN verdict' = "passed" /\ work' = incomplete
         ELSE verdict' = "failed" /\ work' = Cells \ passed
  /\ pc' = "stampCells"
  /\ UNCHANGED <<files, scored, procs, queue, flags, finalizer, history>>

Stamp == IF verdict = "passed" THEN "completed" ELSE "partial"

\* The cell.json of one cell whose verdict changed.
StampCell(c) ==
  /\ pc = "stampCells"
  /\ c \in work /\ cellState[c] # Stamp
  /\ cellState' = [cellState EXCEPT ![c] = Stamp]
  /\ UNCHANGED <<campCell, campState, incomplete, ctlFile, scored, procs, pc,
                 queue, flags, closing, history>>

AfterStamp == IF finalizer = "controller" THEN "lastWrite" ELSE "idle"

StampedCells == [c \in Cells |-> IF c \in work THEN Stamp ELSE campCell[c]]

\* Mutant: any repair completes the campaign.
RepairedAny == verdict = "passed" /\ incomplete # {}

Repaired == /\ verdict = "passed" /\ incomplete # {}
            /\ \A c \in Cells : StampedCells[c] = "completed"

\* A repair of everything that was incomplete also turns a partial
\* controller.json into a completed one ...
StampController ==
  /\ pc = "stampCells"
  /\ \A c \in work : cellState[c] = Stamp
  /\ ctlFile' = IF Repaired /\ ctlFile.state = "partial"
                  THEN [state |-> "completed", rc |-> 0] ELSE ctlFile
  /\ pc' = "stampCampaign"
  /\ UNCHANGED <<cellState, campCell, campState, incomplete, scored, procs,
                 queue, flags, closing, history>>

\* ... and campaign.json is written last.
StampCampaign ==
  /\ pc = "stampCampaign"
  /\ campCell' = StampedCells
  /\ campState' = IF verdict = "failed" THEN "partial"
                  ELSE IF Repaired THEN "completed" ELSE campState
  /\ incomplete' = IF verdict = "failed" THEN work
                   ELSE IF Repaired THEN {} ELSE incomplete
  /\ pc' = AfterStamp
  /\ UNCHANGED <<cellState, ctlFile, scored, procs, queue, flags, closing,
                 history>>

\* Mutant: failed evidence does not reach the exit code.
LastWriteKeepsCode ==
  /\ pc = "lastWrite"
  /\ ctlFile' = [state |-> IF verdict = "failed" THEN "partial" ELSE final, rc |-> rc]
  /\ pc' = "idle"
  /\ exit' = "clean"
  /\ UNCHANGED <<cellState, campCell, campState, incomplete, scored, procs,
                 queue, flags, closing, launches, crashes>>

\* The controller's own dict, not controller.json, is written back.
LastWrite ==
  /\ pc = "lastWrite"
  /\ LET code == IF verdict = "failed" THEN Or(rc, 2) ELSE rc
         state == IF verdict = "failed" THEN "partial" ELSE final
     IN  /\ rc' = code
         /\ ctlFile' = [state |-> state, rc |-> code]
  /\ pc' = "idle"
  /\ exit' = "clean"
  /\ UNCHANGED <<cellState, campCell, campState, incomplete, scored, procs,
                 queue, stop, forwarded, final, closing, launches, crashes>>

-----------------------------------------------------------------------------
(* Children, signals and crashes                                           *)

\* SForge writes final_result.json and the submission reports while it runs.
ChildScores(c) ==
  /\ child[c] = "live" \/ c \in orphan
  /\ c \notin scored
  /\ scored' = scored \cup {c}
  /\ UNCHANGED <<files, procs, pc, queue, flags, closing, history>>

ChildExits(c) ==
  /\ child[c] = "live"
  /\ \E code \in {"zero", "nonzero"} : child' = [child EXCEPT ![c] = code]
  /\ UNCHANGED <<files, scored, signalled, orphan, pc, queue, flags, closing,
                 history>>

OrphanExits(c) ==
  /\ c \in orphan
  /\ orphan' = orphan \ {c}
  /\ UNCHANGED <<files, scored, child, signalled, pc, queue, flags, closing,
                 history>>

ControllerAlive == pc # "idle" /\ finalizer # "user"

\* handle_stop: the flag is set; what the thread was doing goes on.
StopSignal ==
  /\ ControllerAlive /\ pc \notin Unarmed
  /\ ~stop
  /\ stop' = TRUE
  /\ UNCHANGED <<files, scored, procs, pc, queue, forwarded, rc, final, closing,
                 history>>

\* Before the handlers are installed the same signal ends the process.
EarlySignal ==
  /\ ControllerAlive /\ pc \in Unarmed
  /\ pc' = "idle"
  /\ exit' = "interrupted"
  /\ UNCHANGED <<files, scored, procs, queue, flags, closing, launches, crashes>>

\* The controller (or a user's finalize) is killed; its children live on.
Crash ==
  /\ pc # "idle" /\ crashes < MaxCrashes
  /\ crashes' = crashes + 1
  /\ orphan' = orphan \cup Live
  /\ child' = [c \in Cells |-> "none"]
  /\ signalled' = {}
  /\ pending' = {} /\ active' = {} /\ batch' = {}
  /\ pc' = "idle"
  /\ exit' = "killed"
  /\ UNCHANGED <<files, scored, current, flags, closing, launches>>

-----------------------------------------------------------------------------

StartUp ==
  \/ BootController \/ BootCampaign \/ InstallHandlers
  \/ PrepareOk \/ PrepareFails \/ MarkFailed

CellQueue ==
  \/ \E c \in Cells : SkipCompleted(c) \/ TakeCell(c)
  \/ SpawnFails \/ Spawn \/ RecordRunning \/ MirrorRunning \/ RecordFails
  \/ LaunchesDone \/ Forward \/ Poll
  \/ \E c \in Cells : FinishCell(c)
  \/ MirrorDone

CloseOut ==
  \/ Settle \/ CloseResources \/ ReadEvidence
  \/ \E c \in Cells : StampCell(c)
  \/ StampController \/ StampCampaign \/ LastWrite

Controller == StartUp \/ CellQueue \/ CloseOut

Environment ==
  \/ \E c \in Cells : ChildScores(c) \/ ChildExits(c) \/ OrphanExits(c)
  \/ StopSignal \/ EarlySignal \/ Crash

Next == Launch \/ UserFinalize \/ Controller \/ Environment

Spec == Init /\ [][Next]_vars

-----------------------------------------------------------------------------
(* Properties                                                              *)

\* Never more children of this controller alive than cell_concurrency allows,
\* whatever exits, fails to launch or is interrupted meanwhile
\* (execute_cell_queue counts `active`, which lags behind Popen and exit).
SlotBound == Cardinality(Live) <= Concurrency

\* Once the stop has been forwarded every child still alive has its SIGINT:
\* the one-shot forwarding of execute_cell_queue misses no child, not even one
\* whose launch had passed the stop check when the signal came.
StopReachesChildren == forwarded => Live \subseteq signalled

\* The queue is left only when none of its children runs any more, so the judge
\* is closed and the campaign settled under nobody's feet (execute_cell_queue).
NoChildLeftBehind == pc \notin Queueing => Live = {}

\* campaign.json and the cell.json files tell the same story wherever the
\* controller is not between the two writes, as long as nobody was killed.
LedgersAgree ==
  crashes = 0 =>
    \A c \in Cells :
      \/ campCell[c] = cellState[c]
      \/ pc \in {"mirror", "mirrorDone"} /\ c = current
      \/ pc \in {"stampCells", "stampCampaign"} /\ c \in work

\* No file ever calls a cell completed that has no scored result, across
\* launches, kills and finalizer repairs (finish_campaign_cell validates).
CompletedIsScored ==
  \A c \in Cells :
    cellState[c] = "completed" \/ campCell[c] = "completed" => c \in scored

\* A campaign reads completed only while campaign.json lists every cell as
\* completed, whichever of execute_campaign and finalize_campaign wrote it last.
CompletedCampaign ==
  campState = "completed" => \A c \in Cells : campCell[c] = "completed"

\* A controller that returned left controller.json with the state of
\* campaign.json and the exit code it returns, and zero means completed.  The
\* finalizer's repair of cells an earlier finalization had found incomplete is
\* apart: it rewrites campaign.json after the controller settled its own state.
RepairedCells == IF verdict = "passed" THEN work ELSE {}
CleanExit ==
  (/\ pc = "idle" /\ exit = "clean" /\ crashes = 0
   /\ finalizer # "user" /\ RepairedCells = {}) =>
    /\ ctlFile = [state |-> campState, rc |-> rc]
    /\ rc = 0 <=> campState = "completed"

\* After the stop has been forwarded no child is started for the rest of this
\* execution.
NoStartAfterForward == [][forwarded => Live' \subseteq Live]_vars

\* What the runner registry says of this runner's stop, "stopped campaigns are
\* finalized as partial" (benchmarks/runners.json): a campaign that was begun and
\* whose controller ended of a stop is in a state the finalizer accepts.
Terminal == {"completed", "partial", "failed", "interrupted"}
StoppedIsTerminal ==
  (pc = "idle" /\ exit = "interrupted" /\ campState # "prepared") =>
    campState \in Terminal

\* What the EdgeBench README says of stop: SIGINT goes to all active cells "so
\* that every SForge run performs its native closeout".  Without a killed
\* controller, a forwarded stop leaves no run of SForge without the signal.
EveryRunIsStopped == (forwarded /\ crashes = 0) => orphan = {}

\* What makes the queue's promises inductive: slots are held only while the
\* queue runs, by every live child but the one being recorded; a cell is taken
\* at most once; a launch under way has a free slot and precedes the forwarding.
SlotsHeld ==
  /\ active # {} => pc \in Queueing
  /\ Live \subseteq active \cup (IF pc \in {"record", "mirror"} THEN {current} ELSE {})
  /\ batch \subseteq active /\ batch \cap Live = {}
  /\ Cardinality(active) <= Concurrency
TakenOnce ==
  /\ pending \cap active = {}
  /\ pc \in Launching => current \notin pending \cup active
LaunchUnderWay ==
  pc \in Launching => Cardinality(active) < Concurrency /\ ~forwarded
QueueInv ==
  /\ SlotsHeld /\ TakenOnce /\ LaunchUnderWay
  /\ forwarded => stop
  /\ StopReachesChildren

\* What makes CompletedIsScored and CompletedCampaign inductive: a passed verdict
\* rests on scored results of every cell, and campaign.json reads running for as
\* long as the queue still rewrites its cells.
CompletionInv ==
  /\ CompletedIsScored /\ CompletedCampaign
  /\ verdict = "passed" => scored = Cells
  /\ pc \in {"stampCells", "stampCampaign"} => verdict # "none"
  /\ pc \in Queueing \cup {"install", "prepare", "settle"} => campState = "running"

\* What makes LedgersAgree inductive: cell.json is written first, both for a
\* started cell and for the finalizer's stamps.
LedgerInv ==
  /\ LedgersAgree
  /\ pc = "mirror" => cellState[current] = "running"
  /\ pc = "stampCampaign" => \A c \in work : cellState[c] = Stamp

\* The whole campaign waits when the queue starts, and nothing was forwarded yet.
QueueFilled ==
  /\ pc \in Unarmed \cup {"prepare"} => ~forwarded
  /\ pc \in {"install", "prepare"} => pending = Cells

\* What makes CleanExit inductive.  A cell the queue is done with is completed or
\* failed unless a stop came, and a non-zero exit code has such a cell to show; so
\* the code that the settled state gets is zero exactly for a completed campaign.
Handled == Cells \ (pending \cup active \cup (IF pc \in Launching THEN {current} ELSE {}))
Outcome(c) == IF pc = "mirrorDone" /\ c = current THEN cellState[c] ELSE campCell[c]
OutcomeInv ==
  /\ pc \in Unarmed \cup {"prepare"} => rc = 0
  /\ pc \in Queueing \cup {"settle"} =>
       /\ rc # 0 => \E c \in Handled : Outcome(c) # "completed"
       /\ (crashes = 0 /\ ~stop) => \A c \in Handled : Outcome(c) \in {"completed", "failed"}
  /\ (pc \in {"forward", "poll", "settle"} /\ active = {} /\ ~stop) => pending = {}
  /\ pc = "settle" => active = {}
SettledInv ==
  /\ finalizer = "user" => pc \in {"idle"} \cup Finalizing
  /\ (exit = "clean" /\ finalizer # "user") => pc = "idle"
  /\ pc = "markFailed" => rc = 1 /\ campState = "failed"
  /\ (pc \in {"stampCells", "stampCampaign"} /\ verdict = "passed") => work = incomplete
  /\ (pc \in {"close", "lastWrite"} \cup Finalizing /\ finalizer # "user") =>
       /\ crashes = 0 => (rc = 0 <=> final = "completed")
       /\ pc # "lastWrite" => campState = final
       /\ (pc = "lastWrite" /\ RepairedCells = {}) =>
            campState = (IF verdict = "failed" THEN "partial" ELSE final)
ExitInv == OutcomeInv /\ SettledInv /\ CleanExit

\* The queue as a pool of slots: the cells not yet started, the ones holding a
\* slot, and whether the pool still admits.
SlotWaiting == IF pc \notin Queueing THEN {}
               ELSE IF pc = "spawn" THEN pending \cup {current} ELSE pending
SlotRunning == IF pc \in {"record", "mirror"} THEN active \cup {current} ELSE active
SlotClosed  == forwarded \/ pc \notin Queueing

Slots == INSTANCE CellSlots WITH
  Slots      <- Concurrency,
  Selections <- {Cells},
  waiting    <- SlotWaiting,
  running    <- SlotRunning,
  closed     <- SlotClosed

\* Cells are admitted to a free slot at most once per execution and never after
\* the pool closed.
RefinesCellSlots == Slots!Spec

-----------------------------------------------------------------------------
(* Fairness: the controller thread keeps running, and a child that was sent *)
(* SIGINT runs its closeout and exits.  That every child ends at its wall    *)
(* time is left to SForge: CampaignEnds assumes it.                          *)

FairController == WF_vars(Controller)
StopSpec == Spec /\ FairController
              /\ \A c \in Cells : WF_vars(c \in signalled /\ ChildExits(c))
WallTime == \A c \in Cells : WF_vars(ChildExits(c))

\* A stop request ends the controller although only children that got the
\* SIGINT are sure to exit (execute_cell_queue forwards it to all of them).
StopEnds == (stop /\ pc # "idle") ~> (pc = "idle")

\* If SForge ends its runs, every launched campaign runs to its end, whatever
\* fails to launch or is skipped (the loop of execute_cell_queue).
CampaignEnds == WallTime => ((pc = "boot") ~> (pc = "idle"))
=============================================================================
