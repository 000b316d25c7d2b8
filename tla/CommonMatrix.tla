---------------------------- MODULE CommonMatrix ----------------------------
(***************************************************************************)
(* The generic campaign controller of experiments/benchmark_campaign: the  *)
(* benchmark x condition x seed matrix of campaign.json, the loop of       *)
(* run_campaign over it, the run-cell processes it starts and the          *)
(* experiment.json each of them keeps.                                     *)
(*                                                                         *)
(* A stop is an exception here: handle_stop raises KeyboardInterrupt       *)
(* wherever the controller's thread happens to be.  So the program counter *)
(* has a point wherever that makes a difference, and Interrupt says where  *)
(* the exception leads from each of them.  campaign.json is replaced       *)
(* atomically, always with all that the controller has in memory.          *)
(***************************************************************************)
EXTENDS Naturals, FiniteSets

CONSTANTS Cells,        \* the cells of campaign.json
          Concurrency,  \* budget.cell_concurrency
          MaxRuns,      \* bound: how many times `run` is issued
          MaxCrashes    \* bound: how many controllers are killed

ASSUME CellsAssumption == IsFiniteSet(Cells) /\ Cells # {}
ASSUME ConcurrencyAssumption == Concurrency \in Nat \ {0}
ASSUME BoundsAssumption == MaxRuns \in Nat \ {0} /\ MaxCrashes \in Nat

VARIABLES
  \* files
  disk,       \* campaign.json: the cells' states and the campaign's
  manifest,   \* status of each cell's experiment.json
  \* run-cell processes
  proc,       \* the ActiveCell process of a cell in the present controller
  orphan,     \* <<cell, phase>> of processes no controller keeps track of
  \* memory of the controller
  pc, cells, pending, active, done, current, stop, raising, failFast,
  \* history
  runs, crashes,
  cut,        \* cells whose process the closing block of this run found alive
  doubled     \* cells that were started while an orphan still worked on them

files   == <<disk, manifest>>
procs   == <<proc, orphan>>
queue   == <<cells, pending, active, done, current>>
flags   == <<stop, raising, failFast>>
history == <<runs, crashes, cut, doubled>>
vars    == <<files, procs, pc, queue, flags, history>>

None == "none"

Terminal   == {"finished", "incomplete", "failed", "prepare_failed"}
CellStates == Terminal \cup {"prepared", "running", "interrupted"}
CampStates == {"prepared", "partial", "running", "finished", "interrupted"}

\* A run-cell process: before the check of experiment.json, between the check
\* and the write of "running", at work.
Phases  == {"starting", "checked", "running"}
Handles == Phases \cup {"none", "exited"}

\* The program points of run_campaign: before the try block, in it, in its
\* finally block, after it.
Before == {"begin", "select"}
InTry  == {"loop", "launch", "popen", "append", "record", "poll", "finish", "retire"}
InEnd  == {"finally", "terminate", "reap"}
Points == {"idle", "final"} \cup Before \cup InTry \cup InEnd
Launching == {"popen", "append"}

Alive == {c \in Cells : proc[c] \in Phases}
Orphaned == {o[1] : o \in orphan}

TypeOK ==
  /\ disk \in [cells : [Cells -> CellStates], state : CampStates]
  /\ manifest \in [Cells -> {"absent", "prepared", "running", "finished", "incomplete"}]
  /\ proc \in [Cells -> Handles] /\ orphan \subseteq Cells \X Phases
  /\ pc \in Points
  /\ cells \in [Cells -> CellStates]
  /\ pending \subseteq Cells /\ active \subseteq Cells /\ done \subseteq active
  /\ current \in Cells \cup {None} /\ (pc \in Launching => current \in Cells)
  /\ stop \in BOOLEAN /\ raising \in BOOLEAN /\ failFast \in BOOLEAN
  /\ runs \in 0..MaxRuns /\ crashes \in 0..MaxCrashes
  /\ cut \subseteq Cells /\ doubled \subseteq Cells

\* What prepare_campaign leaves: each cell prepared, or failed to prepare.
Init ==
  /\ \E bad \in SUBSET Cells :
       /\ disk = [cells |-> [c \in Cells |-> IF c \in bad THEN "prepare_failed"
                                             ELSE "prepared"],
                  state |-> IF bad = {} THEN "prepared" ELSE "partial"]
       /\ manifest = [c \in Cells |-> IF c \in bad THEN "absent" ELSE "prepared"]
  /\ proc = [c \in Cells |-> "none"] /\ orphan = {}
  /\ pc = "idle"
  /\ cells = disk.cells
  /\ pending = {} /\ active = {} /\ done = {} /\ current = None
  /\ stop = FALSE /\ raising = FALSE /\ failFast = FALSE
  /\ runs = 0 /\ crashes = 0 /\ cut = {} /\ doubled = {}

-----------------------------------------------------------------------------
(* run_campaign up to its loop                                             *)

\* campaign.json is read and the handlers are installed.  Neither the
\* campaign's state nor the pid of an earlier controller is looked at.
Run ==
  /\ pc = "idle" /\ runs < MaxRuns
  /\ runs' = runs + 1
  /\ cells' = disk.cells
  /\ proc' = [c \in Cells |-> "none"]
  /\ pending' = {} /\ active' = {} /\ done' = {} /\ current' = None
  /\ stop' = FALSE /\ raising' = FALSE
  /\ failFast' \in BOOLEAN
  /\ cut' = {}
  /\ pc' = "begin"
  /\ UNCHANGED <<files, orphan, crashes, doubled>>

\* The campaign is marked running.
Begin ==
  /\ pc = "begin"
  /\ disk' = [cells |-> cells, state |-> "running"]
  /\ pc' = "select"
  /\ UNCHANGED <<manifest, procs, queue, flags, history>>

\* Mutant: every cell that is not finished is tried again.
SelectRetrying ==
  /\ pc = "select"
  /\ pending' = {c \in Cells : cells[c] # "finished"}
  /\ pc' = "loop"
  /\ UNCHANGED <<files, procs, cells, active, done, current, flags, history>>

\* The cells of the selected conditions wait, unless their state is terminal.
Select ==
  /\ pc = "select"
  /\ \E selected \in SUBSET Cells :
       pending' = {c \in selected : cells[c] \notin Terminal}
  /\ pc' = "loop"
  /\ UNCHANGED <<files, procs, cells, active, done, current, flags, history>>

-----------------------------------------------------------------------------
(* The loop                                                                *)

LoopTop ==
  /\ pc = "loop"
  /\ pc' = IF stop \/ (pending = {} /\ active = {}) THEN "finally" ELSE "launch"
  /\ UNCHANGED <<files, procs, queue, flags, history>>

\* Mutant: the comparison with cell_concurrency lets one more in.
RoomForOneMore == pending # {} /\ Cardinality(active) <= Concurrency

Room == pending # {} /\ Cardinality(active) < Concurrency

\* launch_cell up to Popen: the state is running in memory only.
TakeCell(c) ==
  /\ pc = "launch" /\ Room /\ c \in pending
  /\ pending' = pending \ {c}
  /\ current' = c
  /\ cells' = [cells EXCEPT ![c] = "running"]
  /\ pc' = "popen"
  /\ UNCHANGED <<files, procs, active, done, flags, history>>

Popen ==
  /\ pc = "popen"
  /\ proc' = [proc EXCEPT ![current] = "starting"]
  /\ doubled' = IF current \in Orphaned THEN doubled \cup {current} ELSE doubled
  /\ pc' = "append"
  /\ UNCHANGED <<files, orphan, queue, flags, runs, crashes, cut>>

\* Popen raised: the exception goes through the finally block and out.
PopenFails ==
  /\ pc = "popen"
  /\ raising' = TRUE
  /\ pc' = "finally"
  /\ UNCHANGED <<files, procs, queue, stop, failFast, history>>

Append ==
  /\ pc = "append"
  /\ active' = active \cup {current}
  /\ pc' = "record"
  /\ UNCHANGED <<files, procs, cells, pending, done, current, flags, history>>

Record ==
  /\ pc = "record"
  /\ disk' = [disk EXCEPT !.cells = cells]
  /\ pc' = "launch"
  /\ UNCHANGED <<manifest, procs, queue, flags, history>>

LaunchesDone ==
  /\ pc = "launch" /\ ~Room
  /\ pc' = "poll"
  /\ UNCHANGED <<files, procs, queue, flags, history>>

Poll ==
  /\ pc = "poll"
  /\ done' = active \ Alive
  /\ pc' = IF done' = {} THEN "loop" ELSE "finish"
  /\ UNCHANGED <<files, procs, cells, pending, active, current, flags, history>>

\* Mutant: the state a process was launched with counts as its result.
OutcomeOptimistic(c) == IF manifest[c] \in Terminal THEN manifest[c] ELSE "finished"

\* finish_cell: experiment.json decides, whatever the exit code was.  (The exit
\* code counts only where experiment.json is missing: such a cell is
\* prepare_failed, so it is never started.)
Outcome(c) ==
  IF manifest[c] \in Terminal THEN manifest[c] ELSE "failed"

FinishCell(c) ==
  /\ pc = "finish" /\ c \in done
  /\ cells' = [cells EXCEPT ![c] = Outcome(c)]
  /\ current' = c
  /\ pc' = "retire"
  /\ UNCHANGED <<files, procs, pending, active, done, flags, history>>

AfterRetire == IF done = {current} THEN "loop" ELSE "finish"

\* Mutants: fail_fast does not empty the list of waiting cells; the cell is
\* kept in the active list.
RetireCarryingOn ==
  /\ pc = "retire"
  /\ active' = active \ {current} /\ done' = done \ {current}
  /\ disk' = [disk EXCEPT !.cells = cells]
  /\ pc' = AfterRetire
  /\ UNCHANGED <<manifest, procs, cells, pending, current, flags, history>>
RetireKept ==
  /\ pc = "retire"
  /\ done' = done \ {current}
  /\ disk' = [disk EXCEPT !.cells = cells]
  /\ pc' = AfterRetire
  /\ UNCHANGED <<manifest, procs, cells, pending, active, current, flags, history>>

\* The cell leaves the active list, the file is written, and with fail_fast a
\* cell that is not finished empties the list of waiting cells.
Retire ==
  /\ pc = "retire"
  /\ active' = active \ {current} /\ done' = done \ {current}
  /\ disk' = [disk EXCEPT !.cells = cells]
  /\ pending' = IF failFast /\ cells[current] # "finished" THEN {} ELSE pending
  /\ pc' = AfterRetire
  /\ UNCHANGED <<manifest, procs, cells, current, flags, history>>

-----------------------------------------------------------------------------
(* The finally block and what follows it                                   *)

EnterFinally ==
  /\ pc = "finally"
  /\ cut' = active \cap Alive
  /\ pc' = IF active = {} THEN "final" ELSE "terminate"
  /\ UNCHANGED <<files, procs, queue, flags, runs, crashes, doubled>>

\* Mutant: SIGTERM is all there is, and the wait for the processes is endless.
TerminatePolitely ==
  /\ pc = "terminate"
  /\ active \cap Alive = {}
  /\ pc' = "reap"
  /\ UNCHANGED <<files, procs, queue, flags, history>>

\* Mutant: the processes are signalled and not waited for.
TerminateNoWait ==
  /\ pc = "terminate"
  /\ pc' = "reap"
  /\ UNCHANGED <<files, procs, queue, flags, history>>

\* SIGTERM to every group; what outlives the grace period is killed.
Terminate ==
  /\ pc = "terminate"
  /\ \/ /\ active \cap Alive = {}
        /\ pc' = "reap"
        /\ UNCHANGED proc
     \/ \E c \in active \cap Alive :
          /\ proc' = [proc EXCEPT ![c] = "exited"]
          /\ UNCHANGED pc
  /\ UNCHANGED <<files, orphan, queue, flags, history>>

\* finish_cell and a write for each process that was still in the list.
Reap ==
  /\ pc = "reap"
  /\ \/ \E c \in active :
          /\ cells' = [cells EXCEPT ![c] = Outcome(c)]
          /\ disk' = [disk EXCEPT !.cells = cells']
          /\ active' = active \ {c} /\ done' = done \ {c}
          /\ UNCHANGED pc
     \/ /\ active = {}
        /\ pc' = "final"
        /\ UNCHANGED <<cells, disk, active, done>>
  /\ UNCHANGED <<manifest, procs, pending, current, flags, history>>

\* Mutant: a campaign without waiting cells is finished.
FinalStateLoose ==
  IF stop THEN "interrupted"
  ELSE IF \A c \in Cells : cells[c] \in Terminal THEN "finished" ELSE "prepared"

FinalState ==
  IF stop THEN "interrupted"
  ELSE IF \A c \in Cells : cells[c] \in Terminal
    THEN IF \A c \in Cells : cells[c] = "finished" THEN "finished" ELSE "partial"
  ELSE "prepared"

\* The last write, unless an exception other than the stop goes on.
Final ==
  /\ pc = "final"
  /\ disk' = IF raising THEN disk ELSE [cells |-> cells, state |-> FinalState]
  /\ pc' = "idle"
  /\ UNCHANGED <<manifest, procs, queue, flags, history>>

-----------------------------------------------------------------------------
(* run-cell processes, the stop and crashes                                *)

\* One step of standalone.execute on cell c, from phase p to q: it refuses a run
\* that is not prepared, marks it running, and ends it finished or incomplete.
\* It may be killed or raise anywhere, and leaves experiment.json as it is.
CellStep(c, p, q) ==
  \/ /\ p = "starting"
     /\ q = IF manifest[c] = "prepared" THEN "checked" ELSE "exited"
     /\ UNCHANGED manifest
  \/ /\ p = "checked" /\ q = "running"
     /\ manifest' = [manifest EXCEPT ![c] = "running"]
  \/ /\ p = "running" /\ q = "exited"
     /\ \E status \in {"finished", "incomplete"} :
          manifest' = [manifest EXCEPT ![c] = status]
  \/ p \in Phases /\ q = "exited" /\ UNCHANGED manifest

CellRuns(c) ==
  /\ \E q \in Handles : CellStep(c, proc[c], q) /\ proc' = [proc EXCEPT ![c] = q]
  /\ UNCHANGED <<disk, orphan, pc, queue, flags, history>>

OrphanRuns ==
  /\ \E o \in orphan, q \in Handles :
       /\ CellStep(o[1], o[2], q)
       /\ orphan' = (orphan \ {o}) \cup (IF q \in Phases THEN {<<o[1], q>>} ELSE {})
  /\ UNCHANGED <<disk, proc, pc, queue, flags, history>>

\* What this controller still runs is nobody's any more.
Abandon(kept) ==
  /\ orphan' = orphan \cup {<<c, proc[c]>> : c \in Alive \ kept}
  /\ proc' = [c \in Cells |-> IF c \in kept THEN proc[c] ELSE "none"]

\* SIGINT or SIGTERM: KeyboardInterrupt out of whatever the thread is doing.
\* In the try block it leads to the finally block, which knows the processes
\* in the active list; anywhere else it ends the controller.
Interrupt ==
  /\ pc # "idle"
  /\ stop' = TRUE
  /\ IF pc \in InTry
       THEN pc' = "finally" /\ Abandon(active)
       ELSE pc' = "idle" /\ Abandon({})
  /\ UNCHANGED <<files, queue, raising, failFast, history>>

Crash ==
  /\ pc # "idle" /\ crashes < MaxCrashes
  /\ crashes' = crashes + 1
  /\ pc' = "idle" /\ Abandon({})
  /\ UNCHANGED <<files, queue, flags, runs, cut, doubled>>

-----------------------------------------------------------------------------

Loop ==
  \/ LoopTop \/ \E c \in Cells : TakeCell(c)
  \/ Popen \/ PopenFails \/ Append \/ Record \/ LaunchesDone \/ Poll
  \/ \E c \in Cells : FinishCell(c)
  \/ Retire

Controller == Begin \/ Select \/ Loop \/ EnterFinally \/ Terminate \/ Reap \/ Final

Next ==
  \/ Run \/ Controller
  \/ \E c \in Cells : CellRuns(c)
  \/ OrphanRuns \/ Interrupt \/ Crash

\* The controller's thread goes on; nothing is assumed of the processes.
Spec == Init /\ [][Next]_vars /\ WF_vars(Controller)
-----------------------------------------------------------------------------
(* Properties                                                              *)

\* Never more run-cell processes of this controller at work than
\* cell_concurrency, although the active list lags behind Popen (run_campaign).
SlotBound == Cardinality(Alive) <= Concurrency

\* When the finally block is left, for whatever reason it was entered, none of
\* the processes in the active list runs any more (terminate_active_cells).
NoChildLeft == pc = "final" => Alive = {}

\* A cell reads finished only if its experiment does, over stops, crashes and
\* later runs, as long as no two processes worked on it (finish_cell).
FinishedIsReal ==
  \A c \in Cells \ doubled :
    disk.cells[c] = "finished" => manifest[c] = "finished"

\* A campaign reads finished only if every cell does, the ones left out by the
\* selected conditions and the ones that failed to prepare included.
CampaignFinished ==
  disk.state = "finished" => \A c \in Cells : disk.cells[c] = "finished"

\* "Terminal cells are skipped": once campaign.json calls a cell terminal, no
\* later run starts it, and its state stays unless two processes worked on it.
TerminalIsFinal ==
  [][\A c \in Cells : disk.cells[c] \in Terminal =>
       /\ c \in doubled \/ disk'.cells[c] = disk.cells[c]
       /\ c \in Alive' => c \in Alive]_vars

\* With fail_fast nothing is started any more in a run in which a cell came
\* back unfinished.
FailFastStops ==
  [][(failFast /\ \E c \in Cells \ active : proc[c] = "exited" /\ cells[c] # "finished")
       => Alive' \subseteq Alive]_vars

\* A stop ends the controller even if no process ever reacts to SIGTERM.
StopEnds == (stop /\ pc # "idle") ~> (pc = "idle")

\* If every process ends, so does the run.
RunEnds == (\A c \in Cells : WF_vars(CellRuns(c))) => ((pc = "begin") ~> (pc = "idle"))

\* The runner registry says of resume: "rerun only prepared or interrupted
\* cells" (benchmarks/runners.json).  A cell that a stop cut short can be run
\* again then: it does not end in a terminal state other than finished.
InterruptedIsResumable ==
  (pc = "idle" /\ disk.state = "interrupted") =>
    \A c \in cut : disk.cells[c] \notin Terminal \ {"finished"}

\* The loop as a pool of slots: a cell waits until Popen returned, the process it
\* returned holds a slot from then on, and the pool is open inside the try block.
Waiting  == IF pc \notin InTry THEN {}
            ELSE IF pc = "popen" THEN pending \cup {current} ELSE pending
Admitted == IF pc \notin InTry \cup InEnd THEN {}
            ELSE IF pc = "append" THEN active \cup {current} ELSE active

Pool == INSTANCE CellSlots WITH
  Slots      <- Concurrency,
  Selections <- SUBSET Cells,
  waiting    <- Waiting,
  running    <- Admitted,
  closed     <- pc \notin InTry

\* The loop and its finally block implement the slot pool of the EdgeBench queue:
\* a free slot for every start, no selected cell started twice in a run, none
\* outside the try block, and no cell back in the pool that left it.
RefinesPool == Pool!Spec

\* What makes SlotBound and NoChildLeft inductive: a process at work holds a slot
\* until the finally block is over, the one just started included, a launch under
\* way has a free slot, and a slot is given back only when its process has exited.
Held == IF pc = "append" THEN active \cup {current}
        ELSE IF pc \in InTry \cup {"finally", "terminate"} THEN active
        ELSE {}
SlotInv ==
  /\ Alive \subseteq Held
  /\ Cardinality(active) <= Concurrency
  /\ pc \in Launching => Cardinality(active) < Concurrency
  /\ pc \in {"finish", "retire"} => done \cap Alive = {}
  /\ pc = "retire" => current \in done

\* What makes FailFastStops inductive: a waiting cell has no process yet, an
\* active one has had one, and once a cell came back unfinished nothing waits.
Fresh(c) == proc[c] = "none"
LaunchInv ==
  /\ pc \in Before => active = {} /\ \A c \in Cells : Fresh(c)
  /\ pc \in InTry => \A c \in pending : Fresh(c)
  /\ pc \in Launching => current \notin pending /\ (Fresh(current) <=> pc = "popen")
  /\ pc \in InTry \cup InEnd => \A c \in active : ~Fresh(c)
Unfinished == {c \in Cells \ active : proc[c] = "exited" /\ cells[c] # "finished"}
FailFastInv ==
  (failFast /\ pc \in InTry) =>
    \/ Unfinished = {} \/ (pc = "append" /\ Unfinished = {current})
    \/ pending = {} /\ pc # "popen"

\* What makes FinishedIsReal inductive: one worker at most per cell that is not
\* doubled, experiment.json in the state its worker left it in, and no cell
\* finished in memory that is not finished there.
Workers(c) == {p \in Phases : proc[c] = p \/ <<c, p>> \in orphan}
WorkerInv ==
  \A c \in Cells \ doubled :
    /\ ~Fresh(c) => c \notin Orphaned
    /\ \A p, q \in Workers(c) : p = q
    /\ "checked" \in Workers(c) => manifest[c] = "prepared"
    /\ "running" \in Workers(c) => manifest[c] = "running"
FinishedInv ==
  /\ FinishedIsReal
  /\ pc # "idle" =>
       \A c \in Cells \ doubled : cells[c] = "finished" => manifest[c] = "finished"

\* What makes TerminalIsFinal inductive: memory agrees with every terminal state of
\* the file, whose cells do not wait, and a cell that is still in the active list
\* with a terminal state gets the same one when it is finished again.
MemoryInv ==
  /\ pc \in Before => cells = disk.cells
  /\ pc \in InTry => \A c \in pending : {cells[c], disk.cells[c]} \cap Terminal = {}
  /\ pc \in Launching => cells[current] \notin Terminal
  /\ pc = "popen" => disk.cells[current] \notin Terminal
  /\ pc # "idle" => \A c \in Cells \ doubled :
       disk.cells[c] \in Terminal => cells[c] = disk.cells[c]
  /\ pc \in InTry \cup InEnd => \A c \in active \ doubled :
       cells[c] \in Terminal => c \notin Alive /\ cells[c] = Outcome(c)

\* What makes CampaignFinished inductive: while cells are rewritten, the campaign
\* reads running.
CampaignInv == CampaignFinished /\ (pc \notin {"idle", "begin"} => disk.state = "running")
=============================================================================
