---------------------------- MODULE EdgePreparation ----------------------------
(***************************************************************************)
(* `prepare` of an EdgeBench campaign and the preflight of `run`: what is  *)
(* frozen in the campaign's files (provider contract, Goal Plus commit,    *)
(* task definitions, EdgeBench commit), and which of it a later launch     *)
(* compares with what is there by then.  Prepares overlap and are killed;  *)
(* the checkouts, the task files and the provider's configuration change.  *)
(***************************************************************************)
EXTENDS Naturals, Sequences, FiniteSets

CONSTANTS NumTasks, NumPrepares, NumLaunches, MaxMoves

VARIABLES
  protocol,      \* "pi" (models file on disk), "codex" (environment) or "claude"
  methods,       \* as given on the command line
  assets,        \* the profile has task definitions of its own, which are copied
  source,        \* the Goal Plus checkout: its HEAD; clean, at its ref, on its branch
  edge, live,    \* the EdgeBench checkout's commit; the task definitions beside it or in the profile
  config,        \* the provider's configuration
  dir,           \* the campaign's directory: "absent" or "made"
  copied,        \* per task: its definition in the directory's tasks/
  cells,         \* per cell: cell.json
  files,         \* profile.json, campaign.json, controller.json
  prep, launch,  \* per prepare and per launch: its step and what it knows (drift: the definitions
                 \* were not the commit's; late: the configuration changed under the model calls)
  maker, moves   \* history: the prepares that made the directory (and the bound)

vars == <<protocol, methods, assets, source, edge, live, config, dir, copied, cells, files,
          prep, launch, maker, moves>>

Prepares == 1..NumPrepares
Launches == 1..NumLaunches
Tasks == 1..NumTasks
Methods == {"codex", "goal-plus-codex"}     \* without Goal Plus and with it
Versions == 0..MaxMoves
States == {"absent", "torn", "whole"}

\* A method given twice gives one cell id twice.
Given == {<<"codex">>, <<"codex", "goal-plus-codex">>, <<"goal-plus-codex", "goal-plus-codex">>}
HasGoalPlus == \E i \in DOMAIN methods : methods[i] = "goal-plus-codex"
HasContract == protocol \in {"pi", "codex"}
Cells == {k \in Tasks \X Methods : \E i \in DOMAIN methods : methods[i] = k[2]}

Frozen == [state : States, contract : Versions, source : Versions, edge : Versions]
CellFiles == [state : States, task : Versions, source : Versions]
PrepStates ==
  [pc : {"idle", "source", "mkdir", "assets", "task", "cell", "profile", "campaign", "controller", "done",
         "refused", "raised", "killed"},
   task : 1..(NumTasks + 1), method : 1..2, read : Versions, contract : Versions, source : Versions,
   drift : BOOLEAN]
LaunchStates ==
  [pc : {"idle", "source", "contract", "probe", "registry", "running", "failed", "refused", "killed"},
   source : Versions, contract : Versions, registry : Versions, late : BOOLEAN]
NoFile == [state |-> "absent", contract |-> 0, source |-> 0, edge |-> 0]
NoCell == [state |-> "absent", task |-> 0, source |-> 0]

TypeOK ==
  /\ protocol \in {"pi", "codex", "claude"} /\ methods \in Given /\ assets \in BOOLEAN
  /\ source \in [commit : Versions, valid : BOOLEAN]
  /\ edge \in Versions /\ live \in Versions /\ config \in Versions /\ moves \in Versions
  /\ dir \in {"absent", "made"} /\ copied \in [Tasks -> Versions] /\ maker \subseteq Prepares
  /\ cells \in [Tasks \X Methods -> CellFiles]
  /\ files \in [{"profile", "campaign", "controller"} -> Frozen]
  /\ prep \in [Prepares -> PrepStates] /\ launch \in [Launches -> LaunchStates]

Init ==
  /\ protocol \in {"pi", "codex", "claude"} /\ methods \in Given /\ assets \in BOOLEAN
  /\ source = [commit |-> 0, valid |-> TRUE] /\ edge = 0 /\ live = 0 /\ config = 0
  /\ dir = "absent" /\ copied = [t \in Tasks |-> 0] /\ cells = [c \in Tasks \X Methods |-> NoCell]
  /\ files = [f \in {"profile", "campaign", "controller"} |-> NoFile]
  /\ prep = [p \in Prepares |-> [pc |-> "idle", task |-> 1, method |-> 1, read |-> 0, contract |-> 0,
                                 source |-> 0, drift |-> FALSE]]
  /\ launch = [l \in Launches |-> [pc |-> "idle", source |-> 0, contract |-> 0, registry |-> 0, late |-> FALSE]]
  /\ maker = {} /\ moves = 0

Fixed == <<protocol, methods, assets>>
World == <<source, edge, live, config, moves>>
Disk == <<dir, copied, cells, files, maker>>
Go(p, pc) == prep' = [prep EXCEPT ![p].pc = pc]
Working(p) == prep[p].pc \in {"source", "mkdir", "assets", "task", "cell", "profile", "campaign", "controller"}
Checking(l) == launch[l].pc \in {"source", "contract", "probe", "registry"}

-----------------------------------------------------------------------------
\* Around the commands.

MoveSource == \E v \in {source.commit, moves + 1}, ok \in BOOLEAN :
  source' = [commit |-> v, valid |-> ok] /\ UNCHANGED <<edge, live, config>>
\* The definitions of the EdgeBench checkout go with its commit.
MoveEdge == edge' = moves + 1 /\ live' = (IF assets THEN live ELSE moves + 1) /\ UNCHANGED <<source, config>>
MoveTasks == live' = moves + 1 /\ UNCHANGED <<source, edge, config>>
MoveConfig == config' = moves + 1 /\ UNCHANGED <<source, edge, live>>

\* The environment of a process does not change: a Codex configuration changes between commands.
Move ==
  /\ moves < MaxMoves /\ moves' = moves + 1
  /\ \/ MoveSource \/ MoveEdge \/ MoveTasks
     \/ MoveConfig /\ (protocol = "codex" => \A l \in Launches : ~Checking(l))
  /\ prep' = [p \in Prepares |-> [prep[p] EXCEPT !.drift =
                @ \/ (Working(p) /\ <<edge, live>>' # <<edge, live>>)]]
  /\ launch' = [l \in Launches |-> [launch[l] EXCEPT !.late =
                  @ \/ (launch[l].pc = "registry" /\ config' # config)]]
  /\ UNCHANGED <<Fixed, Disk>>

\* The user removes a directory that no prepare has finished.
Remove ==
  /\ dir = "made" /\ files["controller"].state # "whole" /\ \A p \in Prepares : ~Working(p)
  /\ dir' = "absent" /\ maker' = {} /\ copied' = [t \in Tasks |-> 0]
  /\ cells' = [c \in Tasks \X Methods |-> NoCell]
  /\ files' = [f \in DOMAIN files |-> NoFile]
  /\ UNCHANGED <<Fixed, World, prep, launch>>

\* A kill cuts the file that is being written: write_json writes it in place.
KillPrepare(p) ==
  LET pc == prep[p].pc IN
  /\ Working(p) /\ Go(p, "killed")
  /\ \/ UNCHANGED <<cells, files>>
     \/ pc \in DOMAIN files /\ files' = [files EXCEPT ![pc].state = "torn"] /\ UNCHANGED cells
     \/ /\ pc = "cell" /\ UNCHANGED files
        /\ LET c == <<prep[p].task, methods[prep[p].method]>> IN
             cells[c].state = "absent" /\ cells' = [cells EXCEPT ![c].state = "torn"]
  /\ UNCHANGED <<Fixed, World, dir, copied, launch, maker>>

-----------------------------------------------------------------------------
\* prepare.

\* resolve_pi_provider_bundle, codex_provider_contract; any of the checks may refuse.
\* Prepares, and launches, are numbered in the order in which they start.
Resolve(p) ==
  /\ prep[p].pc = "idle" /\ \A q \in 1..(p - 1) : prep[q].pc # "idle"
  /\ \/ Go(p, "refused")
     \/ prep' = [prep EXCEPT ![p].pc = IF HasGoalPlus THEN "source" ELSE "mkdir", ![p].contract = config,
                       ![p].drift = ~assets /\ edge # live]
  /\ UNCHANGED <<Fixed, World, Disk, launch>>

ResolveSource(p) ==
  /\ prep[p].pc = "source"
  /\ prep' = [prep EXCEPT ![p].pc = IF source.valid THEN "mkdir" ELSE "refused", ![p].source = source.commit]
  /\ UNCHANGED <<Fixed, World, Disk, launch>>

MakeDirAnyway(p) ==
  /\ prep[p].pc = "mkdir"
  /\ dir' = "made" /\ maker' = maker \cup {p} /\ Go(p, IF assets THEN "assets" ELSE "task")
  /\ UNCHANGED <<Fixed, World, copied, cells, files, launch>>

\* destination.exists(), and mkdir with exist_ok=False.
MakeDir(p) ==
  /\ prep[p].pc = "mkdir"
  /\ IF dir = "absent"
       THEN dir' = "made" /\ maker' = maker \cup {p} /\ Go(p, IF assets THEN "assets" ELSE "task")
       ELSE Go(p, "raised") /\ UNCHANGED <<dir, maker>>
  /\ UNCHANGED <<Fixed, World, copied, cells, files, launch>>

\* copytree, one file after another.
CopyTask(p) ==
  /\ prep[p].pc = "assets" /\ copied' = [copied EXCEPT ![prep[p].task] = live]
  /\ prep' = [prep EXCEPT ![p].task = IF @ = NumTasks THEN 1 ELSE @ + 1,
                          ![p].pc = IF prep[p].task = NumTasks THEN "task" ELSE @]
  /\ UNCHANGED <<Fixed, World, dir, cells, files, launch, maker>>

\* task_config: from the copy, or from the EdgeBench checkout as it is now.
ReadTask(p) ==
  /\ prep[p].pc = "task"
  /\ \/ prep' = [prep EXCEPT ![p].pc = "cell", ![p].method = 1,
                             ![p].read = IF assets THEN copied[prep[p].task] ELSE live]
     \/ Go(p, "raised")            \* a definition is missing
  /\ UNCHANGED <<Fixed, World, Disk, launch>>

\* The cell's directory (exist_ok=False) and its cell.json.
WriteCell(p) ==
  LET c == <<prep[p].task, methods[prep[p].method]>>  last == prep[p].method = Len(methods) IN
  /\ prep[p].pc = "cell"
  /\ IF cells[c].state # "absent" THEN Go(p, "raised") /\ UNCHANGED cells
     ELSE /\ cells' = [cells EXCEPT ![c] = [state |-> "whole", task |-> prep[p].read, source |-> prep[p].source]]
          /\ prep' = [prep EXCEPT
               ![p].method = IF last THEN 1 ELSE @ + 1,
               ![p].task = IF last THEN @ + 1 ELSE @,
               ![p].pc = IF ~last THEN "cell" ELSE IF prep[p].task < NumTasks THEN "task" ELSE "profile"]
  /\ UNCHANGED <<Fixed, World, dir, copied, files, launch, maker>>

WriteFile(p, next) ==
  /\ prep[p].pc \in DOMAIN files /\ Go(p, next)
  /\ files' = [files EXCEPT ![prep[p].pc] =
       [state |-> "whole", contract |-> prep[p].contract, source |-> prep[p].source, edge |-> edge]]
  /\ UNCHANGED <<Fixed, World, dir, copied, cells, launch, maker>>

WriteProfile(p) == prep[p].pc = "profile" /\ WriteFile(p, "campaign")
\* The EdgeBench commit is the one of now.
WriteCampaign(p) == prep[p].pc = "campaign" /\ WriteFile(p, "controller")
WriteController(p) == prep[p].pc = "controller" /\ WriteFile(p, "done")

-----------------------------------------------------------------------------
\* run, until the containers start.

Set(l, new) == launch' = [launch EXCEPT ![l] = new]
LaunchFails(l) == Set(l, [launch[l] EXCEPT !.pc = "failed"])
NothingElse == UNCHANGED <<Fixed, World, Disk, prep>>

\* controller.json, campaign.json, profile.json are read; a live controller refuses the launch.
Open(l) ==
  /\ launch[l].pc = "idle" /\ \A k \in 1..(l - 1) : launch[k].pc # "idle"
  /\ Set(l, [launch[l] EXCEPT !.pc =
       IF \/ \E f \in DOMAIN files : files[f].state # "whole"
          \/ \E k \in Launches : Checking(k) \/ launch[k].pc = "running"
         THEN "refused" ELSE IF HasGoalPlus THEN "source" ELSE "contract"])
  /\ NothingElse

SourceAnyCommit(l) ==
  /\ launch[l].pc = "source"
  /\ IF source.valid
       THEN Set(l, [launch[l] EXCEPT !.pc = "contract", !.source = source.commit])
       ELSE LaunchFails(l)
  /\ NothingElse

\* resolve_goal_plus_source with expected_commit.
Source(l) ==
  /\ launch[l].pc = "source"
  /\ IF source.valid /\ source.commit = files["profile"].source
       THEN Set(l, [launch[l] EXCEPT !.pc = "contract", !.source = source.commit])
       ELSE LaunchFails(l)
  /\ NothingElse

Contract(l) ==
  /\ launch[l].pc = "contract"
  /\ IF HasContract /\ config # files["profile"].contract THEN LaunchFails(l)
     ELSE Set(l, [launch[l] EXCEPT !.pc = "probe", !.contract = config])
  /\ NothingElse

\* The host preflight: its own contract is the configuration when it starts, and the Codex one
\* checks the Goal Plus source once more.  The model calls follow.
ProbeBegins(l) ==
  /\ launch[l].pc = "probe"
  /\ IF \/ HasContract /\ config # launch[l].contract
        \/ protocol = "codex" /\ HasGoalPlus /\ (~source.valid \/ source.commit # files["profile"].source)
       THEN LaunchFails(l)
       ELSE Set(l, [launch[l] EXCEPT !.pc = "registry", !.late = FALSE])
  /\ NothingElse

ProbeFails(l) == launch[l].pc = "registry" /\ LaunchFails(l) /\ NothingElse

\* prepare_pi_provider_runtime resolves the providers once more and compares nothing.
WriteRegistry(l) ==
  /\ launch[l].pc = "registry"
  /\ Set(l, [launch[l] EXCEPT !.pc = "running", !.registry = config])
  /\ NothingElse

KillLaunch(l) ==
  /\ Checking(l) \/ launch[l].pc = "running"
  /\ Set(l, [launch[l] EXCEPT !.pc = "killed"])
  /\ NothingElse

Next ==
  \/ Move \/ Remove
  \/ \E p \in Prepares : \/ Resolve(p) \/ ResolveSource(p) \/ MakeDir(p) \/ CopyTask(p) \/ ReadTask(p)
                         \/ WriteCell(p) \/ WriteProfile(p) \/ WriteCampaign(p) \/ WriteController(p)
                         \/ KillPrepare(p)
  \/ \E l \in Launches : \/ Open(l) \/ Source(l) \/ Contract(l) \/ ProbeBegins(l) \/ ProbeFails(l)
                         \/ WriteRegistry(l) \/ KillLaunch(l)

Spec == Init /\ [][Next]_vars

-----------------------------------------------------------------------------
Prepared == files["controller"].state = "whole"
Running(l) == launch[l].pc = "running"

\* One prepare makes the directory and finishes it; a prepare that was given one method
\* twice finishes none.
OneMaker ==
  /\ Cardinality(maker) <= 1
  /\ \A p \in Prepares : prep[p].pc = "done" => p \in maker /\ Cardinality(Cells) = NumTasks * Len(methods)

\* What a launch starts from is whole: controller.json is written last, and a launch of a
\* directory that a killed prepare has left is refused.
LaunchedIsWhole ==
  /\ Prepared => files["profile"].state = "whole" /\ files["campaign"].state = "whole"
                 /\ \A c \in Cells : cells[c].state = "whole"
  /\ (\E l \in Launches : Checking(l) \/ Running(l)) => Prepared

\* The cells agree with the campaign: one Goal Plus commit, one definition per task; the
\* profile's own definitions are the copied ones; the recorded EdgeBench commit is the one the
\* definitions came from, unless the checkout had local changes or moved meanwhile.
CellsAgree ==
  Prepared =>
    /\ \A c \in Cells : /\ cells[c].source = files["campaign"].source
                        /\ \A d \in Cells : c[1] = d[1] => cells[c].task = cells[d].task
                        /\ assets => cells[c].task = copied[c[1]]
    /\ files["profile"].source = files["campaign"].source
    /\ \A p \in maker : ~assets /\ ~prep[p].drift =>
         \A c \in Cells : cells[c].task = files["campaign"].edge

\* A launch that reaches the containers has found the commit and the contract that were
\* prepared; the providers it writes for the Pi agents are those too, unless they changed
\* after its preflight had resolved them.
LaunchedAsPrepared ==
  \A l \in Launches : Running(l) =>
    /\ HasGoalPlus => launch[l].source = files["campaign"].source
    /\ HasContract => /\ launch[l].contract = files["campaign"].contract
                      /\ ~launch[l].late => launch[l].registry = files["campaign"].contract

EdgePreparationIsSound == OneMaker /\ LaunchedIsWhole /\ CellsAgree /\ LaunchedAsPrepared

-----------------------------------------------------------------------------
(* The inductive invariant behind the four properties.                     *)

\* The prepare has made the directory and is at work in it, or has finished it.
Begun(p) ==
  prep[p].pc \in {"assets", "task", "cell", "profile", "campaign", "controller", "done"}

MakerInv ==
  /\ dir = "absent" => maker = {}
  /\ \A p, q \in maker : p = q
  /\ \A p \in Prepares : Begun(p) => p \in maker
  /\ Prepared <=> \E p \in Prepares : prep[p].pc = "done"

\* Where a prepare is among the tasks and the methods; with one method given twice it does not
\* get past the first task.
CourseInv(p) ==
  LET s == prep[p] IN
  /\ s.pc \in {"idle", "source", "mkdir"} => s.task = 1
  /\ s.pc \in {"assets", "task", "cell"} => s.task <= NumTasks
  /\ s.pc \in {"profile", "campaign", "controller", "done"} => s.task = NumTasks + 1
  /\ s.pc = "cell" => s.method \in DOMAIN methods
  /\ methods = <<"goal-plus-codex", "goal-plus-codex">> =>
       /\ s.pc \in {"task", "cell"} => s.task = 1
       /\ s.pc \notin {"profile", "campaign", "controller", "done"}

\* The cells it has written.
Written(p) ==
  {c \in Cells : \/ c[1] < prep[p].task
                 \/ /\ c[1] = prep[p].task /\ prep[p].pc = "cell"
                    /\ \E i \in 1..(prep[p].method - 1) : methods[i] = c[2]}

CellsInv(p) ==
  Begun(p) /\ prep[p].pc # "assets" =>
    \A c \in Written(p) :
      /\ cells[c].state = "whole" /\ cells[c].source = prep[p].source
      /\ assets => cells[c].task = copied[c[1]]
      /\ c[1] = prep[p].task => cells[c].task = prep[p].read
      /\ \A d \in Written(p) : c[1] = d[1] => cells[c].task = cells[d].task
      /\ ~assets /\ ~prep[p].drift /\ Working(p) => cells[c].task = edge

\* Unless it has seen them move, the definitions are the commit's.
DriftInv(p) ==
  /\ Working(p) /\ ~assets /\ ~prep[p].drift => edge = live
  /\ prep[p].pc = "cell" => IF assets THEN prep[p].read = copied[prep[p].task]
                             ELSE ~prep[p].drift => prep[p].read = edge

FilesInv(p) ==
  LET ofPrep(f) == f.state = "whole" /\ f.source = prep[p].source /\ f.contract = prep[p].contract IN
  /\ prep[p].pc \in {"campaign", "controller", "done"} => ofPrep(files["profile"])
  /\ prep[p].pc \in {"controller", "done"} =>
       /\ ofPrep(files["campaign"])
       /\ ~assets /\ ~prep[p].drift => \A c \in Cells : cells[c].task = files["campaign"].edge

PreparesInv == \A p \in Prepares : CourseInv(p) /\ CellsInv(p) /\ DriftInv(p) /\ FilesInv(p)

\* What a launch has found is what profile.json holds; the configuration is that until it changes.
LaunchInv(l) ==
  LET s == launch[l] IN
  /\ Checking(l) \/ Running(l) => Prepared
  /\ HasGoalPlus /\ s.pc \in {"contract", "probe", "registry", "running"} =>
       s.source = files["profile"].source
  /\ HasContract =>
       /\ s.pc \in {"probe", "registry", "running"} => s.contract = files["profile"].contract
       /\ s.pc = "registry" /\ ~s.late => config = s.contract
       /\ s.pc = "running" /\ ~s.late => s.registry = s.contract

LaunchesInv == \A l \in Launches : LaunchInv(l)
================================================================================
