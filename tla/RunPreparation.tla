---------------------------- MODULE RunPreparation ----------------------------
(***************************************************************************)
(* `prepare` and the start of `run` on one run directory: the checkouts    *)
(* are validated, the directory is made, the lanes are materialized one    *)
(* after another from the live checkout by the adapter, Goal Plus assets   *)
(* are installed, and experiment.json is written last.  Prepares and runs  *)
(* of the same directory overlap and are killed; the checkouts move.  An   *)
(* adapter is the list of what its materialize_workspace reads.            *)
(***************************************************************************)
EXTENDS Naturals, Sequences, FiniteSets

CONSTANTS
  Names,        \* the adapters considered
  Lanes,        \* of a plain method; the others have one
  NumPrepares, NumRuns, MaxMoves

VARIABLES
  adapter, method, external,   \* external: BENCH_GOAL_PLUS_SOURCE_DIR is set
  source,        \* the benchmark's checkout: its commit, its branch, local changes
  host,          \* the Goal Plus checkout
  dir,           \* "absent" or "made"
  lane,          \* per lane: what was copied, and what its task.json says
  manifest,      \* experiment.json
  prep, run,     \* per prepare and per run: its step and what it knows
  maker, moves   \* history: the prepares that made the directory (and the bound)

vars == <<adapter, method, external, source, host, dir, lane, manifest, prep, run, maker, moves>>

Prepares == 1..NumPrepares
Runs == 1..NumRuns
Versions == 0..MaxMoves
Contents == [commit : Versions, dirty : BOOLEAN]
Clean0 == [commit |-> 0, dirty |-> FALSE]
LaneStates == [begun : BOOLEAN, copied : Contents, pinned : Contents, commit : Versions,
               hosted : Versions, whole : BOOLEAN]
NoLane == [begun |-> FALSE, copied |-> Clean0, pinned |-> Clean0, commit |-> 0, hosted |-> 0,
           whole |-> FALSE]
PrepStates == [pc : {"idle", "mkdir", "lane", "step", "assets", "write", "done", "refused",
                     "raised", "killed"},
               lane : 1..(Lanes + 1), step : 1..4, moved : BOOLEAN]
RunStates == [pc : {"idle", "start", "running", "refused", "killed"}, late : BOOLEAN,
              host : Versions]
NoManifest == [status |-> "none", commit |-> 0, host |-> 0]

-----------------------------------------------------------------------------
\* The adapters: the steps of materialize_workspace that read the checkout.  "files":
\* copied from the working tree; "archive": from HEAD; "cases": checked against fixed
\* hashes; "hash", "commit": recorded in task.json.

Managed(steps) == [steps |-> steps, managed |-> TRUE]

HeuriGymTask == Managed(<<"cases", "commit">>)
FrontierCSTask == Managed(<<"files", "commit", "hash">>)
AutoLabTask == Managed(<<"files", "commit", "hash">>)
MallocLabTask == Managed(<<"files", "commit", "hash">>)
AleTask == Managed(<<"files", "commit">>)
TorchBenchTask == Managed(<<"archive", "commit">>)
FrontierEngineeringTask == Managed(<<"files", "hash", "commit">>)
LocalVliwTask == [steps |-> <<"files", "commit", "hash">>, managed |-> FALSE]   \* in this repository
ZSoftL1Task == Managed(<<"files", "hash">>)
\* The audited source is a checkout of its own, at the project's commit and clean, or a
\* fresh clone of that commit.
ZSoftDetectTask == [steps |-> <<"validate", "files">>, managed |-> FALSE]

Adapters ==
  [heurigym |-> HeuriGymTask, frontier_cs |-> FrontierCSTask, autolab |-> AutoLabTask,
   malloclab |-> MallocLabTask, ale |-> AleTask, torchbench |-> TorchBenchTask,
   frontier_engineering |-> FrontierEngineeringTask, local_vliw |-> LocalVliwTask,
   zsoft_l1 |-> ZSoftL1Task, zsoft_detect |-> ZSoftDetectTask]
A == Adapters[adapter]
LastLane == IF method = "plain" THEN Lanes ELSE 1

TypeOK ==
  /\ adapter \in DOMAIN Adapters /\ method \in {"plain", "goal-plus", "sky"}
  /\ external \in BOOLEAN /\ host \in Versions
  /\ source \in [commit : Versions, dirty : BOOLEAN, branch : {"tracking", "other"}]
  /\ dir \in {"absent", "made"} /\ maker \subseteq Prepares /\ moves \in Versions
  /\ lane \in [1..Lanes -> LaneStates]
  /\ manifest \in [status : {"none", "prepared", "running"}, commit : Versions, host : Versions]
  /\ prep \in [Prepares -> PrepStates] /\ run \in [Runs -> RunStates]

Init ==
  /\ adapter \in Names /\ method \in {"plain", "goal-plus", "sky"}
  /\ external \in IF method = "goal-plus" THEN BOOLEAN ELSE {FALSE}
  /\ source \in [commit : {0}, dirty : BOOLEAN, branch : {"tracking", "other"}] /\ host = 0
  /\ dir = "absent" /\ lane = [l \in 1..Lanes |-> NoLane] /\ manifest = NoManifest
  /\ prep = [p \in Prepares |-> [pc |-> "idle", lane |-> 1, step |-> 1, moved |-> FALSE]]
  /\ run = [r \in Runs |-> [pc |-> "idle", late |-> FALSE, host |-> 0]]
  /\ maker = {} /\ moves = 0

Set(p, new) == prep' = [prep EXCEPT ![p] = new]
Go(p, pc) == Set(p, [prep[p] EXCEPT !.pc = pc])
Working(p) == prep[p].pc \in {"mkdir", "lane", "step", "assets", "write"}
Content == [commit |-> source.commit, dirty |-> source.dirty]
Copy(commit) == [commit |-> commit, dirty |-> FALSE]
Fixed == <<adapter, method, external>>

-----------------------------------------------------------------------------
\* Around the commands.

Move ==
  /\ moves < MaxMoves /\ moves' = moves + 1
  /\ \/ /\ \/ source' = [source EXCEPT !.commit = moves + 1]
           \/ source' = [source EXCEPT !.dirty = ~@]
           \/ source' = [source EXCEPT !.branch = "other"]
        /\ UNCHANGED host
     \/ host' = moves + 1 /\ UNCHANGED source
  /\ prep' = [p \in Prepares |-> [prep[p] EXCEPT !.moved = @ \/ Working(p)]]
  /\ UNCHANGED <<Fixed, dir, lane, manifest, run, maker>>

\* The user removes a directory that was never prepared.
Remove ==
  /\ dir = "made" /\ manifest.status = "none" /\ \A p \in Prepares : ~Working(p)
  /\ dir' = "absent" /\ lane' = [l \in 1..Lanes |-> NoLane] /\ maker' = {}
  /\ UNCHANGED <<Fixed, source, host, manifest, prep, run, moves>>

KillPrepare(p) ==
  /\ Working(p) /\ Go(p, "killed")
  /\ UNCHANGED <<Fixed, source, host, dir, lane, manifest, run, maker, moves>>

-----------------------------------------------------------------------------
\* prepare.

\* The managed checkouts: on their branch and clean.  validate_runtime_assets may refuse too.
Validated == A.managed => source.branch = "tracking" /\ ~source.dirty

\* Prepares, and runs, are numbered in the order in which they start.
Validate(p) ==
  /\ prep[p].pc = "idle" /\ \A q \in 1..(p - 1) : prep[q].pc # "idle"
  /\ \/ Go(p, "refused")
     \/ Validated /\ Go(p, "mkdir")
  /\ UNCHANGED <<Fixed, source, host, dir, lane, manifest, run, maker, moves>>

\* exist_ok=False.
MakeDirAnyway(p) ==
  /\ prep[p].pc = "mkdir"
  /\ dir' = "made" /\ maker' = maker \cup {p} /\ Go(p, "lane")
  /\ UNCHANGED <<Fixed, source, host, lane, manifest, run, moves>>

MakeDir(p) ==
  /\ prep[p].pc = "mkdir"
  /\ IF dir = "absent" THEN dir' = "made" /\ maker' = maker \cup {p} /\ Go(p, "lane")
     ELSE Go(p, "refused") /\ UNCHANGED <<dir, maker>>
  /\ UNCHANGED <<Fixed, source, host, lane, manifest, run, moves>>

\* materialize_workspace refuses a workspace that exists.
BeginLane(p) ==
  /\ prep[p].pc = "lane"
  /\ IF lane[prep[p].lane].begun THEN Go(p, "raised") /\ UNCHANGED lane
     ELSE /\ lane' = [lane EXCEPT ![prep[p].lane].begun = TRUE]
          /\ Set(p, [prep[p] EXCEPT !.pc = "step", !.step = 1])
  /\ UNCHANGED <<Fixed, source, host, dir, manifest, run, maker, moves>>

\* What one step leaves in the lane.
After(what, old) ==
  IF what = "files" THEN [old EXCEPT !.copied = Content]
  ELSE IF what = "archive" THEN [old EXCEPT !.copied = Copy(source.commit)]
  ELSE IF what = "hash" THEN [old EXCEPT !.pinned = Content]
  ELSE IF what = "commit" THEN [old EXCEPT !.commit = source.commit]
  ELSE old

\* A step that checks what it reads: a case with a wrong hash, a cache at another commit.
Fails(what) ==
  \/ what = "validate" /\ (source.commit # 0 \/ source.dirty)
  \/ what = "cases" /\ source.dirty

Step(p) ==
  LET l == prep[p].lane  what == A.steps[prep[p].step] IN
  /\ prep[p].pc = "step" /\ prep[p].step <= Len(A.steps)
  /\ \/ /\ ~Fails(what) /\ lane' = [lane EXCEPT ![l] = After(what, @)]
        /\ Set(p, [prep[p] EXCEPT !.step = @ + 1])
     \/ Go(p, "raised") /\ UNCHANGED lane      \* a file is missing, a hash differs
  /\ UNCHANGED <<Fixed, source, host, dir, manifest, run, maker, moves>>

\* task.json, and the workspace's first commit.
EndLane(p) ==
  /\ prep[p].pc = "step" /\ prep[p].step > Len(A.steps)
  /\ lane' = [lane EXCEPT ![prep[p].lane].whole = TRUE]
  /\ Set(p, [prep[p] EXCEPT
       !.lane = @ + 1,
       !.pc = IF prep[p].lane < LastLane THEN "lane"
              ELSE IF method = "goal-plus" THEN "assets" ELSE "write"])
  /\ UNCHANGED <<Fixed, source, host, dir, manifest, run, maker, moves>>

\* copy_goal_plus_assets, require_goal_plus_runtime_capabilities, commit_workspace.
InstallAssets(p) ==
  /\ prep[p].pc = "assets"
  /\ \/ lane' = [lane EXCEPT ![1].hosted = host] /\ Go(p, "write")
     \/ Go(p, "raised") /\ UNCHANGED lane
  /\ UNCHANGED <<Fixed, source, host, dir, manifest, run, maker, moves>>

\* The commits are those of now.
WriteManifest(p) ==
  /\ prep[p].pc = "write" /\ Go(p, "done")
  /\ manifest' = [status |-> "prepared", commit |-> source.commit, host |-> host]
  /\ UNCHANGED <<Fixed, source, host, dir, lane, run, maker, moves>>

-----------------------------------------------------------------------------
\* execute, until it has written "running".

MayStart(r) == run[r].pc = "idle" /\ \A s \in 1..(r - 1) : run[s].pc # "idle"

\* require_prepared_goal_plus_source compares an external source only.
SourceDiffers == external /\ host # manifest.host

Load(r) ==
  /\ MayStart(r) /\ manifest.status # "none"
  /\ run' = [run EXCEPT ![r] =
       IF SourceDiffers \/ manifest.status # "prepared" THEN [@ EXCEPT !.pc = "refused"]
       ELSE [@ EXCEPT !.pc = "start", !.host = host]]
  /\ UNCHANGED <<Fixed, source, host, dir, lane, manifest, prep, maker, moves>>

LoadFails(r) ==
  /\ MayStart(r) /\ manifest.status = "none"
  /\ run' = [run EXCEPT ![r].pc = "refused"]
  /\ UNCHANGED <<Fixed, source, host, dir, lane, manifest, prep, maker, moves>>

\* The status is the one read by Load.
StartRun(r) ==
  /\ run[r].pc = "start" /\ manifest' = [manifest EXCEPT !.status = "running"]
  /\ run' = [s \in Runs |-> IF s = r THEN [run[s] EXCEPT !.pc = "running"]
                            ELSE [run[s] EXCEPT !.late = @ \/ run[s].pc = "start"]]
  /\ UNCHANGED <<Fixed, source, host, dir, lane, prep, maker, moves>>

KillRun(r) ==
  /\ run[r].pc = "start" /\ run' = [run EXCEPT ![r].pc = "killed"]
  /\ UNCHANGED <<Fixed, source, host, dir, lane, manifest, prep, maker, moves>>

Next ==
  \/ Move \/ Remove
  \/ \E p \in Prepares : \/ Validate(p) \/ MakeDir(p) \/ BeginLane(p) \/ Step(p) \/ EndLane(p)
                         \/ InstallAssets(p) \/ WriteManifest(p) \/ KillPrepare(p)
  \/ \E r \in Runs : Load(r) \/ LoadFails(r) \/ StartRun(r) \/ KillRun(r)

Spec == Init /\ [][Next]_vars

-----------------------------------------------------------------------------
Prepared == manifest.status # "none"
\* The checkout has moved while the directory was prepared.
Moved == \E p \in maker : prep[p].moved
Reads(what) == \E i \in DOMAIN A.steps : A.steps[i] = what

\* A directory is made by one prepare, and prepared by that one.
OneMaker ==
  /\ Cardinality(maker) <= 1
  /\ \A p \in Prepares : prep[p].pc = "done" => p \in maker

\* experiment.json appears last: every lane is there and whole, and what died or was
\* refused before it is never run.
PreparedIsWhole ==
  /\ Prepared => \A l \in 1..LastLane : lane[l].whole
  /\ \A r \in Runs : run[r].pc = "running" => Prepared

\* The lanes are copies of one commit, the one experiment.json names, without local
\* changes, and were pinned as copied, unless a checkout moved meanwhile.
LanesAlike ==
  Prepared /\ ~Moved /\ A.managed =>
    \A l \in 1..LastLane :
      /\ Reads("files") \/ Reads("archive") =>
           lane[l].copied = Copy(manifest.commit)
      /\ Reads("commit") => lane[l].commit = manifest.commit
      /\ Reads("hash") => lane[l].pinned = lane[l].copied
      /\ method = "goal-plus" => lane[l].hosted = manifest.host

\* A TorchBench lane has no local change in it, whenever the checkout moves; a Detect
\* lane copied from a cache is the validated commit unless it moved after the validation.
CopiesAreClean ==
  Prepared =>
    /\ Reads("archive") => \A l \in 1..LastLane : ~lane[l].copied.dirty
    /\ Reads("validate") /\ ~Moved => \A l \in 1..LastLane : lane[l].copied = Clean0

\* One run starts a prepared directory; a second one only when it had read the status
\* before the first had written it.
RunOnce ==
  \A r, s \in Runs : run[r].pc = "running" /\ run[s].pc = "running" /\ r # s =>
    run[r].late \/ run[s].late

\* A run on an external Goal Plus starts from the version that was prepared.
HostAsPrepared ==
  \A r \in Runs : external /\ run[r].pc = "running" => run[r].host = manifest.host

PreparationIsSound ==
  /\ OneMaker /\ PreparedIsWhole /\ LanesAlike /\ CopiesAreClean /\ RunOnce /\ HostAsPrepared
-----------------------------------------------------------------------------
(* The inductive invariant behind the six properties.                      *)

Begun(p) == prep[p].pc \in {"lane", "step", "assets", "write", "done"}
\* The lanes that p is through with, and the commit they should be at.
Finished(p) ==
  IF prep[p].pc \in {"lane", "step"} THEN 1..(prep[p].lane - 1) ELSE 1..LastLane
CommitOf(p) == IF prep[p].pc = "done" THEN manifest.commit ELSE source.commit

\* What step i should have left in lane l.
StepDone(l, i, commit) ==
  /\ A.steps[i] \in {"files", "archive"} => lane[l].copied = Copy(commit)
  /\ A.steps[i] = "hash" => lane[l].pinned = Copy(commit)
  /\ A.steps[i] = "commit" => lane[l].commit = commit

\* At most one prepare is at work in the directory, and none once it is prepared.
MakerInv ==
  /\ dir = "absent" => maker = {}
  /\ \A p, q \in maker : p = q
  /\ \A p \in Prepares : Begun(p) => p \in maker
  /\ Prepared <=> \E p \in Prepares : prep[p].pc = "done"

LaneInv(p) ==
  /\ prep[p].pc \in {"idle", "mkdir"} => prep[p].lane = 1
  /\ prep[p].pc \in {"lane", "step"} => prep[p].lane <= LastLane
  /\ Begun(p) => \A l \in Finished(p) : lane[l].whole

\* While the checkout stays where it was validated, the lanes are copies of it.
ValueInv(p) ==
  ~prep[p].moved /\ A.managed =>
    /\ Working(p) => ~source.dirty
    /\ Begun(p) => \A l \in Finished(p) : \A i \in DOMAIN A.steps : StepDone(l, i, CommitOf(p))
    /\ prep[p].pc = "step" =>
         \A i \in DOMAIN A.steps : i < prep[p].step => StepDone(prep[p].lane, i, source.commit)

HostInv(p) ==
  ~prep[p].moved /\ method = "goal-plus" =>
    /\ prep[p].pc = "write" => lane[1].hosted = host
    /\ prep[p].pc = "done" => lane[1].hosted = manifest.host

\* A lane of Detect is copied from what its validation has seen.
DetectInv(p) ==
  ~prep[p].moved /\ Reads("validate") =>
    /\ Begun(p) => \A l \in Finished(p) : lane[l].copied = Clean0
    /\ prep[p].pc = "step" =>
         /\ prep[p].step > 1 => source.commit = 0 /\ ~source.dirty
         /\ \A i \in DOMAIN A.steps :
              i < prep[p].step /\ A.steps[i] = "files" => lane[prep[p].lane].copied = Clean0

ArchiveInv == Reads("archive") => \A l \in 1..Lanes : ~lane[l].copied.dirty

\* The status says "running" from the first run on, which is too late for those under way.
RunInv(r) ==
  /\ run[r].pc \in {"start", "running"} =>
       Prepared /\ (external => run[r].host = manifest.host)
  /\ run[r].pc = "running" => manifest.status = "running"
  /\ run[r].pc = "start" => run[r].late \/ \A s \in Runs : run[s].pc # "running"

PrepareInv == \A p \in Prepares : LaneInv(p) /\ ValueInv(p) /\ HostInv(p) /\ DetectInv(p)
RunsInv == \A r \in Runs : RunInv(r)
================================================================================
