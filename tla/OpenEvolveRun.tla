---------------------------- MODULE OpenEvolveRun ----------------------------
(***************************************************************************)
(* The life of one OpenEvolve comparison run on disk: prepare builds the   *)
(* directory, run starts the method's process and judges what it leaves,   *)
(* closeout repairs a Goal Plus run.  Commands of one kind come one after  *)
(* the other and may die anywhere; closeout may overlap with a run.        *)
(*                                                                         *)
(* SkyDiscover's processes ("sky") and the native ones differ in when a    *)
(* ledger is charged, plain lanes are one process here (PlainLanes has     *)
(* them apart), and finalize_goal_plus_search is its outcome (GoalPlusRun  *)
(* has its steps).                                                         *)
(***************************************************************************)
EXTENDS Naturals

CONSTANTS Slots,      \* the requested concurrency
          MaxRuns, MaxRepairs   \* bounds on the number of commands

VARIABLES
  method,
  dir,          \* the run directory: absent, made, or with its workspaces in it
  status,       \* experiment.json, "none" while there is no such file
  record,       \* its "execution": absent, or what the harness saw of the process
  repaired,     \* its closeout_repaired_at
  artifact,     \* the workspace's artifact: the seed's, the agent's, the promoted one
  goal,         \* Goal Plus: no goal, an open one, a complete one
  verified,     \* candidates with worker verifier evidence
  selected,     \* the Search run records a selected score
  hit,          \* its best recorded score is the target's (always so without a target)
  agent,        \* the method's process
  pc, control, done,  \* run: its step, what it saw of the process, closeout completed
  final,        \* final-eval.json: the artifact it is of
  rpc, copy,    \* closeout: its step, the execution it read
  runs, repairs, agents, torn  \* history

vars == <<method, dir, status, record, repaired, artifact, goal, verified, selected, hit,
          agent, pc, control, done, final, rpc, copy, runs, repairs, agents, torn>>

Methods == {"native", "sky", "plain", "goal"}
Exits == {"zero", "term", "bad"}
Nothing == [rc |-> "none", late |-> FALSE, hard |-> FALSE]
Controls == [rc : Exits, late : BOOLEAN, hard : BOOLEAN]

TypeOK ==
  /\ method \in Methods /\ dir \in {"absent", "made", "filled"}
  /\ status \in {"none", "prepared", "running", "finished", "incomplete"}
  /\ record \in Controls \cup {Nothing} /\ control \in Controls \cup {Nothing}
  /\ copy \in Controls \cup {Nothing}
  /\ repaired \in BOOLEAN /\ selected \in BOOLEAN /\ hit \in BOOLEAN /\ done \in BOOLEAN
  /\ torn \in BOOLEAN
  /\ artifact \in {"seed", "agent", "promoted"} /\ final \in {"none", "agent", "seed", "promoted"}
  /\ goal \in {"none", "open", "complete"} /\ verified \in 0..Slots
  /\ agent \in {"none", "alive"} \cup Exits
  /\ pc \in {"idle", "prepare", "guard", "start", "poll", "grace", "drain", "finalize",
             "final", "verdict"}
  /\ rpc \in {"idle", "drain", "finalize", "verdict"}
  /\ runs \in 0..MaxRuns /\ repairs \in 0..MaxRepairs
  /\ agents \in Nat

Init ==
  /\ method \in Methods /\ dir = "absent" /\ status = "none"
  /\ record = Nothing /\ control = Nothing /\ copy = Nothing
  /\ repaired = FALSE /\ artifact = "seed" /\ final = "none"
  /\ goal = "none" /\ verified = 0 /\ selected = FALSE /\ hit \in BOOLEAN
  /\ agent = "none" /\ pc = "idle" /\ rpc = "idle" /\ done = FALSE
  /\ runs = 0 /\ repairs = 0 /\ agents = 0 /\ torn = FALSE

manifest == <<status, record, repaired>>
search == <<artifact, goal, verified, selected, hit>>
repair == <<rpc, copy, repairs>>
locals == <<control, done>>
Go(l) == pc' = l

-----------------------------------------------------------------------------
(* prepare                                                                 *)

\* The directory must be new: a prepare that died is not taken up again.
MakeDirectory ==
  /\ pc = "idle" /\ dir = "absent"
  /\ dir' = "made" /\ Go("prepare")
  /\ UNCHANGED <<method, manifest, search, agent, locals, final, repair, runs, agents, torn>>

Materialize ==
  /\ pc = "prepare" /\ dir = "made"
  /\ dir' = "filled"
  /\ UNCHANGED <<method, manifest, search, agent, pc, locals, final, repair, runs, agents, torn>>

\* The manifest is written last.
WriteManifest ==
  /\ pc = "prepare" /\ dir = "filled"
  /\ status' = "prepared" /\ Go("idle")
  /\ UNCHANGED <<method, dir, record, repaired, search, agent, locals, final, repair, runs,
                 agents, torn>>

-----------------------------------------------------------------------------
(* run                                                                     *)

\* The manifest is read once; only a prepared run without Goal Plus state passes.
Begin ==
  /\ pc = "idle" /\ runs < MaxRuns /\ status = "prepared"
  /\ goal = "none"
  /\ control' = Nothing /\ done' = FALSE
  /\ runs' = runs + 1 /\ Go("guard")
  /\ UNCHANGED <<method, dir, manifest, search, agent, final, repair, agents, torn>>

\* The copy read by Begin is written back as running.
Announce ==
  /\ pc = "guard"
  /\ status' = "running" /\ record' = Nothing /\ repaired' = FALSE
  /\ Go("start")
  /\ UNCHANGED <<method, dir, search, agent, locals, final, repair, runs, agents, torn>>

\* The seed is evaluated and the method's process started.
Start(m) ==
  /\ pc = "start" /\ method = m
  /\ agent' = "alive" /\ agents' = agents + 1
  /\ Go("poll")
  /\ UNCHANGED <<method, dir, manifest, search, locals, final, repair, runs, torn>>
StartNative == Start("native")
StartSky == Start("sky")
StartPlain == Start("plain")
StartGoal == Start("goal")

\* run_controlled: the process has exited, or the deadline or an interrupt ends the wait;
\* only the deadline is remembered for the verdict. 
PollAgent ==
  /\ pc = "poll"
  /\ \/ /\ agent \in Exits
        /\ control' = [rc |-> agent, late |-> FALSE, hard |-> FALSE]
        /\ Go(IF method = "goal" THEN "drain" ELSE "final")
     \/ \E late \in BOOLEAN :
          /\ control' = [rc |-> "bad", late |-> late, hard |-> FALSE]
          /\ Go("grace")
  /\ UNCHANGED <<method, dir, manifest, search, agent, done, final, repair, runs, agents,
                 torn>>

\* Mutant: the harness does not wait for what outlives its grace period.
GraceNoKill ==
  /\ pc = "grace"
  /\ control' = [control EXCEPT !.hard = agent = "alive",
                                !.rc = IF agent = "alive" THEN @ ELSE agent]
  /\ Go(IF method = "goal" THEN "drain" ELSE "final")
  /\ UNCHANGED <<method, dir, manifest, search, agent, done, final, repair, runs, agents,
                 torn>>

\* After SIGTERM: it exits in time, or is killed.
Grace ==
  /\ pc = "grace"
  /\ IF agent = "alive"
       THEN agent' = "bad" /\ control' = [control EXCEPT !.hard = TRUE]
       ELSE control' = [control EXCEPT !.rc = agent] /\ UNCHANGED agent
  /\ Go(IF method = "goal" THEN "drain" ELSE "final")
  /\ UNCHANGED <<method, dir, manifest, search, done, final, repair, runs, agents, torn>>

\* What finalize_goal_plus_search does to the Goal Plus state: it selects, promotes and
\* applies a verified candidate and completes the goal; done already, it changes nothing;
\* it may give up between any two of these steps.
Closeout ==
  \/ goal = "none" /\ UNCHANGED search
  \/ /\ goal # "none" /\ UNCHANGED <<verified, hit>>
     /\ \/ UNCHANGED <<artifact, goal, selected>>
        \/ /\ verified > 0 /\ selected' = TRUE
           /\ \/ UNCHANGED <<artifact, goal>>
              \/ artifact' = "promoted" /\ goal' \in {goal, "complete"}
Completed == artifact' = "promoted" /\ goal' = "complete"

Drain ==
  /\ pc = "drain"
  /\ Go("finalize")
  /\ UNCHANGED <<method, dir, manifest, search, agent, locals, final, repair, runs, agents, torn>>

Finalize ==
  /\ pc = "finalize"
  /\ Closeout /\ done' = Completed
  /\ Go("final")
  /\ UNCHANGED <<method, dir, manifest, agent, control, final, repair, runs, agents, torn>>

Evaluated ==
  /\ final' = artifact /\ torn' = (torn \/ agent = "alive")
  /\ Go("verdict")
  /\ UNCHANGED <<method, dir, manifest, search, agent, locals, repair, runs, agents>>

\* The best program the process saved, if it saved one.
FinalNative == pc = "final" /\ method = "native" /\ artifact = "agent" /\ Evaluated
FinalSky == pc = "final" /\ method = "sky" /\ artifact = "agent" /\ Evaluated
\* The best lane's artifact, be it the seed's.
FinalPlain == pc = "final" /\ method = "plain" /\ Evaluated
\* The workspace as it is, promoted or not.
FinalGoal == pc = "final" /\ method = "goal" /\ Evaluated

\* No best program was saved, or no lane has a metric.
NoFinal ==
  /\ pc = "final" /\ method # "goal"
  /\ method = "plain" \/ artifact = "seed"
  /\ Go("verdict")
  /\ UNCHANGED <<method, dir, manifest, search, agent, locals, final, repair, runs, agents, torn>>

\* goal_plus_settled_selection: a selected score is recorded, or the best verified score
\* is the target's.
Settled == selected \/ (verified > 0 /\ hit)

\* goal_plus_incomplete_reason: the goal is open, or has too little verifier evidence.
IncompleteReason == goal # "complete" \/ verified < (IF Settled THEN 1 ELSE Slots)

\* A nonzero exit is expected only of a process stopped at its deadline.
ExitOk ==
  \/ control.rc = "zero"
  \/ control.late /\ ~control.hard /\ control.rc = "term"

Passes ==
  \/ method \in {"native", "sky"} /\ final # "none" /\ ExitOk
  \/ method = "plain" /\ final # "none" /\ control.rc = "zero" /\ ~control.hard
  \/ method = "goal" /\ ~control.hard /\ ~IncompleteReason /\ done /\ ExitOk

Verdict ==
  /\ pc = "verdict"
  /\ status' = IF Passes THEN "finished" ELSE "incomplete"
  /\ record' = control /\ repaired' = FALSE
  /\ Go("idle")
  /\ UNCHANGED <<method, dir, search, agent, locals, final, repair, runs, agents, torn>>

\* An exception, a second interrupt or a kill ends the command where it is.
Dies ==
  /\ pc # "idle" /\ Go("idle")
  /\ UNCHANGED <<method, dir, manifest, search, agent, locals, final, repair, runs, agents, torn>>

-----------------------------------------------------------------------------
(* closeout                                                                *)

\* Neither the status nor a living command or agent is looked at.
RepairBegin ==
  /\ rpc = "idle" /\ repairs < MaxRepairs /\ status # "none" /\ method = "goal"
  /\ copy' = record /\ rpc' = "drain" /\ repairs' = repairs + 1
  /\ UNCHANGED <<method, dir, manifest, search, agent, pc, locals, final, runs, agents, torn>>

RepairDrain ==
  /\ rpc = "drain" /\ rpc' = "finalize"
  /\ UNCHANGED <<method, dir, manifest, search, agent, pc, locals, final, copy, repairs, runs,
                 agents, torn>>

RepairFinalize ==
  /\ rpc = "finalize"
  /\ Closeout /\ rpc' = "verdict"
  /\ UNCHANGED <<method, dir, manifest, agent, pc, locals, final, copy, repairs, runs, agents,
                 torn>>

\* The verdict is read off the Goal Plus state and the execution that was read before.
RepairVerdict ==
  /\ rpc = "verdict"
  /\ status' = IF ~IncompleteReason /\ ~copy.hard THEN "finished" ELSE "incomplete"
  /\ record' = copy /\ repaired' = TRUE /\ rpc' = "idle"
  /\ UNCHANGED <<method, dir, search, agent, pc, locals, final, copy, repairs, runs, agents,
                 torn>>

RepairDies ==
  /\ rpc # "idle" /\ rpc' = "idle"
  /\ UNCHANGED <<method, dir, manifest, search, agent, pc, locals, final, copy, repairs, runs,
                 agents, torn>>

-----------------------------------------------------------------------------
(* The method's process                                                    *)

\* It edits, opens a goal, verifies candidates, and may select, promote and complete.
AgentWorks ==
  /\ agent = "alive"
  /\ \/ method # "goal" /\ artifact' = "agent" /\ UNCHANGED <<goal, verified, selected>>
     \/ method = "goal" /\ goal = "none" /\ goal' = "open" /\ UNCHANGED <<artifact, verified, selected>>
     \/ /\ goal = "open" /\ verified < Slots /\ verified' = verified + 1
        /\ UNCHANGED <<artifact, goal, selected>>
     \/ /\ goal = "open" /\ verified > 0 /\ selected' = TRUE
        /\ artifact' \in {artifact, "promoted"} /\ goal' \in {"open", "complete"}
        /\ UNCHANGED verified
  /\ UNCHANGED <<method, dir, manifest, hit, agent, pc, locals, final, repair, runs, agents, torn>>

AgentEnds ==
  /\ agent = "alive" /\ agent' \in Exits
  /\ UNCHANGED <<method, dir, manifest, search, pc, locals, final, repair, runs, agents, torn>>

Next ==
  \/ MakeDirectory \/ Materialize \/ WriteManifest
  \/ Begin \/ Announce \/ StartNative \/ StartSky \/ StartPlain \/ StartGoal
  \/ PollAgent \/ Grace \/ Drain \/ Finalize
  \/ FinalNative \/ FinalSky \/ FinalPlain \/ FinalGoal \/ NoFinal \/ Verdict \/ Dies
  \/ RepairBegin \/ RepairDrain \/ RepairFinalize \/ RepairVerdict \/ RepairDies
  \/ AgentWorks \/ AgentEnds

Spec == Init /\ [][Next]_vars
-----------------------------------------------------------------------------
(* Properties                                                              *)

\* A manifest names a workspace that is there: what run and closeout start from is whole,
\* wherever prepare was cut off (prepare writes experiment.json last).
ManifestIsWhole == status # "none" => dir = "filled"

\* A run directory sees one process, however many commands were cut off and repeated
\* and whatever closeout wrote in between (execute's check of the status).
OneAgent == agents <= 1

\* Nothing is evaluated for the record while the run's own process may still write.
EvaluatedQuiet == ~torn

\* A finished run that no closeout touched: its process is gone and was not killed, and
\* the evaluation on record is of the artifact that was delivered, for Goal Plus of the
\* promoted one under a complete goal.
FinishedIsReal ==
  status = "finished" /\ ~repaired =>
    /\ agent \in Exits /\ ~record.hard /\ final = artifact
    /\ method = "goal" => goal = "complete" /\ verified > 0 /\ artifact = "promoted"

\* A finished run of either writer has a complete goal with a verified candidate, and no
\* execution on record that was killed (repair_closeout).
RepairIsHonest ==
  status = "finished" /\ repaired => goal = "complete" /\ verified > 0 /\ ~record.hard

RunIsSound == ManifestIsWhole /\ OneAgent /\ EvaluatedQuiet /\ FinishedIsReal /\ RepairIsHonest

-----------------------------------------------------------------------------
(* The inductive invariant behind the five properties.                     *)

\* A command has a directory that is whole, and only a prepared run starts a process.
CommandInv ==
  /\ pc \notin {"idle", "prepare"} \/ rpc # "idle" \/ status # "none" => dir = "filled"
  /\ pc = "prepare" => status = "none"
  /\ rpc # "idle" => status # "none"
  /\ pc \notin {"idle", "prepare", "guard"} => status \notin {"none", "prepared"}
  /\ pc \in {"prepare", "guard", "start"} \/ status \in {"none", "prepared"} =>
       agents = 0 /\ agent = "none"
  /\ agents <= 1

\* After the wait the process is gone, and what was evaluated was evaluated after it.
ProcessInv ==
  /\ pc \in {"poll", "grace"} => agent # "none"
  /\ pc \in {"drain", "finalize", "final", "verdict"} \/ final # "none" => agent \in Exits
  /\ pc = "grace" => control \in Controls /\ control.rc = "bad" /\ ~control.hard
  /\ control.hard => control.rc = "bad"
  /\ ~torn

\* Only Goal Plus has a goal and a closeout; a promoted artifact is not changed any more.
ArtifactInv ==
  /\ pc \in {"drain", "finalize"} \/ rpc # "idle" \/ goal # "none" \/ done => method = "goal"
  /\ final # "none" => method = "goal" \/ final = artifact
  /\ done => artifact = "promoted" /\ goal = "complete"
  /\ pc = "verdict" /\ method = "goal" /\ done => final = "promoted"

\* The run's own verdict ends it.
FinishedInv == FinishedIsReal /\ (status = "finished" /\ ~repaired => pc = "idle")
=============================================================================
