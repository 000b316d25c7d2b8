----------------------------- MODULE SweAttempt -----------------------------
(***************************************************************************)
(* The one attempt of a SWE-bench Verified campaign: execute_campaign, the *)
(* Agent container with its network and provider bridge, the patch, the    *)
(* official evaluation, and finalize_campaign.                             *)
(*                                                                         *)
(* Docker is external: every call of it may fail.  `disk` is campaign.json *)
(* as last saved, `mem` the manifest the running controller works on.      *)
(***************************************************************************)
EXTENDS Naturals

CONSTANT MaxRuns    \* bound: how many times `run` is called

VARIABLES
  gp, retain, blocked,   \* Goal Plus method, --retain-containers, public-egress-blocked
  disk, mem,             \* campaign.json; the controller's copy
  network,               \* the campaign's internal network exists
  bridge,                \* the provider's socket bridge runs
  box,                   \* the Agent container
  open,                  \* it is attached to a network with a public route
  agent,                 \* the Agent process runs in it
  known,                 \* the controller has its id
  patch,                 \* model.patch
  torn,                  \* it was taken while the Agent was running
  closed, exported,      \* Goal Plus closeout completed; .gp was copied out
  raised,                \* what is propagating
  pc, asked, runs        \* calls of the official harness; calls of `run`

config == <<gp, retain, blocked>>
docker == <<network, box, open>>
result == <<patch, torn, closed, exported>>
vars == <<config, disk, mem, docker, bridge, agent, known, result, raised, pc, asked, runs>>

Manifest == [state : {"prepared", "running", "completed", "partial", "failed"},
             agent : {"pending", "running", "finalizing", "failed", "completed", "partial"},
             isolated : BOOLEAN, netClosed : BOOLEAN, calls : 0..1,
             evaluation : {"pending", "running", "completed", "failed"}]

Setup == {"network", "runtime", "create", "record", "connect", "init", "disconnect", "verify"}
Working == {"agent", "timeout", "closeout", "export", "patch"}
Ending == {"dispose", "release", "save"}
Closing == {"result", "check", "claim", "evaluate", "verdict"}

TypeOK ==
  /\ gp \in BOOLEAN /\ retain \in BOOLEAN /\ blocked \in BOOLEAN /\ network \in BOOLEAN
  /\ bridge \in BOOLEAN /\ open \in BOOLEAN /\ agent \in BOOLEAN /\ known \in BOOLEAN
  /\ torn \in BOOLEAN /\ closed \in BOOLEAN /\ exported \in BOOLEAN
  /\ disk \in Manifest /\ mem \in Manifest
  /\ box \in {"none", "created", "running", "stopped"}
  /\ patch \in {"none", "empty", "model"}
  /\ raised \in {"no", "error", "interrupt"}
  /\ pc \in {"idle"} \cup Setup \cup Working \cup Ending \cup Closing
  /\ asked \in 0..1 /\ runs \in Nat
  /\ agent => box = "running"

\* What prepare leaves.
Prepared == [state |-> "prepared", agent |-> "pending", isolated |-> FALSE,
             netClosed |-> FALSE, calls |-> 0, evaluation |-> "pending"]

Init ==
  /\ gp \in BOOLEAN /\ retain \in BOOLEAN /\ blocked \in BOOLEAN
  /\ disk = Prepared /\ mem = Prepared
  /\ network = FALSE /\ bridge = FALSE /\ box = "none" /\ open = FALSE
  /\ agent = FALSE /\ known = FALSE
  /\ patch = "none" /\ torn = FALSE /\ closed = FALSE /\ exported = FALSE
  /\ raised = "no" /\ pc = "idle" /\ asked = 0 /\ runs = 0

Goto(l) == pc' = l /\ UNCHANGED raised

\* An exception inside _run_agent's try: its finally block is next.
Raise(what) == raised' = what /\ pc' = "dispose"

-----------------------------------------------------------------------------
(* execute_campaign and _run_agent up to the Agent process                 *)

Execute ==
  /\ pc = "idle" /\ runs < MaxRuns /\ disk.state = "prepared"
  /\ runs' = runs + 1
  /\ mem' = [disk EXCEPT !.state = "running"] /\ disk' = mem'
  /\ raised' = "no" /\ known' = FALSE /\ pc' = "network"
  /\ UNCHANGED <<config, docker, bridge, agent, result, asked>>

\* _agent_network: an internal network, created and inspected.
AgentNetwork ==
  /\ pc = "network"
  /\ IF ~blocked THEN Goto("runtime") /\ UNCHANGED network
     ELSE \/ network' = TRUE /\ (Goto("runtime") \/ Raise("error"))
          \/ Raise("error") /\ UNCHANGED network
  /\ UNCHANGED <<config, disk, mem, box, open, bridge, agent, known, result, asked, runs>>

\* routed_*_runtime and the host probe; an isolated Agent requires the bridge.
RouteRuntime ==
  /\ pc = "runtime"
  /\ \/ bridge' = TRUE /\ Goto("create")
     \/ ~blocked /\ Goto("create") /\ UNCHANGED bridge
     \/ bridge' \in BOOLEAN /\ Raise("error")
  /\ UNCHANGED <<config, disk, mem, docker, agent, known, result, asked, runs>>

\* _create_agent_container: the id is returned only if the start succeeds too.
CreateContainer ==
  /\ pc = "create"
  /\ \/ box' = "running" /\ open' = ~blocked /\ known' = TRUE /\ Goto("record")
     \/ box' \in {box, "created"} /\ Raise("error") /\ UNCHANGED <<open, known>>
  /\ UNCHANGED <<config, disk, mem, network, bridge, agent, result, asked, runs>>

RecordContainer ==
  /\ pc = "record"
  /\ mem' = [mem EXCEPT !.agent = "running"] /\ disk' = mem'
  /\ Goto("connect")
  /\ UNCHANGED <<config, docker, bridge, agent, known, result, asked, runs>>

\* _temporary_setup_egress: the default bridge, for the installation only.
ConnectSetup ==
  /\ pc = "connect"
  /\ IF ~blocked THEN Goto("init") /\ UNCHANGED open
     ELSE \/ open' = TRUE /\ Goto("init")
          \/ Raise("error") /\ UNCHANGED open
  /\ UNCHANGED <<config, disk, mem, network, box, bridge, agent, known, result, asked, runs>>

\* _initialize_agent_container; the setup network is left in a finally block.
InitializeContainer ==
  /\ pc = "init"
  /\ raised' \in {"no", "error"} /\ pc' = "disconnect"
  /\ UNCHANGED <<config, disk, mem, docker, bridge, agent, known, result, asked, runs>>

DisconnectSetup ==
  /\ pc = "disconnect"
  /\ \/ open' = (open /\ ~blocked) /\ IF raised = "no" THEN Goto("verify") ELSE Raise(raised)
     \/ blocked /\ raised # "interrupt" /\ Raise("error") /\ UNCHANGED open
  /\ UNCHANGED <<config, disk, mem, network, box, bridge, agent, known, result, asked, runs>>

\* _verify_agent_network and the Responses probe in the container; then the
\* Agent is started.
VerifyAndStart ==
  /\ pc = "verify"
  /\ \/ (blocked => ~open) /\ agent' = TRUE /\ Goto("agent")
     \/ Raise("error") /\ UNCHANGED agent
  /\ UNCHANGED <<config, disk, mem, docker, bridge, known, result, asked, runs>>

-----------------------------------------------------------------------------
(* The Agent, its end, closeout and patch                                  *)

\* The process ends by itself, or after the SIGTERM of a timeout.
AgentEnds ==
  /\ agent
  /\ agent' = FALSE
  /\ UNCHANGED <<config, disk, mem, docker, bridge, known, result, raised, pc, asked, runs>>

AfterAgent == IF gp THEN "closeout" ELSE "patch"

AgentReturns ==
  /\ pc = "agent"
  /\ IF agent THEN Goto("timeout") ELSE Goto(AfterAgent)
  /\ UNCHANGED <<config, disk, mem, docker, bridge, agent, known, result, asked, runs>>

\* The time limit kills the docker client only.  With Goal Plus the process in
\* the container is signalled; otherwise the container is stopped and restarted.
TimeOut ==
  /\ pc = "timeout"
  /\ IF gp THEN (Goto(AfterAgent) \/ Raise("error")) /\ UNCHANGED <<box, agent>>
     ELSE \/ agent' = FALSE /\ box' = "running" /\ Goto(AfterAgent)
          \/ agent' = FALSE /\ box' = "stopped" /\ Raise("error")
          \/ Raise("error") /\ UNCHANGED <<box, agent>>
  /\ UNCHANGED <<config, disk, mem, network, open, bridge, known, result, asked, runs>>

\* _goal_plus_closeout never raises; what it did not complete is evidence.
Closeout ==
  /\ pc = "closeout"
  /\ closed' \in BOOLEAN /\ Goto("export")
  /\ UNCHANGED <<config, disk, mem, docker, bridge, agent, known, patch, torn, exported,
                 asked, runs>>

\* _export_goal_plus_state
ExportState ==
  /\ pc = "export"
  /\ exported' \in BOOLEAN /\ Goto("patch")
  /\ UNCHANGED <<config, disk, mem, docker, bridge, agent, known, patch, torn, closed,
                 asked, runs>>

TakePatch ==
  /\ pc = "patch"
  /\ \/ patch' \in {"empty", "model"} /\ torn' = agent /\ Goto("dispose")
     \/ Raise("error") /\ UNCHANGED <<patch, torn>>
  /\ UNCHANGED <<config, disk, mem, docker, bridge, agent, known, closed, exported,
                 asked, runs>>

-----------------------------------------------------------------------------
(* _run_agent's finally block                                              *)

\* _container_disposition_isolated: removed, or retained and seen stopped.
Isolated(gone) == gone

\* _dispose_agent_container: docker stop or rm -f, which may fail; the record
\* says what docker answered, and may miss a removal that took place.
Dispose ==
  /\ pc = "dispose"
  /\ pc' = "release"
  /\ IF ~known THEN UNCHANGED <<mem, box, agent>>
     ELSE \E done \in BOOLEAN, seen \in BOOLEAN :
            /\ seen => done \/ (retain /\ box = "stopped")
            /\ box' = IF ~done THEN box ELSE IF retain THEN "stopped" ELSE "none"
            /\ agent' = (agent /\ ~done)
            /\ mem' = [mem EXCEPT !.agent = IF raised = "error" THEN "failed" ELSE "finalizing",
                                  !.isolated = Isolated(seen)]
  /\ UNCHANGED <<config, disk, network, open, bridge, known, result, raised, asked, runs>>

\* resources.close(): the bridge, then the network, which docker refuses to
\* remove under a live container and --retain-containers keeps.
Release ==
  /\ pc = "release"
  /\ bridge' = FALSE
  /\ network' \in (IF ~network \/ retain \/ (known /\ box = "running") THEN {network}
                   ELSE {TRUE, FALSE})
  /\ mem' = [mem EXCEPT !.netClosed = ~network' \/ retain]
  /\ pc' = "save"
  /\ UNCHANGED <<config, disk, box, open, agent, known, result, raised, asked, runs>>

\* The manifest is saved, and the exception goes on to execute_campaign.
SaveAttempt ==
  /\ pc = "save"
  /\ disk' = IF raised = "error" THEN [mem EXCEPT !.state = "failed"]
             ELSE IF known THEN mem ELSE disk
  /\ pc' = IF raised = "no" THEN "result" ELSE "idle"
  /\ UNCHANGED <<config, mem, docker, bridge, agent, known, result, raised, asked, runs>>

-----------------------------------------------------------------------------
(* The result and the official evaluation                                  *)

Evidence == closed /\ exported

Fail ==
  /\ mem' = [mem EXCEPT !.state = "failed"] /\ disk' = mem'
  /\ Goto("idle")

\* A plain Agent has also to end with code 0.
AgentResult ==
  /\ pc = "result"
  /\ \E clean \in BOOLEAN : mem' = [mem EXCEPT !.agent =
       IF patch = "model" /\ (IF gp THEN Evidence ELSE clean) THEN "completed" ELSE "partial"]
  /\ disk' = mem'
  /\ Goto("check")
  /\ UNCHANGED <<config, docker, bridge, agent, known, result, asked, runs>>

\* Without confirmed isolation the official evaluation is blocked.
CheckIsolation ==
  /\ pc = "check"
  /\ IF ~mem.isolated THEN Fail
     ELSE Goto(IF patch = "model" THEN "claim" ELSE "verdict") /\ UNCHANGED <<disk, mem>>
  /\ UNCHANGED <<config, docker, bridge, agent, known, result, asked, runs>>

\* Mutant: the call is recorded with its result.
ClaimLater ==
  /\ pc = "claim"
  /\ mem' = [mem EXCEPT !.calls = 1, !.evaluation = "running"]
  /\ Goto("evaluate")
  /\ UNCHANGED <<config, disk, docker, bridge, agent, known, result, asked, runs>>

\* _official_evaluation: the call is persisted before the harness starts.
ClaimEvaluation ==
  /\ pc = "claim"
  /\ IF mem.calls # 0 THEN Fail
     ELSE /\ mem' = [mem EXCEPT !.calls = 1, !.evaluation = "running"] /\ disk' = mem'
          /\ Goto("evaluate")
  /\ UNCHANGED <<config, docker, bridge, agent, known, result, asked, runs>>

\* The harness runs once, to its end or its timeout; it may leave no report.
Evaluate ==
  /\ pc = "evaluate"
  /\ asked' = asked + 1
  /\ \/ /\ mem' = [mem EXCEPT !.evaluation = "completed"] \/ mem' = [mem EXCEPT !.evaluation = "failed"]
        /\ Goto("verdict") /\ UNCHANGED disk
     \/ Fail
  /\ UNCHANGED <<config, docker, bridge, agent, known, result, runs>>

Verdict ==
  /\ pc = "verdict"
  /\ mem' = [mem EXCEPT !.state = IF mem.evaluation = "completed" /\ (gp => Evidence)
                                  THEN "completed" ELSE "partial"]
  /\ disk' = mem'
  /\ Goto("idle")
  /\ UNCHANGED <<config, docker, bridge, agent, known, result, asked, runs>>

\* finalize_campaign looks again at a Goal Plus cell that did not fail, and may
\* read the exported evidence more strictly or more leniently than execute did.
Finish ==
  /\ pc = "idle" /\ gp /\ disk.state \in {"completed", "partial"}
  /\ \E passed \in BOOLEAN :
       LET good == /\ passed /\ Evidence /\ patch = "model" /\ disk.isolated
                   /\ (blocked => disk.netClosed)
                   /\ disk.evaluation = "completed" /\ disk.calls = 1
       IN disk' = [disk EXCEPT !.state = IF good THEN "completed" ELSE "partial",
                               !.agent = IF good THEN "completed" ELSE "partial"]
  /\ UNCHANGED <<config, mem, docker, bridge, agent, known, result, raised, pc, asked, runs>>

-----------------------------------------------------------------------------
(* Interrupts and kills                                                    *)

\* KeyboardInterrupt is not an Exception: the finally blocks run, and campaign.json
\* stays as it was saved last.  A container just created may be unknown.
Interrupt ==
  /\ pc \in Setup \cup Working \cup Closing
  /\ IF pc \in Closing THEN pc' = "idle" /\ raised' = "interrupt"
     ELSE /\ raised' = "interrupt"
          /\ pc' = IF pc \in {"init", "disconnect"} THEN "disconnect" ELSE "dispose"
  /\ box' \in (IF pc = "create" THEN {box, "created", "running"} ELSE {box})
  /\ asked' = IF pc = "evaluate" THEN asked + 1 ELSE asked
  /\ UNCHANGED <<config, disk, mem, network, open, bridge, agent, known, result, runs>>

Kill ==
  /\ pc # "idle"
  /\ pc' = "idle"
  /\ asked' \in (IF pc = "evaluate" THEN {asked, asked + 1} ELSE {asked})
  /\ UNCHANGED <<config, disk, mem, docker, bridge, agent, known, result, raised, runs>>

Next ==
  \/ Execute \/ AgentNetwork \/ RouteRuntime \/ CreateContainer \/ RecordContainer
  \/ ConnectSetup \/ InitializeContainer \/ DisconnectSetup \/ VerifyAndStart
  \/ AgentEnds \/ AgentReturns \/ TimeOut \/ Closeout \/ ExportState \/ TakePatch
  \/ Dispose \/ Release \/ SaveAttempt \/ AgentResult \/ CheckIsolation
  \/ ClaimEvaluation \/ Evaluate \/ Verdict \/ Finish \/ Interrupt \/ Kill

Spec == Init /\ [][Next]_vars
-----------------------------------------------------------------------------
(* Properties                                                              *)

\* The official evaluation has the Agent behind it: its container is gone or stopped
\* and the patch is not being written any more (README, "Isolation boundary").
EvaluatedAlone == pc \in {"claim", "evaluate"} => ~agent /\ box \in {"none", "stopped"}

\* "only while the controller installs ..., before any Agent or model process starts":
\* a confined Agent never runs with a public route.
AgentConfined == agent /\ blocked => ~open /\ network

\* Without Goal Plus nothing writes into the workspace while the patch is taken,
\* although a timeout kills only the docker client.
PatchSettled == ~gp => ~torn

\* "An evaluator attempt is persisted before the harness starts, so the same
\* campaign cannot silently call it twice": over kills and further runs.
EvaluatedOnce == asked <= disk.calls

\* A completed campaign has a patch, an official report on it and an isolated
\* container, and with Goal Plus a completed closeout.
CompletedIsReal ==
  disk.state = "completed" =>
    /\ patch = "model" /\ disk.evaluation = "completed" /\ asked = 1
    /\ disk.isolated /\ ~agent /\ box # "running"
    /\ gp => closed /\ exported

AttemptIsSound ==
  EvaluatedAlone /\ AgentConfined /\ PatchSettled /\ EvaluatedOnce /\ CompletedIsReal

-----------------------------------------------------------------------------
(* The inductive invariant behind the five properties.                     *)

\* A campaign that was not executed yet has left no trace.
FreshInv ==
  disk.state = "prepared" =>
    /\ pc = "idle" /\ ~agent /\ box = "none" /\ patch = "none" /\ ~torn /\ asked = 0
    /\ ~disk.isolated /\ disk.calls = 0 /\ disk.evaluation = "pending"

\* While it executes, both manifests say so, and the evaluation is asked for at the end.
RunningInv ==
  pc # "idle" =>
    /\ disk.state = "running" /\ mem.state = "running"
    /\ pc \notin {"evaluate", "verdict"} => mem.calls = 0 /\ disk.calls = 0 /\ asked = 0
    /\ pc = "evaluate" => mem.calls = 1 /\ disk.calls = 1 /\ asked = 0 /\ patch = "model"
    /\ pc = "verdict" => disk.calls = mem.calls

\* The Agent runs in a known container from VerifyAndStart on, confined if it is to be.
AgentInv ==
  /\ pc \in Setup => ~agent
  /\ pc \in {"record", "connect", "init", "disconnect", "verify"} => known /\ box = "running"
  /\ pc \in Working => known
  /\ pc \in Setup \ {"network"} /\ blocked => network
  /\ agent => known
  /\ agent /\ blocked => ~open /\ network

\* A patch is taken beside the Agent only if Goal Plus stopped it.
PatchInv ==
  /\ pc \in {"closeout", "export"} => gp
  /\ pc = "patch" /\ ~gp => ~agent
  /\ pc = "claim" => patch = "model"
  /\ ~gp => ~torn

\* An isolated container is gone or stopped, in either manifest, for good.
IsolationInv ==
  /\ pc \in Setup \cup Working \cup {"dispose"} => ~mem.isolated
  /\ pc \in Setup \cup Working \cup Ending => ~disk.isolated
  /\ mem.isolated \/ disk.isolated => ~agent /\ box \in {"none", "stopped"}
  /\ pc \in {"claim", "evaluate", "verdict"} => mem.isolated

\* A report is one of the harness, asked once, on a patch, after the isolation.
ReportInv ==
  /\ asked <= disk.calls
  /\ mem.evaluation = "completed" => pc \in {"idle", "verdict"}
  /\ pc = "verdict" /\ mem.evaluation = "completed" => asked = 1 /\ patch = "model"
  /\ disk.evaluation = "completed" => pc = "idle" /\ asked = 1 /\ patch = "model" /\ disk.isolated
  /\ disk.state = "completed" => disk.evaluation = "completed" /\ (gp => closed /\ exported)
=============================================================================
