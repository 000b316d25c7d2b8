--------------------------- MODULE FrontierCampaign ---------------------------
(***************************************************************************)
(* A Frontier-Engineering campaign: execute_campaign over its cells, the   *)
(* stop command, which signals the running agents before the controller,   *)
(* and finalize_campaign, which audits partial cells once more.            *)
(*                                                                         *)
(* Several controllers may be started on one campaign; `disk` is           *)
(* campaign.json, `mem[p]` the document controller p works on and writes   *)
(* as a whole (config.write_json replaces the file atomically).            *)
(***************************************************************************)
EXTENDS Naturals, FiniteSets

CONSTANTS MaxControllers,   \* bound: how many times `run` is called
          NumCells,
          Grouped   \* cells whose agent has a process group of its own: all but OpenEvolve's

VARIABLES
  disk,        \* campaign.json
  exper, fin,  \* per cell: status of experiment.json; final-eval.json
  ctl,         \* controller.json: the pid
  leader,      \* controllers that lead their process group
  pc, mem, cur, flag, agent, ok,   \* per controller
  stop,        \* the stop command; `late`: it came before the agent, or after the controller
  audit,       \* finalize_campaign: the document it works on, and whether it repaired a cell
  begun,       \* history: executions of each cell
  after        \* history: cells a controller took after its stop was requested

files == <<disk, exper, fin, ctl>>
locals == <<pc, mem, cur, flag, agent, ok>>
vars == <<files, leader, locals, stop, audit, begun, after>>

Cells == 1..NumCells
Controllers == 1..MaxControllers
Nobody == 0
Terminal == {"completed", "partial", "failed", "interrupted"}
Campaign == [state : {"prepared", "running"} \cup Terminal,
             cells : [Cells -> {"prepared", "running"} \cup Terminal]]
Armed == {"announce", "active", "loop", "take", "check", "begin", "seed", "agent",
          "evaluate", "judge", "record"}

TypeOK ==
  /\ disk \in Campaign
  /\ exper \in [Cells -> {"prepared", "running", "finished", "incomplete"}]
  /\ fin \in [Cells -> {"none", "invalid", "valid"}]
  /\ ctl \in Controllers \cup {Nobody} /\ leader \subseteq Controllers
  /\ mem \in [Controllers -> Campaign] /\ cur \in [Controllers -> 0..NumCells]
  /\ pc \in [Controllers -> {"new", "boot", "final", "gone"} \cup Armed]
  /\ {flag, ok} \subseteq [Controllers -> BOOLEAN]
  /\ agent \in [Controllers -> {"none", "alive", "told"}]
  /\ stop \in [pc : {"idle", "read", "listed", "signal", "done"},
               target : Controllers \cup {Nobody}, seen : 0..NumCells, late : BOOLEAN]
  /\ audit \in [pc : {"idle", "read", "repaired"}, camp : Campaign]
  /\ begun \in [Cells -> Nat] /\ after \in [Controllers -> Nat]

Prepared == [state |-> "prepared", cells |-> [c \in Cells |-> "prepared"]]

NoAudit == [pc |-> "idle", camp |-> Prepared]

\* A fully prepared campaign: prepare raises if any cell is not.
Init ==
  /\ disk = Prepared
  /\ exper = [c \in Cells |-> "prepared"] /\ fin = [c \in Cells |-> "none"]
  /\ ctl = Nobody /\ leader = {}
  /\ pc = [p \in Controllers |-> "new"] /\ mem = [p \in Controllers |-> Prepared]
  /\ cur = [p \in Controllers |-> 0] /\ flag = [p \in Controllers |-> FALSE]
  /\ agent = [p \in Controllers |-> "none"] /\ ok = [p \in Controllers |-> FALSE]
  /\ stop = [pc |-> "idle", target |-> Nobody, seen |-> 0, late |-> FALSE]
  /\ audit = NoAudit
  /\ begun = [c \in Cells |-> 0] /\ after = [p \in Controllers |-> 0]

Goto(p, l) == pc' = [pc EXCEPT ![p] = l]
Aside == UNCHANGED <<leader, stop, audit, begun, after>>

-----------------------------------------------------------------------------
(* execute_campaign                                                        *)

\* launch_detached writes controller.json as well, at a time of its own.
Launch(p) ==
  /\ pc[p] = "new"
  /\ Goto(p, "boot")
  /\ leader' \in {leader, leader \cup {p}}
  /\ UNCHANGED <<files, mem, cur, flag, agent, ok, stop, audit, begun, after>>

LauncherWrites(p) ==
  /\ p \in leader /\ pc[p] # "new" /\ ctl # p
  /\ ctl' = p
  /\ UNCHANGED <<disk, exper, fin, leader, locals, stop, audit, begun, after>>

Boot(p) ==
  /\ pc[p] = "boot"
  /\ mem' = [mem EXCEPT ![p] = disk]
  /\ Goto(p, IF disk.state = "prepared" THEN "announce" ELSE "gone")
  /\ UNCHANGED <<files, cur, flag, agent, ok>> /\ Aside

\* The handlers are in place; campaign.json and then controller.json say so.
Announce(p) ==
  /\ pc[p] = "announce"
  /\ mem' = [mem EXCEPT ![p].state = "running"] /\ disk' = mem'[p]
  /\ Goto(p, "active")
  /\ UNCHANGED <<exper, fin, ctl, cur, flag, agent, ok>> /\ Aside

Activate(p) ==
  /\ pc[p] = "active"
  /\ ctl' = p
  /\ Goto(p, "loop")
  /\ UNCHANGED <<disk, exper, fin, mem, cur, flag, agent, ok>> /\ Aside

Waiting(p) == {c \in Cells : c > cur[p] /\ mem[p].cells[c] \notin Terminal}

\* The next cell, unless a stop was requested.
LoopTop(p) ==
  /\ pc[p] = "loop"
  /\ \/ /\ flag[p] \/ Waiting(p) = {}
        /\ Goto(p, "final") /\ UNCHANGED cur
     \/ /\ ~flag[p] /\ \E c \in Waiting(p) : /\ \A d \in Waiting(p) : c <= d
                                             /\ cur' = [cur EXCEPT ![p] = c]
        /\ Goto(p, "take")
  /\ UNCHANGED <<files, mem, flag, agent, ok>> /\ Aside

TakeCell(p) ==
  /\ pc[p] = "take"
  /\ mem' = [mem EXCEPT ![p].cells[cur[p]] = "running"]
  /\ disk' = mem'[p] /\ ctl' = p
  /\ after' = IF flag[p] THEN [after EXCEPT ![p] = @ + 1] ELSE after
  /\ Goto(p, "check")
  /\ UNCHANGED <<exper, fin, cur, flag, agent, ok, leader, stop, audit, begun>>

\* except BaseException
CellRaises(p) ==
  /\ pc[p] \in {"check", "seed", "evaluate"}
  /\ mem' = [mem EXCEPT ![p].cells[cur[p]] = IF flag[p] THEN "interrupted" ELSE "failed"]
  /\ Goto(p, "record")
  /\ UNCHANGED <<files, cur, flag, agent, ok>> /\ Aside

\* Both harnesses look at the status first and write "running" later.
CheckPrepared(p) ==
  /\ pc[p] = "check" /\ exper[cur[p]] = "prepared"
  /\ Goto(p, "begin")
  /\ UNCHANGED <<files, mem, cur, flag, agent, ok>> /\ Aside

Begin(p) ==
  /\ pc[p] = "begin"
  /\ exper' = [exper EXCEPT ![cur[p]] = "running"]
  /\ begun' = [begun EXCEPT ![cur[p]] = @ + 1]
  /\ Goto(p, "seed")
  /\ UNCHANGED <<disk, fin, ctl, mem, cur, flag, agent, ok, leader, stop, audit, after>>

StartAgent(p) ==
  /\ pc[p] = "seed"
  /\ agent' = [agent EXCEPT ![p] = "alive"]
  /\ stop' = [stop EXCEPT !.late = @ \/ (p = stop.target /\ stop.pc # "read")]
  /\ Goto(p, "agent")
  /\ UNCHANGED <<files, mem, cur, flag, ok, leader, audit, begun, after>>

\* The agent's end, or its wall time with the soft stop and the hard kill.
AgentOver(p) ==
  /\ pc[p] = "agent"
  /\ agent' = [agent EXCEPT ![p] = "none"]
  /\ Goto(p, "evaluate")
  /\ UNCHANGED <<files, mem, cur, flag, ok>> /\ Aside

\* The harness's own verdict; the final evaluation is on disk before it.
Evaluate(p) ==
  /\ pc[p] = "evaluate"
  /\ \E v \in {fin[cur[p]], "invalid", "valid"} : fin' = [fin EXCEPT ![cur[p]] = v]
  /\ \E done \in BOOLEAN :
       /\ ok' = [ok EXCEPT ![p] = done]
       /\ exper' = [exper EXCEPT ![cur[p]] = IF done THEN "finished" ELSE "incomplete"]
  /\ Goto(p, "judge")
  /\ UNCHANGED <<disk, ctl, mem, cur, flag, agent>> /\ Aside

\* Exit code, experiment.json and final-eval.json, as they are now.
Judge(p) ==
  /\ pc[p] = "judge"
  /\ mem' = [mem EXCEPT ![p].cells[cur[p]] =
               IF ok[p] /\ exper[cur[p]] = "finished" /\ fin[cur[p]] = "valid"
               THEN "completed" ELSE "partial"]
  /\ Goto(p, "record")
  /\ UNCHANGED <<files, cur, flag, agent, ok>> /\ Aside

RecordCell(p) ==
  /\ pc[p] = "record"
  /\ disk' = mem[p]
  /\ Goto(p, "loop")
  /\ UNCHANGED <<exper, fin, ctl, mem, cur, flag, agent, ok>> /\ Aside

Outcome(m, stopped) ==
  IF stopped THEN "interrupted"
  ELSE IF \A c \in Cells : m.cells[c] = "completed" THEN "completed"
  ELSE IF \E c \in Cells : m.cells[c] \in Terminal THEN "partial" ELSE "failed"

\* The previous handlers are back since the finally block ("final" is not Armed).
Final(p) ==
  /\ pc[p] = "final"
  /\ mem' = [mem EXCEPT ![p].state = Outcome(mem[p], flag[p]),
                        ![p].cells = [c \in Cells |->
                           IF flag[p] /\ mem[p].cells[c] = "running" THEN "interrupted"
                           ELSE mem[p].cells[c]]]
  /\ disk' = mem'[p] /\ ctl' = p
  /\ Goto(p, "gone")
  /\ UNCHANGED <<exper, fin, cur, flag, agent, ok>> /\ Aside

Kill(p) ==
  /\ pc[p] \notin {"new", "gone"}
  /\ Goto(p, "gone")
  /\ UNCHANGED <<files, mem, cur, flag, agent, ok>> /\ Aside

\* An agent without its controller ends at some time.
OrphanEnds(p) ==
  /\ pc[p] = "gone" /\ agent[p] # "none"
  /\ agent' = [agent EXCEPT ![p] = "none"]
  /\ UNCHANGED <<files, pc, mem, cur, flag, ok>> /\ Aside

-----------------------------------------------------------------------------
(* stop_campaign and finalize_campaign                                     *)

StopReads ==
  /\ stop.pc = "idle" /\ ctl # Nobody
  /\ stop' = [stop EXCEPT !.pc = "read", !.target = ctl]
  /\ UNCHANGED <<files, leader, locals, audit, begun, after>>

\* Mutant: only the controller is signalled.
StopListsNobody ==
  /\ stop.pc = "read"
  /\ stop' = [stop EXCEPT !.pc = "listed", !.late = pc[stop.target] = "gone"]
  /\ UNCHANGED <<files, leader, locals, audit, begun, after>>

\* ps: a child of the controller that leads its own process group.
StopLists ==
  /\ stop.pc = "read"
  /\ LET p == stop.target
         found == pc[p] = "agent" /\ cur[p] \in Grouped
     IN stop' = [stop EXCEPT !.pc = "listed", !.seen = IF found THEN cur[p] ELSE 0,
                             !.late = pc[p] = "gone"]
  /\ UNCHANGED <<files, leader, locals, audit, begun, after>>

Told(p) == [agent EXCEPT ![p] = IF @ = "alive" THEN "told" ELSE @]

\* SIGTERM to the group that was listed, which may be gone.
StopAgents ==
  /\ stop.pc = "listed"
  /\ stop' = [stop EXCEPT !.pc = "signal"]
  /\ agent' = IF stop.seen # 0 /\ cur[stop.target] = stop.seen THEN Told(stop.target)
              ELSE agent
  /\ UNCHANGED <<files, leader, pc, mem, cur, flag, ok, audit, begun, after>>

\* SIGTERM to the controller, or to its group: without the handlers it ends.
StopController ==
  /\ stop.pc = "signal"
  /\ stop' = [stop EXCEPT !.pc = "done", !.late = @ \/ pc[stop.target] = "gone"]
  /\ LET p == stop.target IN
       /\ agent' = IF p \in leader /\ cur[p] \notin Grouped /\ pc[p] # "gone" THEN Told(p)
                   ELSE agent
       /\ IF pc[p] \in Armed THEN flag' = [flag EXCEPT ![p] = TRUE] /\ UNCHANGED pc
          ELSE Goto(p, "gone") /\ UNCHANGED flag
  /\ UNCHANGED <<files, leader, mem, cur, ok, audit, begun, after>>

FinalizeReads ==
  /\ audit.pc = "idle" /\ disk.state \in Terminal
  /\ audit' = [pc |-> "read", camp |-> disk]
  /\ UNCHANGED <<files, leader, locals, stop, begun, after>>

\* A partial cell with a final evaluation goes through repair_closeout again.
Reaudit(c) ==
  /\ audit.pc # "idle" /\ audit.camp.cells[c] = "partial"
  /\ exper[c] = "incomplete" /\ fin[c] # "none"
  /\ \E s \in {"finished", "incomplete"} :
       /\ exper' = [exper EXCEPT ![c] = s]
       /\ audit' = [pc |-> "repaired", camp |->
            IF s = "finished" /\ fin[c] = "valid"
            THEN [audit.camp EXCEPT !.cells[c] = "completed"] ELSE audit.camp]
  /\ UNCHANGED <<disk, fin, ctl, leader, locals, stop, begun, after>>

\* Written when all cells were gone through, whatever is in the file by then.
FinalizeWrites ==
  /\ audit.pc = "repaired"
  /\ disk' = [audit.camp EXCEPT !.state =
       IF @ = "partial" /\ \A c \in Cells : audit.camp.cells[c] = "completed"
       THEN "completed" ELSE @]
  /\ audit' = NoAudit
  /\ UNCHANGED <<exper, fin, ctl, leader, locals, stop, begun, after>>

\* Nothing to repair, or the command is killed.
FinalizeEnds ==
  /\ audit.pc # "idle" /\ audit' = NoAudit
  /\ UNCHANGED <<files, leader, locals, stop, begun, after>>

Controller(p) ==
  \/ Boot(p) \/ Announce(p) \/ Activate(p) \/ LoopTop(p) \/ TakeCell(p) \/ CheckPrepared(p)
  \/ CellRaises(p) \/ Begin(p) \/ StartAgent(p) \/ AgentOver(p) \/ Evaluate(p) \/ Judge(p)
  \/ RecordCell(p) \/ Final(p)

Next ==
  \/ \E p \in Controllers :
       Controller(p) \/ Launch(p) \/ LauncherWrites(p) \/ Kill(p) \/ OrphanEnds(p)
  \/ StopReads \/ StopLists \/ StopAgents \/ StopController
  \/ FinalizeReads \/ (\E c \in Cells : Reaudit(c)) \/ FinalizeWrites \/ FinalizeEnds

Spec == Init /\ [][Next]_vars
-----------------------------------------------------------------------------
(* Properties                                                              *)

\* A campaign that reads completed has only completed cells, and each of them is
\* finished with a valid final evaluation, unless two controllers that both passed
\* the two status checks have executed it (execute_campaign, _reaudit).
CompletedIsReal ==
  /\ disk.state = "completed" => \A c \in Cells : disk.cells[c] = "completed"
  /\ \A c \in Cells : disk.cells[c] = "completed" /\ begun[c] <= 1 =>
                        exper[c] = "finished" /\ fin[c] = "valid"

\* After a stop the controller takes one further cell at most, the one it was
\* about to take when the signal came.
StopIsHeard == \A p \in Controllers : after[p] <= 1

\* A stop of a controller at work reaches its agent ("Wake that call first"): directly
\* or as a member of the controller's group, unless the agent is younger than the list
\* of processes (stop_campaign).
StopWakes ==
  LET p == stop.target IN
    stop.pc = "done" /\ ~stop.late /\ (cur[p] \in Grouped \/ p \in leader) =>
      agent[p] # "alive"

FrontierIsSound == CompletedIsReal /\ StopIsHeard /\ StopWakes

-----------------------------------------------------------------------------
(* The inductive invariant behind the three properties.                      *)

Executing == {"seed", "agent", "evaluate", "judge"}

\* Whoever reads completed, the file, a controller or an audit, has it of a cell that was executed,
\* and of a finished one unless it was executed twice.
CellsInv ==
  \A c \in Cells :
    /\ begun[c] = 0 => exper[c] = "prepared"
    /\ \/ disk.cells[c] = "completed" \/ audit.camp.cells[c] = "completed"
       \/ \E p \in Controllers : mem[p].cells[c] = "completed"
       =>
         /\ begun[c] >= 1
         /\ begun[c] <= 1 => exper[c] = "finished" /\ fin[c] = "valid"

\* A cell at work in a controller is running, and has no other controller's verdict, unless
\* it was executed twice.
ExecutionInv ==
  /\ \A p \in Controllers :
       /\ pc[p] \in Executing \cup {"take", "check", "begin"} => cur[p] \in Cells
       /\ pc[p] \in Executing => begun[cur[p]] >= 1
       /\ pc[p] \in Executing \ {"judge"} /\ begun[cur[p]] <= 1 => exper[cur[p]] = "running"
  /\ \A p, q \in Controllers :
       p # q /\ {pc[p], pc[q]} \subseteq Executing /\ cur[p] = cur[q] => begun[cur[p]] >= 2

\* Only the verdict says completed, and only of completed cells.
VerdictInv ==
  /\ \A p \in Controllers :
       /\ pc[p] \in (Armed \ {"announce"}) \cup {"final"} => mem[p].state = "running"
       /\ mem[p].state = "completed" => \A c \in Cells : mem[p].cells[c] = "completed"
  /\ disk.state = "completed" => \A c \in Cells : disk.cells[c] = "completed"
  /\ audit.camp.state = "completed" => \A c \in Cells : audit.camp.cells[c] = "completed"

\* The cell taken in spite of the stop is the last.
HeardInv ==
  \A p \in Controllers : after[p] <= 1 /\ (after[p] = 1 => flag[p] /\ pc[p] # "take")

\* An agent that lived when the processes were listed is told, as one of the list or with
\* its controller's group; a younger one makes the stop late.
WakeInv ==
  LET p == stop.target IN
  /\ \A q \in Controllers : agent[q] # "none" => pc[q] \in {"agent", "gone"}
  /\ stop.pc # "idle" => p \in Controllers
  /\ stop.pc = "listed" /\ ~stop.late /\ cur[p] \in Grouped /\ agent[p] = "alive" =>
       stop.seen = cur[p] /\ cur[p] # 0
  /\ stop.pc \in {"signal", "done"} /\ ~stop.late /\ cur[p] \in Grouped => agent[p] # "alive"
  /\ stop.pc = "done" /\ ~stop.late /\ p \in leader => agent[p] # "alive"
=============================================================================
