----------------------------- MODULE ZSoftCampaign -----------------------------
(***************************************************************************)
(* The ZSoft SWE-agent controller: cells one after the other, each the     *)
(* upstream launcher as a child process, the official scorer on what it    *)
(* submitted, and the reasons for which a cell is not complete.  It runs   *)
(* in the foreground; an interrupt reaches controller and child alike.     *)
(***************************************************************************)
EXTENDS Naturals

CONSTANT NumCells

VARIABLES
  camp, cells,    \* campaign.json
  mem, cur,       \* the controller's cells; the one at work
  active,         \* controller.json: active
  native,         \* per cell: run-metrics.json and submission/ in its run directory
  child, code,    \* the launcher runs; its exit code
  scored,         \* what the scorer says of the submission
  interrupted, pc,
  started         \* history: launchers started after an interrupt

vars == <<camp, cells, mem, cur, active, native, child, code, scored, interrupted, pc, started>>

Cells == 1..NumCells
Terminal == {"completed", "partial", "failed", "interrupted"}
States == {"prepared", "running"} \cup Terminal

\* Evidence: whose it is, and whether it is complete.
Nothing == [of |-> "nobody", whole |-> FALSE]
Evidence == [of : {"earlier", "this"}, whole : BOOLEAN] \cup {Nothing}

TypeOK ==
  /\ camp \in States /\ cells \in [Cells -> States] /\ mem \in [Cells -> States]
  /\ cur \in 0..NumCells /\ native \in [Cells -> Evidence]
  /\ {active, child, scored, interrupted} \subseteq BOOLEAN
  /\ code \in {"ok", "bad"} /\ started \in Nat
  /\ pc \in {"idle", "active", "loop", "cell", "child", "score", "save", "leave", "final",
             "over"}

\* A run directory may hold what the launcher left there in a run by hand.
Init ==
  /\ camp = "prepared" /\ cells = [c \in Cells |-> "prepared"] /\ mem = cells /\ cur = 0
  /\ active = FALSE
  /\ native \in [Cells -> {Nothing, [of |-> "earlier", whole |-> TRUE]}]
  /\ child = FALSE /\ code = "bad" /\ scored = FALSE
  /\ interrupted = FALSE /\ pc = "idle" /\ started = 0

Execute ==
  /\ pc = "idle" /\ camp = "prepared"
  /\ camp' = "running" /\ pc' = "active"
  /\ UNCHANGED <<cells, mem, cur, active, native, child, code, scored, interrupted, started>>

Activate ==
  /\ pc = "active"
  /\ active' = TRUE /\ pc' = "loop"
  /\ UNCHANGED <<camp, cells, mem, cur, native, child, code, scored, interrupted, started>>

\* Mutant: what the run directory holds stays there.
TakeCellAsIs ==
  /\ pc = "loop"
  /\ IF cur = NumCells THEN pc' = "leave" /\ UNCHANGED <<cur, mem, cells>>
     ELSE /\ cur' = cur + 1
          /\ mem' = [mem EXCEPT ![cur + 1] = "running"] /\ cells' = mem'
          /\ pc' = "cell"
  /\ UNCHANGED <<camp, active, native, child, code, scored, interrupted, started>>

\* A run directory that exists is moved away (preserve_conflict).
TakeCell ==
  /\ pc = "loop"
  /\ IF cur = NumCells THEN pc' = "leave" /\ UNCHANGED <<cur, mem, cells, native>>
     ELSE /\ cur' = cur + 1
          /\ native' = [native EXCEPT ![cur + 1] = Nothing]
          /\ mem' = [mem EXCEPT ![cur + 1] = "running"] /\ cells' = mem'
          /\ pc' = "cell"
  /\ UNCHANGED <<camp, active, child, code, scored, interrupted, started>>

Settle(s) == mem' = [mem EXCEPT ![cur] = s] /\ pc' = "save"

\* The launcher is started, or it cannot be (except BaseException).
StartChild ==
  /\ pc = "cell"
  /\ \/ child' = TRUE /\ pc' = "child" /\ UNCHANGED mem
        /\ started' = IF interrupted THEN started + 1 ELSE started
     \/ Settle("failed") /\ UNCHANGED <<child, started>>
  /\ UNCHANGED <<camp, cells, cur, active, native, code, scored, interrupted>>

\* The launcher leaves nothing, or evidence of whatever quality.
ChildEnds ==
  /\ child
  /\ child' = FALSE
  /\ native' \in {native} \cup {[native EXCEPT ![cur] = [of |-> "this", whole |-> w]] : w \in BOOLEAN}
  /\ code' \in {"ok", "bad"}
  /\ UNCHANGED <<camp, cells, mem, cur, active, scored, interrupted, pc, started>>

\* The scorer is asked only if there is a submission.
ScoreSubmission ==
  /\ pc = "child" /\ ~child
  /\ scored' \in (IF native[cur] = Nothing THEN {FALSE} ELSE BOOLEAN)
  /\ pc' = "score"
  /\ UNCHANGED <<camp, cells, mem, cur, active, native, child, code, interrupted, started>>

\* completion_reasons: exit code, metrics with identity and tokens, score.
Judge ==
  /\ pc = "score"
  /\ \/ Settle(IF code = "ok" /\ native[cur].whole /\ scored THEN "completed" ELSE "partial")
     \/ Settle("failed")
  /\ UNCHANGED <<camp, cells, cur, active, native, child, code, scored, interrupted, started>>

SaveCell ==
  /\ pc = "save"
  /\ cells' = mem
  /\ pc' = IF interrupted THEN "leave" ELSE "loop"
  /\ UNCHANGED <<camp, mem, cur, active, native, child, code, scored, interrupted, started>>

\* The cell's own handler took the interrupt.
Caught == cur \in Cells /\ mem[cur] = "interrupted"

\* The finally block; what was raised outside the cell's own try goes on from here.
LeaveLoop ==
  /\ pc = "leave"
  /\ active' = FALSE
  /\ pc' = IF interrupted /\ ~Caught THEN "over" ELSE "final"
  /\ UNCHANGED <<camp, cells, mem, cur, native, child, code, scored, interrupted, started>>

Final ==
  /\ pc = "final"
  /\ camp' = IF interrupted THEN "interrupted"
             ELSE IF \A c \in Cells : mem[c] = "completed" THEN "completed"
             ELSE IF \E c \in Cells : mem[c] \in Terminal THEN "partial" ELSE "failed"
  /\ pc' = "over"
  /\ UNCHANGED <<cells, mem, cur, active, native, child, code, scored, interrupted, started>>

\* A KeyboardInterrupt in a cell's try ends the cell (subprocess.run kills a child that
\* does not follow it); in the loop around it, it ends the campaign as it is.
Interrupt ==
  /\ ~interrupted /\ pc \in {"loop", "cell", "child", "score", "save"}
  /\ interrupted' = TRUE /\ child' = FALSE
  /\ IF pc \in {"cell", "child", "score"} THEN Settle("interrupted")
     ELSE pc' = "leave" /\ UNCHANGED mem
  /\ UNCHANGED <<camp, cells, cur, active, native, code, scored, started>>

Next ==
  \/ Execute \/ Activate \/ TakeCell \/ StartChild \/ ChildEnds \/ ScoreSubmission \/ Judge
  \/ SaveCell \/ LeaveLoop \/ Final \/ Interrupt

Spec == Init /\ [][Next]_vars
-----------------------------------------------------------------------------
(* Properties                                                              *)

\* A completed cell is complete by what its own launcher left, whatever the run
\* directory held before; a completed campaign has only such cells.
CompletedIsReal ==
  /\ \A c \in Cells : cells[c] = "completed" => native[c] = [of |-> "this", whole |-> TRUE]
  /\ camp = "completed" => \A c \in Cells : cells[c] = "completed"

\* An interrupt is the end: no launcher is started after it, none is left when the
\* command is over, and the campaign does not read completed.
InterruptEnds ==
  /\ started = 0
  /\ pc = "over" => ~child /\ ~active /\ (interrupted => camp \in {"running", "interrupted"})

ZSoftIsSound == CompletedIsReal /\ InterruptEnds

-----------------------------------------------------------------------------
(* The inductive invariant behind the two properties.                        *)

\* What is at hand in the cell at work is its own launcher's, and "completed" rests on it;
\* the cells to come are as they were prepared.
EvidenceInv ==
  /\ pc \in {"cell", "child", "score", "save"} => cur \in Cells /\ cells[cur] = "running"
  /\ pc \in {"cell", "child", "score"} =>
       mem[cur] = "running" /\ (native[cur] = Nothing \/ native[cur].of = "this")
  /\ \A c \in Cells : c > cur => mem[c] = "prepared" /\ cells[c] = "prepared"
  /\ \A c \in Cells : "completed" \in {mem[c], cells[c]} =>
       native[c] = [of |-> "this", whole |-> TRUE]

\* The file follows the controller's cells, until an interrupt comes between them.
SavedInv ==
  /\ pc \notin {"save", "leave", "final", "over"} \/ (pc # "save" /\ ~interrupted) => cells = mem
  /\ pc = "save" => \A c \in Cells \ {cur} : cells[c] = mem[c]

\* The launcher runs only while the controller waits for it, and nothing is begun after an
\* interrupt.
EndInv ==
  /\ child => pc = "child"
  /\ interrupted => pc \in {"save", "leave", "final", "over"}
  /\ started = 0
  /\ active => pc \notin {"idle", "active", "final", "over"}
  /\ pc = "idle" => camp = "prepared"
  /\ pc \notin {"idle", "over"} => camp = "running"
  /\ pc = "over" /\ interrupted => camp \in {"running", "interrupted"}
  /\ camp = "completed" => pc = "over" /\ \A c \in Cells : cells[c] = "completed"
=============================================================================
