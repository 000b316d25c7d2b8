------------------------------ MODULE AIBenchPool ------------------------------
(***************************************************************************)
(* The AIBench coding controller: the cells of a campaign in a thread pool,*)
(* each of them a child process of the common harness, and the main thread *)
(* that records their results as they complete.  One execution: campaign   *)
(* states other than "prepared" are refused.  There is no stop command;    *)
(* an interrupt is a KeyboardInterrupt in the main thread, which the       *)
(* children, in the same process group, get too.                           *)
(***************************************************************************)
EXTENDS Naturals, FiniteSets

CONSTANTS NumCells, CellConcurrency

VARIABLES
  camp, cells,    \* campaign.json: its state and its cells' states
  mem,            \* the main thread's cells
  exper,          \* the cells' experiment.json
  future,         \* the pool: where each submitted cell is
  result,         \* what its future returns or raises
  pc, taken,      \* main thread; the cell whose result it takes
  ran             \* history: children started for each cell

vars == <<camp, cells, mem, exper, future, result, pc, taken, ran>>

Cells == 1..NumCells
States == {"prepared", "running", "completed", "partial", "failed"}
Terminal == {"completed", "partial", "failed"}

TypeOK ==
  /\ camp \in States /\ cells \in [Cells -> States] /\ mem \in [Cells -> States]
  /\ exper \in [Cells -> {"prepared", "running", "finished", "incomplete"}]
  /\ future \in [Cells -> {"none", "queued", "child", "result", "done", "seen"}]
  /\ result \in [Cells -> {"none", "completed", "partial", "error"}]
  /\ pc \in {"idle", "submit", "collect", "update", "save", "verdict", "leave", "over"}
  /\ taken \in 0..NumCells /\ ran \in [Cells -> Nat]

Init ==
  /\ camp = "prepared"
  /\ cells = [c \in Cells |-> "prepared"] /\ mem = cells
  /\ exper = [c \in Cells |-> "prepared"]
  /\ future = [c \in Cells |-> "none"] /\ result = [c \in Cells |-> "none"]
  /\ pc = "idle" /\ taken = 0 /\ ran = [c \in Cells |-> 0]

Execute ==
  /\ pc = "idle" /\ camp = "prepared"
  /\ camp' = "running" /\ pc' = "submit"
  /\ UNCHANGED <<cells, mem, exper, future, result, taken, ran>>

\* Every pending cell is "running" as soon as it is submitted; the file follows
\* when all of them are.
Submit ==
  /\ pc = "submit"
  /\ \/ \E c \in Cells :
          /\ future[c] = "none" /\ \A d \in Cells : d < c => future[d] # "none"
          /\ mem' = [mem EXCEPT ![c] = "running"]
          /\ future' = [future EXCEPT ![c] = "queued"]
          /\ UNCHANGED <<cells, pc>>
     \/ /\ \A c \in Cells : future[c] # "none"
        /\ cells' = mem /\ pc' = "collect"
        /\ UNCHANGED <<mem, future>>
  /\ UNCHANGED <<camp, exper, result, taken, ran>>

-----------------------------------------------------------------------------
(* The pool's threads: _run_cell                                           *)

Busy == {c \in Cells : future[c] \in {"child", "result"}}

\* The sandbox wrappers are copied and the child is started; either may fail.
StartCell(c) ==
  /\ future[c] = "queued" /\ Cardinality(Busy) < CellConcurrency
  /\ \A d \in Cells : d < c => future[d] # "queued"
  /\ \/ /\ future' = [future EXCEPT ![c] = "child"]
        /\ exper' = [exper EXCEPT ![c] = "running"]
        /\ ran' = [ran EXCEPT ![c] = @ + 1]
        /\ UNCHANGED result
     \/ /\ future' = [future EXCEPT ![c] = "done"]
        /\ result' = [result EXCEPT ![c] = "error"]
        /\ UNCHANGED <<exper, ran>>
  /\ UNCHANGED <<camp, cells, mem, pc, taken>>

\* The child ends, by itself or by an interrupt; it may not have got to its verdict.
ChildEnds(c) ==
  /\ future[c] = "child"
  /\ \E e \in {"running", "finished", "incomplete"} : exper' = [exper EXCEPT ![c] = e]
  /\ future' = [future EXCEPT ![c] = "result"]
  /\ UNCHANGED <<camp, cells, mem, result, pc, taken, ran>>

\* Mutant: the child's exit code is enough.
CellResultByCode(c) ==
  /\ future[c] = "result"
  /\ \E code \in {0, 2} :
       result' = [result EXCEPT ![c] = IF code = 0 THEN "completed" ELSE "partial"]
  /\ future' = [future EXCEPT ![c] = "done"]
  /\ UNCHANGED <<camp, cells, mem, exper, pc, taken, ran>>

\* Exit code 0 and a finished experiment; the logs or the file may be unreadable.
CellResult(c) ==
  /\ future[c] = "result"
  /\ \E code \in {0, 2}, readable \in BOOLEAN :
       result' = [result EXCEPT ![c] =
                    IF ~readable THEN "error"
                    ELSE IF code = 0 /\ exper[c] = "finished" THEN "completed" ELSE "partial"]
  /\ future' = [future EXCEPT ![c] = "done"]
  /\ UNCHANGED <<camp, cells, mem, exper, pc, taken, ran>>

-----------------------------------------------------------------------------
(* The main thread: as_completed                                           *)

Collect ==
  /\ pc = "collect"
  /\ \/ \E c \in Cells : /\ future[c] = "done"
                         /\ taken' = c /\ future' = [future EXCEPT ![c] = "seen"]
                         /\ pc' = "update"
     \/ /\ \A c \in Cells : future[c] = "seen"
        /\ pc' = "verdict" /\ UNCHANGED <<taken, future>>
  /\ UNCHANGED <<camp, cells, mem, exper, result, ran>>

\* except BaseException: an interrupt that comes here makes the cell failed.
Update ==
  /\ pc = "update"
  /\ \E s \in {result[taken], "error"} :
       mem' = [mem EXCEPT ![taken] = IF s = "error" THEN "failed" ELSE s]
  /\ pc' = "save"
  /\ UNCHANGED <<camp, cells, exper, future, result, taken, ran>>

Save ==
  /\ pc = "save"
  /\ cells' = mem /\ pc' = "collect"
  /\ UNCHANGED <<camp, mem, exper, future, result, taken, ran>>

Verdict ==
  /\ pc = "verdict"
  /\ camp' = IF \A c \in Cells : mem[c] = "completed" THEN "completed"
             ELSE IF \E c \in Cells : mem[c] \in Terminal THEN "partial" ELSE "failed"
  /\ cells' = mem /\ pc' = "over"
  /\ UNCHANGED <<mem, exper, future, result, taken, ran>>

\* Outside that try the interrupt leaves the with block, which first waits for
\* every submitted cell, queued ones included.
Interrupt ==
  /\ pc \in {"submit", "collect", "save"}
  /\ pc' = "leave"
  /\ UNCHANGED <<camp, cells, mem, exper, future, result, taken, ran>>

Leave ==
  /\ pc = "leave"
  /\ \A c \in Cells : future[c] \in {"none", "done", "seen"}
  /\ pc' = "over"
  /\ UNCHANGED <<camp, cells, mem, exper, future, result, taken, ran>>

Worker(c) == StartCell(c) \/ ChildEnds(c) \/ CellResult(c)
Next ==
  \/ Execute \/ Submit \/ Collect \/ Update \/ Save \/ Verdict \/ Interrupt \/ Leave
  \/ \E c \in Cells : Worker(c)

Spec == Init /\ [][Next]_vars
-----------------------------------------------------------------------------
(* Properties                                                              *)

\* A completed cell has a finished experiment, whose child ran once; a completed
\* campaign has only such cells, all of them recorded (execute_campaign, _run_cell).
CompletedIsReal ==
  /\ \A c \in Cells : cells[c] = "completed" => exper[c] = "finished" /\ ran[c] = 1
  /\ camp = "completed" => \A c \in Cells : cells[c] = "completed"

\* Children are bounded by cell_concurrency, and none is left when the command is
\* over, after an interrupt too.
ChildrenBounded ==
  LET children == {c \in Cells : future[c] = "child"}
  IN Cardinality(children) <= CellConcurrency /\ (pc = "over" => children = {})

\* Without an interrupt the command does not end before every result is recorded.
AllRecorded == (pc = "over" /\ camp # "running") => \A c \in Cells : cells[c] \in Terminal

PoolIsSound == CompletedIsReal /\ ChildrenBounded /\ AllRecorded

-----------------------------------------------------------------------------
(* The inductive invariant behind the three properties.                      *)

\* A child runs once, and "completed" rests on what it left behind, wherever it is said.
ResultInv ==
  \A c \in Cells :
    /\ future[c] \in {"none", "queued"} => ran[c] = 0
    /\ future[c] \in {"child", "result"} => ran[c] = 1
    /\ future[c] \in {"done", "seen"} => result[c] # "none"
    /\ result[c] = "completed" =>
         future[c] \in {"done", "seen"} /\ exper[c] = "finished" /\ ran[c] = 1
    /\ "completed" \in {mem[c], cells[c]} =>
         future[c] = "seen" /\ exper[c] = "finished" /\ ran[c] = 1

\* The main thread: what it has seen it has noted, but for the cell it has in hand; it
\* leaves no cell in the pool, and its verdict is on cells all of which are noted.
CollectInv ==
  /\ pc = "idle" => camp = "prepared" /\ \A c \in Cells : future[c] = "none"
  /\ pc \notin {"idle", "over"} => camp = "running"
  /\ pc = "update" => taken \in Cells /\ future[taken] = "seen"
  /\ pc = "verdict" => \A c \in Cells : future[c] = "seen"
  /\ \A c \in Cells :
       future[c] = "seen" => mem[c] \in Terminal \/ (pc = "update" /\ taken = c)
  /\ pc = "over" => \A c \in Cells : future[c] \in {"none", "done", "seen"}
  /\ pc = "over" /\ camp # "running" => \A c \in Cells : cells[c] \in Terminal
  /\ camp = "completed" => pc = "over" /\ \A c \in Cells : cells[c] = "completed"

\* No more threads hold a child, or its result, than the pool has.
BusyInv == Cardinality(Busy) <= CellConcurrency
=============================================================================
