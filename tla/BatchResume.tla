------------------------------ MODULE BatchResume ------------------------------
(***************************************************************************)
(* The OpenEvolve batch: run_batch executes the prepared cells of a        *)
(* campaign one after the other, records each in campaign-results.json and *)
(* skips what is recorded, over any number of invocations, interrupts and  *)
(* kills.  The results file is rewritten in place, so a kill may cut it.   *)
(***************************************************************************)
EXTENDS Naturals, FiniteSets

CONSTANTS NumCells,
          MaxRuns     \* bound: invocations of run-batch

VARIABLES
  prepared,    \* cells that prepare_batch could prepare
  exper,       \* per cell: status of experiment.json
  disk,        \* campaign-results.json: readable, and the status of each cell in it
  \* the invocation
  selected,    \* cells of the methods it was asked for
  fast,        \* --fail-fast
  mem, cur, outcome, pc,
  code,        \* exit code of the last invocation that returned one, and
  asked,       \* the cells it was asked for
  \* history
  runs, ran, first, broke

invocation == <<selected, fast, mem, cur, outcome, pc, code, asked>>
history == <<runs, ran, first, broke>>
vars == <<prepared, exper, disk, invocation, history>>

Cells == 1..NumCells
Recorded == {"finished", "incomplete", "error", "prepare_failed"}
Results == [Cells -> Recorded \cup {"none"}]
NoResults == [c \in Cells |-> "none"]

TypeOK ==
  /\ prepared \subseteq Cells /\ selected \subseteq Cells /\ asked \subseteq Cells
  /\ exper \in [Cells -> {"none", "prepared", "running", "finished", "incomplete"}]
  /\ disk \in [readable : BOOLEAN, results : Results] /\ mem \in Results /\ first \in Results
  /\ fast \in BOOLEAN /\ broke \in BOOLEAN /\ cur \in 0..NumCells
  /\ outcome \in Recorded \cup {"none"} /\ code \in {0, 2} /\ runs \in Nat
  /\ pc \in {"idle", "loop", "cell", "execute", "record"}
  /\ ran \in [Cells -> Nat]

\* prepare_batch records the cells it could not prepare and goes on.
Init ==
  /\ prepared \in SUBSET Cells
  /\ exper = [c \in Cells |-> IF c \in prepared THEN "prepared" ELSE "none"]
  /\ disk = [readable |-> TRUE, results |-> NoResults]
  /\ selected = {} /\ fast = FALSE /\ mem = NoResults /\ cur = 0 /\ outcome = "none"
  /\ pc = "idle" /\ code = 2 /\ asked = {}
  /\ runs = 0 /\ ran = [c \in Cells |-> 0] /\ first = NoResults /\ broke = FALSE

-----------------------------------------------------------------------------

\* A results file that cannot be parsed ends the command.
RunBatch ==
  /\ pc = "idle" /\ runs < MaxRuns
  /\ runs' = runs + 1 /\ broke' = FALSE
  /\ IF disk.readable
       THEN /\ selected' \in SUBSET Cells \ {{}} /\ fast' \in BOOLEAN
            /\ mem' = disk.results /\ cur' = 0 /\ outcome' = "none"
            /\ pc' = "loop"
       ELSE UNCHANGED <<selected, fast, mem, cur, outcome, pc>>
  /\ UNCHANGED <<prepared, exper, disk, code, asked, ran, first>>

ExitCode == IF \A c \in selected : mem[c] = "finished" THEN 0 ELSE 2

Over == code' = ExitCode /\ asked' = selected /\ pc' = "idle"

\* Mutant: a recorded cell that did not finish is tried again.
NextCellRetrying ==
  /\ pc = "loop"
  /\ LET waiting == {c \in selected : c > cur /\ mem[c] # "finished"} IN
       IF waiting = {} THEN Over /\ UNCHANGED cur
       ELSE /\ cur' = CHOOSE c \in waiting : \A d \in waiting : c <= d
            /\ pc' = "cell" /\ UNCHANGED <<code, asked>>
  /\ UNCHANGED <<prepared, exper, disk, selected, fast, mem, outcome, history>>

\* The next selected cell that is not recorded; when there is none the exit code
\* looks at all recorded results of the selected methods.
NextCell ==
  /\ pc = "loop"
  /\ LET waiting == {c \in selected : c > cur /\ mem[c] = "none"} IN
       IF waiting = {} THEN Over /\ UNCHANGED cur
       ELSE /\ cur' = CHOOSE c \in waiting : \A d \in waiting : c <= d
            /\ pc' = "cell" /\ UNCHANGED <<code, asked>>
  /\ UNCHANGED <<prepared, exper, disk, selected, fast, mem, outcome, history>>

\* Mutant: a cell that could not be prepared keeps the initial status of its result.
RefusedAsIs == IF cur \in prepared THEN "error" ELSE "not_run"

\* The record of a cell that is not executed.
Refused == IF cur \in prepared THEN "error" ELSE "prepare_failed"

\* execute refuses what is not prepared any more; any Exception is an error.
StartCell ==
  /\ pc = "cell"
  /\ IF cur \in prepared /\ exper[cur] = "prepared"
       THEN \/ /\ exper' = [exper EXCEPT ![cur] = "running"]
               /\ ran' = [ran EXCEPT ![cur] = @ + 1]
               /\ pc' = "execute" /\ UNCHANGED outcome
            \/ outcome' = "error" /\ pc' = "record" /\ UNCHANGED <<exper, ran>>
       ELSE /\ outcome' = Refused
            /\ pc' = "record" /\ UNCHANGED <<exper, ran>>
  /\ UNCHANGED <<prepared, disk, selected, fast, mem, cur, code, asked, runs, first, broke>>

CellEnds ==
  /\ pc = "execute"
  /\ \/ \E s \in {"finished", "incomplete"} :
          exper' = [exper EXCEPT ![cur] = s] /\ outcome' = s
     \/ outcome' = "error" /\ UNCHANGED exper
  /\ pc' = "record"
  /\ UNCHANGED <<prepared, disk, selected, fast, mem, cur, code, asked, history>>

Record ==
  /\ pc = "record"
  /\ mem' = [mem EXCEPT ![cur] = outcome]
  /\ disk' = [readable |-> TRUE, results |-> mem']
  /\ first' = IF first[cur] = "none" THEN [first EXCEPT ![cur] = outcome] ELSE first
  /\ IF fast /\ outcome # "finished"
       THEN broke' = TRUE /\ asked' = selected /\ pc' = "idle"
            /\ code' = IF \A c \in selected : mem'[c] \in {"none", "finished"} THEN 0 ELSE 2
       ELSE pc' = "loop" /\ UNCHANGED <<broke, code, asked>>
  /\ UNCHANGED <<prepared, exper, selected, fast, cur, outcome, runs, ran>>

\* An interrupt (not an Exception) or a kill; one while the results are being written
\* leaves half of them.
Stop ==
  /\ pc # "idle"
  /\ pc' = "idle"
  /\ disk' \in {disk} \cup (IF pc = "record" THEN {[disk EXCEPT !.readable = FALSE]} ELSE {})
  /\ UNCHANGED <<prepared, exper, selected, fast, mem, cur, outcome, code, asked, history>>

Next == RunBatch \/ NextCell \/ StartCell \/ CellEnds \/ Record \/ Stop

Spec == Init /\ [][Next]_vars
-----------------------------------------------------------------------------
(* Properties                                                              *)

\* Each cell's agent runs at most once over all invocations, and what was recorded of a
\* cell first stays recorded.
OnceForAll ==
  /\ \A c \in Cells : ran[c] <= 1
  /\ disk.readable => \A c \in Cells : disk.results[c] = first[c]

\* A cell recorded as finished has a finished experiment that ran.
FinishedIsReal ==
  \A c \in Cells : disk.results[c] = "finished" => exper[c] = "finished" /\ ran[c] = 1

\* Exit code 0 is for batches whose selected cells are all finished, whichever
\* invocation ran them; after a fail-fast break it never is.
ExitCodeIsReal ==
  /\ pc = "idle" /\ code = 0 => \A c \in asked : exper[c] = "finished"
  /\ pc = "idle" /\ broke => code = 2

BatchIsSound == OnceForAll /\ FinishedIsReal /\ ExitCodeIsReal

-----------------------------------------------------------------------------
(* The inductive invariant behind the three properties.                    *)

\* An experiment leaves "prepared" with its one run.
RanInv ==
  \A c \in Cells : ran[c] = IF exper[c] \in {"none", "prepared"} THEN 0 ELSE 1

\* An invocation works on what is on disk, which is what was recorded first.
DiskInv ==
  /\ pc # "idle" => disk.readable /\ mem = disk.results
  /\ disk.readable => disk.results = first
  /\ \A c \in Cells : disk.results[c] = "finished" => exper[c] = "finished"

\* The cell in hand is selected and not recorded yet; its outcome is its experiment's.
CellInv ==
  /\ pc \in {"cell", "execute", "record"} => cur \in selected /\ mem[cur] = "none"
  /\ pc = "execute" => exper[cur] = "running"
  /\ pc = "record" => outcome # "none" /\ (outcome = "finished" => exper[cur] = "finished")

\* The exit code stands, and a break is answered by a failure.
CodeInv ==
  /\ code = 0 => \A c \in asked : exper[c] = "finished"
  /\ broke => pc = "idle" /\ code = 2
=============================================================================
