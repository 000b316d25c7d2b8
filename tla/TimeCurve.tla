------------------------------- MODULE TimeCurve -------------------------------
(***************************************************************************)
(* The time curve of an EdgeBench cell, extracted while the cell runs and  *)
(* the judge is still reporting: one row per checkpoint, each read file by *)
(* file; and the fast reference collected from the curve that was written. *)
(* Submissions enter run_history.json in the order they were made; their   *)
(* reports arrive in any order, after the end of the cell as well.         *)
(***************************************************************************)
EXTENDS Naturals, Sequences, FiniteSetsExt

CONSTANTS
  NumAnchors,      \* auto-eval rounds before the full budget
  MaxEntries, MaxExtracts,
  \* What the judge can report of a submission, numbered: how the task's policy and direction
  \* (selection, score_direction) rank it, its score_0_100, whether it has one, its validity.
  NumReports, Rank, Points, Scaled, Valid

VARIABLES
  cell, full,        \* the cell's state; it ran for its whole budget
  history,           \* the rounds of run_history.json (0 for the agent's own)
  report,            \* per entry: the judge's report, or none yet
  ticks,             \* auto_eval_ticks.log: per round, the entry it names
  issue,             \* comparison.json knows of a protocol issue of the cell
  pc, extracts,      \* the extraction's step; extractions begun
  sawCell, k, sawHistory, sawReport,   \* what it has read, and the checkpoint at work
  rows, curve,       \* the rows so far; timecurve.json
  collecting, reference   \* the rows a collection has read; per boundary, the report it took

vars == <<cell, full, history, report, ticks, issue, pc, extracts, sawCell, k, sawHistory,
          sawReport, rows, curve, collecting, reference>>

Entries == 1..MaxEntries
Checkpoints == 1..NumAnchors + 1
Budget == NumAnchors + 1
None == 0
Reports == 1..NumReports
NoFile == <<>>          \* the file comes with the first entry
NoReport == [i \in Entries |-> None]
Shown == {"available", "raw only"}
Row == [status : {"unread", "not started", "pending", "missing", "not scored"} \cup Shown,
        strict : BOOLEAN, count : 0..MaxEntries, best : 0..MaxEntries, said : {None} \cup Reports]
Unread == [status |-> "unread", strict |-> FALSE, count |-> 0, best |-> 0, said |-> None]
NoRows == [c \in Checkpoints |-> Unread]
NoTicks == [a \in 1..NumAnchors |-> None]
NoReference == [c \in Checkpoints |-> None]

TypeOK ==
  /\ cell \in {"prepared", "running", "completed", "failed"} /\ full \in BOOLEAN
  /\ history \in Seq(0..NumAnchors) /\ sawHistory \in Seq(0..NumAnchors)
  /\ Len(history) <= MaxEntries
  /\ {report, sawReport} \subseteq [Entries -> {None} \cup Reports]
  /\ ticks \in [1..NumAnchors -> {None} \cup Entries]
  /\ issue \in BOOLEAN /\ pc \in {"idle", "history", "reports", "row", "write"}
  /\ extracts \in 0..MaxExtracts /\ sawCell \in {"prepared", "running", "completed", "failed"}
  /\ k \in Checkpoints /\ rows \in [Checkpoints -> Row] /\ curve \in [Checkpoints -> Row]
  /\ collecting \in [Checkpoints -> Row]
  /\ reference \in [Checkpoints -> {None} \cup Reports]

Init ==
  /\ cell = "prepared" /\ full = FALSE /\ history = NoFile /\ report = NoReport
  /\ ticks = NoTicks /\ issue = FALSE /\ pc = "idle" /\ extracts = 0 /\ sawCell = "prepared" /\ k = 1
  /\ sawHistory = NoFile /\ sawReport = NoReport
  /\ rows = NoRows /\ curve = NoRows /\ collecting = NoRows /\ reference = NoReference

Cell == <<cell, full, history, report, ticks, issue>>
Extraction == <<pc, extracts, sawCell, k, sawHistory, sawReport, rows, curve>>
Reference == <<collecting, reference>>

-----------------------------------------------------------------------------
\* The cell, the judge, and the finalizer.

StartCell ==
  /\ cell = "prepared" /\ cell' = "running"
  /\ UNCHANGED <<full, history, report, ticks, issue, Extraction, Reference>>

\* The agent submits, or the next auto-eval round is due.
Submit ==
  /\ cell = "running" /\ Len(history) < MaxEntries
  /\ LET due == 1 + Cardinality({i \in DOMAIN history : history[i] # 0}) IN
     \E round \in {0} \cup ({due} \cap (1..NumAnchors)) : history' = Append(history, round)
  /\ UNCHANGED <<cell, full, report, ticks, issue, Extraction, Reference>>

\* Its submission may come into the history before or after the line, or be another's.
LogTick(a) ==
  /\ cell = "running" /\ ticks[a] = None
  /\ \E i \in Entries : ticks' = [ticks EXCEPT ![a] = i]
  /\ UNCHANGED <<cell, full, history, report, issue, Extraction, Reference>>

Judge(i) ==
  /\ i <= Len(history) /\ report[i] = None
  /\ \E r \in Reports : report' = [report EXCEPT ![i] = r]
  /\ UNCHANGED <<cell, full, history, ticks, issue, Extraction, Reference>>

EndCell ==
  /\ cell = "running" /\ cell' \in {"completed", "failed"} /\ full' \in BOOLEAN
  /\ UNCHANGED <<history, report, ticks, issue, Extraction, Reference>>

\* The finalizer looks at the cell and names what was wrong with it.
FindIssue ==
  /\ cell \in {"completed", "failed"} /\ ~issue /\ issue' = TRUE
  /\ UNCHANGED <<cell, full, history, report, ticks, Extraction, Reference>>

-----------------------------------------------------------------------------
\* build_timecurve: cell.json once, and then the files behind each row.

ReadCell ==
  /\ pc = "idle" /\ extracts < MaxExtracts /\ extracts' = extracts + 1
  /\ sawCell' = cell /\ k' = 1 /\ rows' = NoRows /\ pc' = "history"
  /\ UNCHANGED <<Cell, sawHistory, sawReport, curve, Reference>>

\* merged_history: the entries first, and then the reports that have arrived.
ReadHistory ==
  /\ pc = "history" /\ sawHistory' = history /\ pc' = "reports"
  /\ UNCHANGED <<Cell, extracts, sawCell, k, sawReport, rows, curve, Reference>>

ReadReports ==
  /\ pc = "reports" /\ sawReport' = report /\ pc' = "row"
  /\ UNCHANGED <<Cell, extracts, sawCell, k, sawHistory, rows, curve, Reference>>

\* The entry of an auto-eval round, if it is there.
Anchor(a) ==
  LET at == {i \in 1..Len(sawHistory) : sawHistory[i] = a} IN IF at = {} THEN None ELSE Min(at)

\* select_checkpoint_best over a prefix: SForge's select_best names one of those the task ranks
\* highest; which of equals is its own affair.
Scored(n) == {i \in 1..n : sawReport[i] # None}
Best(n) ==
  {i \in Scored(n) : \A j \in Scored(n) : Rank[sawReport[j]] <= Rank[sawReport[i]]}

\* The rows a prefix can come to.
Chosen(n, isStrict) ==
  IF Scored(n) = {}
  THEN {[Unread EXCEPT !.status = "not scored", !.strict = isStrict, !.count = n]}
  ELSE {[status |-> IF sawReport[i] \in Scaled THEN "available" ELSE "raw only",
         strict |-> isStrict, count |-> n, best |-> i, said |-> sawReport[i]] : i \in Best(n)}
Without(why) == {[Unread EXCEPT !.status = why]}

\* Mutant: the full budget is read from whatever history there is.
FullRowAnyway == Chosen(Len(sawHistory), full)

\* The full budget: the whole history of a cell that has completed.
FullRow ==
  IF sawCell = "completed" THEN Chosen(Len(sawHistory), full) ELSE Without("pending")

\* An earlier checkpoint: the history up to its auto-eval round; strict if the log names that
\* submission for the round.
AnchorRow(a) ==
  IF Anchor(a) = None THEN Without(IF sawCell = "running" THEN "pending" ELSE "missing")
  ELSE Chosen(Anchor(a), ticks[a] = Anchor(a))

\* ordinary_checkpoint_row; the next row reads the files anew.
MakeRow ==
  /\ pc = "row"
  /\ \E row \in IF sawHistory = NoFile
                THEN Without(CASE sawCell = "prepared" -> "not started"
                               [] sawCell = "running" -> "pending" [] OTHER -> "missing")
                ELSE IF k = Budget THEN FullRow ELSE AnchorRow(k) :
       rows' = [rows EXCEPT ![k] = row]
  /\ IF k = Budget THEN pc' = "write" /\ UNCHANGED k ELSE pc' = "history" /\ k' = k + 1
  /\ sawHistory' = NoFile /\ sawReport' = NoReport
  /\ UNCHANGED <<Cell, extracts, sawCell, curve, Reference>>

WriteCurve ==
  /\ pc = "write" /\ curve' = rows /\ pc' = "idle"
  /\ rows' = NoRows /\ k' = 1 /\ sawCell' = "prepared"
  /\ UNCHANGED <<Cell, extracts, sawHistory, sawReport, Reference>>

-----------------------------------------------------------------------------
\* collect_local_fast_reference: the curve, then comparison.json.

ReadCurve ==
  /\ collecting = NoRows /\ curve # NoRows /\ collecting' = curve
  /\ UNCHANGED <<Cell, Extraction, reference>>

Eligible(boundary) ==
  {c \in 1..boundary : /\ ~issue /\ collecting[c].status = "available" /\ collecting[c].strict
                       /\ collecting[c].said \in Valid}

\* The highest score_0_100, and the latest checkpoint among equals.
Leading(boundary) ==
  {c \in Eligible(boundary) : \A d \in Eligible(boundary) :
     Points[collecting[d].said] <= Points[collecting[c].said]}

Collect ==
  /\ collecting # NoRows /\ collecting' = NoRows
  /\ reference' = [b \in Checkpoints |->
       IF Eligible(b) = {} THEN None ELSE collecting[Max(Leading(b))].said]
  /\ UNCHANGED <<Cell, Extraction>>

Next ==
  \/ StartCell \/ Submit \/ EndCell \/ FindIssue
  \/ \E a \in 1..NumAnchors : LogTick(a)
  \/ \E i \in Entries : Judge(i)
  \/ ReadCell \/ ReadHistory \/ ReadReports \/ MakeRow \/ WriteCurve \/ ReadCurve \/ Collect

Spec == Init /\ [][Next]_vars

-----------------------------------------------------------------------------
Position(a) == CHOOSE i \in 1..Len(history) : history[i] = a

\* A row before the full budget rests on the submissions up to its auto-eval round, and a
\* row at the full budget on all the cell ever made, however long the judge took and
\* whenever the extraction began (cell.json is read before the history).
RowsKeepTheirBoundary ==
  \A c \in Checkpoints : curve[c].status \in Shown =>
    curve[c].count = IF c = Budget THEN Len(history) ELSE Position(c)

\* In one curve a later checkpoint never shows a submission that the task ranks below an
\* earlier checkpoint's, though every row reads the files anew (select_checkpoint_best).  Its
\* score_0_100 may well be lower: the policy need not go by it.
ChoiceNeverWorsens ==
  \A c, d \in Checkpoints :
    c < d /\ curve[c].status \in Shown /\ curve[d].status \in Shown =>
      Rank[curve[c].said] <= Rank[curve[d].said]

\* The reference of a boundary is a valid report of a submission made within it, of a round
\* that was logged under that round's submission or of a cell that ran for its budget; its
\* score_0_100 rises with the boundary, whatever the policy (collect_local_fast_reference).
ReferenceIsWithin ==
  \A b \in Checkpoints : reference[b] # None =>
    /\ reference[b] \in Valid \cap Scaled
    /\ \E i \in 1..Len(history) :
         /\ report[i] = reference[b]
         /\ \/ \E a \in 1..NumAnchors :
                 a <= b /\ ticks[a] \in i..Len(history) /\ history[ticks[a]] = a
            \/ b = Budget /\ full
    /\ \A d \in b..Budget : reference[d] # None /\ Points[reference[b]] <= Points[reference[d]]

CurveIsSound == RowsKeepTheirBoundary /\ ChoiceNeverWorsens /\ ReferenceIsWithin

-----------------------------------------------------------------------------
(* The inductive invariant behind the three properties.                    *)

Rounds == {i \in 1..Len(history) : history[i] # 0}

\* The rounds were submitted in their order, each once; a report is of an entry; a cell
\* that has not begun has no history.
HistoryInv ==
  /\ \A i \in Rounds : history[i] <= Cardinality(Rounds)
  /\ \A i, j \in Rounds : i < j => history[i] < history[j]
  /\ \A i \in Entries : report[i] # None => i <= Len(history)

\* A row tells what was known of the submissions it counts; what it tells stays true.
RowIsTrue(c, r) ==
  r.status \in Shown =>
    /\ r.count \in 1..Len(history) /\ r.best \in 1..r.count
    /\ report[r.best] = r.said /\ r.said # None
    /\ r.status = "available" => r.said \in Scaled
    /\ c = Budget => cell = "completed" /\ r.count = Len(history) /\ (r.strict => full)
    /\ c # Budget => history[r.count] = c /\ (r.strict => ticks[c] = r.count)
Rises(r) ==
  \A c, d \in Checkpoints :
    c < d /\ r[c].status \in Shown /\ r[d].status \in Shown =>
      Rank[r[c].said] <= Rank[r[d].said]
RowsInv ==
  /\ \A c \in Checkpoints :
       RowIsTrue(c, rows[c]) /\ RowIsTrue(c, curve[c]) /\ RowIsTrue(c, collecting[c])
  /\ Rises(rows) /\ Rises(curve) /\ Rises(collecting)

\* The extraction has read a beginning of the history, and reports that are newer than the
\* rows it has made; of a completed cell it has read the whole history.
ReadInv ==
  /\ sawCell = "completed" /\ pc # "idle" => cell = "completed"
  /\ \A c \in Checkpoints : rows[c].status \in Shown => c < k \/ pc = "write"
  /\ pc \in {"reports", "row"} =>
       /\ Len(sawHistory) <= Len(history)
       /\ \A i \in 1..Len(sawHistory) : sawHistory[i] = history[i]
       /\ sawCell = "completed" => Len(sawHistory) = Len(history)
       /\ \A c \in 1..(k - 1) : rows[c].status \in Shown => rows[c].count <= Len(sawHistory)
  /\ pc = "row" =>
       /\ \A i \in Entries : sawReport[i] # None => sawReport[i] = report[i]
       /\ \A c \in 1..(k - 1) : rows[c].status \in Shown =>
            sawReport[rows[c].best] = rows[c].said

\* The reference of a boundary is of a submission within a logged round, or within the
\* budget of a cell that has used it up.
Within(b, i) ==
  \/ \E a \in 1..NumAnchors :
       a <= b /\ ticks[a] \in 1..Len(history) /\ history[ticks[a]] = a /\ i <= ticks[a]
  \/ b = Budget /\ cell = "completed" /\ full
ReferenceInv ==
  \A b \in Checkpoints : reference[b] # None =>
    /\ reference[b] \in Valid \cap Scaled
    /\ \E i \in 1..Len(history) : report[i] = reference[b] /\ Within(b, i)
    /\ \A d \in b..Budget : reference[d] # None /\ Points[reference[b]] <= Points[reference[d]]
=============================================================================
