------------------------------- MODULE PlainLanes -------------------------------
(***************************************************************************)
(* A plain experiment of the common harness: execute and execute_plain run *)
(* one agent per lane, run_controlled_many ends them together, every lane  *)
(* is evaluated and one is selected.                                       *)
(*                                                                         *)
(* `only`: the official evaluation is the controller's alone; the lanes    *)
(* are then ranked by name.  An evaluation is a score, or it is rejected,  *)
(* with a number all the same or without any ("bare").                     *)
(***************************************************************************)
EXTENDS Naturals, FiniteSets, FiniteSetsExt

CONSTANT NumLanes

VARIABLES
  only,
  status,       \* experiment.json
  pc, raised,   \* an exception left execute
  lane,         \* per lane: the agent process
  soft, hard,   \* lanes sent SIGTERM; lanes killed
  late,         \* the controller was interrupted while it was polling
  eval, copy,   \* per lane: its evaluation, and whether its artifact was copied
  final,        \* final-eval.json: the lane and its evaluation
  artifact,     \* the lane whose artifact is the experiment's
  torn          \* history: a lane was evaluated while an agent was running

vars == <<only, status, pc, raised, lane, soft, hard, late, eval, copy, final, artifact, torn>>

Lanes == 1..NumLanes
Scores == 1..2            \* the lower the better
Rejected == 3
Bare == 4
Evals == Scores \cup {Rejected, Bare}
None == 0
NoFinal == <<0, None>>

TypeOK ==
  /\ only \in BOOLEAN /\ raised \in BOOLEAN /\ late \in BOOLEAN /\ torn \in BOOLEAN
  /\ status \in {"prepared", "running", "finished", "incomplete"}
  /\ pc \in {"idle", "launch", "poll", "soft", "grace", "reap", "evaluate", "select",
             "verdict", "over"}
  /\ lane \in [Lanes -> {"none", "alive", "zero", "bad"}]
  /\ soft \subseteq Lanes /\ hard \subseteq Lanes /\ copy \subseteq Lanes
  /\ eval \in [Lanes -> Evals \cup {None}]
  /\ final \in (Lanes \X Evals) \cup {NoFinal} /\ artifact \in 0..NumLanes

Init ==
  /\ only \in BOOLEAN /\ status = "prepared" /\ pc = "idle" /\ raised = FALSE
  /\ lane = [l \in Lanes |-> "none"] /\ soft = {} /\ hard = {} /\ late = FALSE
  /\ eval = [l \in Lanes |-> None] /\ copy = {} /\ final = NoFinal /\ artifact = 0
  /\ torn = FALSE

Alive == {l \in Lanes : lane[l] = "alive"}
Results == <<eval, copy, final, artifact, torn>>
Goto(l) == pc' = l /\ UNCHANGED raised
Raise == pc' = "over" /\ raised' = TRUE

-----------------------------------------------------------------------------

\* execute: the seeds of all lanes are evaluated before any agent is started.
Execute ==
  /\ pc = "idle" /\ status = "prepared"
  /\ status' = "running"
  /\ Goto("launch") \/ Raise
  /\ UNCHANGED <<only, lane, soft, hard, late, Results>>

\* One lane after the other; the lanes started before a failing Popen run on.
Launch ==
  /\ pc = "launch"
  /\ LET waiting == {l \in Lanes : lane[l] = "none"} IN
       IF waiting = {} THEN Goto("poll") /\ UNCHANGED lane
       ELSE \/ lane' = [lane EXCEPT ![Min(waiting)] = "alive"] /\ UNCHANGED <<pc, raised>>
            \/ Raise /\ UNCHANGED lane
  /\ UNCHANGED <<only, status, soft, hard, late, Results>>

\* An agent exits, a signalled one with an exit code of any kind.
LaneEnds(l) ==
  /\ lane[l] = "alive"
  /\ \E e \in {"zero", "bad"} : lane' = [lane EXCEPT ![l] = e]
  /\ UNCHANGED <<only, status, pc, raised, soft, hard, late, Results>>

\* All have exited, the deadline has come, or the controller is interrupted.
Poll ==
  /\ pc = "poll"
  /\ late' \in BOOLEAN
  /\ Goto("soft")
  /\ UNCHANGED <<only, status, lane, soft, hard, Results>>

SoftStop ==
  /\ pc = "soft"
  /\ soft' = Alive
  /\ Goto("grace")
  /\ UNCHANGED <<only, status, lane, hard, late, Results>>

\* The grace period is common to all lanes.
Grace ==
  /\ pc = "grace"
  /\ Goto("reap")
  /\ UNCHANGED <<only, status, lane, soft, hard, late, Results>>

\* Mutant: a lane that survived SIGTERM is left to itself.
ReapPolitely ==
  /\ pc = "reap"
  /\ hard' = hard \cup Alive
  /\ Goto("evaluate")
  /\ UNCHANGED <<only, status, lane, soft, late, Results>>

\* Lane by lane: what is still running is killed and waited for.
Reap ==
  /\ pc = "reap"
  /\ IF Alive = {} THEN Goto("evaluate") /\ UNCHANGED <<lane, hard>>
     ELSE /\ lane' = [lane EXCEPT ![Min(Alive)] = "bad"]
          /\ hard' = hard \cup {Min(Alive)}
          /\ UNCHANGED <<pc, raised>>
  /\ UNCHANGED <<only, status, soft, late, Results>>

\* A public evaluation under `only`, else the final one; the artifact is copied.
Evaluate ==
  /\ pc = "evaluate"
  /\ LET waiting == {l \in Lanes : eval[l] = None} IN
       IF waiting = {} THEN Goto("select") /\ UNCHANGED <<eval, copy, torn>>
       ELSE LET l == Min(waiting) IN
            \/ /\ \E e \in Evals : eval' = [eval EXCEPT ![l] = e]
               /\ copy' = copy \cup {l} /\ torn' = (torn \/ Alive # {})
               /\ UNCHANGED <<pc, raised>>
            \/ Raise /\ UNCHANGED <<eval, copy, torn>>
  /\ UNCHANGED <<only, status, lane, soft, hard, late, final, artifact>>

Valid == {l \in Lanes : eval[l] \in Scores}
Pool == IF Valid # {} THEN Valid ELSE Lanes

Best(pool) == {l \in pool : \A m \in pool : eval[l] <= eval[m]}

\* Ranking by score raises where an evaluation of the pool has no number, and so does
\* the record of the selected score.  Under `only` the selected workspace is evaluated.
Select ==
  /\ pc = "select"
  /\ \/ /\ ~only /\ \E l \in Pool : eval[l] = Bare
        /\ Raise /\ UNCHANGED <<final, artifact>>
     \/ /\ ~only /\ \A l \in Pool : eval[l] # Bare
        /\ \E l \in (IF Valid = {} THEN Lanes ELSE {Min(Best(Valid))}) :
             final' = <<l, eval[l]>> /\ artifact' = l
        /\ Goto("verdict")
     \/ /\ only
        /\ \E e \in Evals :
             /\ final' = <<Min(Pool), e>> /\ artifact' = Min(Pool)
             /\ IF e = Bare THEN Raise ELSE Goto("verdict")
  /\ UNCHANGED <<only, status, lane, soft, hard, late, eval, copy, torn>>

\* Every lane exited with 0 and was not killed, some lane is valid, so is the final
\* evaluation, and the controller was not interrupted.
Verdict ==
  /\ pc = "verdict"
  /\ status' = IF /\ \A l \in Lanes : lane[l] = "zero" /\ l \notin hard
                  /\ Valid # {} /\ final[2] \in Scores /\ ~late
               THEN "finished" ELSE "incomplete"
  /\ Goto("over")
  /\ UNCHANGED <<only, lane, soft, hard, late, Results>>

\* An interrupt outside the polling loop, or a second one, is caught by nobody.
Interrupt ==
  /\ pc \notin {"idle", "poll", "over"}
  /\ Raise
  /\ UNCHANGED <<only, status, lane, soft, hard, late, Results>>

Next ==
  \/ Execute \/ Launch \/ Poll \/ SoftStop \/ Grace \/ Reap \/ Evaluate \/ Select \/ Verdict
  \/ Interrupt \/ \E l \in Lanes : LaneEnds(l)

Spec == Init /\ [][Next]_vars
-----------------------------------------------------------------------------
(* Properties                                                              *)

\* No lane is evaluated while an agent of any lane may still write, whichever lane used
\* up the common grace period (run_controlled_many, execute_plain).
EvaluatedQuiet == ~torn

\* A finished experiment: every agent exited by itself or cleanly, the evaluation on
\* record is of the lane whose artifact was delivered, and where the lanes are ranked by
\* score no valid lane has a better one.
FinishedIsBest ==
  status = "finished" =>
    /\ Alive = {} /\ hard = {} /\ ~late
    /\ artifact = final[1] /\ artifact \in copy /\ final[2] \in Scores
    /\ ~only => \A l \in Valid : final[2] <= eval[l]

\* An agent outlives the command only where an exception left execute.
NoLaneLeft == pc = "over" /\ ~raised => Alive = {}

LanesAreSound == EvaluatedQuiet /\ FinishedIsBest /\ NoLaneLeft

-----------------------------------------------------------------------------
(* The inductive invariant behind the three properties.                    *)

\* From the end of the reaping on no agent runs, and what is ranked was evaluated.
QuietInv ==
  /\ pc \in {"evaluate", "select", "verdict"} => Alive = {}
  /\ IF pc = "over" THEN raised \/ Alive = {} ELSE ~raised
  /\ \A l \in Lanes : eval[l] # None => l \in copy
  /\ pc \in {"select", "verdict"} => \A l \in Lanes : eval[l] # None
  /\ ~torn

\* The selected lane is the one that was finally evaluated, and the best by its score.
BestInv ==
  pc = "verdict" \/ status = "finished" =>
    /\ artifact = final[1] /\ artifact \in copy
    /\ ~only => \A l \in Valid : final[2] <= eval[l]

FinishedInv ==
  status = "finished" =>
    /\ pc = "over" /\ ~raised /\ hard = {} /\ ~late
    /\ final[2] \in Scores
=============================================================================
