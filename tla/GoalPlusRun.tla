---------------------------- MODULE GoalPlusRun ----------------------------
(***************************************************************************)
(* One Goal Plus experiment directory: the agent under run_controlled, the *)
(* closeout that the controller owns (finalize_goal_plus_search), the      *)
(* final evaluation, the verdict in experiment.json, and repair_closeout,  *)
(* which goes over all of it again after an interruption.                  *)
(*                                                                         *)
(* Two harnesses share the closeout: openevolve_compare and                *)
(* benchmark_compare ("common"); the latter has the options `only`         *)
(* (controller_only_official_evaluation), `gate` (deterministic public     *)
(* gate), `judge` (candidate judge) and `posthoc` (posthoc selection).     *)
(*                                                                         *)
(* A candidate's evidence is the sequence of the scores of its iterations; *)
(* 0 is an iteration that is not publicly compliant.  An artifact is named *)
(* <<candidate, iteration>>.  Goal Plus itself is external: its selection, *)
(* promotion and publication are modelled from how the code uses them.     *)
(***************************************************************************)
EXTENDS Naturals, Sequences, FiniteSetsExt

CONSTANTS NumCands,       \* candidates of the Search run
          MaxIterations,  \* bound: iterations of all candidates together
          MaxRepairs,     \* bound: how many times closeout is repaired
          MaxCrashes      \* bound: how many commands are killed

ASSUME SizesAssumption == NumCands \in Nat \ {0} /\ MaxIterations \in Nat
ASSUME BoundsAssumption == MaxRepairs \in Nat /\ MaxCrashes \in Nat

VARIABLES
  mode,       \* the prepared configuration
  \* files
  status,     \* status of experiment.json
  author,     \* the command that wrote it last
  noted,      \* hard_killed as experiment.json remembers it
  goal,       \* goal.json: its status
  linked,     \* the goal has its search result
  search,     \* run.json: its state
  sel,        \* run.json: selected candidate and iteration
  best,       \* run.json: best_candidate_id
  ev,         \* candidate.json files: scores of the iterations
  receipt,    \* candidate-judge.json: the artifact it selects
  published,  \* Goal Plus' publication record is applied
  artifact,   \* what the task workspace holds
  scored,     \* what final-eval.json evaluates
  delivered,  \* the artifact copied into the experiment directory
  \* the agent
  alive, code,
  \* the command in progress
  cmd, pc, why, killed, snapshot, pick, held, closed, final,
  \* history
  asked,      \* calls of the judge's provider
  grown,      \* an iteration was recorded after a snapshot was taken
  repairs, crashes

config   == <<mode>>
verdict  == <<status, author, noted>>
goals    == <<goal, linked>>
run      == <<search, sel, best, ev>>
outputs  == <<published, artifact, scored, delivered>>
agent    == <<alive, code>>
control  == <<cmd, why, killed>>
locals   == <<snapshot, pick, held, closed, final>>
history  == <<asked, grown, repairs, crashes>>
vars     == <<config, verdict, goals, run, receipt, outputs, agent, control, pc,
              locals, history>>

None == <<>>
Seed == <<0, 0>>
Twice == <<0, 1>>     \* a workspace to which a patch was applied twice

Cands == 1..NumCands
Scores == 0..2
Picks == Cands \X (Nat \ {0})

\* A closeout that the controller owns requires a Goal Plus that can publish; an
\* older one has no such tool, and the promotion is applied as a patch.
Modes ==
  {[harness |-> "openevolve", only |-> FALSE, gate |-> FALSE, judge |-> FALSE,
    posthoc |-> FALSE, tool |-> t] : t \in BOOLEAN}
  \cup {m \in [harness : {"common"}, only : BOOLEAN, gate : BOOLEAN, judge : BOOLEAN,
               posthoc : BOOLEAN, tool : BOOLEAN] :
          (m.gate => m.only) /\ (m.posthoc => m.gate) /\ (m.gate \/ m.judge => m.tool)}

\* controller_owned_closeout: the agent may not select, promote or complete.
Owned == mode.gate \/ mode.judge

CloseoutPoints == {"goals", "reuse", "prepare", "verify", "judge", "receipt", "select",
                   "promote", "recover", "again", "publish", "record", "complete"}
Points == {"idle", "seed", "agent", "soft", "drain", "final", "deliver", "posthoc",
           "score", "verdict"}
          \cup CloseoutPoints

\* Types; the workspace holds the seed or one candidate's artifact, never a patch
\* applied twice (_apply_promotion and its reverse check).
TypeOK ==
  /\ mode \in Modes
  /\ status \in {"prepared", "running", "finished", "incomplete"}
  /\ author \in {"prepare", "execute", "repair"} /\ noted \in BOOLEAN
  /\ goal \in {"none", "active", "blocked", "complete"} /\ linked \in BOOLEAN
  /\ search \in {"none", "open", "ready", "promoted"}
  /\ sel \in Picks \cup {None} /\ best \in Cands \cup {0}
  /\ ev \in [Cands -> Seq(Scores)]
  /\ receipt \in Picks \cup {None} /\ held \in Picks \cup {None}
  /\ published \in BOOLEAN
  /\ artifact \in Picks \cup {Seed}
  /\ {scored, delivered} \subseteq Picks \cup {Seed, None}
  /\ alive \in BOOLEAN /\ code \in {"none", "ok", "term", "bad"}
  /\ cmd \in {"execute", "repair"} /\ pc \in Points
  /\ why \in {"exit", "deadline", "early", "interrupt"} /\ killed \in BOOLEAN
  /\ snapshot \in Picks \cup {None} /\ pick \in Picks \cup {None}
  /\ closed \in BOOLEAN /\ final \in BOOLEAN
  /\ asked \in Nat /\ grown \in BOOLEAN
  /\ repairs \in 0..MaxRepairs /\ crashes \in 0..MaxCrashes

\* What prepare leaves: a workspace with the seed artifact and no .gp.
Init ==
  /\ mode \in Modes
  /\ status = "prepared" /\ author = "prepare" /\ noted = FALSE
  /\ goal = "none" /\ linked = FALSE
  /\ search = "none" /\ sel = None /\ best = 0 /\ ev = [c \in Cands |-> <<>>]
  /\ receipt = None
  /\ published = FALSE /\ artifact = Seed /\ scored = None /\ delivered = None
  /\ alive = FALSE /\ code = "none"
  /\ cmd = "execute" /\ pc = "idle" /\ why = "exit" /\ killed = FALSE
  /\ snapshot = None /\ pick = None /\ held = None /\ closed = FALSE /\ final = FALSE
  /\ asked = 0 /\ grown = FALSE /\ repairs = 0 /\ crashes = 0

-----------------------------------------------------------------------------
(* Evidence and the rules that choose from it                              *)

Size == SumFunction([c \in Cands |-> Len(ev[c])])
Compliant(c) == {i \in DOMAIN ev[c] : ev[c][i] > 0}
Eligible == {c \in Cands : Compliant(c) # {}}
PublicScores == UNION {{ev[c][i] : i \in Compliant(c)} : c \in Eligible}
Preferred(pool) == IF best \in pool THEN best ELSE Min(pool)

\* _expected_public_gate_selection fails unless all passing scores agree.
GateHolds == Cardinality(PublicScores) = 1
GateExpected == LET c == Preferred(Eligible) IN <<c, Max(Compliant(c))>>

\* The latest iteration of each candidate at the best score of all.
HardBest == {c \in Eligible : \E i \in Compliant(c) : ev[c][i] = Max(PublicScores)}
BestIteration(c) == Max({i \in Compliant(c) : ev[c][i] = Max(PublicScores)})
JudgePool == {<<c, BestIteration(c)>> : c \in HardBest}

\* Goal Plus' own selection.
NativePick == LET c == Preferred(HardBest) IN <<c, BestIteration(c)>>

Settles(c, s) ==
  /\ ev' = [ev EXCEPT ![c] = Append(@, s)]
  /\ best' = IF s > 0 /\ \A t \in PublicScores : s >= t THEN c ELSE best

-----------------------------------------------------------------------------
(* The agent: a process in a session of its own, which outlives a command   *)
(* that is killed                                                          *)

AgentOpens ==
  /\ alive /\ goal = "none"
  /\ goal' = "active" /\ search' = "open"
  /\ UNCHANGED <<config, verdict, linked, sel, best, ev, receipt, outputs, agent,
                 control, pc, locals, history>>

AgentIterates ==
  /\ alive /\ search = "open" /\ Size < MaxIterations
  /\ \E c \in Cands, s \in Scores : Settles(c, s)
  /\ grown' = (grown \/ snapshot # None)
  /\ UNCHANGED <<config, verdict, goals, search, sel, receipt, outputs, agent,
                 control, pc, locals, asked, repairs, crashes>>

\* Only a Search that the controller does not own can be closed by the agent.
AgentSelects ==
  /\ alive /\ ~Owned /\ search = "open" /\ Eligible # {}
  /\ search' = "ready" /\ sel' = NativePick
  /\ UNCHANGED <<config, verdict, goals, best, ev, receipt, outputs, agent,
                 control, pc, locals, history>>

AgentPromotes ==
  /\ alive /\ ~Owned /\ search = "ready"
  /\ search' = "promoted"
  /\ UNCHANGED <<config, verdict, goals, sel, best, ev, receipt, outputs, agent,
                 control, pc, locals, history>>

AgentApplies ==
  /\ alive /\ ~Owned /\ search = "promoted" /\ mode.tool /\ ~published
  /\ published' = TRUE /\ artifact' = sel
  /\ UNCHANGED <<config, verdict, goals, run, receipt, scored, delivered, agent,
                 control, pc, locals, history>>

AgentCompletes ==
  /\ alive /\ ~Owned /\ published /\ goal = "active"
  /\ goal' = "complete" /\ linked' = TRUE
  /\ UNCHANGED <<config, verdict, run, receipt, outputs, agent, control, pc, locals,
                 history>>

AgentBlocks ==
  /\ alive /\ goal = "active"
  /\ goal' = "blocked"
  /\ UNCHANGED <<config, verdict, linked, run, receipt, outputs, agent, control, pc,
                 locals, history>>

AgentEnds ==
  /\ alive
  /\ alive' = FALSE
  /\ code' \in CASE pc = "soft" -> {"ok", "term", "bad"} [] pc = "agent" -> {"ok", "bad"}
               [] OTHER -> {code}
  /\ UNCHANGED <<config, verdict, goals, run, receipt, outputs, control, pc, locals,
                 history>>

Agent == AgentOpens \/ AgentIterates \/ AgentSelects \/ AgentPromotes \/ AgentApplies
         \/ AgentCompletes \/ AgentBlocks \/ AgentEnds

-----------------------------------------------------------------------------
(* execute and run_controlled                                              *)

Execute ==
  /\ pc = "idle" /\ status = "prepared"
  /\ status' = "running" /\ author' = "execute" /\ noted' = FALSE
  /\ cmd' = "execute"
  /\ pc' = "seed"
  /\ UNCHANGED <<config, goals, run, receipt, outputs, agent, why, killed, locals, history>>

\* The seed is evaluated (the common harness goes no further if that fails) and
\* the agent is started.
StartAgent ==
  /\ pc = "seed"
  /\ \/ alive' = TRUE /\ pc' = "agent"
     \/ mode.harness = "common" /\ pc' = "verdict" /\ UNCHANGED alive
  /\ UNCHANGED <<config, verdict, goals, run, receipt, outputs, code, control, locals,
                 history>>

\* goal_plus_early_stop_reached: a clean settled iteration has the target score.
Target == 2 \in PublicScores

\* The poll: exit, early stop and deadline, in this order, or an interrupt.
PollAgent ==
  /\ pc = "agent"
  /\ \/ ~alive /\ pc' = "drain" /\ UNCHANGED why
     \/ /\ alive /\ pc' = "soft"
        /\ \/ why' = "early" /\ mode.harness = "common" /\ Target
           \/ why' \in {"deadline", "interrupt"}
  /\ UNCHANGED <<config, verdict, goals, run, receipt, outputs, agent, cmd, killed,
                 locals, history>>

\* Mutant: SIGTERM is all there is.
SoftStopOnly ==
  /\ pc = "soft" /\ ~alive
  /\ pc' = "drain"
  /\ UNCHANGED <<config, verdict, goals, run, receipt, outputs, agent, cmd, why, killed,
                 locals, history>>

\* SIGTERM was sent; the agent ends within the grace period or is killed.
SoftStop ==
  /\ pc = "soft"
  /\ IF alive THEN alive' = FALSE /\ code' = "bad" /\ killed' = TRUE
              ELSE UNCHANGED <<alive, code, killed>>
  /\ pc' = "drain"
  /\ UNCHANGED <<config, verdict, goals, run, receipt, outputs, cmd, why, locals, history>>

-----------------------------------------------------------------------------
(* finalize_goal_plus_search                                               *)

Rest == <<config, verdict, outputs, agent, control, repairs, crashes>>

\* The worker sessions are closed and the closeout begins.
Drain ==
  /\ pc = "drain"
  /\ pc' = "goals"
  /\ UNCHANGED <<Rest, goals, run, receipt, locals, asked, grown>>

\* Where a closeout goes that raised: its error is recorded and the command goes on.
Broken == IF cmd = "repair" /\ mode.harness = "openevolve" THEN "verdict"
          ELSE IF cmd = "execute" /\ mode.harness = "openevolve" THEN "final"
          ELSE IF mode.posthoc THEN "verdict"
          ELSE IF mode.only \/ cmd = "repair" THEN "final"
          ELSE "verdict"

\* A goal that the agent left blocked is resumed where the controller owns closeout.
ReadGoals ==
  /\ pc = "goals"
  /\ IF goal = "none" \/ search = "none" \/ (goal = "blocked" /\ ~Owned)
       THEN pc' = Broken /\ UNCHANGED goal
       ELSE pc' = "reuse" /\ goal' = (IF goal = "blocked" THEN "active" ELSE goal)
  /\ held' = receipt
  /\ UNCHANGED <<Rest, linked, run, receipt, snapshot, pick, closed, final, asked, grown>>

\* Mutants: a Search promoted before is compared with this closeout's snapshot;
\* a promotion is taken to be applied.
ReuseBySnapshot ==
  /\ pc = "reuse"
  /\ pick' = IF search = "promoted" THEN sel ELSE None
  /\ pc' = IF search # "promoted" THEN (IF mode.gate THEN "prepare" ELSE "verify")
           ELSE IF mode.gate /\ snapshot # sel THEN Broken
           ELSE "publish"
  /\ UNCHANGED <<Rest, goals, run, receipt, snapshot, held, closed, final, asked, grown>>
ReuseApplied ==
  /\ pc = "reuse"
  /\ pick' = IF search = "promoted" THEN sel ELSE None
  /\ pc' = IF search # "promoted" THEN (IF mode.gate THEN "prepare" ELSE "verify")
           ELSE "record"
  /\ UNCHANGED <<Rest, goals, run, receipt, snapshot, held, closed, final, asked, grown>>

\* A Search that is promoted already is taken as it is, if the receipt or the
\* rule of the public gate agrees with it.
Reuse ==
  /\ pc = "reuse"
  /\ pick' = IF search = "promoted" THEN sel ELSE None
  /\ pc' = IF search # "promoted" THEN (IF mode.gate THEN "prepare" ELSE "verify")
           ELSE IF mode.judge THEN (IF held = sel THEN "publish" ELSE Broken)
           ELSE IF mode.gate /\ ~(GateHolds /\ GateExpected = sel) THEN Broken
           ELSE "publish"
  /\ UNCHANGED <<Rest, goals, run, receipt, snapshot, held, closed, final, asked, grown>>

\* With the public gate: the snapshot of the evidence decides, and the tie-break
\* of Goal Plus is set to agree with it.
Prepare ==
  /\ pc = "prepare"
  /\ IF GateHolds
       THEN /\ snapshot' = GateExpected /\ best' = GateExpected[1]
            /\ pc' = IF mode.judge THEN "judge" ELSE "select"
       ELSE pc' = "recover" /\ UNCHANGED <<snapshot, best>>
  /\ UNCHANGED <<Rest, goals, search, sel, ev, receipt, pick, held, closed, final, asked,
                 grown>>

\* Without it: a selection made before is kept; otherwise candidates without a
\* compliant iteration are verified once more, unless the agent was stopped early.
Verify ==
  /\ pc = "verify"
  /\ IF search = "ready" /\ (mode.judge => held # None)
       THEN /\ pick' = sel
            /\ pc' = IF mode.judge /\ held # sel THEN "recover" ELSE "promote"
            /\ UNCHANGED <<ev, best>>
       ELSE /\ \/ /\ cmd = "execute" => why # "early"
                  /\ Size < MaxIterations
                  /\ \E c \in Cands \ Eligible, s \in Scores \ {0} : Settles(c, s)
                  /\ UNCHANGED pc
               \/ /\ pc' = IF mode.judge THEN "judge" ELSE "select"
                  /\ UNCHANGED <<ev, best>>
            /\ UNCHANGED pick
  /\ UNCHANGED <<Rest, goals, search, sel, receipt, snapshot, held, closed, final, asked,
                 grown>>

\* Mutant: the provider is asked again although a receipt exists.
JudgeAgain ==
  /\ pc = "judge"
  /\ \/ /\ asked' = asked + 1
        /\ \E p \in JudgePool : held' = p
        /\ pc' = "receipt"
     \/ asked' = asked + 1 /\ pc' = "recover" /\ UNCHANGED held
  /\ UNCHANGED <<Rest, goals, run, receipt, snapshot, pick, closed, final, grown>>

\* The provider is called unless its receipt is there; it may fail to choose.
Judge ==
  /\ pc = "judge"
  /\ IF held # None THEN pc' = "select" /\ UNCHANGED <<held, asked>>
     ELSE /\ asked' = asked + 1
          /\ \/ pc' = "receipt" /\ held' \in JudgePool
             \/ pc' = "recover" /\ UNCHANGED held
  /\ UNCHANGED <<Rest, goals, run, receipt, snapshot, pick, closed, final, grown>>

\* Mutant: the new receipt is only kept in memory until the end of closeout.
ReceiptLater ==
  /\ pc = "receipt"
  /\ pc' = "select"
  /\ UNCHANGED <<Rest, goals, run, receipt, locals, asked, grown>>

\* The receipt is persisted before anything native is changed.
WriteReceipt ==
  /\ pc = "receipt"
  /\ receipt' = held
  /\ pc' = "select"
  /\ UNCHANGED <<Rest, goals, run, locals, asked, grown>>

\* Mutant: the selection is not compared with the snapshot.
SelectUnchecked ==
  /\ pc = "select"
  /\ IF search = "promoted" \/ Eligible = {}
       THEN pc' = "recover" /\ UNCHANGED <<run, pick, grown>>
       ELSE /\ pick' = IF mode.judge THEN held ELSE NativePick
            /\ search' = "ready" /\ sel' = pick'
            /\ pc' = "promote"
            /\ UNCHANGED <<ev, best, grown>>
  /\ UNCHANGED <<Rest, goals, receipt, snapshot, held, closed, final, asked>>

\* The selection is Goal Plus' own or exactly the judge's.  Goal Plus may append
\* an iteration of its own verifier, and refuses where the Search is promoted.
\* With the public gate alone the selection must be the one of the snapshot.
Select ==
  /\ pc = "select"
  /\ IF search = "promoted" \/ Eligible = {}
       THEN pc' = "recover" /\ UNCHANGED <<run, pick, grown>>
       ELSE /\ pick' = IF mode.judge THEN held ELSE NativePick
            /\ search' = "ready" /\ sel' = pick'
            /\ \/ UNCHANGED <<ev, best, grown>>
               \/ /\ Size < MaxIterations /\ ~mode.judge
                  /\ Settles(pick'[1], ev[pick'[1]][pick'[2]])
                  /\ grown' = (grown \/ snapshot # None)
            /\ pc' = IF mode.gate /\ ~mode.judge /\ pick' # snapshot THEN "recover"
                     ELSE "promote"
  /\ UNCHANGED <<Rest, goals, receipt, snapshot, held, closed, final, asked>>

\* The promotion gate of Goal Plus may refuse; a second refusal is final.
Promote ==
  /\ pc \in {"promote", "again"}
  /\ \/ /\ search = "ready" /\ pick = sel
        /\ search' = "promoted" /\ pc' = "publish"
     \/ /\ pc' = IF pc = "promote" THEN "recover" ELSE Broken
        /\ UNCHANGED search
  /\ UNCHANGED <<Rest, goals, sel, best, ev, receipt, locals, asked, grown>>

\* except RuntimeError: with a judge nothing is salvaged.  Otherwise a promotion
\* completed meanwhile is taken over, and a selection is promoted.
Recover ==
  /\ pc = "recover"
  /\ IF mode.judge THEN pc' = Broken /\ UNCHANGED pick
     ELSE IF search = "promoted"
       THEN /\ pick' = sel
            /\ pc' = IF mode.gate /\ snapshot # sel THEN Broken ELSE "publish"
     ELSE IF search = "ready" /\ ~mode.gate THEN pick' = sel /\ pc' = "again"
     ELSE pc' = Broken /\ UNCHANGED pick
  /\ UNCHANGED <<Rest, goals, run, receipt, snapshot, held, closed, final, asked, grown>>

\* Mutant: the patch is applied without looking whether it is applied already.
PublishAgain ==
  /\ pc = "publish"
  /\ receipt' = IF mode.judge THEN held ELSE receipt
  /\ published' = TRUE
  /\ artifact' = IF artifact = Seed THEN pick ELSE Twice
  /\ pc' = "record"
  /\ UNCHANGED <<config, verdict, goals, run, scored, delivered, agent, control, locals,
                 history>>

\* The receipt is written once more; then the promotion goes into the workspace,
\* by Goal Plus' publication, or as a patch that must apply or be applied already.
Publish ==
  /\ pc = "publish"
  /\ receipt' = IF mode.judge THEN held ELSE receipt
  /\ IF mode.tool
       THEN published' = TRUE /\ artifact' = (IF published THEN artifact ELSE pick)
       ELSE artifact' = pick /\ UNCHANGED published
  /\ pc' = IF ~mode.tool /\ artifact \notin {Seed, pick} THEN Broken ELSE "record"
  /\ UNCHANGED <<config, verdict, goals, run, scored, delivered, agent, control, locals,
                 history>>

Record ==
  /\ pc = "record"
  /\ linked' = TRUE
  /\ pc' = "complete"
  /\ UNCHANGED <<Rest, goal, run, receipt, locals, asked, grown>>

\* Where closeout leads when it completes.
Closed == IF mode.posthoc THEN "posthoc"
          ELSE IF cmd = "repair" /\ mode.harness = "openevolve" THEN "verdict"
          ELSE "final"

Complete ==
  /\ pc = "complete"
  /\ IF goal = "blocked" /\ ~Owned THEN pc' = Broken /\ UNCHANGED <<goal, closed>>
     ELSE goal' = "complete" /\ closed' = TRUE /\ pc' = Closed
  /\ UNCHANGED <<Rest, linked, run, receipt, snapshot, pick, held, final, asked, grown>>

\* Any call of Goal Plus may fail with another exception; reuse calls none (that a file it
\* reads is unreadable is left out).
CloseoutFails ==
  /\ pc \in CloseoutPoints \ {"reuse"}
  /\ pc' = Broken
  /\ UNCHANGED <<Rest, goals, run, receipt, locals, asked, grown>>

-----------------------------------------------------------------------------
(* Final evaluation, verdict, repair                                       *)

\* The workspace is evaluated; a repair takes the evaluation that is there.
Evaluate ==
  /\ pc = "final"
  /\ final' = TRUE
  /\ IF cmd = "repair" /\ scored # None
       THEN pc' = "verdict" /\ UNCHANGED scored
       ELSE pc' = "deliver" /\ scored' = artifact
  /\ UNCHANGED <<config, verdict, goals, run, receipt, published, artifact, delivered,
                 agent, control, snapshot, pick, held, closed, history>>

Deliver ==
  /\ pc = "deliver"
  /\ delivered' = artifact
  /\ pc' = "verdict"
  /\ UNCHANGED <<config, verdict, goals, run, receipt, published, artifact, scored,
                 agent, control, locals, history>>

\* Every compliant iteration is scored by the hidden evaluator, which has the same
\* favourite for the same evidence: any rule other than the public one stands for it.
HiddenBest == LET c == Max(Eligible) IN <<c, Max(Compliant(c))>>

\* Mutant: the workspace is delivered instead of the snapshot that won.
PosthocPromoted ==
  /\ pc = "posthoc"
  /\ pick' = HiddenBest /\ delivered' = artifact
  /\ pc' = "score"
  /\ UNCHANGED <<config, verdict, goals, run, receipt, published, artifact, scored,
                 agent, control, snapshot, held, closed, final, history>>

\* The snapshot is copied, and then its evaluation becomes the final one.
Posthoc ==
  /\ pc = "posthoc"
  /\ \/ /\ pick' = HiddenBest /\ delivered' = pick'
        /\ pc' = "score"
     \/ pc' = "verdict" /\ UNCHANGED <<pick, delivered>>
  /\ UNCHANGED <<config, verdict, goals, run, receipt, published, artifact, scored,
                 agent, control, snapshot, held, closed, final, history>>

Score ==
  /\ pc = "score"
  /\ scored' = pick /\ final' = TRUE
  /\ pc' = "verdict"
  /\ UNCHANGED <<config, verdict, goals, run, receipt, published, artifact, delivered,
                 agent, control, snapshot, pick, held, closed, history>>

\* What a command knew is gone with it.
CommandOver ==
  /\ pc' = "idle" /\ cmd' = "execute"
  /\ code' = "none" /\ why' = "exit" /\ killed' = FALSE
  /\ snapshot' = None /\ pick' = None /\ held' = None /\ closed' = FALSE /\ final' = FALSE

\* The agent ended by itself or by the SIGTERM of a planned stop.
CleanEnd == ~killed /\ (code = "ok" \/ (why \in {"deadline", "early"} /\ code = "term"))

\* execute's and repair_closeout's conditions for a finished run.
Passes ==
  /\ goal = "complete"
  /\ IF cmd = "repair" THEN ~noted ELSE CleanEnd
  /\ mode.harness = "openevolve" => cmd = "repair" \/ closed
  /\ mode.harness = "common" => closed /\ final /\ (cmd = "repair" \/ why # "interrupt")

\* Other evidence (workers, sessions, scores) may be missing all the same.
Verdict ==
  /\ pc = "verdict"
  /\ status' \in {"incomplete"} \cup (IF Passes THEN {"finished"} ELSE {})
  /\ author' = cmd
  /\ noted' = IF cmd = "execute" THEN killed ELSE noted
  /\ CommandOver
  /\ UNCHANGED <<config, goals, run, receipt, outputs, alive, history>>

\* repair_closeout looks neither at the status nor for a live agent.
Repair ==
  /\ pc = "idle" /\ repairs < MaxRepairs
  /\ repairs' = repairs + 1
  /\ cmd' = "repair"
  /\ pc' = "drain"
  /\ UNCHANGED <<config, verdict, goals, run, receipt, outputs, agent, why, killed, locals,
                 asked, grown, crashes>>

\* A kill, or an exception that nobody catches.
Crash ==
  /\ pc # "idle" /\ crashes < MaxCrashes
  /\ crashes' = crashes + 1
  /\ CommandOver
  /\ UNCHANGED <<config, verdict, goals, run, receipt, outputs, alive, asked, grown,
                 repairs>>

-----------------------------------------------------------------------------

Closeout ==
  \/ Drain \/ ReadGoals \/ Reuse \/ Prepare \/ Verify \/ Judge \/ WriteReceipt \/ Select
  \/ Promote \/ Recover \/ Publish \/ Record \/ Complete \/ CloseoutFails

Command ==
  \/ StartAgent \/ PollAgent \/ SoftStop \/ Closeout
  \/ Evaluate \/ Deliver \/ Posthoc \/ Score \/ Verdict

Next == Execute \/ Repair \/ Command \/ Agent \/ Crash

\* A command goes on; nothing is assumed of the agent.
Spec == Init /\ [][Next]_vars /\ WF_vars(Command)
-----------------------------------------------------------------------------
(* Properties                                                              *)

\* "Persist the sanitized receipt before any native mutation": whatever was
\* killed where, a selection under a judge is the one of the persisted receipt.
ReceiptFirst == (mode.judge /\ search \in {"ready", "promoted"}) => receipt = sel

\* "... so repair can reuse it without a second provider call"
\* (_obtain_judge_selection, finalize_goal_plus_search).
AskedOnce == [][receipt # None => asked' = asked]_vars

\* "The deadline snapshot, not that closeout side effect, is authoritative": the
\* public gate promotes what the snapshot of the same closeout chose, although an
\* agent that outlived its controller may go on iterating.
GateDecides ==
  [][(mode.gate /\ ~mode.judge /\ search # "promoted" /\ search' = "promoted")
       => pick = snapshot]_vars

\* A closeout that finds the Search promoted takes it over: it refuses only where
\* the evidence from which it recomputes the gate's rule grew after the snapshot, as
\* it does when Goal Plus' selection appends the iteration of its own verifier.
ReuseAccepted ==
  [][(pc = "reuse" /\ search = "promoted" /\ pc' \in {Broken, "publish"})
       => grown \/ pc' = "publish"]_vars

\* A finished run is complete, was not killed hard as far as execute recorded it,
\* and if execute called it finished, its final evaluation is the one of what was
\* delivered: the promoted artifact, or the winner of the posthoc scoring.
FinishedResult ==
  status = "finished" =>
    /\ goal = "complete" /\ linked /\ ~noted
    /\ author = "execute" => /\ scored = delivered
                             /\ mode.posthoc \/ scored = sel

\* Every command ends, even if the agent ignores SIGTERM (run_controlled).
CommandEnds == (pc # "idle") ~> (pc = "idle")

\* The promotion of a Search is chosen once, installed once and only then settled
\* as the goal's result (finalize_goal_plus_search over crashes and repairs).
Promotion == INSTANCE Settlement WITH
  Artifacts <- Picks,
  chosen    <- IF search = "promoted" THEN sel ELSE None,
  installed <- IF artifact = Seed THEN None ELSE artifact,
  settled   <- goal = "complete"
RefinesSettlement == Promotion!Spec

\* What makes TypeOK and ReceiptFirst inductive: a Search with a selection has one,
\* what is published is the promoted selection, and the receipt that a closeout
\* holds is the persisted one except between the judge's answer and its write.
ChosenInv ==
  /\ goal = "none" => search = "none"
  /\ pc \in CloseoutPoints \ {"goals"} => search # "none"
  /\ search \in {"ready", "promoted"} => sel \in Picks /\ Eligible # {}
  /\ pc \in {"publish", "record", "complete"} => search = "promoted" /\ pick = sel
  /\ pc \in {"posthoc", "score"} => search = "promoted"
HeldInv ==
  /\ pc \in CloseoutPoints \ {"goals", "receipt", "record", "complete"} => held = receipt
  /\ pc = "receipt" => receipt = None /\ held \in Picks
  /\ (mode.judge /\ pc = "select") => held \in Picks
ReceiptInv == HeldInv /\ ReceiptFirst

\* What makes GateDecides and ReuseAccepted inductive: the snapshot is what the
\* public gate's rule says of the evidence until the evidence grows, and so is
\* the selection once it is promoted.
Expected(p) == GateHolds /\ GateExpected = p
GateInv ==
  /\ mode.gate => pc \notin {"verify", "again"}
  /\ (mode.gate /\ pc = "prepare") => search # "promoted"
  /\ (mode.gate /\ ~mode.judge) =>
       /\ pc = "promote" => pick = snapshot
       /\ (snapshot # None /\ ~grown) => Expected(snapshot)
       /\ (search = "promoted" /\ ~grown) => Expected(sel)

\* What makes RefinesSettlement and FinishedResult inductive: only the promoted
\* selection is ever installed, it is installed before the goal is settled, and
\* a command that may call its run finished has scored what it delivered.
InstalledInv ==
  /\ artifact # Seed => search = "promoted" /\ artifact = sel
  /\ published => artifact # Seed
  /\ pc \in {"record", "complete", "posthoc", "score"} => artifact # Seed
  /\ closed => artifact # Seed /\ pc \in {"final", "deliver", "posthoc", "score", "verdict"}
  /\ pc = "complete" => linked
  /\ goal = "complete" => linked /\ artifact # Seed
ScoredInv ==
  /\ mode.posthoc => pc \notin {"final", "deliver"}
  /\ pc \in {"posthoc", "score"} => mode.posthoc
  /\ pc = "score" => pick = HiddenBest /\ delivered = pick
  /\ (mode.posthoc /\ final) => /\ search = "promoted"
                               /\ {scored, delivered} = {HiddenBest}
  /\ (closed /\ pc = "deliver") => scored = artifact
  /\ (closed /\ pc = "verdict" /\ cmd = "execute" /\ ~mode.posthoc) =>
       {scored, delivered} = {artifact}
FinishedInv ==
  /\ (pc # "idle" /\ cmd = "execute") => status = "running"
  /\ status = "finished" => goal = "complete" /\ ~noted
  /\ (status = "finished" /\ author = "execute") =>
       /\ pc # "deliver"
       /\ {scored, delivered} = {IF mode.posthoc THEN HiddenBest ELSE sel}

\* "Goal Plus completion records all of the following: ... successful controller
\* closeout, promotion/report, and common final evaluation"
\* (openevolve_compare/README.md): a finished run has the final evaluation of the
\* artifact it promoted, a repaired run too.
FinishedIsScored == (status = "finished" /\ ~mode.posthoc) => scored = artifact
=============================================================================
