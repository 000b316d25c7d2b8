------------------------------ MODULE SweSearch ------------------------------
(***************************************************************************)
(* A Goal Plus search in the container of a SWE-bench attempt, the         *)
(* closeout that the controller runs there after the Agent, and the        *)
(* verdict read off the exported state.                                    *)
(*                                                                         *)
(* One goal with one search.  Of the times on record only what is compared *)
(* is kept: whether a Tick lies between two of them, several events having *)
(* the same time.  The Agent is only signalled when its time is up, so it  *)
(* may act beside the closeout.                                            *)
(***************************************************************************)
EXTENDS Naturals, Sequences, FiniteSets

CONSTANTS Asks,          \* what the profiles ask of the annotator: "off", "views", "peers"
          K,             \* concurrency: candidates asked for
          MaxIterations, \* bounds: verifications of a candidate,
          MaxSessions    \* worker sessions of a candidate

VARIABLES
  asked,     \* what is asked of the annotator: "off", "views" or "peers"
  sess,      \* candidate -> session -> its state, its interval and what it read
  iters,     \* candidate -> sequence of verifications
  scope,     \* the execution scope of the search: open or closed
  run,       \* state of the search: running, ready or promoted
  chosen,    \* its candidate, 0 if none
  gate,      \* whether the promotion's visible test gave 1.0
  applied,   \* the promotion is in /testbed
  goal,      \* open or complete
  step,      \* where the closeout is
  passed,    \* the recorded completion verdict
  found,     \* the search's state as the closeout read it
  overlap,   \* on record all candidates had a worker at one time
  together,  \* history: at some time all candidates had a worker
  learnt     \* history: a worker verified after it had read a peer's completed view

vars == <<asked, sess, iters, scope, run, chosen, gate, applied, goal, step,
          passed, found, overlap, together, learnt>>

Cands == 1..K
Slots == 1..MaxSessions
NoSession == [state |-> "none", long |-> FALSE, read |-> "none", seen |-> {}]
Steps == {"idle", "sessions", "verify", "drain", "select", "promote", "apply", "complete",
          "report", "done", "failed", "exported"}
Before == {"idle", "sessions", "verify", "drain", "select", "promote", "apply", "complete",
           "report"}

Live(c, n) == sess[c][n].state = "live"
Working == {c \in Cands : \E n \in Slots : Live(c, n)}
Verified(c) == DOMAIN iters[c]

TypeOK ==
  /\ asked \in Asks
  /\ \A c \in Cands, n \in Slots :
       /\ sess[c][n].state \in {"none", "live", "ended", "cut"}
       /\ sess[c][n].read \in {"none", "now", "before"}
  /\ \A c \in Cands : Verified(c) \subseteq 1..MaxIterations
  /\ scope \in {"open", "closed"} /\ run \in {"running", "ready", "promoted"}
  /\ chosen \in 0..K /\ gate \in BOOLEAN /\ applied \in BOOLEAN
  /\ goal \in {"open", "complete"} /\ step \in Steps /\ passed \in BOOLEAN
  /\ found \in {"running", "ready", "promoted"}

Init ==
  /\ asked \in Asks
  /\ sess = [c \in Cands |-> [n \in Slots |-> NoSession]]
  /\ iters = [c \in Cands |-> <<>>]
  /\ scope = "open" /\ run = "running" /\ chosen = 0 /\ gate = FALSE /\ applied = FALSE
  /\ goal = "open" /\ step = "idle" /\ passed = FALSE
  /\ found = "running"
  /\ overlap = FALSE /\ together = FALSE /\ learnt = FALSE

workers == <<sess, overlap, together, learnt>>
publication == <<run, chosen, gate, applied, goal>>
history == <<overlap, together, learnt>>

-----------------------------------------------------------------------------
(* Goal Plus, its workers and its annotator                                *)

\* Until the closeout is over.
Open == step \notin {"done", "failed", "exported"}

OnRecord == {c \in Cands : \E n \in Slots : sess[c][n].state \in {"live", "cut"}}

\* Time passes, though none during the closeout (a bound).  A session cut off without a
\* receipt runs, on record, up to its last flush at the closeout.
Tick ==
  /\ step = "idle"
  /\ sess' = [c \in Cands |-> [n \in Slots |->
       [sess[c][n] EXCEPT !.long = (@ \/ sess[c][n].state \in {"live", "cut"}),
                          !.read = IF @ = "now" THEN "before" ELSE @]]]
  /\ overlap' = (overlap \/ OnRecord = Cands)
  /\ together' = (together \/ Working = Cands)
  /\ UNCHANGED <<asked, learnt, iters, scope, publication, step, passed, found>>

\* Candidates are named in the order in which they are bound first.
Bind(c, n) ==
  /\ Open /\ scope = "open" /\ run = "running"
  /\ \A d \in 1..(c - 1) : sess[d][1].state # "none"
  /\ sess[c][n].state = "none" /\ \A k \in 1..(n - 1) : sess[c][k].state \in {"ended", "cut"}
  /\ sess' = [sess EXCEPT ![c][n].state = "live"]
  /\ UNCHANGED <<asked, history, iters, scope, publication, step, passed, found>>

\* The worker ends with a receipt, or is cut off without one.
WorkerEnds(c, n) ==
  /\ Open /\ Live(c, n)
  /\ \E how \in {"ended", "cut"} : sess' = [sess EXCEPT ![c][n].state = how]
  /\ UNCHANGED <<asked, history, iters, scope, publication, step, passed, found>>

\* A verification, by a session or (0) by the controller, with its view still to be
\* written: whether its time is after that of the session's read.
Iteration(by, later) == [by |-> by, later |-> later, view |-> "pending", peers |-> FALSE]

Verify(c, n) ==
  /\ Open /\ Live(c, n) /\ Len(iters[c]) < MaxIterations
  /\ iters' = [iters EXCEPT ![c] = Append(@, Iteration(n, sess[c][n].read = "before"))]
  /\ learnt' = (learnt \/ sess[c][n].seen # {})
  /\ UNCHANGED <<asked, sess, overlap, together, scope, publication, step, passed, found>>

\* The annotator completes or fails a view; a completed one may compare every peer.
Annotate(c, i) ==
  /\ asked # "off" /\ Open /\ i \in Verified(c) /\ iters[c][i].view = "pending"
  /\ \E v \in {"completed", "failed"}, p \in BOOLEAN :
       /\ p => v = "completed" /\ asked = "peers"
               /\ \A d \in Cands \ {c} : iters[d] # <<>>
       /\ iters' = [iters EXCEPT ![c][i].view = v, ![c][i].peers = p]
  /\ UNCHANGED <<asked, workers, scope, publication, step, passed, found>>

\* A worker reads the views completed so far, once (a bound); those of its peers count.
ReadEvidence(c, n) ==
  /\ asked # "off" /\ Open /\ Live(c, n) /\ sess[c][n].read = "none"
  /\ sess' = [sess EXCEPT
       ![c][n].read = "now",
       ![c][n].seen = {d \in Cands \ {c} : \E i \in Verified(d) : iters[d][i].view = "completed"}]
  /\ UNCHANGED <<asked, history, iters, scope, publication, step, passed, found>>

Select(c) ==
  /\ run = "running" /\ iters[c] # <<>>
  /\ run' = "ready" /\ chosen' = c
  /\ UNCHANGED <<gate, applied, goal>>

Promote ==
  /\ run = "ready" /\ run' = "promoted" /\ gate' \in BOOLEAN
  /\ UNCHANGED <<chosen, applied, goal>>

\* The main agent may publish the search itself.
AgentActs ==
  /\ \/ (\E c \in Cands : Select(c))
     \/ Promote
     \/ run = "promoted" /\ ~applied /\ applied' = TRUE /\ UNCHANGED <<run, chosen, gate, goal>>
     \/ applied /\ goal = "open" /\ goal' = "complete" /\ UNCHANGED <<run, chosen, gate, applied>>
  /\ UNCHANGED <<asked, workers, iters, scope, step, passed, found>>

-----------------------------------------------------------------------------
(* The closeout, one step at a time; any of them may raise                 *)

At(s) == step = s
GoTo(s) == step' = s
search == <<asked>>

\* The Agent's time is up, or it has ended.
Closeout ==
  /\ At("idle") /\ GoTo("sessions")
  /\ UNCHANGED <<search, workers, iters, scope, publication, passed, found>>

\* Every step may raise, and the docker exec may time out: completed stays false.
Raise ==
  /\ step \in Before \ {"idle"} /\ GoTo("failed")
  /\ UNCHANGED <<search, workers, iters, scope, publication, passed, found>>

\* The workers are stopped, with a receipt or without, and no more can start.
CloseSessions ==
  /\ At("sessions") /\ GoTo("verify") /\ scope' = "closed"
  /\ \E how \in [Cands \X Slots -> {"ended", "cut"}] :
       /\ \A p \in Cands \X Slots : how[p] = "cut" => Live(p[1], p[2])
       /\ sess' = [c \in Cands |-> [n \in Slots |->
                    IF Live(c, n) THEN [sess[c][n] EXCEPT !.state = how[<<c, n>>]]
                    ELSE sess[c][n]]]
  /\ UNCHANGED <<search, history, iters, publication, passed, found>>

\* What is published already is looked up; unless there is a selection, candidates without
\* a verification get one.
VerifyRest ==
  /\ At("verify") /\ GoTo("drain") /\ found' = run
  /\ iters' = [c \in Cands |->
       IF run = "running" /\ iters[c] = <<>> THEN <<Iteration(0, FALSE)>> ELSE iters[c]]
  /\ UNCHANGED <<search, workers, scope, publication, passed>>

Drained == \A c \in Cands : \A i \in Verified(c) : iters[c][i].view # "pending"

\* The views still to be written are waited for, the retries of failed ones included.
Drain ==
  /\ At("drain") /\ (asked = "off" \/ Drained)
  /\ GoTo("select")
  /\ UNCHANGED <<search, workers, iters, scope, publication, passed, found>>

\* The selection or promotion that was found is reused; a search that the Agent has selected
\* from or promoted since then refuses to be once more (Raise).
SelectOnce ==
  /\ At("select") /\ GoTo("promote")
  /\ IF found = "running" THEN \E c \in Cands : Select(c) ELSE UNCHANGED publication
  /\ UNCHANGED <<search, workers, iters, scope, passed, found>>

\* Mutant: the goal is completed with the promotion, before it is in the source.
PromoteAndComplete ==
  /\ At("promote") /\ GoTo("apply")
  /\ IF found = "promoted" THEN UNCHANGED <<run, gate>>
     ELSE run = "ready" /\ run' = "promoted" /\ gate' \in BOOLEAN
  /\ goal' = "complete"
  /\ UNCHANGED <<search, workers, iters, scope, chosen, applied, passed, found>>

PromoteOnce ==
  /\ At("promote") /\ GoTo("apply")
  /\ IF found = "promoted" THEN UNCHANGED publication ELSE Promote
  /\ UNCHANGED <<search, workers, iters, scope, passed, found>>

ApplyOnce ==
  /\ At("apply") /\ GoTo("complete") /\ applied' = TRUE
  /\ UNCHANGED <<search, workers, iters, scope, run, chosen, gate, goal, passed, found>>

CompleteGoal ==
  /\ At("complete") /\ GoTo("report") /\ goal' = "complete"
  /\ UNCHANGED <<search, workers, iters, scope, run, chosen, gate, applied, passed, found>>

Report ==
  /\ At("report") /\ GoTo("done")
  /\ UNCHANGED <<search, workers, iters, scope, publication, passed, found>>

-----------------------------------------------------------------------------
(* What collect_goal_plus_state reads off the export                       *)

Records(c) == {n \in Slots : sess[c][n].state # "none"}
\* The sessions with an interval: a receipt, or a binding that did not end at once.
Bound(c) == {n \in Records(c) : sess[c][n].state = "ended" \/ sess[c][n].long}
WorkerOverlap ==
  /\ overlap
  /\ \A c \in Cands : \A n \in Bound(c) : sess[c][n].state # "live" /\ sess[c][n].long

OneSessionEach == \A c \in Cands : Cardinality(Bound(c)) = 1

WorkerVerified == \A c \in Cands : \E i \in Verified(c) : iters[c][i].by \in Bound(c)

AllCompleted ==
  /\ \E c \in Cands : iters[c] # <<>>
  /\ \A c \in Cands : \A i \in Verified(c) : iters[c][i].view = "completed"

PeersCompared == \E c \in Cands : \E i \in Verified(c) : iters[c][i].peers

ReadsRecorded == \A c \in Cands : \A n \in Bound(c) : sess[c][n].read # "none"

\* A worker read a peer's completed view and verified at a later time.
InfluenceWindows ==
  \E c \in Cands : \E n \in Bound(c) :
    /\ sess[c][n].read # "none" /\ sess[c][n].seen # {}
    /\ \E i \in Verified(c) : iters[c][i].by = n /\ iters[c][i].later

PromotionVisibleTest == chosen # 0 /\ gate

Completion ==
  /\ goal = "complete" /\ run = "promoted"
  /\ OneSessionEach /\ WorkerVerified /\ PromotionVisibleTest
  /\ asked # "off" => AllCompleted /\ ReadsRecorded
  /\ asked = "peers" /\ K > 1 => PeersCompared /\ InfluenceWindows
  /\ K > 1 => WorkerOverlap

\* The state is copied out and judged; the closeout's own word is one of the checks.
Export ==
  /\ step \in {"done", "failed"} /\ GoTo("exported")
  /\ passed' = (Completion /\ step = "done")
  /\ UNCHANGED <<search, workers, iters, scope, publication, found>>

Next ==
  \/ Tick \/ AgentActs
  \/ \E c \in Cands, n \in Slots : Bind(c, n) \/ WorkerEnds(c, n) \/ Verify(c, n)
                                   \/ ReadEvidence(c, n)
  \/ \E c \in Cands, i \in 1..MaxIterations : Annotate(c, i)
  \/ Closeout \/ Raise \/ CloseSessions \/ VerifyRest \/ Drain \/ SelectOnce \/ PromoteOnce
  \/ ApplyOnce \/ CompleteGoal \/ Report \/ Export

Spec == Init /\ [][Next]_vars
-----------------------------------------------------------------------------
(* Properties                                                              *)

\* A passed verdict stands for a search that was carried to its end: the selected
\* candidate's promotion passed its gate and is in the source, no worker is left, and
\* with the annotator every verification has its view (collect_goal_plus_state, closeout).
PassedIsCarriedOut ==
  passed => /\ chosen # 0 /\ iters[chosen] # <<>> /\ gate /\ applied /\ goal = "complete"
            /\ Working = {}
            /\ asked # "off" =>
                 \A c \in Cands : \A i \in Verified(c) : iters[c][i].view = "completed"

\* It stands for parallel work and for an exchange: where every worker left a receipt,
\* all candidates were worked on at one time, and where peers were to be compared, a
\* worker verified after it had read a peer's view.
PassedIsParallel ==
  passed /\ K > 1 =>
    /\ together \/ \E c \in Cands, n \in Slots : sess[c][n].state = "cut"
    /\ asked = "peers" => learnt

\* A goal that the closeout completes is one whose promotion is in the source.
CompletedIsApplied == goal = "complete" => applied

SearchIsSound == PassedIsCarriedOut /\ PassedIsParallel /\ CompletedIsApplied

-----------------------------------------------------------------------------
(* The inductive invariant behind the three properties.                    *)

Session == [state : {"none", "live", "ended", "cut"}, long : BOOLEAN,
            read : {"none", "now", "before"}, seen : SUBSET Cands]
Verification == [by : 0..MaxSessions, later : BOOLEAN,
                 view : {"pending", "completed", "failed"}, peers : BOOLEAN]

RecordInv ==
  /\ sess \in [Cands -> [Slots -> Session]]
  /\ iters \in [Cands -> Seq(Verification)]
  /\ overlap \in BOOLEAN /\ together \in BOOLEAN /\ learnt \in BOOLEAN

\* The closeout's order: no worker after its sessions, the goal after the application.
CloseoutInv ==
  /\ step \in {"verify", "drain", "select", "promote", "apply", "complete", "report", "done"} =>
       scope = "closed" /\ Working = {}
  /\ step \in {"complete", "report", "done"} \/ goal = "complete" => applied

\* What is chosen has a verification.
ChosenInv == chosen # 0 => iters[chosen] # <<>>

\* Without a session cut off, an overlap on record was one.
OverlapInv == overlap => together \/ \E c \in Cands, n \in Slots : sess[c][n].state = "cut"

\* A verification is later than the read of its session, which saw what it saw then.
ExchangeInv ==
  \A c \in Cands : \A i \in Verified(c) :
    LET n == iters[c][i].by
    IN iters[c][i].later =>
         n \in Slots /\ sess[c][n].read = "before" /\ (sess[c][n].seen # {} => learnt)

\* The verdict is given once, on a promotion.
VerdictInv == passed => step = "exported" /\ run = "promoted"
=============================================================================
