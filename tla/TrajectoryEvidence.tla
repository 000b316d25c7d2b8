------------------------- MODULE TrajectoryEvidence -------------------------
(***************************************************************************)
(* What the finalizer of an EdgeBench cell concludes from the state that   *)
(* Goal Plus leaves behind: a trajectory in which search runs, candidates, *)
(* worker sessions and verifications come and go, the archive of it, the   *)
(* main agent's event stream, and the verdict and the live status computed *)
(* from them.                                                              *)
(*                                                                         *)
(* One trajectory.  A worker session has one invocation, and a session     *)
(* that follows it on the same candidate has the next generation.  The     *)
(* times of the intervals are left out: how many of them hold at once is   *)
(* counted as they begin and end.                                          *)
(***************************************************************************)
EXTENDS Naturals, FiniteSets

CONSTANTS K,            \* inner_search_concurrency
          MaxRuns,      \* bounds: search runs,
          MaxCands,     \* candidates of a run,
          MaxSessions,  \* sessions, and generations of one candidate
          MaxGen

VARIABLES
  method,     \* goal-plus-codex or goal-plus-pi
  runs,       \* search run -> its state
  chosen,     \* search run -> its selected candidate, 0 if none
  cands,      \* candidate records, as <<run, candidate>>
  sess,       \* session records <<run, candidate, generation>> -> state
  verified,   \* the sessions with verifier runs
  ledger,     \* the candidates the main agent's stream shows verified
  helpers,    \* threads of the main agent that are no workers
  goal,       \* the goal: complete with its reports ("reported"), or anything else
  scored,     \* the official score is there
  peak,       \* most workers alive at once
  cover,      \* most recorded intervals that hold at once
  archive     \* goal-plus-state.tar: none, or taken with or without an unended interval

vars == <<method, runs, chosen, cands, sess, verified, ledger, helpers, goal, scored, peak,
          cover, archive>>

Runs == 1..MaxRuns
Cands == 1..MaxCands
Sessions == Runs \X Cands \X (0..MaxGen)
Larger(a, b) == IF a > b THEN a ELSE b

TypeOK ==
  /\ method \in {"codex", "pi"}
  /\ runs \in [Runs -> {"none", "active", "selected", "aborted"}]
  /\ chosen \in [Runs -> Cands \cup {0}] /\ cands \subseteq Runs \X Cands
  /\ sess \in [Sessions -> {"none", "allocated", "live", "closed", "cut"}]
  /\ verified \subseteq Sessions /\ ledger \subseteq Runs \X Cands /\ helpers \in 0..K
  /\ goal \in {"open", "reported"} /\ scored \in BOOLEAN
  /\ peak \in 0..MaxSessions /\ cover \in 0..MaxSessions
  /\ archive \in {"none", "taken", "unended"}

Init ==
  /\ method \in {"codex", "pi"}
  /\ runs = [r \in Runs |-> "none"] /\ chosen = [r \in Runs |-> 0]
  /\ cands = {} /\ sess = [s \in Sessions |-> "none"]
  /\ verified = {} /\ ledger = {} /\ helpers = 0
  /\ goal = "open" /\ scored = FALSE /\ peak = 0 /\ cover = 0
  /\ archive = "none"

Made == {s \in Sessions : sess[s] # "none"}
Live == {s \in Sessions : sess[s] = "live"}
Opened == {r \in Runs : runs[r] # "none"}
\* The goal is linked to its last run.
Current == {r \in Opened : \A q \in Opened : q <= r}

search == <<method, runs, chosen, cands>>
workers == <<sess, verified, peak, cover>>
outcome == <<ledger, helpers, goal, scored>>

-----------------------------------------------------------------------------
(* The trajectory: the main agent, Goal Plus and its workers               *)

\* A further run should succeed an invalidated one; that it does is what is checked.
OpenRun(r) ==
  /\ archive = "none"
  /\ runs[r] = "none" /\ \A q \in 1..(r - 1) : q \in Opened
  /\ runs' = [runs EXCEPT ![r] = "active"]
  /\ UNCHANGED <<method, chosen, cands, workers, outcome, archive>>

Invalidate(r) ==
  /\ archive = "none" /\ runs[r] = "active"
  /\ runs' = [runs EXCEPT ![r] = "aborted"]
  /\ UNCHANGED <<method, chosen, cands, workers, outcome, archive>>

Allocate(r, c) ==
  /\ archive = "none" /\ runs[r] = "active" /\ <<r, c>> \notin cands
  /\ \A d \in 1..(c - 1) : <<r, d>> \in cands
  /\ Cardinality(Made) < MaxSessions
  /\ cands' = cands \cup {<<r, c>>}
  /\ sess' = [sess EXCEPT ![<<r, c, 0>>] = "allocated"]
  /\ UNCHANGED <<method, runs, chosen, verified, peak, cover, outcome, archive>>

\* The sessions whose recorded interval covers this moment, which is what
\* summarize_worker_concurrency counts.
Holding == {s \in Sessions : sess[s] \in {"live", "cut"}}

\* A recorded interval holds while its worker lives; a worker cut off without a receipt
\* has one up to the end (updated_at is written at the closeout).
Launch(s) ==
  /\ archive = "none" /\ runs[s[1]] = "active" /\ sess[s] = "allocated"
  /\ sess' = [sess EXCEPT ![s] = "live"]
  /\ peak' = Larger(peak, Cardinality(Live) + 1)
  /\ cover' = Larger(cover, Cardinality(Holding) + 1)
  /\ UNCHANGED <<search, verified, outcome, archive>>

Verify(s) ==
  /\ archive = "none" /\ sess[s] = "live"
  /\ verified' = verified \cup {s}
  /\ UNCHANGED <<search, sess, peak, cover, outcome, archive>>

\* The worker ends with a dispatch receipt or without one.
WorkerEnds(s) ==
  /\ archive = "none" /\ sess[s] = "live"
  /\ \E how \in {"closed", "cut"} : sess' = [sess EXCEPT ![s] = how]
  /\ UNCHANGED <<search, verified, peak, cover, outcome, archive>>

\* A candidate whose worker ended gets a session of the next generation.
Recover(s) ==
  /\ archive = "none" /\ runs[s[1]] = "active" /\ sess[s] \in {"closed", "cut"}
  /\ s[3] < MaxGen /\ Cardinality(Made) < MaxSessions
  /\ sess[<<s[1], s[2], s[3] + 1>>] = "none"
  /\ sess' = [sess EXCEPT ![<<s[1], s[2], s[3] + 1>>] = "allocated"]
  /\ UNCHANGED <<search, verified, peak, cover, outcome, archive>>

Select(r, c) ==
  /\ archive = "none" /\ runs[r] = "active" /\ <<r, c>> \in cands
  /\ runs' = [runs EXCEPT ![r] = "selected"] /\ chosen' = [chosen EXCEPT ![r] = c]
  /\ UNCHANGED <<method, cands, workers, outcome, archive>>

\* The trajectory ends: SForge archives the state and may have scored it.  By then the
\* goal may have ended, with its reports or without; the stream of a codex main agent may
\* show threads that are no workers and verifications of its own, which is only looked at
\* where there is one search.
Archive ==
  /\ archive = "none" /\ Opened # {}
  /\ archive' \in IF Live = {} THEN {"taken"} ELSE {"taken", "unended"}
  /\ scored' \in BOOLEAN /\ goal' \in {"open", "reported"}
  /\ IF method = "codex" /\ Cardinality(Opened) = 1
     THEN helpers' \in 0..K /\ ledger' \in SUBSET cands
     ELSE UNCHANGED <<helpers, ledger>>
  /\ UNCHANGED <<search, workers>>

-----------------------------------------------------------------------------
(* What is read off the archive and the stream                             *)

\* session_agent_harness: only a session whose worker was launched has a bound handle.
Bound(S) == {s \in S : sess[s] \in {"live", "closed", "cut"}}
\* Intervals come from the receipts, or from the binding where there are none.
FromReceipts(S) == {s \in S : sess[s] = "closed"}
FromBinding(S) == {s \in S : sess[s] \in {"live", "cut"}}
Interval(S) == FromReceipts(Bound(S)) \cup FromBinding(Bound(S))
Confirmed(S) == {s \in Bound(S) : s[3] = 0}
Recovered(S) == {s \in S : s[3] > 0}
VerifierCandidates(S) == {<<s[1], s[2]>> : s \in verified \cap Bound(S)}
CandidatesOf(R) == {p \in cands : p[1] \in R}
\* The contract of a run: every session of it has the frozen harness.
ContractHolds(S) == S = Bound(S)
TerminalReady == goal = "reported"
Promoted(R) == {r \in R : chosen[r] # 0}
Valid == archive # "none" /\ scored

\* parse_codex_event_text, of a main agent that is codex.
EventCandidates == IF method = "codex" THEN cands ELSE {}
EventLedger == IF method = "codex" THEN ledger ELSE {}
EventSpawned == IF method = "codex" THEN helpers ELSE 0

\* What goal_plus_completion_evidence sees of a trajectory with one run, with its stream,
\* and of one run of several, on its own.
WholeTrajectory ==
  [sessions |-> Made, cands |-> Cardinality(CandidatesOf(Runs) \cup EventCandidates),
   spawned |-> Larger(EventSpawned, Cardinality(Bound(Made))), ledger |-> EventLedger,
   chosen |-> Promoted(Runs)]
RunEvidence(r) ==
  LET mine == {s \in Made : s[1] = r} IN
  [sessions |-> mine, cands |-> Cardinality(CandidatesOf({r})),
   spawned |-> Cardinality(Bound(mine)), ledger |-> {}, chosen |-> Promoted({r})]

ActualWorkers(o) ==
  IF Recovered(o.sessions) # {} \/ method = "pi"
  THEN Cardinality(Confirmed(o.sessions)) ELSE o.spawned

\* No more workers than K at once, and an interval for every verified candidate; asked
\* only where a session was recovered.
RecoveryParallel(o) ==
  Recovered(o.sessions) = {} \/
    /\ archive = "taken" /\ cover <= K
    /\ (VerifierCandidates(o.sessions) \cup o.ledger)
         \subseteq {<<s[1], s[2]>> : s \in Interval(o.sessions)}

CompletionEvidence(o) ==
  /\ ContractHolds(o.sessions) /\ Valid
  /\ o.cands = K /\ Cardinality(o.sessions) >= K
  /\ Larger(Cardinality(verified \cap o.sessions), Cardinality(o.ledger)) >= K
  /\ Cardinality(VerifierCandidates(o.sessions) \cup o.ledger) >= K
  /\ o.chosen # {}
  /\ method = "codex" => o.spawned >= K
  /\ ActualWorkers(o) = K
  /\ RecoveryParallel(o) /\ TerminalReady

\* Mutant: a predecessor may still be open.
HistoryOfCurrent ==
  /\ ContractHolds(Made) /\ Cardinality(Current) = 1
  /\ archive = "taken" /\ cover <= K
  /\ Bound(Made) # {}

\* The predecessors are aborted and invalidated, and over the whole trajectory no more
\* than K workers were alive.
History ==
  /\ ContractHolds(Made)
  /\ Cardinality(Current) = 1
  /\ \A r \in Opened \ Current :
       runs[r] = "aborted" /\ Cardinality(Confirmed(RunEvidence(r).sessions)) <= K
  /\ archive = "taken" /\ cover <= K
  /\ Bound(Made) # {}

Successor ==
  /\ History
  /\ \A r \in Current :
       LET o == RunEvidence(r) IN
         CompletionEvidence(o) /\ Cardinality(Confirmed(o.sessions)) = K

\* summarize_cell's completion evidence.
Passed ==
  /\ archive # "none"
  /\ IF Cardinality(Opened) > 1 THEN Successor ELSE CompletionEvidence(WholeTrajectory)

Next ==
  \/ \E r \in Runs : OpenRun(r) \/ Invalidate(r)
  \/ \E r \in Runs, c \in Cands : Allocate(r, c) \/ Select(r, c)
  \/ \E s \in Sessions : Launch(s) \/ Verify(s) \/ WorkerEnds(s) \/ Recover(s)
  \/ Archive

Spec == Init /\ [][Next]_vars
-----------------------------------------------------------------------------
(* Properties                                                              *)

\* A passed verdict stands for what happened: the search that counts has exactly K
\* candidates, each had a worker of the first generation and a verification, one of them
\* was selected, and the goal ended with its reports (goal_plus_completion_evidence).
PassedIsReal ==
  Passed => \E r \in Current :
    /\ Cardinality({p \in cands : p[1] = r}) = K
    /\ \A p \in cands : p[1] = r => /\ sess[<<r, p[2], 0>>] \in {"live", "closed", "cut"}
                                    /\ \/ \E g \in 0..MaxGen : <<r, p[2], g>> \in verified
                                       \/ p \in ledger
    /\ chosen[r] # 0 /\ goal = "reported" /\ scored

\* With a recovery or a successor search in it, a passed trajectory never had more than K
\* workers alive, receipts or not, and no earlier search that could still be selected from.
PassedIsBounded ==
  Passed /\ (Recovered(Made) # {} \/ Cardinality(Opened) > 1) =>
    peak <= K /\ \A r \in Opened \ Current : runs[r] = "aborted"

EvidenceIsSound == PassedIsReal /\ PassedIsBounded

-----------------------------------------------------------------------------
(* The inductive invariant behind the two properties.                      *)

\* Candidates and sessions are of runs, and a candidate's first session is made with it.
RecordsInv ==
  /\ \A p \in cands : p[1] \in Opened /\ sess[<<p[1], p[2], 0>>] # "none"
  /\ \A s \in Made : <<s[1], s[2]>> \in cands
  /\ \A r \in Runs : chosen[r] # 0 => r \in Opened

\* Whoever was verified was launched, and the stream shows candidates.
VerifiedInv ==
  /\ \A s \in verified : sess[s] \in {"live", "closed", "cut"}
  /\ ledger \subseteq cands

\* The intervals on record hold whenever their workers live.
CountInv == Cardinality(Made) <= MaxSessions /\ peak <= cover

ArchiveInv == archive # "none" => Opened # {}
=============================================================================
