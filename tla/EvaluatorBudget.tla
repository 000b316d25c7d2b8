---------------------------- MODULE EvaluatorBudget ----------------------------
(***************************************************************************)
(* The evaluator calls of one workspace: each is a process of its own that *)
(* claims a ticket from budget.json under a file lock, reads the candidate,*)
(* has it evaluated, and appends to the history.  Calls overlap, may be    *)
(* killed anywhere, and run while the agent goes on editing the candidate. *)
(* The OpenEvolve adapter has a limit and a reserve for the controller's   *)
(* final call; the other adapters only count.                              *)
(***************************************************************************)
EXTENDS Naturals, FiniteSets

CONSTANTS NumCalls, MaxPublic, Reserve, MaxEdits

VARIABLES
  limited,    \* which adapter: with the limits, or counting only
  budget,     \* budget.json
  lock,       \* who holds budget.lock (0: nobody)
  mode, pc, seen,           \* per call: its mode, its step, the budget it read
  index, hash, evaluated,   \* the ticket, the candidate it hashed, the one evaluated
  artifact, agent,          \* the candidate in the workspace; the agent is at work
  history, archive,         \* history.jsonl; the final report archived
  claims, refused           \* history: tickets given, calls refused for the budget

vars == <<limited, budget, lock, mode, pc, seen, index, hash, evaluated, artifact, agent,
          history, archive, claims, refused>>

Calls == 1..NumCalls
Modes == {"public", "final"}
Counts == 0..NumCalls
Budgets == [public : Counts, final : Counts, total : Counts]
Unclaimed == [public |-> 0, final |-> 0, total |-> 0]
Torn == [Unclaimed EXCEPT !.total = NumCalls + 1]
Reports == [mode : Modes, index : Counts, hash : 0..MaxEdits, evaluated : 0..MaxEdits]
NoReport == [mode |-> "none", index |-> 0, hash |-> 0, evaluated |-> 0]

TypeOK ==
  /\ limited \in BOOLEAN /\ budget \in Budgets \cup {Torn} /\ lock \in 0..NumCalls
  /\ mode \in [Calls -> Modes] /\ seen \in [Calls -> Budgets] /\ index \in [Calls -> Counts]
  /\ pc \in [Calls -> {"idle", "lock", "read", "truncate", "fill", "hash", "evaluate",
                       "append", "over", "dead"}]
  /\ {hash, evaluated} \subseteq [Calls -> 0..MaxEdits]
  /\ artifact \in 0..MaxEdits /\ agent \in BOOLEAN
  /\ history \subseteq Reports /\ archive \in Reports \cup {NoReport}
  /\ claims \in [Modes -> Counts] /\ refused \subseteq Modes

\* prepare has reset budget.json.
Init ==
  LET All(x) == [c \in Calls |-> x] IN
  /\ limited \in BOOLEAN /\ budget = Unclaimed /\ lock = 0
  /\ mode = All("public") /\ pc = All("idle") /\ seen = All(Unclaimed)
  /\ index = All(0) /\ hash = All(0) /\ evaluated = All(0)
  /\ artifact = 0 /\ agent = TRUE /\ history = {} /\ archive = NoReport
  /\ claims = [m \in Modes |-> 0] /\ refused = {}

Go(c, to) == pc' = [pc EXCEPT ![c] = to]
Ticket == <<mode, seen, index>>
Result == <<hash, evaluated>>
Work == <<artifact, agent, history, archive>>
Told == <<claims, refused>>

\* A worker's call, one the agent left behind included; or the controller's, after the agent.
Call(c) ==
  /\ pc[c] = "idle" /\ \E m \in Modes :
       /\ m = "final" => ~agent
       /\ mode' = [mode EXCEPT ![c] = m]
  /\ Go(c, "lock")
  /\ UNCHANGED <<limited, budget, lock, seen, index, Result, Work, Told>>

\* Mutant: the ledger is read and written without the lock.
LockNobody(c) ==
  /\ pc[c] = "lock" /\ Go(c, "read")
  /\ UNCHANGED <<limited, budget, lock, Ticket, Result, Work, Told>>

Lock(c) ==
  /\ pc[c] = "lock" /\ lock = 0 /\ lock' = c /\ Go(c, "read")
  /\ UNCHANGED <<limited, budget, Ticket, Result, Work, Told>>

\* A ledger that cannot be parsed ends the call.
ReadTorn(c) ==
  /\ pc[c] = "read" /\ budget = Torn /\ Go(c, "dead")
  /\ lock' = IF lock = c THEN 0 ELSE lock
  /\ UNCHANGED <<limited, budget, Ticket, Result, Work, Told>>

Exhausted(m) ==
  limited /\ IF m = "public" THEN budget.public >= MaxPublic ELSE budget.final >= Reserve

\* BudgetExhausted: nothing is written.
Refuse(c) ==
  /\ pc[c] = "read" /\ budget # Torn /\ Exhausted(mode[c])
  /\ refused' = refused \cup {mode[c]} /\ Go(c, "dead")
  /\ lock' = IF lock = c THEN 0 ELSE lock
  /\ UNCHANGED <<limited, budget, Ticket, Result, Work, claims>>

Claim(c) ==
  /\ pc[c] = "read" /\ budget # Torn /\ ~Exhausted(mode[c])
  /\ seen' = [seen EXCEPT ![c] = [budget EXCEPT ![mode[c]] = @ + 1, !.total = @ + 1]]
  /\ index' = [index EXCEPT ![c] = seen'[c].total] /\ Go(c, "truncate")
  /\ UNCHANGED <<limited, budget, lock, mode, Result, Work, Told>>

Truncate(c) ==
  /\ pc[c] = "truncate" /\ budget' = Torn /\ Go(c, "fill")
  /\ UNCHANGED <<limited, lock, Ticket, Result, Work, Told>>

Fill(c) ==
  /\ pc[c] = "fill" /\ budget' = seen[c] /\ Go(c, "hash")
  /\ lock' = IF lock = c THEN 0 ELSE lock
  /\ claims' = [claims EXCEPT ![mode[c]] = @ + 1]
  /\ UNCHANGED <<limited, Ticket, Result, Work, refused>>

\* evaluate_workspace reads the candidate for its hash and its checks; the evaluator
\* reads the file again.
Hash(c) ==
  /\ pc[c] = "hash" /\ hash' = [hash EXCEPT ![c] = artifact] /\ Go(c, "evaluate")
  /\ UNCHANGED <<limited, budget, lock, Ticket, evaluated, Work, Told>>

Evaluate(c) ==
  /\ pc[c] = "evaluate" /\ evaluated' = [evaluated EXCEPT ![c] = artifact] /\ Go(c, "append")
  /\ UNCHANGED <<limited, budget, lock, Ticket, hash, Work, Told>>

Append(c) ==
  /\ pc[c] = "append" /\ lock = 0 /\ Go(c, "over")
  /\ history' = history \cup {[mode |-> mode[c], index |-> index[c], hash |-> hash[c],
                               evaluated |-> evaluated[c]]}
  /\ UNCHANGED <<limited, budget, lock, Ticket, Result, artifact, agent, archive, Told>>

Finals == {r \in history : r.mode = "final"}

\* archive_workspace (OpenEvolve only): one final evaluation, of the candidate there is.
Archive ==
  /\ limited /\ ~agent /\ archive = NoReport /\ Cardinality(Finals) = 1
  /\ \E r \in Finals : r.hash = artifact /\ archive' = r
  /\ UNCHANGED <<limited, budget, lock, Ticket, pc, Result, artifact, agent, history, Told>>

Edit ==
  /\ agent /\ artifact < MaxEdits /\ artifact' = artifact + 1
  /\ UNCHANGED <<limited, budget, lock, Ticket, pc, Result, agent, history, archive, Told>>

AgentEnds ==
  /\ agent /\ agent' = FALSE
  /\ UNCHANGED <<limited, budget, lock, Ticket, pc, Result, artifact, history, archive, Told>>

\* The lock goes with the process.
Kill(c) ==
  /\ pc[c] \notin {"idle", "over", "dead"} /\ Go(c, "dead")
  /\ lock' = IF lock = c THEN 0 ELSE lock
  /\ UNCHANGED <<limited, budget, Ticket, Result, Work, Told>>

Next ==
  \/ \E c \in Calls :
       \/ Call(c) \/ Lock(c) \/ ReadTorn(c) \/ Refuse(c) \/ Claim(c) \/ Truncate(c) \/ Fill(c)
       \/ Hash(c) \/ Evaluate(c) \/ Append(c) \/ Kill(c)
  \/ Archive \/ Edit \/ AgentEnds

Spec == Init /\ [][Next]_vars

-----------------------------------------------------------------------------
\* The ledger counts every ticket once, over overlapping and killed calls, the public calls
\* leave the controller's reserve alone, and the final call is refused only when the
\* reserve went to a final call before it (claim_ticket, claim_evaluator_call).
LedgerCounts ==
  /\ budget # Torn =>
       /\ budget.public = claims["public"] /\ budget.final = claims["final"]
       /\ budget.total = budget.public + budget.final
  /\ limited => claims["public"] <= MaxPublic /\ claims["final"] <= Reserve
  /\ "final" \in refused => claims["final"] = Reserve

\* No two evaluations in the history carry the same ticket.
TicketsDiffer == \A r, s \in history : r.index = s.index => r = s

\* What is archived was evaluated as it stands, although the file is read twice
\* (evaluate_workspace, archive_workspace): the final call comes after the agent.
ArchiveIsHonest ==
  archive # NoReport => archive.hash = artifact /\ archive.evaluated = artifact

BudgetIsSound == LedgerCounts /\ TicketsDiffer /\ ArchiveIsHonest

-----------------------------------------------------------------------------
(* The inductive invariant behind the three properties.                      *)

Given == claims["public"] + claims["final"]
Counted(c) == pc[c] \in {"hash", "evaluate", "append", "over"}
Report(c) == [mode |-> mode[c], index |-> index[c], hash |-> hash[c], evaluated |-> evaluated[c]]

\* The lock is held from the reading of the ledger to its rewriting, and by nobody else.
LockInv ==
  \A c \in Calls : pc[c] \in {"read", "truncate", "fill"} <=> lock = c

\* Whoever is about to write the ledger has counted one ticket more than were given.
ClaimInv ==
  /\ \A c \in Calls : pc[c] \in {"truncate", "fill"} =>
       /\ \A m \in Modes : seen[c][m] = claims[m] + (IF m = mode[c] THEN 1 ELSE 0)
       /\ index[c] = Given + 1 /\ seen[c].total = Given + 1
       /\ limited => claims[mode[c]] < (IF mode[c] = "public" THEN MaxPublic ELSE Reserve)
  /\ refused # {} => limited

\* Tickets are given once and in order; what is in the history is a call's own report.
TicketInv ==
  /\ \A c \in Calls : Counted(c) => index[c] \in 1..Given
  /\ \A c, d \in Calls : Counted(c) /\ Counted(d) /\ index[c] = index[d] => c = d
  /\ \A r \in history : \E c \in Calls : pc[c] = "over" /\ r = Report(c)

\* No more tickets are given than there are calls to take one.
Ticketed == {c \in Calls : index[c] # 0 /\ pc[c] \notin {"truncate", "fill"}}
CallsInv ==
  /\ \A c \in Calls : pc[c] \in {"idle", "lock", "read"} => index[c] = 0
  /\ Given <= Cardinality(Ticketed)

\* The candidate stays as it is from the first final call on.
FinalInv ==
  /\ \A c \in Calls : mode[c] = "final" => /\ ~agent
                                           /\ pc[c] \in {"append", "over"} => evaluated[c] = artifact
  /\ archive # NoReport => ~agent
=============================================================================
