--------------------------- MODULE ParallelAudit ---------------------------
(***************************************************************************)
(* The audit of a Pi campaign's parallel execution.  A main agent launches *)
(* invocations of its workers and waits for them; the workers run them one *)
(* after the other; afterwards the audit joins the receipts in the main    *)
(* session with the dispatches that the worker sessions persisted and      *)
(* decides whether every lane was kept at work until the deadline.         *)
(*                                                                         *)
(* A lane is one candidate with one session.  A launch is acknowledged at  *)
(* the time of its request.  Time 0 stands for "never".                    *)
(***************************************************************************)
EXTENDS Integers, Sequences, FiniteSets

CONSTANTS Workers,     \* expected_workers
          Deadline,    \* exploration_deadline, and the end of time here
          MaxIdle,     \* max_idle_seconds
          MaxCalls     \* lane -> bound on its invocations

VARIABLES
  now,
  calls,        \* lane -> its invocations in the order of their launches
  dispatches,   \* lane -> what its session record keeps: all of its receipts, none, or some
  over          \* the campaign has ended and is audited

vars == <<now, calls, dispatches, over>>

Lanes == 1..Workers
Times == 0..Deadline
Calls == [requested : Times, start : Times, end : Times,
          read : Times,          \* the end that the main agent's own receipts tell
          observed : BOOLEAN]    \* and whether one told the worker's own times

TypeOK ==
  /\ now \in Times /\ over \in BOOLEAN
  /\ calls \in [Lanes -> Seq(Calls)] /\ \A l \in Lanes : Len(calls[l]) <= MaxCalls[l]
  /\ dispatches \in [Lanes -> {"all", "none", "some"}]

Init ==
  /\ now = 1 /\ calls = [l \in Lanes |-> <<>>]
  /\ over = FALSE /\ dispatches \in [Lanes -> {"all", "none"}]

Of(l) == DOMAIN calls[l]
Running(l) == {i \in Of(l) : calls[l][i].start # 0 /\ calls[l][i].end = 0}
Waiting(l) == {i \in Of(l) : calls[l][i].start = 0}

-----------------------------------------------------------------------------
(* The campaign                                                            *)

Launch(l) ==
  /\ ~over /\ Len(calls[l]) < MaxCalls[l]
  /\ calls' = [calls EXCEPT ![l] = Append(@, [requested |-> now, start |-> 0, end |-> 0,
                                              read |-> 0, observed |-> FALSE])]
  /\ UNCHANGED <<now, dispatches, over>>

\* A session runs its invocations one at a time, in their order.
WorkerStarts(l) ==
  /\ ~over /\ Running(l) = {}
  /\ \E i \in Waiting(l) :
       /\ \A j \in Waiting(l) : i <= j
       /\ calls' = [calls EXCEPT ![l][i].start = now]
  /\ UNCHANGED <<now, dispatches, over>>

WorkerEnds(l) ==
  /\ ~over
  /\ \E i \in Running(l) : calls' = [calls EXCEPT ![l][i].end = now]
  /\ UNCHANGED <<now, dispatches, over>>

\* Where the session record has every receipt, what the main agent's tell is overwritten.
\* The worker's own times replace any other.
WaitReads(l, i) ==
  /\ ~over /\ dispatches[l] = "none" /\ calls[l][i].end # 0 /\ ~calls[l][i].observed
  /\ \/ calls[l][i].read = 0 /\ calls' = [calls EXCEPT ![l][i].read = now]
     \/ calls' = [calls EXCEPT ![l][i].read = calls[l][i].end, ![l][i].observed = TRUE]
  /\ UNCHANGED <<now, dispatches, over>>

\* The session is stopped or closed: whatever is still open in it counts as ended now,
\* whether a worker has ended it, is at it or never came to it.
StopReads(l) ==
  /\ ~over /\ dispatches[l] = "none" /\ \E i \in Of(l) : calls[l][i].read = 0
  /\ calls' = [calls EXCEPT ![l] = [i \in Of(l) |->
       IF calls[l][i].read = 0 THEN [calls[l][i] EXCEPT !.read = now] ELSE calls[l][i]]]
  /\ UNCHANGED <<now, dispatches, over>>

Tick == ~over /\ now < Deadline /\ now' = now + 1 /\ UNCHANGED <<calls, dispatches, over>>

EndOfCampaign ==
  /\ ~over /\ now = Deadline /\ over' = TRUE
  /\ \/ UNCHANGED dispatches
     \/ \E l \in Lanes : dispatches[l] = "all" /\ dispatches' = [dispatches EXCEPT ![l] = "some"]
  /\ UNCHANGED <<now, calls>>

-----------------------------------------------------------------------------
(* audit_pi_parallel_execution                                             *)

\* _merge_persisted_dispatches: every invocation must start inside the window of its own
\* request, have taken some time and have ended.
InWindow(l, i) ==
  /\ calls[l][i].requested <= calls[l][i].start /\ calls[l][i].start < calls[l][i].end
  /\ \A j \in Of(l) : j > i => calls[l][i].start < calls[l][j].requested
Joined(l) == dispatches[l] = "all" /\ \A i \in Of(l) : InWindow(l, i)
JoinFails(l) ==
  /\ Of(l) # {}
  /\ \/ dispatches[l] = "some"
     \/ dispatches[l] = "all" /\ \E i \in Of(l) : ~InWindow(l, i)

\* The times on record: the worker's own where they are known, otherwise those of the
\* main agent's receipts.
Exact(l, i) == Joined(l) \/ calls[l][i].observed
Started(l, i) == IF Exact(l, i) THEN calls[l][i].start ELSE calls[l][i].requested
Ended(l, i) == IF Exact(l, i) THEN calls[l][i].end ELSE calls[l][i].read
Settled(l) == {i \in Of(l) : Ended(l, i) # 0}

Least(a, b) == IF a < b THEN a ELSE b
Most(a, b) == IF a > b THEN a ELSE b
LeastOf(S) == CHOOSE t \in S : \A u \in S : t <= u
MostOf(S) == CHOOSE t \in S : \A u \in S : u <= t

Observed == {l \in Lanes : Settled(l) # {}}
First(l) == LeastOf({Started(l, i) : i \in Settled(l)})
\* The steady phase begins when the last lane has begun.
StableStart == IF Observed = {} THEN Deadline ELSE MostOf({First(l) : l \in Observed})

\* The sweep over a lane goes by the starts of its invocations.
Earlier(l, i) ==
  {j \in Settled(l) : \/ Started(l, j) < Started(l, i)
                      \/ Started(l, j) = Started(l, i) /\ j < i}
\* Where its cursor is behind the invocations S: the end of what is covered.
Cursor(l, S) == MostOf({StableStart} \cup {Least(Ended(l, j), Deadline) : j \in S})
Gap(l, i) == Most(0, Least(Started(l, i), Deadline) - Cursor(l, Earlier(l, i)))
Gaps(l) == {Gap(l, i) : i \in Settled(l)}

\* Mutant: the time from the last invocation to the deadline is not a gap.
IdleToLastCall(l) == MostOf({0} \cup Gaps(l))
Idle(l) == MostOf({Most(0, Deadline - Cursor(l, Settled(l)))} \cup Gaps(l))

\* summarize_worker_concurrency over the settled invocations that took time.
AtWork(t) ==
  {c \in UNION {{l} \X Settled(l) : l \in Lanes} :
     Started(c[1], c[2]) <= t /\ t < Ended(c[1], c[2])}
Peak == MostOf({Cardinality(AtWork(t)) : t \in Times})

AuditPasses ==
  /\ over
  /\ Observed = Lanes
  /\ \A l \in Lanes : ~JoinFails(l)
  /\ \A l \in Lanes : \A i \in Of(l) : Ended(l, i) # 0 /\ Started(l, i) <= Ended(l, i)
  /\ Peak = Workers
  /\ \A l \in Lanes : Idle(l) <= MaxIdle

Next ==
  \/ \E l \in Lanes : Launch(l) \/ WorkerStarts(l) \/ WorkerEnds(l) \/ StopReads(l)
  \/ \E l \in Lanes : \E i \in Of(l) : WaitReads(l, i)
  \/ Tick \/ EndOfCampaign

Spec == Init /\ [][Next]_vars
-----------------------------------------------------------------------------
(* Properties                                                              *)

Busy(l, t) == \E i \in Of(l) : calls[l][i].start # 0 /\ calls[l][i].start <= t /\ t < calls[l][i].end
\* Something of the lane is at work between a and b, be it for no time at all.
Touched(l, a, b) == \E i \in Of(l) : calls[l][i].start # 0 /\ calls[l][i].start < b /\ calls[l][i].end > a
NeverStill(l) ==
  \A t \in StableStart..(Deadline - MaxIdle - 1) : Touched(l, t, t + MaxIdle + 1)
AllExact == \A l \in Lanes : \A i \in Of(l) : Exact(l, i)

\* Where every invocation has the worker's own times, a passed audit means that from the
\* start of the last lane to the deadline no lane stood still for longer than the limit.
NoLaneStoodStill ==
  AllExact /\ AuditPasses => \A l \in Lanes : NeverStill(l)

\* ... that at some moment all of them were at work,
AllAtWork ==
  AllExact /\ AuditPasses => \E t \in Times : \A l \in Lanes : Busy(l, t)

\* ... and that the limits are not tighter than that: a campaign that kept to them, with
\* every receipt persisted and no invocation launched before the last one ended, passes.
Orderly ==
  /\ over /\ \A l \in Lanes : dispatches[l] = "all" /\ Of(l) # {}
  /\ \A l \in Lanes : \A i \in Of(l) : InWindow(l, i)
  /\ \E t \in Times : \A l \in Lanes : Busy(l, t)
  /\ \A l \in Lanes : NeverStill(l)
OrderlyPasses == Orderly => AuditPasses

\* An invocation that never ended passes the audit only where its session was stopped or
\* closed over it and left no record that could tell: any record, complete or not, fails it.
UnsettledFails ==
  AuditPasses => \A l \in Lanes : \A i \in Of(l) :
    calls[l][i].end = 0 => calls[l][i].read # 0 /\ dispatches[l] = "none"

AuditIsSound == NoLaneStoodStill /\ AllAtWork /\ OrderlyPasses /\ UnsettledFails

-----------------------------------------------------------------------------
(* The inductive invariant behind the four properties.                     *)

\* An invocation begins, ends and is told of by its worker, in this order.
CallInv(l, i) ==
  LET c == calls[l][i] IN
  /\ c.start <= now
  /\ c.end # 0 => c.start # 0 /\ c.start <= c.end /\ c.end <= now
  /\ c.observed => c.end # 0

\* The invocations of a lane are one after the other.
OrderInv(l) ==
  \A i, j \in Of(l) : i < j /\ calls[l][j].start # 0 =>
    calls[l][i].end # 0 /\ calls[l][i].end <= calls[l][j].start

LanesInv == \A l \in Lanes : OrderInv(l) /\ \A i \in Of(l) : CallInv(l, i)
=============================================================================
