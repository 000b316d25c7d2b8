---------------------------- MODULE ReferenceCache ----------------------------
(***************************************************************************)
(* TorchBench evaluations and the reference outputs they share: the        *)
(* candidate's tree is archived from HEAD, each batch size looks up its    *)
(* reference under an identity that names HEAD, builds it under a file     *)
(* lock when there is no such file, and compares.  Calls overlap, HEAD     *)
(* moves, a worker times out, a call is killed and its worker may go on:   *)
(* it does not hold the lock.                                              *)
(***************************************************************************)
EXTENDS Naturals, FiniteSets

CONSTANTS NumCalls, MaxMoves, MaxBatches    \* a final call adds batch sizes

VARIABLES
  head,      \* HEAD of the checkout
  file,      \* per identity: the cached reference
  lock,      \* per identity: the call that holds its .lock, or Nobody
  call,      \* per call: its step, batch, identity, trees and results
  writer,    \* per call: its reference worker: the identity it builds (or Nothing), from
             \* which commit, and whether HEAD had moved since the lookup
  cut        \* identities of which a worker was ever cut off, or ran without the lock

vars == <<head, file, lock, call, writer, cut>>

Calls == 1..NumCalls
Nobody == 0
Commits == 0..MaxMoves
Batches == 1..MaxBatches
Identities == Commits \X Batches
Nothing == <<MaxMoves + 1, 1>>            \* no identity
Absent == [is |-> "absent", of |-> 0, moved |-> FALSE]
NoWorker == [id |-> Nothing, of |-> 0, moved |-> FALSE]
Fresh == [pc |-> "idle", last |-> 1, batch |-> 1, tree |-> 0, id |-> Nothing,
          moved |-> FALSE, since |-> FALSE, used |-> {}]

CallRecords ==
  [pc : {"idle", "identity", "lock", "look", "archive", "build", "compare", "valid", "invalid", "killed"},
   last : Batches, batch : Batches, tree : Commits, id : Identities \cup {Nothing},
   moved : BOOLEAN, since : BOOLEAN, used : SUBSET Commits]

TypeOK ==
  /\ head \in Commits
  /\ file \in [Identities -> [is : {"absent", "torn", "whole"}, of : Commits, moved : BOOLEAN]]
  /\ lock \in [Identities -> Calls \cup {Nobody}] /\ cut \subseteq Identities
  /\ writer \in [Calls -> [id : Identities \cup {Nothing}, of : Commits, moved : BOOLEAN]]
  /\ call \in [Calls -> CallRecords]

Init ==
  /\ head = 0 /\ file = [i \in Identities |-> Absent] /\ lock = [i \in Identities |-> Nobody]
  /\ call = [c \in Calls |-> Fresh] /\ writer = [c \in Calls |-> NoWorker] /\ cut = {}

Running(c) == call[c].pc \notin {"idle", "valid", "invalid", "killed"}
Set(c, new) == call' = [call EXCEPT ![c] = new]
Free(c) == lock' = [i \in Identities |-> IF lock[i] = c THEN Nobody ELSE lock[i]]
Over(c, pc) == [Fresh EXCEPT !.pc = pc]
Id(c) == call[c].id
Works(c) == writer[c].id # Nothing
Stops(c) == writer' = [writer EXCEPT ![c] = NoWorker]

-----------------------------------------------------------------------------
\* Around the calls.

Move ==
  /\ head < MaxMoves /\ head' = head + 1
  /\ call' = [c \in Calls |-> IF Running(c)
                              THEN [call[c] EXCEPT !.moved = TRUE, !.since = TRUE] ELSE call[c]]
  /\ UNCHANGED <<file, lock, writer, cut>>

\* The kernel drops the lock of a dead call; the worker dies with it or goes on.
Kill(c) ==
  /\ Running(c) /\ Set(c, Over(c, "killed")) /\ Free(c)
  /\ Stops(c) \/ (Works(c) /\ UNCHANGED writer)
  /\ cut' = IF Works(c) THEN cut \cup {writer[c].id} ELSE cut
  /\ UNCHANGED <<head, file>>

-----------------------------------------------------------------------------
\* evaluate_workspace.

\* prepare_evaluation_tree: the archive of HEAD that the candidate is put into.
Prepare(c) ==
  /\ call[c].pc = "idle"
  /\ \E last \in Batches : Set(c, [call[c] EXCEPT !.pc = "identity", !.tree = head, !.last = last])
  /\ UNCHANGED <<head, file, lock, writer, cut>>

\* reference_path, before the lock is even named.
Identify(c) ==
  /\ call[c].pc = "identity"
  /\ Set(c, [call[c] EXCEPT !.pc = "lock", !.id = <<head, call[c].batch>>, !.since = FALSE])
  /\ UNCHANGED <<head, file, lock, writer, cut>>

Lock(c) ==
  /\ call[c].pc = "lock" /\ lock[Id(c)] = Nobody
  /\ lock' = [lock EXCEPT ![Id(c)] = c] /\ Set(c, [call[c] EXCEPT !.pc = "look"])
  /\ UNCHANGED <<head, file, writer, cut>>

\* Any file is taken for the reference.
Usable(i) == file[i].is # "absent"

Look(c) ==
  /\ call[c].pc = "look"
  /\ IF Usable(Id(c))
     THEN Set(c, [call[c] EXCEPT !.pc = "compare"]) /\ Free(c)
     ELSE Set(c, [call[c] EXCEPT !.pc = "archive"]) /\ UNCHANGED lock
  /\ UNCHANGED <<head, file, writer, cut>>

\* copy_tracked_checkout, and the worker started on the clean tree.
Builds(c, commit) ==
  /\ call[c].pc = "archive" /\ Set(c, [call[c] EXCEPT !.pc = "build"])
  /\ writer' = [writer EXCEPT ![c] = [id |-> Id(c), of |-> commit, moved |-> call[c].since]]
  /\ UNCHANGED <<head, file, lock, cut>>

Archive(c) == Builds(c, head)

\* torch.save opens the destination itself: it is torn until the worker is done.  Two
\* writers of one file leave it torn.
Writers(i) == {c \in Calls : writer[c].id = i}

Open(c) ==
  /\ Works(c) /\ file[writer[c].id].is = "absent"
  /\ file' = [file EXCEPT ![writer[c].id] =
                [is |-> "torn", of |-> writer[c].of, moved |-> writer[c].moved]]
  /\ UNCHANGED <<head, lock, call, writer, cut>>

Save(c) ==
  LET i == writer[c].id IN
  /\ Works(c) /\ file[i].is # "absent" /\ Stops(c)
  /\ file' = IF Writers(i) = {c} THEN [file EXCEPT ![i].is = "whole"] ELSE file
  /\ cut' = IF Writers(i) = {c} THEN cut ELSE cut \cup {i}
  /\ IF call[c].pc = "build" THEN Set(c, [call[c] EXCEPT !.pc = "compare"]) /\ Free(c)
     ELSE UNCHANGED <<call, lock>>
  /\ UNCHANGED head

\* The worker times out, runs out of memory, or reports an error before it saves.
WorkerFails(c) ==
  /\ call[c].pc = "build" /\ Stops(c)
  /\ Set(c, Over(c, "invalid")) /\ Free(c)
  /\ cut' = IF file[Id(c)].is = "absent" THEN cut ELSE cut \cup {Id(c)}
  /\ UNCHANGED <<head, file>>

\* The evaluation worker: torch.load refuses a torn file, the outputs agree or do not.
Compare(c) ==
  /\ call[c].pc = "compare"
  /\ \/ Set(c, Over(c, "invalid"))
     \/ /\ file[Id(c)].is = "whole"
        /\ LET next == [call[c] EXCEPT !.used = @ \cup {file[Id(c)].of}] IN
           Set(c, IF call[c].batch = call[c].last THEN [next EXCEPT !.pc = "valid"]
                  ELSE [next EXCEPT !.batch = @ + 1, !.pc = "identity"])
  /\ UNCHANGED <<head, file, lock, writer, cut>>

Next ==
  \/ Move
  \/ \E c \in Calls : \/ Kill(c) \/ Prepare(c) \/ Identify(c) \/ Lock(c) \/ Look(c) \/ Archive(c)
                      \/ Open(c) \/ Save(c) \/ WorkerFails(c) \/ Compare(c)

Spec == Init /\ [][Next]_vars

-----------------------------------------------------------------------------
\* A reference is of the commit it is filed under, unless the checkout moved between the
\* lookup and the archive of the call that built it: from then on it is used as it is.
FiledUnderItsCommit ==
  \A i \in Identities : file[i].is = "whole" => file[i].of = i[1] \/ file[i].moved

\* A valid report compared every batch with references of the candidate tree's own commit,
\* unless the checkout moved during this call or during the call that built one of them.
SameCommit ==
  \A c \in Calls : call[c].pc = "valid" /\ ~call[c].moved =>
    \/ call[c].used = {call[c].tree}
    \/ \E i \in Identities : file[i].moved

\* A file that no worker is writing is whole, unless one was cut off at it or wrote without
\* the lock: nothing ever builds that reference again.
TornOnlyWhenCut ==
  \A i \in Identities : file[i].is = "torn" /\ Writers(i) = {} => i \in cut

\* The lock keeps two builders of one reference apart, unless one outlived its call.
OneBuilder ==
  \A i \in Identities : Cardinality({c \in Writers(i) : call[c].pc = "build"}) <= 1

CacheIsSound == FiledUnderItsCommit /\ SameCommit /\ TornOnlyWhenCut /\ OneBuilder

-----------------------------------------------------------------------------
(* The inductive invariant behind the four properties.                       *)

\* A call begins afresh, and goes through its batches up to the last.
CallsInv ==
  \A c \in Calls : call[c].batch <= call[c].last /\ (call[c].pc = "idle" => call[c] = Fresh)

\* The identity of a call is of HEAD until HEAD moves, and its candidate tree is too.
IdentityInv ==
  \A c \in Calls :
    /\ call[c].pc \in {"lock", "look", "archive", "build", "compare"} =>
         /\ Id(c) \in Identities
         /\ Id(c)[1] = head \/ call[c].since
         /\ call[c].since => call[c].moved
    /\ Running(c) /\ ~call[c].moved => call[c].tree = head

\* What a worker writes is of the commit it is filed under, or it is marked.
FiledInv ==
  /\ \A i \in Identities :
       IF file[i].is = "absent" THEN ~file[i].moved ELSE file[i].of = i[1] \/ file[i].moved
  /\ \A c \in Calls : Works(c) =>
       /\ writer[c].of = writer[c].id[1] \/ writer[c].moved
       /\ \/ call[c].pc = "build" /\ Id(c) = writer[c].id
          \/ call[c].pc = "killed" /\ writer[c].id \in cut

\* Who builds has the lock and a worker.
LockedInv ==
  \A c \in Calls :
    /\ call[c].pc \in {"look", "archive", "build"} => lock[Id(c)] = c
    /\ call[c].pc = "build" => Works(c)

\* The references a call has used are of its own tree, unless something moved.
UsedInv ==
  \A c \in Calls : (Running(c) \/ call[c].pc = "valid") /\ ~call[c].moved =>
    \/ call[c].used \subseteq {call[c].tree} /\ (call[c].pc = "valid" => call[c].used # {})
    \/ \E i \in Identities : file[i].moved
================================================================================
