------------------------------- MODULE Checkouts -------------------------------
(***************************************************************************)
(* One managed checkout under `check --environment` and `bootstrap`: the   *)
(* update query, the clone into a staging directory, the fast-forward of   *)
(* an existing clone, the doctor.  Commands overlap, fail at any transport *)
(* and are killed anywhere, while the user works in the checkout and the   *)
(* tracked branch is published to or rewritten.  A commit is the set of    *)
(* changes in its history, so "is an ancestor of" is inclusion.            *)
(***************************************************************************)
EXTENDS Naturals, FiniteSets

CONSTANTS NumCommands, MaxChanges, MaxEdits

VARIABLES
  remote,            \* the commit the repository advertises for the tracked branch
  disk,              \* the checkout path
  staging, staged,   \* <name>_bootstrap_incomplete and the commit fetched into it
  op, pc,            \* per command: what it is, and its step
  seen, healthy, code,   \* its last reading of the checkout, its doctor, its exit
  changes, edits,    \* changes made, user actions taken (the bounds)
  work, moved        \* history: commits the user made on a branch; per command, the
                     \* checkout or the remote has changed since its last reading

vars == <<remote, disk, staging, staged, op, pc, seen, healthy, code, changes, edits, work, moved>>

Commands == 1..NumCommands
User == 0
Nothing == {}
Commits == SUBSET (0..MaxChanges)     \* change 0 is the first commit
Absent == [is |-> "absent", at |-> "branch", branch |-> Nothing, other |-> Nothing,
           loose |-> Nothing, upstream |-> FALSE, dirty |-> FALSE, tracking |-> Nothing,
           shaped |-> FALSE]
Disks == [is : {"absent", "foreign", "clone"}, at : {"branch", "other", "detached"},
          branch : Commits, other : Commits, loose : Commits, upstream : BOOLEAN,
          dirty : BOOLEAN, tracking : Commits, shaped : BOOLEAN]
Readings == [blocked : BOOLEAN, repair : BOOLEAN, clone : BOOLEAN, head : Commits]
Unread == [blocked |-> FALSE, repair |-> FALSE, clone |-> FALSE, head |-> Nothing]

TypeOK ==
  /\ {remote, staged} \subseteq Commits /\ staging \in {"none", "made", "fetched", "checked"}
  /\ disk \in Disks
  /\ op \in [Commands -> {"bootstrap", "check", "decline"}]
  /\ pc \in [Commands -> {"idle", "doctor", "state", "query", "look", "make", "clone", "checkout",
                          "rename", "inspect", "fetch", "attach", "upstream", "merge", "sparse",
                          "verify", "install", "redoctor", "restate", "requery", "over"}]
  /\ seen \in [Commands -> Readings] /\ healthy \in [Commands -> BOOLEAN]
  /\ code \in [Commands -> {"none", "ok", "failed"}]
  /\ changes \in 0..MaxChanges /\ edits \in 0..MaxEdits /\ work \subseteq 1..MaxChanges
  /\ moved \in [Commands -> BOOLEAN]

Init ==
  LET All(x) == [c \in Commands |-> x] IN
  /\ remote = {0} /\ staging = "none" /\ staged = Nothing
  /\ disk \in {Absent, [Absent EXCEPT !.is = "clone", !.branch = {0}, !.tracking = {0},
                                      !.upstream = TRUE, !.shaped = TRUE]}
  /\ op = All("bootstrap") /\ pc = All("idle") /\ seen = All(Unread) /\ healthy = All(FALSE)
  /\ code = All("none") /\ changes = 0 /\ edits = 0 /\ work = {} /\ moved = All(FALSE)

Head(d) ==
  IF d.at = "branch" THEN d.branch ELSE IF d.at = "other" THEN d.other ELSE d.loose

\* disk with its head moved to commit.
WithHead(commit) ==
  IF disk.at = "branch" THEN [disk EXCEPT !.branch = commit]
  ELSE IF disk.at = "other" THEN [disk EXCEPT !.other = commit]
  ELSE [disk EXCEPT !.loose = commit]

Go(c, to) == pc' = [pc EXCEPT ![c] = to]
Exit(c, result) == Go(c, "over") /\ code' = [code EXCEPT ![c] = result]
Raise(c) == Exit(c, "failed")
Changed(c) == moved' = [d \in Commands |-> moved[d] \/ d # c]
Stage == <<staging, staged>>
Reading == <<seen, healthy>>
World == <<remote, changes, edits, work>>

-----------------------------------------------------------------------------
\* The user and the remote.

Publish ==
  /\ changes < MaxChanges /\ changes' = changes + 1
  /\ remote' \in {remote \cup {changes + 1}, {0, changes + 1}}
  /\ Changed(User) /\ UNCHANGED <<disk, Stage, op, pc, Reading, code, edits, work>>

Edit ==
  /\ edits < MaxEdits /\ edits' = edits + 1
  /\ \/ /\ disk.is = "clone"
        /\ \/ disk' = [disk EXCEPT !.dirty = TRUE]
           \/ disk' = [disk EXCEPT !.upstream = FALSE]
           \/ disk' = [disk EXCEPT !.shaped = FALSE]     \* the registry changes its paths
           \/ /\ disk.at = "branch"
              /\ \/ disk' = [disk EXCEPT !.at = "detached", !.loose = Head(disk)]
                 \/ disk' = [disk EXCEPT !.at = "other", !.other = Head(disk)]
           \/ disk' = [Absent EXCEPT !.is = "foreign"] /\ work = {}
        /\ UNCHANGED Stage
     \/ /\ staging # "none" /\ staging' = "none" /\ staged' = Nothing    \* renamed to *_bak
        /\ UNCHANGED disk
  /\ Changed(User) /\ UNCHANGED <<remote, op, pc, Reading, code, changes, work>>

\* A commit of the user, on a branch or on a detached HEAD.
Commit ==
  /\ disk.is = "clone" /\ changes < MaxChanges /\ changes' = changes + 1
  /\ disk' = [WithHead(Head(disk) \cup {changes + 1}) EXCEPT !.dirty = FALSE]
  /\ work' = IF disk.at = "detached" THEN work ELSE work \cup {changes + 1}
  /\ Changed(User) /\ UNCHANGED <<remote, Stage, op, pc, Reading, code, edits>>

-----------------------------------------------------------------------------
\* The commands.

Start(c) ==
  /\ pc[c] = "idle" /\ \E o \in {"bootstrap", "check", "decline"} :
       /\ op' = [op EXCEPT ![c] = o]
       /\ Go(c, IF o = "bootstrap" THEN "look" ELSE "doctor")
  /\ UNCHANGED <<disk, Stage, Reading, code, World, moved>>

\* collect_doctor; the packages and entry points may be in order or not.
InOrder(d) ==
  /\ d.is = "clone" /\ d.at = "branch" /\ d.upstream /\ d.tracking \subseteq d.branch /\ ~d.dirty

Doctor(c) ==
  /\ pc[c] \in {"doctor", "redoctor"}
  /\ \E rest \in BOOLEAN :
       LET ok == rest /\ InOrder(disk) IN
       /\ healthy' = [healthy EXCEPT ![c] = ok]
       /\ \/ pc[c] = "doctor" /\ Go(c, "state") /\ UNCHANGED code
          \/ pc[c] = "redoctor" /\ op[c] = "check" /\ Go(c, "restate") /\ UNCHANGED code
          \/ pc[c] = "redoctor" /\ op[c] # "check" /\ Exit(c, IF ok THEN "ok" ELSE "failed")
  /\ UNCHANGED <<disk, Stage, op, seen, World, moved>>

\* repository_update_check reads the checkout before it asks the remote.
ReadState(c) ==
  /\ pc[c] \in {"state", "restate"}
  /\ LET blocked == disk.is = "foreign" \/ (disk.is = "clone" /\ (disk.dirty \/ disk.at = "other")) IN
     seen' = [seen EXCEPT ![c] =
       [blocked |-> blocked, clone |-> disk.is = "absent", head |-> Head(disk),
        repair |-> /\ disk.is = "clone" /\ ~blocked
                   /\ \/ disk.at # "branch" \/ ~disk.upstream \/ disk.tracking # Head(disk)]]
  /\ moved' = [moved EXCEPT ![c] = FALSE]
  /\ Go(c, IF pc[c] = "state" THEN "query" ELSE "requery")
  /\ UNCHANGED <<disk, Stage, op, healthy, code, World>>

\* environment_check over advertised_remote_head.
ActionRequired(c, commit) == seen[c].clone \/ seen[c].repair \/ seen[c].head # commit

Query(c) ==
  /\ pc[c] = "query"
  /\ \/ Raise(c)      \* no transport answers
     \/ /\ ~seen[c].blocked /\ ~ActionRequired(c, remote)
        /\ Exit(c, IF healthy[c] THEN "ok" ELSE "failed")
     \/ seen[c].blocked /\ Exit(c, "failed")
     \/ /\ ~seen[c].blocked /\ ActionRequired(c, remote)
        /\ IF op[c] = "check" THEN Go(c, "look") /\ UNCHANGED code ELSE Exit(c, "failed")
  /\ UNCHANGED <<disk, Stage, op, Reading, World, moved>>

Requery(c) ==
  /\ pc[c] = "requery"
  /\ \/ Raise(c)
     \/ Exit(c, IF healthy[c] /\ ~seen[c].blocked /\ ~ActionRequired(c, remote)
                THEN "ok" ELSE "failed")
  /\ UNCHANGED <<disk, Stage, op, Reading, World, moved>>

\* ensure_checkout
Look(c) ==
  /\ pc[c] = "look" /\ Go(c, IF disk.is = "absent" THEN "make" ELSE "inspect")
  /\ moved' = [moved EXCEPT ![c] = FALSE]
  /\ UNCHANGED <<disk, Stage, op, Reading, code, World>>

\* An incomplete clone that is there already is left to be inspected.
Make(c) ==
  /\ pc[c] = "make"
  /\ \/ staging # "none" /\ Raise(c) /\ UNCHANGED staging
     \/ staging = "none" /\ staging' = "made" /\ Go(c, "clone") /\ UNCHANGED code
  /\ UNCHANGED <<disk, staged, op, Reading, World, moved>>

\* A step of the clone fails, or its staging directory has been moved away.
CloneFails(c) ==
  /\ pc[c] \in {"clone", "checkout", "rename"} /\ Raise(c)
  /\ UNCHANGED <<disk, Stage, op, Reading, World, moved>>

Clone(c) ==
  /\ pc[c] = "clone" /\ staging # "none" /\ Go(c, "checkout")
  /\ staging' = "fetched" /\ staged' = remote
  /\ UNCHANGED <<disk, op, Reading, code, World, moved>>

CheckOut(c) ==
  /\ pc[c] = "checkout" /\ staging = "fetched" /\ staging' = "checked" /\ Go(c, "rename")
  /\ UNCHANGED <<disk, staged, op, Reading, code, World, moved>>

\* rename refuses a path that has come to exist.
Rename(c) ==
  /\ pc[c] = "rename" /\ staging = "checked" /\ disk.is = "absent" /\ Go(c, "install")
  /\ disk' = [Absent EXCEPT !.is = "clone", !.branch = staged, !.tracking = staged,
                            !.upstream = TRUE, !.shaped = TRUE]
  /\ staging' = "none" /\ staged' = Nothing /\ Changed(c)
  /\ UNCHANGED <<op, Reading, code, World>>

Inspect(c) ==
  /\ pc[c] = "inspect"
  /\ IF disk.is = "clone" /\ ~disk.dirty THEN Go(c, "fetch") /\ UNCHANGED code ELSE Raise(c)
  /\ UNCHANGED <<disk, Stage, op, Reading, World, moved>>

\* Steps of git in the clone.  Each may fail, and does when the clone is gone.
Git(c, at, next, effect) ==
  /\ pc[c] = at /\ UNCHANGED <<Stage, op, Reading, World>>
  /\ \/ Raise(c) /\ UNCHANGED <<disk, moved>>
     \/ disk.is = "clone" /\ disk' = effect /\ Go(c, next) /\ Changed(c) /\ UNCHANGED code

Fetch(c) == Git(c, "fetch", "attach", [disk EXCEPT !.tracking = remote])

\* A detached HEAD goes back to the local branch, or to a new one at the tracking ref.
Attach(c) ==
  /\ disk.at # "other"
  /\ Git(c, "attach", "upstream",
       IF disk.at = "branch" THEN disk
       ELSE IF disk.branch # Nothing THEN [disk EXCEPT !.at = "branch"]
       ELSE [disk EXCEPT !.at = "branch", !.branch = disk.tracking, !.upstream = TRUE])

AttachRefused(c) ==
  /\ pc[c] = "attach" /\ disk.at = "other" /\ Raise(c)
  /\ UNCHANGED <<disk, Stage, op, Reading, World, moved>>

SetUpstream(c) == Git(c, "upstream", "merge", [disk EXCEPT !.upstream = TRUE])

\* merge --ff-only, of whatever is checked out by now.
Merge(c) ==
  /\ Head(disk) \subseteq disk.tracking \/ disk.tracking \subseteq Head(disk)
  /\ Git(c, "merge", "sparse", WithHead(Head(disk) \cup disk.tracking))

MergeRefused(c) ==
  /\ pc[c] = "merge" /\ ~(Head(disk) \subseteq disk.tracking \/ disk.tracking \subseteq Head(disk))
  /\ Raise(c) /\ UNCHANGED <<disk, Stage, op, Reading, World, moved>>

SetSparse(c) == Git(c, "sparse", "verify", [disk EXCEPT !.shaped = TRUE])

\* Mutant: a checkout that is ahead is accepted, as the doctor does.
VerifyAncestor(c) ==
  /\ pc[c] = "verify"
  /\ IF disk.tracking \subseteq Head(disk) THEN Go(c, "install") /\ UNCHANGED code ELSE Raise(c)
  /\ UNCHANGED <<disk, Stage, op, Reading, World, moved>>

Verify(c) ==
  /\ pc[c] = "verify"
  /\ IF disk.tracking = Head(disk) THEN Go(c, "install") /\ UNCHANGED code ELSE Raise(c)
  /\ UNCHANGED <<disk, Stage, op, Reading, World, moved>>

\* The virtual environment and the packages.
Install(c) ==
  /\ pc[c] = "install" /\ (Raise(c) \/ (Go(c, "redoctor") /\ UNCHANGED code))
  /\ UNCHANGED <<disk, Stage, op, Reading, World, moved>>

Kill(c) ==
  /\ pc[c] \notin {"idle", "over"} /\ Raise(c)
  /\ UNCHANGED <<disk, Stage, op, Reading, World, moved>>

Next ==
  \/ Publish \/ Edit \/ Commit
  \/ \E c \in Commands :
       \/ Start(c) \/ Doctor(c) \/ ReadState(c) \/ Query(c) \/ Requery(c)
       \/ Look(c) \/ Make(c) \/ CloneFails(c) \/ Clone(c) \/ CheckOut(c) \/ Rename(c)
       \/ Inspect(c) \/ Fetch(c) \/ Attach(c) \/ AttachRefused(c) \/ SetUpstream(c)
       \/ Merge(c) \/ MergeRefused(c) \/ SetSparse(c) \/ Verify(c) \/ Install(c) \/ Kill(c)

Spec == Init /\ [][Next]_vars

-----------------------------------------------------------------------------
\* What the user committed on a branch is still on a branch, whatever the remote has done
\* and however many commands ran over it (ensure_checkout: fast-forward only).
WorkKept == work \subseteq disk.branch \cup disk.other

\* The checkout path never shows a clone in the making: every reader finds a commit that
\* was published or made in it (ensure_checkout's staging directory and rename).
CloneIsWhole ==
  disk.is = "clone" => Head(disk) # Nothing /\ disk.tracking # Nothing

\* A command that ends well has seen the checkout on its branch, clean and at the head the
\* remote advertises, unless something moved after it looked; the bootstrap leaves
\* the registered paths too (environment_check, bootstrap_environment).
Current ==
  /\ disk.is = "clone" /\ disk.at = "branch" /\ disk.upstream /\ ~disk.dirty
  /\ disk.branch = remote

GoodEndIsCurrent ==
  \A c \in Commands : code[c] = "ok" /\ ~moved[c] => Current /\ (op[c] = "bootstrap" => disk.shaped)

CheckoutIsSound == WorkKept /\ CloneIsWhole /\ GoodEndIsCurrent

-----------------------------------------------------------------------------
(* The inductive invariant behind the three properties.                    *)

\* What is fetched is a commit; there is work only in a clone, and on another branch only
\* while the clone is at it.
DiskInv ==
  /\ remote # Nothing
  /\ staging \in {"fetched", "checked"} => staged # Nothing
  /\ disk.is # "clone" => work = {}
  /\ disk.at # "other" => disk.other = Nothing

\* A command has an exit when it is over, and a bootstrap never asks for updates.
ExitInv(c) ==
  /\ code[c] # "none" => pc[c] = "over"
  /\ pc[c] \in {"doctor", "state", "query", "restate", "requery"} => op[c] # "bootstrap"

\* What a command has read of the checkout is so, unless something moved.
SeenInv(c) ==
  pc[c] \in {"query", "requery"} /\ ~moved[c] =>
    \/ seen[c].blocked \/ seen[c].clone \/ seen[c].repair
    \/ /\ disk.is = "clone" /\ disk.at = "branch" /\ disk.upstream /\ ~disk.dirty
       /\ disk.branch = seen[c].head

\* Until something moves, a command goes from the commit the remote had to a checkout of it.
CourseInv(c) ==
  ~moved[c] =>
    /\ pc[c] \in {"clone", "checkout", "rename"} /\ staging \in {"fetched", "checked"} =>
         staged = remote
    /\ pc[c] \in {"attach", "upstream", "merge", "sparse", "verify"} =>
         disk.is = "clone" /\ disk.tracking = remote
    /\ pc[c] = "verify" => disk.shaped
    /\ pc[c] \in {"install", "redoctor"} =>
         /\ disk.is = "clone" /\ disk.tracking = remote /\ Head(disk) = remote /\ disk.shaped

CommandsInv == \A c \in Commands : ExitInv(c) /\ SeenInv(c) /\ CourseInv(c)
=============================================================================
