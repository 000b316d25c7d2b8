------------------------------- MODULE GameWatch -------------------------------
(***************************************************************************)
(* The watcher of EdgeBench's game cells: it polls a running campaign and  *)
(* keeps, for each cell, what the judge had written when the checkpoint    *)
(* passed.  The campaign runs, ends and is launched again under it; the    *)
(* watcher is killed, started again, or started twice.  One checkpoint per *)
(* cell; what the judge has written is told by the time it is read.        *)
(***************************************************************************)
EXTENDS Naturals

CONSTANTS NumCells, MaxWatchers,
          Checkpoint,      \* when, after the start of a cell
          Window,          \* strict_checkpoint: max(10, 2 * poll_seconds)
          SlowestPass,     \* one pass over the cells takes no longer (an assumption)
          MaxTime, MaxLaunches

VARIABLES
  clock,
  campaign, launches,    \* campaign.json's state, and times it was launched
  cell,                  \* per cell: its state, its start and end
  snapshot,              \* game_snapshots/<cell>/<seconds>.json
  meta,                  \* the pid in watcher.json
  pc, parent,            \* per watcher: its step, and its launcher about to write watcher.json
  saw, saws, now, at,    \* per watcher: campaign and cells as read, the time, the cell at work
  left,                  \*   and the cells it found without a snapshot
  twice, lost            \* history: two watchers have been at work; snapshots replaced

vars == <<clock, campaign, launches, cell, snapshot, meta, pc, parent, saw, saws, now, at, left,
          twice, lost>>

Cells == 1..NumCells
Watchers == 1..MaxWatchers
Nobody == 0
Never == MaxTime + 1
Nothing == [is |-> "nothing", read |-> Never, strict |-> FALSE]
Pass == {"cells", "visit", "write", "remaining", "last"}
Ended == {"idle", "over", "dead", "refused"}

CellRecord == [is : {"prepared", "running", "over"}, start : 0..Never, end : 0..Never]
Snapshots == [is : {"nothing", "taken", "unavailable"}, read : 0..Never, strict : BOOLEAN]
Steps == Pass \cup Ended \cup {"asked", "campaign", "asleep"}

TypeOK ==
  /\ clock \in 0..MaxTime /\ campaign \in {"running", "over"} /\ launches \in 1..MaxLaunches
  /\ cell \in [Cells -> CellRecord] /\ snapshot \in [Cells -> Snapshots]
  /\ meta \in {Nobody} \cup Watchers /\ parent \in [Watchers -> BOOLEAN]
  /\ pc \in [Watchers -> Steps]
  /\ saw \in [Watchers -> {"running", "over"}] /\ now \in [Watchers -> 0..MaxTime]
  /\ saws \in [Watchers -> [Cells -> {"prepared", "running", "over"}]]
  /\ at \in [Watchers -> 0..NumCells + 1]
  /\ left \in [Watchers -> SUBSET Cells] /\ twice \in BOOLEAN /\ lost \subseteq Cells

Init ==
  LET All(x) == [w \in Watchers |-> x] IN
  /\ clock = 0 /\ campaign = "running" /\ launches = 1
  /\ cell = [c \in Cells |-> [is |-> "prepared", start |-> Never, end |-> Never]]
  /\ snapshot = [c \in Cells |-> Nothing] /\ meta = Nobody
  /\ pc = All("idle") /\ parent = All(FALSE) /\ saw = All("running") /\ now = All(0)
  /\ saws = All([c \in Cells |-> "prepared"]) /\ at = All(0)
  /\ left = All({}) /\ twice = FALSE /\ lost = {}

Campaign == <<campaign, launches, cell>>
Seen == <<saw, saws, now, at, left>>
History == <<twice, lost>>
Go(w, to) == pc' = [pc EXCEPT ![w] = to]
\* What a watcher has read matters no more once its pass is over.
Fresh == [c \in Cells |-> "prepared"]
Forget(w) ==
  /\ saw' = [saw EXCEPT ![w] = "running"] /\ saws' = [saws EXCEPT ![w] = Fresh]
  /\ now' = [now EXCEPT ![w] = 0] /\ at' = [at EXCEPT ![w] = 0] /\ left' = [left EXCEPT ![w] = {}]
AtWork(w) == pc[w] \notin Ended \cup {"asked"}

-----------------------------------------------------------------------------
\* The campaign.  Time passes, but not in the middle of a pass that has lasted long enough.

Tick ==
  /\ clock < MaxTime /\ clock' = clock + 1
  /\ \A w \in Watchers : pc[w] \in Pass \ {"cells"} => clock < now[w] + SlowestPass
  /\ UNCHANGED <<Campaign, snapshot, meta, pc, parent, Seen, History>>

StartCell(c) ==
  /\ campaign = "running" /\ cell[c].is = "prepared"
  /\ cell' = [cell EXCEPT ![c] = [is |-> "running", start |-> clock, end |-> Never]]
  /\ UNCHANGED <<clock, campaign, launches, snapshot, meta, pc, parent, Seen, History>>

EndCell(c) ==
  /\ cell[c].is = "running"
  /\ cell' = [cell EXCEPT ![c] = [is |-> "over", start |-> @.start, end |-> clock]]
  /\ UNCHANGED <<clock, campaign, launches, snapshot, meta, pc, parent, Seen, History>>

EndCampaign ==
  /\ campaign = "running" /\ campaign' = "over" /\ \A c \in Cells : cell[c].is # "running"
  /\ UNCHANGED <<clock, launches, cell, snapshot, meta, pc, parent, Seen, History>>

\* A campaign that was stopped is launched again, for the cells it has left.
Relaunch ==
  /\ campaign = "over" /\ launches < MaxLaunches /\ \E c \in Cells : cell[c].is = "prepared"
  /\ campaign' = "running" /\ launches' = launches + 1
  /\ UNCHANGED <<clock, cell, snapshot, meta, pc, parent, Seen, History>>

-----------------------------------------------------------------------------
\* Starting a watcher: in the foreground, or detached by launch_watcher.

Begins(w) == twice' = (twice \/ \E v \in Watchers \ {w} : AtWork(v))

Watch(w) ==
  /\ pc[w] \in {"idle", "dead", "refused"} /\ ~parent[w] /\ Go(w, "campaign") /\ Begins(w)
  /\ UNCHANGED <<clock, Campaign, snapshot, meta, parent, Seen, lost>>

LaunchWatcher(w) ==
  /\ pc[w] \in {"idle", "dead", "refused"} /\ ~parent[w]
  /\ Go(w, IF meta # Nobody /\ AtWork(meta) THEN "refused" ELSE "asked")
  /\ UNCHANGED <<clock, Campaign, snapshot, meta, parent, Seen, History>>

Spawn(w) ==
  /\ pc[w] = "asked" /\ Go(w, "campaign") /\ Begins(w) /\ parent' = [parent EXCEPT ![w] = TRUE]
  /\ UNCHANGED <<clock, Campaign, snapshot, meta, Seen, lost>>

NoteLaunch(w) ==
  /\ parent[w] /\ parent' = [parent EXCEPT ![w] = FALSE] /\ meta' = w
  /\ UNCHANGED <<clock, Campaign, snapshot, pc, Seen, History>>

-----------------------------------------------------------------------------
\* watch_game_checkpoints: one pass.

ReadCampaign(w) ==
  /\ pc[w] = "campaign" /\ saw' = [saw EXCEPT ![w] = campaign] /\ Go(w, "cells")
  /\ UNCHANGED <<clock, Campaign, snapshot, meta, parent, saws, now, at, left, History>>

\* Every cell.json, and then the time.
ReadCells(w) ==
  /\ pc[w] = "cells" /\ saws' = [saws EXCEPT ![w] = [c \in Cells |-> cell[c].is]]
  /\ now' = [now EXCEPT ![w] = clock] /\ at' = [at EXCEPT ![w] = 1] /\ Go(w, "visit")
  /\ UNCHANGED <<clock, Campaign, snapshot, meta, parent, saw, left, History>>

\* The controller writes its records in place: a read may find half of one.
ReadTorn(w) ==
  /\ pc[w] \in {"campaign", "cells", "write", "last"} /\ campaign = "running" /\ Go(w, "dead")
  /\ Forget(w) /\ UNCHANGED <<clock, Campaign, snapshot, meta, parent, History>>

Passed(w, c) == cell[c].start # Never /\ now[w] >= cell[c].start + Checkpoint

Unavailable == [Nothing EXCEPT !.is = "unavailable"]
Put(c, s) ==
  /\ snapshot' = [snapshot EXCEPT ![c] = s]
  /\ lost' = IF snapshot[c].is = "taken" THEN lost \cup {c} ELSE lost

\* Mutant: a cell that has ended is given up before its checkpoint is looked at.
VisitEndedFirst(w) ==
  LET c == at[w] IN
  /\ pc[w] = "visit" /\ c \in Cells
  /\ IF snapshot[c].is = "nothing" /\ saws[w][c] = "over"
     THEN Put(c, Unavailable) /\ at' = [at EXCEPT ![w] = c + 1] /\ UNCHANGED pc
     ELSE /\ UNCHANGED <<snapshot, lost>>
          /\ IF snapshot[c].is = "nothing" /\ Passed(w, c) THEN Go(w, "write") /\ UNCHANGED at
             ELSE at' = [at EXCEPT ![w] = c + 1] /\ UNCHANGED pc
  /\ UNCHANGED <<clock, Campaign, meta, parent, saw, saws, now, left, twice>>

Visit(w) ==
  LET c == at[w] IN
  /\ pc[w] = "visit" /\ c \in Cells
  /\ \/ /\ snapshot[c].is # "nothing"
        /\ at' = [at EXCEPT ![w] = c + 1] /\ UNCHANGED <<pc, snapshot, lost>>
     \/ /\ snapshot[c].is = "nothing" /\ Passed(w, c)
        /\ Go(w, "write") /\ UNCHANGED <<at, snapshot, lost>>
     \/ /\ snapshot[c].is = "nothing" /\ ~Passed(w, c)
        /\ at' = [at EXCEPT ![w] = c + 1] /\ UNCHANGED pc
        /\ IF saws[w][c] = "over" THEN Put(c, Unavailable) ELSE UNCHANGED <<snapshot, lost>>
  /\ UNCHANGED <<clock, Campaign, meta, parent, saw, saws, now, left, twice>>

Strict(w, c) == now[w] <= cell[c].start + Checkpoint + Window

\* capture_game_snapshot: what the judge has written by now, under the pass's time.
Capture(w) ==
  LET c == at[w] IN
  /\ pc[w] = "write" /\ Go(w, "visit") /\ at' = [at EXCEPT ![w] = c + 1]
  /\ Put(c, [is |-> "taken", read |-> clock, strict |-> Strict(w, c)])
  /\ UNCHANGED <<clock, Campaign, meta, parent, saw, saws, now, left, twice>>

\* The remaining cells go into watcher.json, which decides nothing here.
Remaining(w) ==
  /\ pc[w] = "visit" /\ at[w] = NumCells + 1 /\ Go(w, "remaining")
  /\ left' = [left EXCEPT ![w] = {c \in Cells : snapshot[c].is = "nothing"}]
  /\ UNCHANGED <<clock, Campaign, snapshot, meta, parent, saw, saws, now, at, History>>

Note(w) ==
  /\ pc[w] = "remaining" /\ meta' = w
  /\ \/ left[w] = {} /\ Go(w, "over") /\ Forget(w)
     \/ left[w] # {} /\ saw[w] = "running" /\ Go(w, "asleep") /\ Forget(w)
     \/ left[w] # {} /\ saw[w] = "over" /\ Go(w, "last") /\ UNCHANGED Seen
  /\ UNCHANGED <<clock, Campaign, snapshot, parent, History>>

\* The campaign was over when this pass began: what is left has no snapshot.
GiveUp(w) ==
  /\ pc[w] = "last"
  /\ \/ left[w] = {} /\ Go(w, "over") /\ Forget(w) /\ UNCHANGED <<snapshot, lost>>
     \/ \E c \in left[w] :
          /\ \A d \in left[w] : c <= d
          /\ Put(c, Unavailable) /\ left' = [left EXCEPT ![w] = @ \ {c}]
          /\ UNCHANGED <<pc, saw, saws, now, at>>
  /\ UNCHANGED <<clock, Campaign, meta, parent, twice>>

Wake(w) ==
  /\ pc[w] = "asleep" /\ Go(w, "campaign")
  /\ UNCHANGED <<clock, Campaign, snapshot, meta, parent, Seen, History>>

Kill(w) ==
  /\ AtWork(w) /\ Go(w, "dead") /\ Forget(w)
  /\ UNCHANGED <<clock, Campaign, snapshot, meta, parent, History>>

Next ==
  \/ Tick \/ EndCampaign \/ Relaunch \/ \E c \in Cells : StartCell(c) \/ EndCell(c)
  \/ \E w \in Watchers :
       \/ Watch(w) \/ LaunchWatcher(w) \/ Spawn(w) \/ NoteLaunch(w)
       \/ ReadCampaign(w) \/ ReadCells(w) \/ ReadTorn(w) \/ Visit(w)
       \/ Capture(w) \/ Remaining(w) \/ Note(w) \/ GiveUp(w) \/ Wake(w) \/ Kill(w)

Spec == Init /\ [][Next]_vars

-----------------------------------------------------------------------------
\* A strict snapshot holds what the judge had written no earlier than the checkpoint and
\* no later than the window and one pass after it, whoever took it and whenever it began
\* (capture_game_snapshot reads the sessions after the time it is judged by).
StrictIsTimely ==
  \A c \in Cells : LET due == cell[c].start + Checkpoint IN
    snapshot[c].strict => due <= snapshot[c].read /\ snapshot[c].read <= due + Window + SlowestPass

\* A snapshot is given up only for a cell that ended before its checkpoint or never began,
\* unless the campaign was launched again after that.
GivenUpIsTrue ==
  \A c \in Cells : snapshot[c].is = "unavailable" /\ launches = 1 =>
    cell[c].start = Never \/ cell[c].end < cell[c].start + Checkpoint

\* What one watcher has taken stays, over kills and restarts of it.
TakenStays == lost = {} \/ twice

\* A watcher that ends well leaves a word on every cell (watch_game_checkpoints).
OverIsComplete == \A w \in Watchers : pc[w] = "over" => \A c \in Cells : snapshot[c].is # "nothing"

WatchIsSound == StrictIsTimely /\ GivenUpIsTrue /\ TakenStays /\ OverIsComplete

-----------------------------------------------------------------------------
(* The inductive invariant behind the four properties.                     *)

\* A cell has a start from its start on, and an end when it is over.
CellInv ==
  \A c \in Cells :
    /\ IF cell[c].is = "prepared" THEN cell[c].start = Never ELSE cell[c].start <= clock
    /\ cell[c].is = "over" => cell[c].end <= clock
    /\ campaign = "over" => cell[c].is # "running"

\* A pass is not longer than the slowest; what it has read of a cell that was over stays so,
\* and what it writes down had passed its checkpoint.
PassInv(w) ==
  /\ pc[w] \in Pass \ {"cells"} =>
       /\ now[w] <= clock /\ clock <= now[w] + SlowestPass
       /\ \A c \in Cells : saws[w][c] = "over" => cell[c].is = "over" /\ cell[c].end <= now[w]
  /\ pc[w] = "visit" => at[w] >= 1
  /\ pc[w] = "write" => at[w] \in Cells /\ Passed(w, at[w])
  /\ pc[w] = "last" => saw[w] = "over"

\* A pass that found the campaign over finds its cells as they stay, unless there is another
\* launch: what it leaves without a snapshot has never begun.
OverInv(w) ==
  launches = 1 /\ saw[w] = "over" /\ pc[w] \in Pass =>
    /\ campaign = "over"
    /\ pc[w] \in {"visit", "write"} =>
         /\ \A c \in Cells : saws[w][c] = cell[c].is
         /\ \A c \in Cells : c < at[w] /\ snapshot[c].is = "nothing" => cell[c].is = "prepared"
    /\ pc[w] \in {"remaining", "last"} => \A c \in left[w] : cell[c].is = "prepared"

\* It has every cell left that has no snapshot, and when it ends well there is none.
LeftInv(w) ==
  /\ pc[w] \in {"remaining", "last"} => \A c \in Cells : snapshot[c].is = "nothing" => c \in left[w]
  /\ pc[w] = "over" => \A c \in Cells : snapshot[c].is # "nothing"

SnapshotInv ==
  \A c \in Cells : LET due == cell[c].start + Checkpoint IN
    /\ snapshot[c].strict =>
         /\ cell[c].is # "prepared"
         /\ due <= snapshot[c].read /\ snapshot[c].read <= due + Window + SlowestPass
    /\ snapshot[c].is = "unavailable" /\ launches = 1 =>
         \/ cell[c].is = "over" /\ cell[c].end < due
         \/ cell[c].is = "prepared" /\ campaign = "over"

\* A watcher by itself finds its cells without a snapshot until it writes one.
AloneInv ==
  ~twice =>
    /\ \A v, w \in Watchers : v # w => ~AtWork(v) \/ ~AtWork(w)
    /\ lost = {}
    /\ \A w \in Watchers :
         /\ pc[w] = "write" => snapshot[at[w]].is = "nothing"
         /\ pc[w] \in {"remaining", "last"} => \A c \in left[w] : snapshot[c].is = "nothing"

WatchersInv == \A w \in Watchers : PassInv(w) /\ OverInv(w) /\ LeftInv(w)
=============================================================================
