----------------------------- MODULE EdgeResources -----------------------------
(***************************************************************************)
(* The judge and the socket bridges of EdgeBench controllers that share a  *)
(* host, and so the judge's port: each takes over the judge it finds ready *)
(* and otherwise starts its own.  Controllers may be campaigns at the same *)
(* time or launches of one campaign; any of them may be killed.            *)
(***************************************************************************)
EXTENDS Naturals

CONSTANT NumControllers

VARIABLES
  pc,
  bridge,      \* per controller and bridge: none, up or down
  judge,       \* per controller: the judge process it started
  crashed,     \* that process ended of itself
  host,        \* whose judge the controller found ready (0: none yet)
  registered,  \* close_judge is bound, and called at exit
  noted,       \* the controller's copy: judge_closeout_incomplete
  incomplete,  \* controller.json: judge_closeout_incomplete
  alive,       \* controller.json: judge_alive_after_closeout
  unwritten,   \* its last write of controller.json failed
  failed       \* the controller is on the path of an exception

Note == <<noted, incomplete, unwritten>>
vars == <<pc, bridge, judge, crashed, host, registered, noted, incomplete, alive, unwritten,
          failed>>

Controllers == 1..NumControllers
Bridges == {"api", "judge"}
Running == {"starting", "listening"}
Steps == {"idle", "api", "port", "wait", "judge", "prepared", "work", "giveup",
          "close", "bridges", "record", "exit", "gone", "killed"}

TypeOK ==
  /\ pc \in [Controllers -> Steps]
  /\ bridge \in [Controllers -> [Bridges -> {"none", "up", "down"}]]
  /\ judge \in [Controllers -> {"none", "dead"} \cup Running]
  /\ host \in [Controllers -> 0..NumControllers]
  /\ {crashed, registered, noted, incomplete, alive, unwritten, failed}
       \subseteq [Controllers -> BOOLEAN]

Init ==
  LET All(x) == [c \in Controllers |-> x] IN
  /\ pc = All("idle") /\ bridge = All([b \in Bridges |-> "none"]) /\ judge = All("none")
  /\ crashed = All(FALSE) /\ host = All(0) /\ registered = All(FALSE) /\ noted = All(FALSE)
  /\ incomplete = All(FALSE) /\ alive = All(FALSE) /\ unwritten = All(FALSE)
  /\ failed = All(FALSE)

\* judge_ready: only one process can hold the port.
Listening == {c \in Controllers : judge[c] = "listening"}

At(c, from) == pc[c] = from
Go(c, to) == pc' = [pc EXCEPT ![c] = to]

\* write_json of the controller's copy, in place: a write that fails may have emptied the file.
Wrote(c) ==
  incomplete' = [incomplete EXCEPT ![c] = noted'[c]] /\ unwritten' = [unwritten EXCEPT ![c] = FALSE]
WriteFails(c) ==
  /\ incomplete' \in {incomplete, [incomplete EXCEPT ![c] = FALSE]}
  /\ unwritten' = [unwritten EXCEPT ![c] = TRUE]

\* Where an exception takes the controller: prepare_runtime_resources closes what it has (the
\* judge only once it was handed over) and marks the failure; execute_campaign has no handler
\* of its own after that, and an error in RuntimeResources.close leaves the rest of it out.
WayOut(c) ==
  CASE pc[c] \in {"api", "port", "wait", "giveup"} -> "bridges"
    [] pc[c] \in {"judge", "prepared"} -> "close"
    [] pc[c] \in {"close", "bridges"} /\ failed[c] -> "record"
    [] OTHER -> "exit"
Raise(c) == Go(c, WayOut(c)) /\ failed' = [failed EXCEPT ![c] = TRUE]

\* The profile's checks passed; whether the model API needs a bridge is configuration.
Execute(c) ==
  /\ At(c, "idle") /\ \E to \in {"api", "port"} : Go(c, to)
  /\ UNCHANGED <<bridge, judge, crashed, host, registered, Note, alive, failed>>

\* start_socket_bridge: connected in time, or closed by itself before it raises.
StartBridge(c, b, next) ==
  \/ bridge' = [bridge EXCEPT ![c][b] = "up"] /\ Go(c, next) /\ UNCHANGED failed
  \/ bridge' = [bridge EXCEPT ![c][b] = "down"] /\ Raise(c)

ApiBridge(c) ==
  /\ At(c, "api") /\ StartBridge(c, "api", "port")
  /\ UNCHANGED <<judge, crashed, host, registered, Note, alive>>

\* A probe, a check or a start fails, or the queue raises.
Raises(c) ==
  /\ pc[c] \in {"api", "port", "judge", "prepared", "work"} /\ Raise(c)
  /\ UNCHANGED <<bridge, judge, crashed, host, registered, Note, alive>>

\* start_or_reuse_judge.
ReuseJudge(c) ==
  /\ At(c, "port") /\ Listening # {} /\ UNCHANGED noted
  /\ \E h \in Listening : host' = [host EXCEPT ![c] = h]
  /\ \/ Wrote(c) /\ Go(c, "judge") /\ UNCHANGED failed
     \/ WriteFails(c) /\ Raise(c)
  /\ UNCHANGED <<bridge, judge, crashed, registered, alive>>

\* The process runs before controller.json names it, and close_judge comes after both.
StartJudge(c) ==
  /\ At(c, "port") /\ Listening = {} /\ UNCHANGED noted
  /\ judge' = [judge EXCEPT ![c] = "starting"]
  /\ \/ /\ Wrote(c) /\ registered' = [registered EXCEPT ![c] = TRUE]
        /\ Go(c, "wait") /\ UNCHANGED failed
     \/ WriteFails(c) /\ Raise(c) /\ UNCHANGED registered
  /\ UNCHANGED <<bridge, crashed, host, alive>>

\* The wait asks the port before the process: a judge that lost the port to another
\* controller's still counts as ready.
JudgeReady(c) ==
  /\ At(c, "wait")
  /\ \E h \in Listening : host' = [host EXCEPT ![c] = h]
  /\ Go(c, "judge")
  /\ UNCHANGED <<bridge, judge, crashed, registered, Note, alive, failed>>

JudgeNotReady(c) ==
  /\ At(c, "wait") /\ Listening = {}
  /\ Go(c, "giveup") /\ failed' = [failed EXCEPT ![c] = TRUE]
  /\ UNCHANGED <<bridge, judge, crashed, host, registered, Note, alive>>

JudgeBridge(c) ==
  /\ At(c, "judge") /\ StartBridge(c, "judge", "prepared")
  /\ UNCHANGED <<judge, crashed, host, registered, Note, alive>>

\* The last write of prepare_runtime_resources.
Prepare(c) ==
  /\ At(c, "prepared") /\ UNCHANGED noted
  /\ \/ Wrote(c) /\ Go(c, "work") /\ UNCHANGED failed
     \/ WriteFails(c) /\ Raise(c)
  /\ UNCHANGED <<bridge, judge, crashed, host, registered, alive>>

QueueEnds(c) ==
  /\ At(c, "work") /\ Go(c, "close")
  /\ UNCHANGED <<bridge, judge, crashed, host, registered, Note, alive, failed>>

\* Mutant: a judge that does not answer the signal is given up without a word.
CloseJudgeSilently(c, next, raised) ==
  /\ IF registered[c] /\ judge[c] \in Running
       THEN judge' \in {judge, [judge EXCEPT ![c] = "dead"]} ELSE UNCHANGED judge
  /\ Go(c, next) /\ UNCHANGED Note

\* close_judge: SIGINT, ten seconds; what is still there then is noted in controller.json.
\* It raises if that cannot be written, or a stop that comes in the ten seconds cannot.
CloseJudge(c, next, raised) ==
  LET closing == registered[c] /\ judge[c] \in Running
      said == [noted EXCEPT ![c] = TRUE] IN
  \/ /\ judge' = IF closing THEN [judge EXCEPT ![c] = "dead"] ELSE judge
     /\ Go(c, next) /\ UNCHANGED Note
  \/ closing /\ noted' = said /\ Wrote(c) /\ Go(c, next) /\ UNCHANGED judge
  \/ closing /\ noted' \in {noted, said} /\ WriteFails(c) /\ Go(c, raised) /\ UNCHANGED judge

\* The judge that was not ready is closed by start_or_reuse_judge itself: close_judge was
\* not handed to RuntimeResources yet.
GiveUpJudge(c) ==
  /\ At(c, "giveup") /\ CloseJudge(c, "bridges", "bridges")
  /\ UNCHANGED <<bridge, crashed, host, registered, alive, failed>>

\* RuntimeResources.close: the judge, then the bridges; a reused judge is let be.
Close(c) ==
  /\ At(c, "close") /\ CloseJudge(c, "bridges", WayOut(c))
  /\ UNCHANGED <<bridge, crashed, host, registered, alive, failed>>

\* SIGTERM to its group, then SIGKILL.
Closed(b) == [x \in Bridges |-> IF b[x] = "up" THEN "down" ELSE b[x]]
CloseBridges(c) ==
  /\ At(c, "bridges") /\ bridge' = [bridge EXCEPT ![c] = Closed(@)] /\ Go(c, "record")
  /\ UNCHANGED <<judge, crashed, host, registered, Note, alive, failed>>

\* record_closeout and the last controller.json; or _mark_controller_failure, which may fail
\* before it comes to that file.
Record(c) ==
  /\ At(c, "record") /\ Go(c, "exit") /\ UNCHANGED noted
  /\ \/ Wrote(c) /\ alive' = [alive EXCEPT ![c] = IF failed[c] THEN @ ELSE judge[c] \in Running]
     \/ WriteFails(c) /\ UNCHANGED alive
     \/ failed[c] /\ UNCHANGED <<incomplete, unwritten, alive>>
  /\ UNCHANGED <<bridge, judge, crashed, host, registered, failed>>

\* What a process held of its own goes with it.
Forget(c) == host' = [host EXCEPT ![c] = 0] /\ failed' = [failed EXCEPT ![c] = FALSE]

\* atexit calls close_judge and the bridges' closers, each whatever became of the others.
Exit(c) ==
  /\ At(c, "exit") /\ CloseJudge(c, "gone", "gone")
  /\ bridge' = [bridge EXCEPT ![c] = Closed(@)] /\ Forget(c)
  /\ UNCHANGED <<crashed, registered, alive>>

\* handle_stop writes its copy wherever the controller is, and raises there if it cannot.
HandleStop(c) ==
  /\ pc[c] \notin {"idle", "gone", "killed"} /\ UNCHANGED noted
  /\ \/ Wrote(c) /\ UNCHANGED <<pc, failed>>
     \/ WriteFails(c) /\ Raise(c)
  /\ UNCHANGED <<bridge, judge, crashed, host, registered, alive>>

Kill(c) ==
  /\ pc[c] \notin {"idle", "gone", "killed"} /\ Go(c, "killed") /\ Forget(c)
  /\ noted' = [noted EXCEPT ![c] = FALSE] /\ registered' = [registered EXCEPT ![c] = FALSE]
  /\ UNCHANGED <<bridge, judge, crashed, incomplete, unwritten, alive>>

\* The judge process takes the port, or ends because it is taken.
JudgeBinds(c) ==
  /\ judge[c] = "starting"
  /\ judge' = [judge EXCEPT ![c] = IF Listening = {} THEN "listening" ELSE "dead"]
  /\ UNCHANGED <<pc, bridge, crashed, host, registered, Note, alive, failed>>

JudgeCrashes(c) ==
  /\ judge[c] \in Running
  /\ judge' = [judge EXCEPT ![c] = "dead"] /\ crashed' = [crashed EXCEPT ![c] = TRUE]
  /\ UNCHANGED <<pc, bridge, host, registered, Note, alive, failed>>

Next ==
  \E c \in Controllers :
    \/ Execute(c) \/ ApiBridge(c) \/ ReuseJudge(c) \/ StartJudge(c) \/ JudgeReady(c)
    \/ JudgeNotReady(c) \/ JudgeBridge(c) \/ Prepare(c) \/ Raises(c) \/ QueueEnds(c)
    \/ GiveUpJudge(c) \/ Close(c) \/ CloseBridges(c) \/ Record(c) \/ Exit(c)
    \/ HandleStop(c) \/ Kill(c) \/ JudgeBinds(c) \/ JudgeCrashes(c)

Spec == Init /\ [][Next]_vars

-----------------------------------------------------------------------------
\* controller.json says that a judge was left, or the controller could not write it last.
Said(c) == incomplete[c] \/ unwritten[c]

\* A controller that ended of itself leaves no bridge behind, on whichever path it ended,
\* and of a judge it came to wait for only what it has said, if it could write at all
\* (RuntimeResources.close, the except of prepare_runtime_resources, close_judge at exit).
\* The judge whose start could not be written is not within this: see JudgeIsOwned.
NothingLeftUnsaid ==
  \A c \in Controllers : pc[c] = "gone" =>
    /\ \A b \in Bridges : bridge[c][b] # "up"
    /\ registered[c] /\ judge[c] \in Running => Said(c)
    /\ alive[c] => Said(c)

\* The controller's closeout has run, or may have run before it was killed.
HasClosed(c) == pc[c] \in {"bridges", "record", "exit", "gone", "killed"}

\* Cells are scored by a judge that is there: a controller at work lacks one only if the
\* judge it found crashed or was closed by the controller it belongs to.  Nobody closes
\* another's judge (start_or_reuse_judge, judge_owned).
JudgeServes ==
  \A c \in Controllers : pc[c] = "work" /\ judge[host[c]] = "dead" =>
    \/ crashed[host[c]]
    \/ host[c] # c /\ HasClosed(host[c])

JudgeIsSound == NothingLeftUnsaid /\ JudgeServes

\* What RuntimeResources says of itself, that it owns the judge: a controller that ended of
\* itself has left none running but with a note.  The code breaks it: a judge whose start
\* could not be written to controller.json is nobody's to close (start_or_reuse_judge).
JudgeIsOwned ==
  \A c \in Controllers : pc[c] = "gone" /\ judge[c] \in Running => Said(c)

-----------------------------------------------------------------------------
(* The inductive invariant behind NothingLeftUnsaid and JudgeServes.         *)

\* What the controller has noted is in the file or was the last it could not write.  A
\* controller has no judge before it is at the port, and from the wait on none that is not
\* registered; a closeout that went its whole way has noted what is left of it.
CloseoutInv ==
  \A c \in Controllers :
    /\ noted[c] => Said(c)
    /\ alive[c] /\ pc[c] # "killed" => noted[c]
    /\ pc[c] \in {"idle", "api", "port"} => judge[c] = "none"
    /\ pc[c] \in {"wait", "judge", "prepared", "work", "close"} /\ judge[c] \in Running =>
         registered[c]
    /\ pc[c] = "giveup" => failed[c]
    /\ pc[c] \in {"bridges", "record"} /\ ~failed[c] /\ judge[c] \in Running => noted[c]
    /\ pc[c] = "gone" => \A b \in Bridges : bridge[c][b] # "up"
    /\ pc[c] = "gone" /\ registered[c] /\ judge[c] \in Running => Said(c)

\* The judge a controller found ready has held the port, and stopped holding it only by a
\* crash or by the closeout of the controller that owns it, which is another one.
ServedInv ==
  \A c \in Controllers : pc[c] \in {"judge", "prepared", "work"} =>
    /\ host[c] \in Controllers /\ judge[host[c]] \in {"listening", "dead"}
    /\ judge[host[c]] = "dead" =>
         crashed[host[c]] \/ (host[c] # c /\ HasClosed(host[c]))
=============================================================================
