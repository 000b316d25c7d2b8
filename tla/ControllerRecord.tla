---------------------------- MODULE ControllerRecord ----------------------------
(***************************************************************************)
(* controller.json of an EdgeBench campaign, which four writers share: the *)
(* controller, its signal handler (which runs inside whatever write it     *)
(* interrupts), the command that launched it in the background, and the    *)
(* command that stops it.  write_json truncates the file, then fills it;   *)
(* nothing keeps two writers apart.                                        *)
(***************************************************************************)
EXTENDS Naturals

CONSTANTS MaxLaunches, MaxStops

VARIABLES
  file,       \* the record, or Empty (truncated), or Garbled (two texts mixed)
  pc, pid,    \* the controller process of the latest launch
  mem, text,  \* its copy of the record; what the write under way will fill in
  inHandler,  \* handle_stop: "no", or the step it is in
  signal,     \* SIGINT sent and not delivered
  launcher, launchCopy,
  stopper, stopCopy, stopSaid,
  stops,
  late,       \* history: another text was filled in after the controller's last write began
  undone      \* history: a stop put back the record of an earlier launch

vars == <<file, pc, pid, mem, text, inHandler, signal, launcher, launchCopy, stopper,
          stopCopy, stopSaid, stops, late, undone>>

States == {"prepared", "launching", "running", "stopping", "final"}
Records == [pid : 0..MaxLaunches, state : States, stop : BOOLEAN]
Nobody == [pid |-> 0, state |-> "prepared", stop |-> FALSE]

\* What cannot be parsed.
Empty == [Nobody EXCEPT !.state = "empty"]
Garbled == [Nobody EXCEPT !.state = "garbled"]

Alive == {"boot", "read", "bootfill", "unarmed", "work", "workfill", "last", "lastfill", "again",
          "againfill"}
Armed == {"work", "workfill", "last", "lastfill", "again", "againfill"}
Readable == file \notin {Empty, Garbled}

TypeOK ==
  /\ file \in Records \cup {Empty, Garbled}
  /\ pc \in Alive \cup {"none", "done", "dead"} /\ pid \in 0..MaxLaunches
  /\ {mem, text, launchCopy, stopCopy} \subseteq Records
  /\ inHandler \in {"no", "open", "fill"} /\ {signal, late, undone} \subseteq BOOLEAN
  /\ launcher \in {"idle", "started", "open", "fill"}
  /\ stopper \in {"idle", "send", "open", "fill", "wait"}
  /\ stopSaid \in {"nothing", "not running", "stopped", "still alive"}
  /\ stops \in 0..MaxStops

Init ==
  /\ file = Nobody /\ pc = "none" /\ pid = 0 /\ mem = Nobody /\ text = Nobody
  /\ inHandler = "no"
  /\ signal = FALSE /\ launcher = "idle" /\ launchCopy = Nobody
  /\ stopper = "idle" /\ stopCopy = Nobody /\ stopSaid = "nothing" /\ stops = 0
  /\ late = FALSE /\ undone = FALSE

Controller == <<pc, pid, mem, text, inHandler, signal>>
Launcher == <<launcher, launchCopy>>
Stopper == <<stopper, stopCopy, stopSaid, stops>>

ProcessAlive(p) == p # 0 /\ p = pid /\ pc \in Alive

\* What a writer leaves that fills its text into the file: if another has filled in since
\* the truncation and its text is longer, the rest of that text stays behind.
Filled(t) ==
  IF file \in {Empty, t} THEN {t} ELSE {t, Garbled}

-----------------------------------------------------------------------------
(* launch(detach): check, Popen, then read-update-write.  One controller at  *)
(* a time: NamesTheLiving says from when on the check keeps a second out.    *)

StartController ==
  /\ launcher = "idle" /\ pid < MaxLaunches /\ Readable /\ ~ProcessAlive(file.pid)
  /\ pc \notin Alive
  /\ pid' = pid + 1 /\ pc' = "boot" /\ mem' = Nobody /\ launcher' = "started"
  /\ signal' = FALSE /\ late' = FALSE /\ undone' = FALSE
  /\ UNCHANGED <<file, text, inHandler, launchCopy, Stopper>>

\* A record it cannot parse ends the command; the controller runs on.
LauncherReads ==
  /\ launcher = "started"
  /\ IF Readable
       THEN /\ launchCopy' = [file EXCEPT !.pid = pid,
                                !.state = IF @ \in {"prepared", "launching"} THEN "launching" ELSE @]
            /\ launcher' = "open"
       ELSE launcher' = "idle" /\ UNCHANGED launchCopy
  /\ UNCHANGED <<file, Controller, Stopper, late, undone>>

LauncherOpens ==
  /\ launcher = "open" /\ file' = Empty /\ launcher' = "fill"
  /\ UNCHANGED <<launchCopy, Controller, Stopper, late, undone>>

\* The controller has begun the write after which it writes no more, or has ended.
PastLast == pc \in {"againfill", "done", "dead"}

LauncherFills ==
  /\ launcher = "fill" /\ file' \in Filled(launchCopy) /\ launcher' = "idle"
  /\ late' = (late \/ PastLast)
  /\ UNCHANGED <<launchCopy, Controller, Stopper, undone>>

-----------------------------------------------------------------------------
(* execute_campaign.  The thread stands still while the handler runs.        *)

Thread == inHandler = "no"
\* The text is made before the file is opened.
Truncate(from, to) ==
  /\ pc = from /\ Thread /\ file' = Empty /\ text' = mem /\ pc' = to
  /\ UNCHANGED <<pid, mem, inHandler, signal, Launcher, Stopper, late, undone>>
Fill(from, to) ==
  /\ pc = from /\ Thread /\ file' \in Filled(text) /\ pc' = to /\ undone' = FALSE
  /\ UNCHANGED <<pid, mem, text, inHandler, signal, Launcher, Stopper, late>>

\* It reads what is there; a record it cannot parse ends it.
BootRead ==
  /\ pc = "boot"
  /\ IF Readable
       THEN pc' = "read" /\ mem' = [file EXCEPT !.pid = pid, !.state = "running"]
       ELSE pc' = "dead" /\ UNCHANGED mem
  /\ UNCHANGED <<file, pid, text, inHandler, signal, Launcher, Stopper, late, undone>>

BootOpen == Truncate("read", "bootfill")
BootFill == Fill("bootfill", "unarmed")

\* The handlers are installed after the write that says "running".
Arm ==
  /\ pc = "unarmed" /\ pc' = "work"
  /\ UNCHANGED <<file, pid, mem, text, inHandler, signal, Launcher, Stopper, late, undone>>

\* The judge, the bridges, active_children: the whole record each time.
WorkOpen == Truncate("work", "workfill")
WorkFill == Fill("workfill", "work")

QueueEnds ==
  /\ pc = "work" /\ Thread /\ pc' = "last" /\ mem' = [mem EXCEPT !.state = "final"]
  /\ UNCHANGED <<file, pid, text, inHandler, signal, Launcher, Stopper, late, undone>>

\* Once before finalize_campaign, and once after it.
LastOpen == Truncate("last", "lastfill")

\* Mutant: the record is not written again after the finalization.
LastFillOnly == Fill("lastfill", "done")

LastFill == Fill("lastfill", "again")
AgainOpen == Truncate("again", "againfill")
AgainFill == Fill("againfill", "done")

\* A further signal inside the handler would write the same record once more.
Handle ==
  /\ signal /\ signal' = FALSE
  /\ \/ pc \in Armed /\ Thread /\ inHandler' = "open" /\ mem' = [mem EXCEPT !.stop = TRUE]
        /\ UNCHANGED pc
     \/ pc \in Armed /\ ~Thread /\ UNCHANGED <<inHandler, mem, pc>>
     \/ pc \in Alive \ Armed /\ pc' = "dead" /\ UNCHANGED <<inHandler, mem>>   \* no handler yet
     \/ pc \notin Alive /\ UNCHANGED <<inHandler, mem, pc>>
  /\ UNCHANGED <<file, pid, text, Launcher, Stopper, late, undone>>

HandlerOpens ==
  /\ inHandler = "open" /\ file' = Empty /\ inHandler' = "fill"
  /\ UNCHANGED <<pc, pid, mem, text, signal, Launcher, Stopper, late, undone>>

HandlerFills ==
  /\ inHandler = "fill" /\ file' \in Filled(mem) /\ inHandler' = "no"
  /\ late' = (late \/ (pc = "againfill" /\ text # mem)) /\ undone' = FALSE
  /\ UNCHANGED <<pc, pid, mem, text, signal, Launcher, Stopper>>

-----------------------------------------------------------------------------
(* stop_campaign.                                                            *)

StopReads ==
  /\ stopper = "idle" /\ stops < MaxStops /\ Readable
  /\ stops' = stops + 1
  /\ IF ProcessAlive(file.pid)
       THEN stopCopy' = file /\ stopper' = "send" /\ UNCHANGED stopSaid
       ELSE stopSaid' = "not running" /\ UNCHANGED <<stopper, stopCopy>>
  /\ UNCHANGED <<file, Controller, Launcher, late, undone>>

\* os.kill raises if the process is gone meanwhile, which ends the command.
StopSignals ==
  /\ stopper = "send"
  /\ IF ProcessAlive(stopCopy.pid)
       THEN /\ signal' = TRUE /\ stopper' = "open"
            /\ stopCopy' = [stopCopy EXCEPT !.state = "stopping", !.stop = TRUE]
       ELSE stopper' = "idle" /\ UNCHANGED <<signal, stopCopy>>
  /\ UNCHANGED <<file, pc, pid, mem, text, inHandler, Launcher, stopSaid, stops, late, undone>>

StopOpens ==
  /\ stopper = "open" /\ file' = Empty /\ stopper' = "fill"
  /\ UNCHANGED <<Controller, Launcher, stopCopy, stopSaid, stops, late, undone>>

StopFills ==
  /\ stopper = "fill" /\ file' \in Filled(stopCopy) /\ stopper' = "wait"
  /\ late' = (late \/ PastLast)
  /\ undone' = (undone \/ stopCopy.pid # pid)
  /\ UNCHANGED <<Controller, Launcher, stopCopy, stopSaid, stops>>

StopReturns ==
  /\ stopper = "wait" /\ stopper' = "idle"
  /\ stopSaid' = IF ProcessAlive(stopCopy.pid) THEN "still alive" ELSE "stopped"
  /\ UNCHANGED <<file, Controller, Launcher, stopCopy, stops, late, undone>>

Kill ==
  /\ pc \in Alive /\ pc' = "dead" /\ inHandler' = "no"
  /\ UNCHANGED <<file, pid, mem, text, signal, Launcher, Stopper, late, undone>>

Next ==
  \/ StartController \/ LauncherReads \/ LauncherOpens \/ LauncherFills
  \/ BootRead \/ BootOpen \/ BootFill \/ Arm \/ WorkOpen \/ WorkFill
  \/ QueueEnds \/ LastOpen \/ LastFill \/ AgainOpen \/ AgainFill
  \/ Handle \/ HandlerOpens \/ HandlerFills
  \/ StopReads \/ StopSignals \/ StopOpens \/ StopFills \/ StopReturns
  \/ Kill

Spec == Init /\ [][Next]_vars

-----------------------------------------------------------------------------
\* When a controller has ended of itself and no command is at work, controller.json is its
\* final record, the stop it was sent included, however the writes interleaved before:
\* its own rewrites make good whatever a stop, a launch or its handler garbled or put back.
\* Only a text filled in after its last write began stays (execute_campaign, handle_stop,
\* launch, stop_campaign, io.write_json).
LastWordStands ==
  pc = "done" /\ launcher = "idle" /\ stopper \notin {"open", "fill"} /\ ~late => file = mem

\* Once a controller has published itself, every record that can be read names it, so that
\* a launch refuses and a stop finds it, unless a stop of the launch before put back what it
\* had read (launch's check of process_alive, stop_campaign).
NamesTheLiving ==
  pc \in Alive \ {"boot", "read", "bootfill"} /\ Readable /\ ~undone => file.pid = pid

RecordIsSound == LastWordStands /\ NamesTheLiving

-----------------------------------------------------------------------------
(* The inductive invariant behind the two properties.                        *)

\* Whatever the controller and its launcher are about to write names the controller; only a
\* stop may write what it read of an earlier launch.
NamesInv ==
  /\ launcher \in {"open", "fill"} => launchCopy.pid = pid
  /\ pc \in Alive \ {"boot"} => mem.pid = pid
  /\ pc \in {"bootfill", "workfill", "lastfill", "againfill"} => text.pid = pid

\* From its last write on, the controller's text is the record unless another text was
\* filled in, and the handler runs only between armed steps.
LastInv ==
  /\ inHandler # "no" => pc \in Armed
  /\ pc = "againfill" /\ ~late => /\ file \in {Empty, text}
                                  /\ inHandler = "no" => text = mem
  /\ pc = "done" /\ ~late => \/ file = mem
                             \/ file = Empty /\ (launcher = "fill" \/ stopper = "fill")
=============================================================================
