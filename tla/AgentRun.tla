------------------------------- MODULE AgentRun -------------------------------
(***************************************************************************)
(* The benchmark agent's own state file, agent-run.json, over the commands *)
(* start, status, stop, resume and finish.  Each loads the file, runs a    *)
(* controller command that may take hours, and writes its copy back; two   *)
(* of them may be at work at once, and any may be killed.                  *)
(***************************************************************************)
EXTENDS Naturals

CONSTANTS NumSlots,     \* commands at work at the same time
          MaxCommands   \* commands in all, after start

VARIABLES
  file, tmp,     \* agent-run.json and its temporary, .agent-run.json.new
  kind, pc, after, copy,   \* per command
  fd,            \* the file its open descriptor leads to by now
  camp,          \* campaign.json of the native controller
  commands,
  over, finalized, reported,   \* history: what has happened to the campaign
  overlapped, killed           \* history: two commands were at work at once; one was
                       \* killed or failed

vars == <<file, tmp, kind, pc, after, copy, fd, camp, commands, over, finalized, reported,
          overlapped, killed>>

Slots == 1..NumSlots
Kinds == {"start", "status", "stop", "resume", "finish"}
Phases == {"prepared", "running", "terminal", "finalized", "reported"}
States == [phase : Phases, artifacts : BOOLEAN]
Prepared == [phase |-> "prepared", artifacts |-> FALSE]

Absent == [Prepared EXCEPT !.phase = "absent"]
Torn == [Prepared EXCEPT !.phase = "torn"]

TypeOK ==
  /\ {file, tmp} \subseteq States \cup {Absent, Torn}
  /\ kind \in [Slots -> Kinds] /\ copy \in [Slots -> States]
  /\ pc \in [Slots -> {"idle", "exec", "wait", "observe", "check", "finalize", "report",
                       "open", "fill", "replace"}]
  /\ after \in [Slots -> {"idle", "exec", "observe", "report"}]
  /\ fd \in [Slots -> {"none", "tmp", "file", "gone"}]
  /\ camp \in {"none", "prepared", "running", "interrupted", "over"}
  /\ commands \in 0..MaxCommands
  /\ {over, finalized, reported, overlapped, killed} \subseteq BOOLEAN

Init ==
  /\ file = Absent /\ tmp = Absent
  /\ kind = [w \in Slots |-> "status"] /\ pc = [w \in Slots |-> "idle"]
  /\ after = [w \in Slots |-> "idle"] /\ copy = [w \in Slots |-> Prepared]
  /\ fd = [w \in Slots |-> "none"] /\ camp = "none" /\ commands = 0
  /\ over = FALSE /\ finalized = FALSE /\ reported = FALSE
  /\ overlapped = FALSE /\ killed = FALSE

Files == <<file, tmp, fd>>
Told == <<over, finalized, reported>>
Go(w, to) == pc' = [pc EXCEPT ![w] = to]
Busy(w) == \E v \in Slots \ {w} : pc[v] # "idle"

\* update_phase, update_observation, create_agent_state: the copy, then write_json_atomic.
Write(w, state, then) ==
  /\ copy' = [copy EXCEPT ![w] = state] /\ after' = [after EXCEPT ![w] = then]
  /\ Go(w, "open")

-----------------------------------------------------------------------------
(* The commands.                                                             *)

\* The controller has prepared the campaign; run, or prepare only.
Start(w) ==
  /\ pc[w] = "idle" /\ camp = "none"
  /\ camp' = "prepared" /\ kind' = [kind EXCEPT ![w] = "start"]
  /\ \E then \in {"exec", "idle"} : Write(w, Prepared, then)
  /\ UNCHANGED <<Files, commands, Told, overlapped, killed>>

Load(w, k) ==
  /\ pc[w] = "idle" /\ k # "start" /\ commands < MaxCommands /\ file \in States
  /\ kind' = [kind EXCEPT ![w] = k] /\ copy' = [copy EXCEPT ![w] = file]
  /\ Go(w, CASE k = "status" -> "observe" [] k = "finish" -> "check" [] OTHER -> "exec")
  /\ commands' = commands + 1 /\ overlapped' = (overlapped \/ Busy(w))
  /\ UNCHANGED <<Files, after, camp, Told, killed>>

\* The controller runs the campaign in the foreground, or in the background (start only),
\* or refuses it; whatever comes of it, the closing observation is made.
Run(w) ==
  /\ pc[w] = "exec" /\ kind[w] \in {"start", "resume"}
  /\ \/ /\ camp \in {"prepared", "interrupted"} /\ camp' = "running"
        /\ \/ Go(w, "wait") /\ UNCHANGED <<copy, after>>
           \/ kind[w] = "start" /\ Write(w, [copy[w] EXCEPT !.phase = "running"], "observe")
     \/ Go(w, "observe") /\ UNCHANGED <<camp, copy, after>>
  /\ UNCHANGED <<Files, kind, commands, Told, overlapped, killed>>

RunReturns(w) ==
  /\ pc[w] = "wait" /\ camp # "running" /\ Go(w, "observe")
  /\ UNCHANGED <<Files, kind, after, copy, camp, commands, Told, overlapped, killed>>

\* The stop waits for a while and returns; the campaign ends when it ends.
Stop(w) ==
  /\ pc[w] = "exec" /\ kind[w] = "stop" /\ Go(w, "observe")
  /\ UNCHANGED <<Files, kind, after, copy, camp, commands, Told, overlapped, killed>>

\* update_observation: the phase of the copy, brought up to date by the runner's status.
Observe(w) ==
  /\ pc[w] = "observe"
  /\ LET p == copy[w].phase IN
     Write(w, [copy[w] EXCEPT !.phase =
                 IF camp = "over" /\ p \in {"prepared", "running"} THEN "terminal"
                 ELSE IF camp = "running" THEN "running" ELSE p], "idle")
  /\ UNCHANGED <<Files, kind, camp, commands, Told, overlapped, killed>>

Check(w) ==
  /\ pc[w] = "check" /\ Go(w, IF camp = "over" THEN "finalize" ELSE "idle")
  /\ UNCHANGED <<Files, kind, after, copy, camp, commands, Told, overlapped, killed>>

Finalize(w) ==
  /\ pc[w] = "finalize"
  /\ finalized' = TRUE /\ Write(w, [copy[w] EXCEPT !.phase = "finalized"], "report")
  /\ UNCHANGED <<Files, kind, camp, commands, over, reported, overlapped, killed>>

Report(w) ==
  /\ pc[w] = "report"
  /\ reported' = TRUE /\ Write(w, [phase |-> "reported", artifacts |-> TRUE], "idle")
  /\ UNCHANGED <<Files, kind, camp, commands, over, finalized, overlapped, killed>>

\* A command that fails, or a campaign.json that cannot be read, ends it with an exception.
Fails(w) ==
  /\ pc[w] \in {"observe", "finalize", "report"} /\ Go(w, "idle")
  /\ killed' = TRUE
  /\ UNCHANGED <<Files, kind, after, copy, camp, commands, Told, overlapped>>

-----------------------------------------------------------------------------
(* write_json_atomic: one name for the temporary, whoever writes.            *)

\* Mutant: the state file is written in place.
OpenInPlace(w) ==
  /\ pc[w] = "open"
  /\ file' = Torn /\ fd' = [fd EXCEPT ![w] = "file"] /\ tmp' = copy[w] /\ Go(w, "fill")
  /\ UNCHANGED <<kind, after, copy, camp, commands, Told, overlapped, killed>>

Open(w) ==
  /\ pc[w] = "open"
  /\ tmp' = Torn /\ fd' = [fd EXCEPT ![w] = "tmp"] /\ Go(w, "fill")
  /\ UNCHANGED <<file, kind, after, copy, camp, commands, Told, overlapped, killed>>

\* Two texts in one file may mix.
Filled(old, text) == IF old \in {Torn, text} THEN {text} ELSE {text, Torn}

Fill(w) ==
  /\ pc[w] = "fill"
  /\ \/ fd[w] = "tmp" /\ tmp' \in Filled(tmp, copy[w]) /\ UNCHANGED file
     \/ fd[w] = "file" /\ file' \in Filled(file, copy[w]) /\ UNCHANGED tmp
     \/ fd[w] = "gone" /\ UNCHANGED <<file, tmp>>
  /\ fd' = [fd EXCEPT ![w] = "none"] /\ Go(w, "replace")
  /\ UNCHANGED <<kind, after, copy, camp, commands, Told, overlapped, killed>>

\* The rename takes the temporary of whoever wrote it; an open descriptor goes with it.
\* Without a temporary it raises.
Replace(w) ==
  /\ pc[w] = "replace"
  /\ IF tmp = Absent
       THEN Go(w, "idle") /\ killed' = TRUE /\ UNCHANGED <<file, tmp, fd>>
       ELSE /\ file' = tmp /\ tmp' = Absent /\ Go(w, after[w])
            /\ fd' = [v \in Slots |-> CASE fd[v] = "tmp" -> "file"
                                        [] fd[v] = "file" -> "gone" [] OTHER -> fd[v]]
            /\ UNCHANGED killed
  /\ UNCHANGED <<kind, after, copy, camp, commands, Told, overlapped>>

-----------------------------------------------------------------------------
\* The native controller: over for good, or interrupted and to be resumed.
CampaignEnds ==
  /\ camp = "running"
  /\ \/ camp' = "over" /\ over' = TRUE
     \/ camp' = "interrupted" /\ UNCHANGED over
  /\ UNCHANGED <<Files, kind, pc, after, copy, commands, finalized, reported, overlapped,
                 killed>>

Kill(w) ==
  /\ pc[w] # "idle" /\ Go(w, "idle") /\ fd' = [fd EXCEPT ![w] = "none"] /\ killed' = TRUE
  /\ UNCHANGED <<file, tmp, kind, after, copy, camp, commands, Told, overlapped>>

Next ==
  \/ \E w \in Slots :
       \/ Start(w) \/ (\E k \in Kinds : Load(w, k)) \/ Run(w) \/ RunReturns(w) \/ Stop(w)
       \/ Observe(w) \/ Check(w) \/ Finalize(w) \/ Report(w) \/ Fails(w)
       \/ Open(w) \/ Fill(w) \/ Replace(w) \/ Kill(w)
  \/ CampaignEnds

Spec == Init /\ [][Next]_vars

-----------------------------------------------------------------------------
\* The phase is never ahead of what happened, whatever commands overlap or are killed: a
\* stale copy can only put it back (update_observation, update_phase, finish).
NeverAhead ==
  /\ file.phase = "terminal" => over
  /\ file.phase = "finalized" => finalized
  /\ file.phase = "reported" => reported /\ file.artifacts

\* Commands given one after the other keep the file whole, kills included, and what finish
\* recorded is not taken back (write_json_atomic, load_agent_state).
NeverBehind ==
  ~overlapped =>
    /\ file # Torn
    /\ ~killed /\ reported /\ (\A w \in Slots : pc[w] = "idle") => file.phase = "reported"

PhasesAreSound == NeverAhead /\ NeverBehind

-----------------------------------------------------------------------------
(* The inductive invariant behind the two properties.                        *)

\* A state is honest wherever it lies: in the file, the temporary or a command's copy.
Honest(s) ==
  /\ s.phase = "terminal" => over
  /\ s.phase = "finalized" => finalized
  /\ s.phase = "reported" => reported /\ s.artifacts
HonestInv ==
  /\ camp = "over" => over
  /\ Honest(file) /\ Honest(tmp) /\ \A w \in Slots : Honest(copy[w])

\* A command is at its write until its temporary is in place.
Writing(w) == pc[w] \in {"open", "fill", "replace"}

\* What finish does, it does to a campaign that is over for good.
OverInv ==
  /\ camp = "none" => file = Absent /\ \A w \in Slots : pc[w] = "idle"
  /\ \A w \in Slots :
       pc[w] \in {"finalize", "report"} \/ (Writing(w) /\ after[w] = "report") => camp = "over"
  /\ reported => camp = "over"

\* One command at a time: it alone has the temporary, from the truncation to the rename.
AloneInv ==
  ~overlapped =>
    /\ file # Torn
    /\ \A w, v \in Slots : w # v => pc[w] = "idle" \/ pc[v] = "idle"
    /\ \A w \in Slots : /\ IF pc[w] = "fill" THEN fd[w] = "tmp" /\ tmp = Torn ELSE fd[w] = "none"
                        /\ pc[w] = "replace" => tmp = copy[w]

\* Once reported, the file reads so, or the command at work is on its way to write it again.
ReportedInv ==
  ~overlapped /\ ~killed /\ reported =>
    /\ \A w \in Slots :
         /\ pc[w] \in {"exec", "wait", "observe", "check"} =>
              copy[w].phase = "reported" /\ file.phase = "reported"
         /\ Writing(w) => \/ after[w] = "report"
                          \/ after[w] = "idle" /\ copy[w].phase = "reported"
    /\ (\A w \in Slots : pc[w] = "idle") => file.phase = "reported"
=============================================================================
