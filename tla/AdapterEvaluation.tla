--------------------------- MODULE AdapterEvaluation ---------------------------
(***************************************************************************)
(* evaluate_workspace of the benchmark adapters: claim a call, screen the  *)
(* workspace, compare the checkout with what task.json pinned, read the    *)
(* candidate and the evaluator in one or several steps, report.  Calls     *)
(* overlap (the agent, its verifier, the controller's final call), the     *)
(* agent edits meanwhile, the checkout moves, any call is killed.  An      *)
(* adapter is the list of what it reads and when; the code of each is at   *)
(* its definition.                                                         *)
(***************************************************************************)
EXTENDS Naturals, Sequences

CONSTANTS
  Names,       \* the adapters considered
  NumCalls, MaxEdits, MaxMoves

VARIABLES
  adapter,     \* whose task this is
  candidate,   \* the artifact: its version, and whether it is there and well formed
  stray,       \* another file of the workspace has changed: [what, committed]
  source,      \* the checkout: versions of its commit, its pinned files, the others
  container,   \* Frontier-CS: the named judge container
  ledger,      \* budget.json
  agent,       \* "working" or "stopped"
  call,        \* per call: where it is, what it has read, what it reported
  edits, moves \* (the bounds)

vars == <<adapter, candidate, stray, source, container, ledger, agent, call, edits, moves>>

Calls == 1..NumCalls
None == 0                               \* no artifact_sha256
Versions == 1..(MaxEdits + 1)
Sources == [commit : 0..MaxMoves, pinned : 0..MaxMoves, rest : 0..MaxMoves]
First == [commit |-> 0, pinned |-> 0, rest |-> 0]
Fresh == [pc |-> "idle", mode |-> "public", stage |-> 1, ok |-> TRUE, sha |-> None,
          candidates |-> {}, sources |-> {}, cases |-> {}, touched |-> FALSE, moved |-> FALSE]

-----------------------------------------------------------------------------
\* The adapters.  stages: what each step of the evaluation reads, after the screen and
\* the pins.  hash: artifact_sha256 is taken when the report is made ("late", "strict"
\* when it has no guard), before ("early"), from the copy, or never.  raises: the steps
\* whose timeout or error is not turned into an invalid report.

Both == {"candidate", "source"}
Portable == [screen |-> "paths", pins |-> {"pinned"}, refuses |-> "raise", stages |-> <<Both>>,
             hash |-> "late", raises |-> {}, cases |-> FALSE, once |-> FALSE]

FrontierEngineering == [Portable EXCEPT !.pins = {"commit", "pinned"}]

MallocLab == [Portable EXCEPT !.stages = <<{"source"}, Both>>]

\* compile_solution reads the copy; the checker, the input and the answer are the checkout's.
EvaluateCandidate == <<{}, {"source"}, {"source"}, {"source"}>>
FrontierCS == [Portable EXCEPT !.stages = <<{"candidate"}>> \o EvaluateCandidate]

\* One subprocess per case, each loading solver.py and the official program again.
RunCases == <<Both, Both>>
HeuriGym == [Portable EXCEPT !.pins = {}, !.stages = RunCases, !.hash = "strict", !.cases = TRUE]

BuildAndRun == <<{"source"}, {"candidate"}, {}>>
AutoLab == [Portable EXCEPT !.stages = BuildAndRun]

LocalVliw == [Portable EXCEPT !.refuses = "invalid"]

Ale == [Portable EXCEPT !.pins = {}, !.stages = <<{"source"}, {"candidate"}>>,
                        !.raises = {1}]

PrepareTree == <<{"source"}, {"candidate"}>>
TorchBench == [Portable EXCEPT !.screen = "form", !.pins = {}, !.stages = PrepareTree \o <<{}>>,
                               !.hash = "early"]

ZSoftL1 == [Portable EXCEPT !.screen = "form", !.pins = {}, !.hash = "copy", !.once = TRUE,
                            !.stages = <<{"candidate"}, {"source"}>>, !.raises = {2}]

Snapshot == <<{"candidate"}>>
ZSoftDetect == [ZSoftL1 EXCEPT !.hash = "none", !.stages = Snapshot \o <<{"source"}>>]

Adapters ==
  [frontier_engineering |-> FrontierEngineering, malloclab |-> MallocLab,
   frontier_cs |-> FrontierCS, heurigym |-> HeuriGym, autolab |-> AutoLab,
   local_vliw |-> LocalVliw, ale |-> Ale, torchbench |-> TorchBench,
   zsoft_l1 |-> ZSoftL1, zsoft_detect |-> ZSoftDetect]
A == Adapters[adapter]

CallRecords ==
  [pc : {"idle", "claimed", "screened", "container", "create", "judging", "judged",
         "reported", "raised", "killed"},
   mode : {"public", "final"}, stage : 1..6, ok : BOOLEAN, sha : Versions \cup {None},
   candidates : SUBSET Versions, sources : SUBSET Sources, cases : SUBSET BOOLEAN,
   touched : BOOLEAN, moved : BOOLEAN]

TypeOK ==
  /\ adapter \in DOMAIN Adapters /\ candidate \in [v : Versions, formed : BOOLEAN]
  /\ stray \in [what : {"none", "file", "case"}, committed : BOOLEAN]
  /\ source \in Sources /\ container \in {"absent", "up", "down", "foreign"}
  /\ ledger \in [total : 0..NumCalls, final : 0..NumCalls] /\ agent \in {"working", "stopped"}
  /\ edits \in 0..MaxEdits /\ moves \in 0..MaxMoves
  /\ call \in [Calls -> CallRecords]

Init ==
  /\ adapter \in Names /\ candidate = [v |-> 1, formed |-> TRUE]
  /\ stray = [what |-> "none", committed |-> FALSE] /\ source = First
  /\ container \in IF adapter = "frontier_cs" THEN {"absent", "up", "down", "foreign"} ELSE {"up"}
  /\ ledger = [total |-> 0, final |-> 0] /\ agent = "working"
  /\ call = [c \in Calls |-> Fresh] /\ edits = 0 /\ moves = 0

Running(c) == call[c].pc \notin {"idle", "reported", "raised", "killed"}
Set(c, new) == call' = [call EXCEPT ![c] = new]
\* A call that ends without a report: nothing remains but what reached the evaluator.
Lost(c, pc) == [Fresh EXCEPT !.pc = pc, !.mode = call[c].mode, !.sources = call[c].sources]
World == <<adapter, candidate, stray, source, agent, edits, moves>>

-----------------------------------------------------------------------------
\* Around the calls.

Edit ==
  /\ agent = "working" /\ edits < MaxEdits /\ edits' = edits + 1
  /\ \/ /\ \E formed \in BOOLEAN : candidate' = [v |-> candidate.v + 1, formed |-> formed]
        /\ UNCHANGED stray
     \/ /\ \E what \in {"file"} \cup IF A.cases THEN {"case"} ELSE {} : stray' = [what |-> what, committed |-> FALSE]
        /\ UNCHANGED candidate
  /\ call' = [c \in Calls |-> [call[c] EXCEPT !.touched = @ \/ Running(c)]]
  /\ UNCHANGED <<adapter, source, container, ledger, agent, moves>>

\* A commit of the agent: git diff HEAD no longer names the change.
Commit ==
  /\ agent = "working" /\ stray.what # "none" /\ ~stray.committed
  /\ stray' = [stray EXCEPT !.committed = TRUE]
  /\ UNCHANGED <<adapter, candidate, source, container, ledger, agent, call, edits, moves>>

\* The checkout is updated, or edited in place.
Move ==
  /\ moves < MaxMoves /\ moves' = moves + 1
  /\ \E f \in DOMAIN source : source' = [source EXCEPT ![f] = moves + 1]
  /\ call' = [c \in Calls |-> [call[c] EXCEPT !.moved = @ \/ Running(c)]]
  /\ UNCHANGED <<adapter, candidate, stray, container, ledger, agent, edits>>

\* The calls of the agent end with it or outlive it.
StopAgent ==
  /\ agent = "working" /\ agent' = "stopped"
  /\ \E gone \in SUBSET {c \in Calls : Running(c)} :
       call' = [c \in Calls |-> IF c \in gone THEN Lost(c, "killed") ELSE call[c]]
  /\ UNCHANGED <<adapter, candidate, stray, source, container, ledger, edits, moves>>

Kill(c) ==
  /\ Running(c) /\ Set(c, Lost(c, "killed"))
  /\ UNCHANGED <<World, container, ledger>>

-----------------------------------------------------------------------------
\* One call.

RefusedByHistory(mode) ==
  A.once /\ mode = "final" /\ \E c \in Calls : call[c].mode = "final" /\ call[c].pc = "reported"

\* ensure_single_final_claim.
Refused(mode) == A.once /\ mode = "final" /\ ledger'.final # 1

Claim(c) ==
  /\ call[c].pc = "idle" /\ \A d \in 1..(c - 1) : call[d].pc # "idle"
  /\ \E mode \in IF agent = "working" THEN {"public"} ELSE {"final"} :
       /\ ledger' = [total |-> ledger.total + 1,
                     final |-> ledger.final + IF mode = "final" THEN 1 ELSE 0]
       /\ Set(c, [call[c] EXCEPT !.mode = mode, !.pc = IF Refused(mode) THEN "raised" ELSE "claimed"])
  /\ UNCHANGED <<World, container>>

\* candidate_changed_paths, or validate_artifact, validate_l1_artifact and
\* validate_detect_submission; a public Detect call ends here.
Passes ==
  /\ candidate.formed
  /\ A.screen = "paths" => stray.what = "none" \/ stray.committed

Screen(c) ==
  /\ call[c].pc = "claimed"
  /\ Set(c, [call[c] EXCEPT
       !.ok = Passes, !.touched = FALSE,
       !.sha = IF A.hash = "early" /\ Passes THEN candidate.v ELSE None,
       !.pc = IF ~Passes \/ (adapter = "zsoft_detect" /\ call[c].mode = "public")
              THEN "judged" ELSE "screened"])
  /\ UNCHANGED <<World, container, ledger>>

\* The pinned files and commit, as task.json has them.
AsPinned == \A f \in A.pins : source[f] = First[f]

Pin(c) ==
  /\ call[c].pc = "screened"
  /\ Set(c, [call[c] EXCEPT
       !.moved = FALSE, !.ok = AsPinned,
       !.pc = IF AsPinned THEN "judging" ELSE IF A.refuses = "raise" THEN "raised" ELSE "judged"])
  /\ UNCHANGED <<World, container, ledger>>

\* What this stage reads, as it is now.
Read(c, what) ==
  [call[c] EXCEPT
     !.stage = @ + 1,
     !.candidates = @ \cup IF "candidate" \in what THEN {candidate.v} ELSE {},
     !.sources = @ \cup IF "source" \in what THEN {source} ELSE {},
     !.cases = @ \cup IF A.cases THEN {stray.what # "case"} ELSE {},
     !.sha = IF A.hash = "copy" /\ "candidate" \in what THEN candidate.v ELSE @,
     !.ok = @ /\ (A.screen = "paths" /\ "candidate" \in what => candidate.formed)]

\* A changed frozen case: heurigym raises.
CaseChanged == A.cases /\ stray.what = "case"

Stage(c) ==
  /\ call[c].pc = "judging" /\ call[c].stage <= Len(A.stages) /\ ~CaseChanged
  /\ LET read == Read(c, A.stages[call[c].stage]) IN
     \E good \in BOOLEAN :
       Set(c, [read EXCEPT !.ok = @ /\ good,
                           !.pc = IF ~(read.ok /\ good) /\ ~A.cases THEN "judged"
                                  ELSE IF adapter = "frontier_cs" /\ read.stage = 2 THEN "container"
                                  ELSE "judging"])
  /\ UNCHANGED <<World, container, ledger>>

\* A timeout, an unreadable file, a judge that cannot start.
Fault(c) ==
  /\ call[c].pc = "judging" /\ call[c].stage <= Len(A.stages)
  /\ Set(c, [call[c] EXCEPT
       !.ok = FALSE, !.stage = @ + 1,
       !.pc = IF CaseChanged \/ call[c].stage \in A.raises THEN "raised"
              ELSE IF A.cases THEN "judging" ELSE "judged"])
  /\ UNCHANGED <<World, container, ledger>>

JudgeEnds(c) ==
  /\ call[c].pc = "judging" /\ call[c].stage > Len(A.stages)
  /\ Set(c, [call[c] EXCEPT !.pc = "judged"])
  /\ UNCHANGED <<World, container, ledger>>

\* ensure_compile_container: inspect, then run, start, or refuse.
Inspect(c) ==
  /\ call[c].pc = "container"
  /\ container' = IF container = "down" THEN "up" ELSE container
  /\ Set(c, [call[c] EXCEPT !.ok = container # "foreign",
       !.pc = IF container = "absent" THEN "create"
              ELSE IF container = "foreign" THEN "judged" ELSE "judging"])
  /\ UNCHANGED <<World, ledger>>

\* docker run --name fails when another call has created it meanwhile.
Create(c) ==
  /\ call[c].pc = "create" /\ container' = "up"
  /\ Set(c, [call[c] EXCEPT !.ok = container = "absent",
                            !.pc = IF container = "absent" THEN "judging" ELSE "judged"])
  /\ UNCHANGED <<World, ledger>>

\* The report, its artifact_sha256, and append_history.
Report(c) ==
  /\ call[c].pc = "judged"
  /\ LET lost == A.hash = "strict" /\ ~candidate.formed /\ call[c].stage > 1
         now == IF candidate.formed THEN candidate.v ELSE None IN
     Set(c, [call[c] EXCEPT
       !.pc = IF lost THEN "raised" ELSE "reported",
       !.sha = IF A.hash \in {"late", "strict"} /\ ~lost THEN now ELSE @])
  /\ UNCHANGED <<World, container, ledger>>

Next ==
  \/ Edit \/ Commit \/ Move \/ StopAgent
  \/ \E c \in Calls : \/ Claim(c) \/ Screen(c) \/ Pin(c) \/ Stage(c) \/ Fault(c) \/ JudgeEnds(c)
                      \/ Inspect(c) \/ Create(c) \/ Report(c) \/ Kill(c)

Spec == Init /\ [][Next]_vars

-----------------------------------------------------------------------------
Judged(c) == call[c].pc = "reported" /\ call[c].ok /\ call[c].candidates # {}

\* A valid report is of one candidate, whatever was written meanwhile, unless the adapter
\* loads the artifact once per case (heurigym) and it changed after the screen.
OneCandidate ==
  \A c \in Calls : Judged(c) =>
    \/ call[c].candidates \in {{v} : v \in Versions}
    \/ A.cases /\ call[c].touched

\* artifact_sha256 names what was judged: always when it is the copy's, and otherwise
\* unless the artifact changed after the screen.
ShaIsJudged ==
  \A c \in Calls : Judged(c) /\ A.hash # "none" /\ (A.hash = "copy" \/ ~call[c].touched) =>
    call[c].candidates = {call[c].sha}

\* A valid report used the evaluator that task.json pins, every step of it, unless the
\* checkout moved after the comparison.
PinnedIsJudged ==
  \A c \in Calls : Judged(c) /\ ~call[c].moved =>
    \A s \in call[c].sources, f \in A.pins : s[f] = First[f]

\* No changed case is ever scored, committed or not.
CasesAreFrozen == \A c \in Calls : Judged(c) => FALSE \notin call[c].cases

\* The final call judges what the agent left, although calls of the agent may outlive it.
FinalIsDelivered ==
  \A c \in Calls : Judged(c) /\ call[c].mode = "final" => call[c].candidates = {candidate.v}

\* The official scorer of a blind task is reached by one final call at most, whatever was
\* killed or raised before.
OneFinal ==
  A.once => \A c, d \in Calls :
    (\A b \in {c, d} : call[b].mode = "final" /\ call[b].sources # {}) => c = d

\* Every report was counted.
Counted ==
  \A c \in Calls : call[c].pc = "reported" =>
    ledger.total >= c /\ (call[c].mode = "final" => ledger.final >= 1)

AdapterIsSound ==
  /\ OneCandidate /\ ShaIsJudged /\ PinnedIsJudged /\ CasesAreFrozen /\ FinalIsDelivered
  /\ OneFinal /\ Counted

-----------------------------------------------------------------------------
(* The inductive invariant behind the seven properties.                      *)

Begun(c) == call[c].pc # "idle"
Screened(c) == call[c].pc \in {"screened", "container", "create", "judging", "judged"}
Judging(c) == call[c].pc \in {"container", "create", "judging"}

\* Versions and calls are counted; an evaluation goes through its stages.
CountInv ==
  /\ candidate.v <= edits + 1 /\ \A f \in {"commit", "pinned", "rest"} : source[f] <= moves
  /\ \A c \in Calls : call[c].stage <= Len(A.stages) + 1
  /\ ledger.final <= ledger.total /\ \A c \in Calls : Begun(c) <=> c <= ledger.total

\* Nothing is read before the judging, and an evaluation that goes on has failed nothing,
\* unless the adapter scores every case.
StartInv ==
  \A c \in Calls :
    /\ call[c].pc \in {"idle", "claimed", "screened"} =>
         /\ call[c].stage = 1 /\ call[c].ok
         /\ call[c].candidates = {} /\ call[c].sources = {} /\ call[c].cases = {}
    /\ Judging(c) /\ ~A.cases => call[c].ok
    /\ call[c].pc \in {"container", "create"} => ~A.cases

\* What has been read of the candidate: no more than one version if one stage reads it, the
\* present one while nobody touches it.
CandidateInv ==
  \A c \in Calls :
    /\ ~A.cases => \A v, w \in call[c].candidates : v = w
    /\ ~A.cases /\ call[c].candidates # {} =>
         \A k \in call[c].stage..Len(A.stages) : "candidate" \notin A.stages[k]
    /\ Screened(c) /\ ~call[c].touched =>
         /\ call[c].candidates \subseteq {candidate.v}
         /\ call[c].ok => candidate.formed
         /\ A.hash = "early" /\ call[c].ok => call[c].sha = candidate.v
    /\ A.hash = "copy" /\ call[c].candidates # {} => call[c].candidates = {call[c].sha}
    /\ call[c].pc = "reported" /\ ~call[c].touched /\ call[c].ok /\ A.hash # "none" =>
         call[c].candidates \subseteq {call[c].sha}

\* The checkout is as pinned from the comparison until it moves.
SourceInv ==
  \A c \in Calls : ~call[c].moved =>
    /\ call[c].pc \in {"judged", "reported"} \/ Judging(c) =>
         \A s \in call[c].sources, f \in A.pins : s[f] = First[f]
    /\ Judging(c) => AsPinned

\* A final call that may reach the scorer, or has.
Scores(c) == Begun(c) /\ call[c].mode = "final" /\ (Running(c) \/ call[c].sources # {})

\* Final calls begin when the agent has stopped; of a blind task only one gets through.
FinalInv ==
  \A c \in Calls : Begun(c) /\ call[c].mode = "final" =>
    /\ agent = "stopped" /\ ledger.final >= 1
    /\ call[c].candidates \subseteq {candidate.v}
    /\ A.once /\ Scores(c) => \A d \in Calls : Scores(d) => c = d
================================================================================
