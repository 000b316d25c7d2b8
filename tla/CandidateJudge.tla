----------------------------- MODULE CandidateJudge -----------------------------
(***************************************************************************)
(* The judge of tied candidates inside a closeout.  Its settings and keys  *)
(* are taken out of the controller's environment for as long as the        *)
(* closeout starts processes, and the LLM verifier gets the keys of one    *)
(* backend back for the time of its call: two nested scopes over one       *)
(* process environment, left by returning or by raising at any step.       *)
(***************************************************************************)
EXTENDS Naturals

CONSTANTS MaxEligible, MaxJudgements

VARIABLES
  mode, start,       \* the judge; the judge's names set when the controller started
  env,               \* those set in the controller's environment now
  kept, outer, inner,    \* the judge's copy, and what each scope will restore (if open)
  eligible, clean,   \* hard-valid candidates (in order), and their texts may be sent
  pc, asked,         \* the step; judgements asked for
  result, calls,     \* the last judgement and the provider calls it took
  seen               \* history: judge names a process started in the closeout was given

vars == <<mode, start, env, kept, outer, inner, eligible, clean, pc, asked, result, calls, seen>>

\* GOAL_PLUS_LLM_*, and the providers' own names; "jev" stands for Jev's key.
Names == {"jev", "key", "base", "openai", "openai base", "deepseek", "vertex"}
Providers == {"openai", "openai base", "deepseek", "vertex"}
Closed == {"closed"}
Outcomes == {"none", "disabled", "no candidates", "selected", "error", "unavailable", "raised"}

TypeOK ==
  /\ mode \in {"off", "jev", "llm"} /\ (start \cup env \cup kept \cup seen) \subseteq Names
  /\ outer = Closed \/ outer \subseteq Names
  /\ inner = Closed \/ inner \subseteq Providers
  /\ eligible \in 0..MaxEligible /\ clean \in BOOLEAN
  /\ pc \in {"idle", "closeout", "judge", "import", "select", "leave", "over"}
  /\ asked \in 0..MaxJudgements /\ calls \in 0..1
  /\ result \in [is : Outcomes, choice : 0..MaxEligible]

Nobody(outcome) == [is |-> outcome, choice |-> 0]
Chosen(i) == [is |-> "selected", choice |-> i]

Init ==
  /\ mode \in {"off", "jev", "llm"} /\ start \in SUBSET Names
  /\ env = start /\ kept = start /\ outer = Closed /\ inner = Closed
  /\ eligible = 0 /\ clean = TRUE /\ pc = "idle" /\ asked = 0
  /\ result = Nobody("none") /\ calls = 0 /\ seen = {}

Go(to) == pc' = to
Run == <<mode, start, kept>>
Question == <<eligible, clean, asked>>

\* scrub_controller_judge_environment, around the whole closeout.
Enter ==
  /\ pc = "idle" /\ Go("closeout")
  /\ IF mode = "off" THEN UNCHANGED <<env, outer>> ELSE outer' = env /\ env' = {}
  /\ UNCHANGED <<Run, inner, Question, result, calls, seen>>

\* A verifier, a select or a promote of Goal Plus.
Spawn ==
  /\ pc = "closeout" /\ seen' = seen \cup env
  /\ UNCHANGED <<Run, env, outer, inner, Question, pc, result, calls>>

\* judge_candidates, over the candidates that passed every hard check.
Ask ==
  /\ pc = "closeout" /\ asked < MaxJudgements /\ asked' = asked + 1
  /\ eligible' \in 0..MaxEligible /\ clean' \in BOOLEAN /\ calls' = 0
  /\ IF mode # "off" /\ eligible' > 1 /\ clean'
     THEN result' = Nobody("none") /\ Go("judge")
     ELSE /\ UNCHANGED pc
          /\ result' = IF mode = "off" THEN Nobody("disabled")
                       ELSE IF eligible' = 0 THEN Nobody("no candidates")
                       ELSE IF eligible' = 1 THEN Chosen(1) ELSE Nobody("error")
  /\ UNCHANGED <<Run, env, outer, inner, seen>>

Answer(r) == Go("closeout") /\ result' = r

\* _jev: one request; an answer has to name a candidate it was asked about.
Jev ==
  /\ pc = "judge" /\ mode = "jev"
  /\ \/ Answer(Nobody("error")) /\ UNCHANGED calls    \* no key, or an endpoint that is no URL
     \/ /\ "jev" \in kept /\ calls' = 1
        /\ \/ Answer(Nobody("error"))    \* HTTP, transport, envelope, no or unknown choice
           \/ \E i \in 1..eligible : Answer(Chosen(i))
  /\ UNCHANGED <<Run, env, outer, inner, Question, seen>>

\* _llm_backend: a dedicated pair, or OpenAI's pair, or a provider's own key.
Backend ==
  IF {"base", "key"} \subseteq kept THEN {"openai", "openai base"}
  ELSE IF "base" \in kept \/ "key" \in kept THEN {}
  ELSE IF {"openai", "openai base"} \subseteq kept THEN {"openai", "openai base"}
  ELSE IF "deepseek" \in kept THEN {"deepseek"}
  ELSE IF "vertex" \in kept THEN {"vertex"} ELSE {}

\* _temporary_llm_environment
OpenScope ==
  /\ pc = "judge" /\ mode = "llm"
  /\ IF Backend = {} THEN Answer(Nobody("error")) /\ UNCHANGED <<env, inner>>
     ELSE /\ Go("import") /\ inner' = env \cap Providers
          /\ env' = (env \ Providers) \cup Backend /\ UNCHANGED result
  /\ UNCHANGED <<Run, outer, Question, calls, seen>>

\* The scope is left with what it was entered with.
Restore == env' = (env \ Providers) \cup inner /\ inner' = Closed

\* Mutant: an error leaves the scope without restoring.
ImportLeavesKeys ==
  /\ pc = "import"
  /\ \/ Answer(Nobody("unavailable")) /\ inner' = Closed /\ UNCHANGED env
     \/ Go("leave") /\ result' = Nobody("raised") /\ Restore
     \/ Go("select") /\ UNCHANGED <<env, inner, result>>
  /\ UNCHANGED <<Run, outer, Question, calls, seen>>

\* The package: absent or not the audited one; its cache directory cannot be made; ready.
Import ==
  /\ pc = "import"
  /\ \/ Answer(Nobody("unavailable")) /\ Restore
     \/ Go("leave") /\ result' = Nobody("raised") /\ Restore
     \/ Go("select") /\ UNCHANGED <<env, inner, result>>
  /\ UNCHANGED <<Run, outer, Question, calls, seen>>

\* select: it raises; or an index out of range, scores missing or all the same; or a choice.
Select ==
  /\ pc = "select" /\ calls' = 1 /\ Restore
  /\ Answer(Nobody("error")) \/ \E i \in 1..eligible : Answer(Chosen(i))
  /\ UNCHANGED <<Run, outer, Question, seen>>

\* The closeout returns, or an exception leaves it.
Leave ==
  /\ pc \in {"closeout", "leave"} /\ Go("over") /\ outer' = Closed
  /\ env' = IF outer = Closed THEN env ELSE outer
  /\ UNCHANGED <<Run, inner, Question, result, calls, seen>>

Next ==
  \/ Enter \/ Spawn \/ Ask \/ Jev \/ OpenScope \/ Import \/ Select \/ Leave

Spec == Init /\ [][Next]_vars

-----------------------------------------------------------------------------
\* After a closeout, however it ended and whatever the judge did inside it, the controller
\* has the environment it had; its children were given none of the judge's names; and the
\* verifier runs with the names of one backend (the two context managers, nested).
ScopesNest ==
  /\ pc = "over" => env = start
  /\ mode # "off" => seen = {}
  /\ pc = "select" => env \in {{"openai", "openai base"}, {"deepseek"}, {"vertex"}}

\* A choice among several took one call and names one of them; no call, no choice
\* (judge_candidates, _jev, _llm_verifier).
ChoiceIsAsked ==
  /\ result.is = "selected" => result.choice \in 1..eligible /\ (calls = 1 <=> eligible > 1)
  /\ calls = 1 => clean /\ eligible > 1

JudgementIsSound == ScopesNest /\ ChoiceIsAsked

-----------------------------------------------------------------------------
(* The inductive invariant behind the two properties.                        *)

\* Inside the closeout the environment is bare, and inside the verifier's scope it is the
\* backend's; each scope keeps what it was entered with.
ScopeInv ==
  /\ kept = start /\ (mode # "off" => seen = {})
  /\ pc \in {"idle", "over"} => outer = Closed /\ env = start
  /\ pc \in {"closeout", "judge", "leave"} =>
       IF mode = "off" THEN outer = Closed /\ env = start ELSE outer = start /\ env = {}
  /\ IF pc \in {"import", "select"}
     THEN /\ mode = "llm" /\ outer = start /\ inner = {}
          /\ env \in {{"openai", "openai base"}, {"deepseek"}, {"vertex"}}
     ELSE inner = Closed

\* A judgement under way is of several candidates and has taken no call yet.
AskedInv ==
  /\ pc \in {"judge", "import", "select"} =>
       clean /\ eligible > 1 /\ calls = 0 /\ result.is = "none" /\ mode # "off"
  /\ ChoiceIsAsked
=================================================================================
