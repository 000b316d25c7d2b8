----------------------------- MODULE WorkerSandbox -----------------------------
(***************************************************************************)
(* The launcher of a sandboxed Pi worker: a private directory with a tool  *)
(* proxy and a model relay, the sandboxed child, the relay of stop         *)
(* signals, and the closeout.  Every request of the worker is a thread of  *)
(* the proxy.  The threads are daemons: the closeout neither waits for     *)
(* them nor stops them, and the end of the process cuts them off.          *)
(* Requests are the two that change files: the context (whose execution    *)
(* generation is projected for the worker, evaluation visible) and the     *)
(* native host callback, on a capability issued for one use.               *)
(***************************************************************************)
EXTENDS Naturals

CONSTANTS NumRequests,    \* requests of the worker
          NumGenerations  \* the host answers a generation in 1..NumGenerations

VARIABLES
  pc,             \* the launcher
  child,          \* none, running, ended
  dir,            \* the private directory exists
  serving,        \* the proxy accepts requests
  relay,          \* the model relay accepts requests
  projection,     \* candidate.json in the private directory (0: none)
  source, ticket, \* the capability: in the private directory; under the host's root
  req, gen,       \* per request: its step; the generation the host answered
  answered,       \* history: generations handed to the worker
  kicks,          \* history: host callbacks run on the capability
  raced,          \* history: two requests found no projection
  cut             \* history: requests were under way when the proxy closed

vars == <<pc, child, dir, serving, relay, projection, source, ticket, req, gen, answered,
          kicks, raced, cut>>

Requests == 1..NumRequests
Generations == 1..NumGenerations
Partial == NumGenerations + 1      \* truncated and not yet filled
UnderWay == {"call", "check", "write", "fill", "open", "unlink", "create", "kick", "clean"}

TypeOK ==
  /\ pc \in {"start", "build", "popen", "unarmed", "armed", "relays", "proxy", "tree",
             "leave", "gone", "killed"}
  /\ child \in {"none", "running", "ended"} /\ {dir, serving, relay, raced, cut} \subseteq BOOLEAN
  /\ projection \in 0..Partial /\ source \in {"unissued", "there", "taken"}
  /\ ticket \in BOOLEAN /\ req \in [Requests -> UnderWay \cup {"idle", "over"}]
  /\ gen \in [Requests -> 0..NumGenerations] /\ answered \subseteq Generations
  /\ kicks \in 0..NumRequests

Init ==
  /\ pc = "start" /\ child = "none" /\ dir = FALSE /\ serving = FALSE /\ relay = FALSE
  /\ projection = 0 /\ source = "unissued" /\ ticket = FALSE
  /\ req = [r \in Requests |-> "idle"] /\ gen = [r \in Requests |-> 0]
  /\ answered = {} /\ kicks = 0 /\ raced = FALSE /\ cut = FALSE

Files == <<projection, source, ticket>>
Threads == <<req, gen, answered, kicks, raced>>

-----------------------------------------------------------------------------
(* run_launcher.                                                             *)

StartProxy ==
  /\ pc = "start" /\ pc' = "build" /\ dir' = TRUE /\ serving' = TRUE
  /\ UNCHANGED <<child, relay, Files, Threads, cut>>

\* The command line, the private home and Git view, the relay; an exception closes all.
BuildCommand ==
  /\ pc = "build"
  /\ \/ pc' = "popen" /\ relay' = TRUE
     \/ pc' = "relays" /\ relay' \in BOOLEAN
  /\ UNCHANGED <<child, dir, serving, Files, Threads, cut>>

Popen ==
  /\ pc = "popen"
  /\ \/ pc' = "unarmed" /\ child' = "running"
     \/ pc' = "relays" /\ UNCHANGED child
  /\ UNCHANGED <<dir, serving, relay, Files, Threads, cut>>

Arm ==
  /\ pc = "unarmed" /\ pc' = "armed"
  /\ UNCHANGED <<child, dir, serving, relay, Files, Threads, cut>>

\* The child ends, on a relayed signal or by itself.
ChildEnds ==
  /\ child = "running" /\ child' = "ended"
  /\ UNCHANGED <<pc, dir, serving, relay, Files, Threads, cut>>

Waited ==
  /\ pc = "armed" /\ child = "ended" /\ pc' = "relays"
  /\ UNCHANGED <<child, dir, serving, relay, Files, Threads, cut>>

\* SIGINT before the handlers are there leads to the closeout; but not out of prepare,
\* which closes on an Exception only.
EarlyInterrupt ==
  /\ pc \in {"popen", "unarmed"} /\ pc' = "relays"
  /\ UNCHANGED <<child, dir, serving, relay, Files, Threads, cut>>

\* BubblewrapWorker.close: the relays, the proxy, the private tree.
CloseRelays ==
  /\ pc = "relays" /\ relay' = FALSE /\ pc' = "proxy"
  /\ UNCHANGED <<child, dir, serving, Files, Threads, cut>>

CloseProxy ==
  /\ pc = "proxy" /\ serving' = FALSE /\ pc' = "tree"
  /\ cut' = (\E r \in Requests : req[r] \in UnderWay)
  /\ UNCHANGED <<child, dir, relay, Files, Threads>>

\* A thread that still writes there may make the removal fail.
RemoveTree ==
  /\ pc = "tree" /\ pc' = "leave"
  /\ \/ /\ dir' = FALSE /\ projection' = 0
        /\ source' = IF source = "there" THEN "taken" ELSE source
     \/ cut /\ UNCHANGED <<dir, projection, source>>
  /\ UNCHANGED <<child, serving, relay, ticket, Threads, cut>>

\* The sandbox dies with its parent.
Leave ==
  /\ pc = "leave" /\ pc' = "gone"
  /\ req' = [r \in Requests |-> "over"] /\ child' = IF child = "none" THEN "none" ELSE "ended"
  /\ UNCHANGED <<dir, serving, relay, Files, gen, answered, kicks, raced, cut>>

\* SIGKILL; SIGTERM while no handler is there, SIGINT in prepare or in the closeout.
Killed ==
  /\ pc \notin {"gone", "killed"} /\ pc' = "killed"
  /\ req' = [r \in Requests |-> "over"] /\ child' = IF child = "none" THEN "none" ELSE "ended"
  /\ serving' = FALSE /\ relay' = FALSE
  /\ UNCHANGED <<dir, Files, gen, answered, kicks, raced, cut>>

-----------------------------------------------------------------------------
(* dispatch, in a thread per request.                                        *)

Launcher == <<pc, child, serving, relay>>
Step(r, from, to) == req[r] = from /\ req' = [req EXCEPT ![r] = to]

Issue ==
  /\ child = "running" /\ dir /\ source = "unissued" /\ source' = "there"
  /\ UNCHANGED <<Launcher, dir, projection, ticket, Threads, cut>>

Accept(r) ==
  /\ serving /\ child = "running" /\ \E to \in {"call", "open"} : Step(r, "idle", to)
  /\ UNCHANGED <<Launcher, dir, Files, gen, answered, kicks, raced, cut>>

\* The host's answer; a failed tool is rejected.
HostAnswers(r) ==
  /\ \/ Step(r, "call", "check") /\ \E g \in Generations : gen' = [gen EXCEPT ![r] = g]
     \/ Step(r, "call", "over") /\ UNCHANGED gen
  /\ UNCHANGED <<Launcher, dir, Files, answered, kicks, raced, cut>>

\* _project_worker_generation: what is projected must agree; what is not is written.
Agree(r) ==
  /\ projection # 0 /\ Step(r, "check", "over")
  /\ answered' = answered \cup (IF projection = gen[r] THEN {gen[r]} ELSE {})
  /\ UNCHANGED <<Launcher, dir, Files, gen, kicks, raced, cut>>

FindNone(r) ==
  /\ projection = 0 /\ Step(r, "check", "write")
  /\ raced' = (raced \/ \E q \in Requests \ {r} : req[q] = "write")
  /\ UNCHANGED <<Launcher, dir, Files, gen, answered, kicks, cut>>

\* The parents are made as needed, the private directory itself included.
WriteProjection(r) ==
  /\ Step(r, "write", "fill") /\ dir' = TRUE /\ projection' = Partial
  /\ UNCHANGED <<Launcher, source, ticket, gen, answered, kicks, raced, cut>>

FillProjection(r) ==
  /\ Step(r, "fill", "over") /\ answered' = answered \cup {gen[r]}
  /\ projection' = IF dir THEN gen[r] ELSE 0
  /\ UNCHANGED <<Launcher, dir, source, ticket, gen, kicks, raced, cut>>

\* _dispatch_host_callback: read, take away, hand over, run, clean up.
OpenCapability(r) ==
  /\ Step(r, "open", IF source = "there" THEN "unlink" ELSE "over")
  /\ UNCHANGED <<Launcher, dir, Files, gen, answered, kicks, raced, cut>>

\* Mutant: a capability that is gone already counts as taken away.
UnlinkMissingOk(r) ==
  /\ Step(r, "unlink", "create") /\ source' = "taken"
  /\ UNCHANGED <<Launcher, dir, projection, ticket, gen, answered, kicks, raced, cut>>

Unlink(r) ==
  /\ Step(r, "unlink", IF source = "there" THEN "create" ELSE "over") /\ source' = "taken"
  /\ UNCHANGED <<Launcher, dir, projection, ticket, gen, answered, kicks, raced, cut>>

CreateTicket(r) ==
  /\ Step(r, "create", IF ticket THEN "over" ELSE "kick") /\ ticket' = TRUE
  /\ UNCHANGED <<Launcher, dir, projection, source, gen, answered, kicks, raced, cut>>

Kick(r) ==
  /\ Step(r, "kick", "clean") /\ kicks' \in {kicks, kicks + 1}
  /\ UNCHANGED <<Launcher, dir, Files, gen, answered, raced, cut>>

Clean(r) ==
  /\ Step(r, "clean", "over") /\ ticket' = FALSE
  /\ UNCHANGED <<Launcher, dir, projection, source, gen, answered, kicks, raced, cut>>

Next ==
  \/ StartProxy \/ BuildCommand \/ Popen \/ Arm \/ ChildEnds \/ Waited \/ EarlyInterrupt
  \/ CloseRelays \/ CloseProxy \/ RemoveTree \/ Leave \/ Killed
  \/ Issue
  \/ \E r \in Requests :
       \/ Accept(r) \/ HostAnswers(r) \/ Agree(r) \/ FindNone(r) \/ WriteProjection(r)
       \/ FillProjection(r) \/ OpenCapability(r) \/ Unlink(r) \/ CreateTicket(r) \/ Kick(r)
       \/ Clean(r)

Spec == Init /\ [][Next]_vars

-----------------------------------------------------------------------------
\* A worker sees one execution generation per launch, although nothing locks the projection:
\* two requests that both find none are the one way to two, and requests that outlive the
\* private directory (_project_worker_generation).
OneGeneration ==
  ~raced /\ ~cut => \A g, h \in answered : g = h

\* The capability is good for one callback, whatever requests carry it, and its copy under
\* the host's root is there only while that callback runs, unless the process ended under
\* it (_dispatch_host_callback).
OneCallback ==
  /\ kicks <= 1
  /\ ticket => cut \/ pc = "killed" \/ \E r \in Requests : req[r] \in {"kick", "clean"}

\* A launcher that ended of itself leaves no child and no private directory, on every path
\* on which no request outlived the proxy (run_launcher, BubblewrapWorker.close).
CleanLeave ==
  pc = "gone" => child # "running" /\ ~relay /\ ~serving /\ (dir => cut)

SandboxIsSound == OneGeneration /\ OneCallback /\ CleanLeave

-----------------------------------------------------------------------------
(* The inductive invariant behind the three properties.                      *)

Closed == pc \in {"tree", "leave", "gone", "killed"}

\* A proxy that is closed accepts nothing, and without a cut nothing is under way any more;
\* until then the private directory is there.
CloseInv ==
  /\ serving => pc \in {"build", "popen", "unarmed", "armed", "relays", "proxy"}
  /\ pc \in {"build", "popen", "unarmed", "armed", "relays", "proxy"} => dir
  /\ pc = "start" => \A r \in Requests : req[r] = "idle"
  /\ cut => Closed
  /\ Closed /\ (cut => pc \in {"gone", "killed"}) => \A r \in Requests : req[r] \notin UnderWay
  /\ pc \in {"proxy", "tree", "leave", "gone"} => ~relay
  /\ pc \in {"leave", "gone"} => (dir => cut)
  /\ pc = "gone" => child # "running"

\* Unless two requests raced or the tree was taken from under one: one request at most is at
\* the projection, before anything was handed out; afterwards the projection is what was.
ProjectionInv ==
  /\ \A r \in Requests : req[r] \in {"check", "write", "fill"} => gen[r] \in Generations
  /\ ~raced /\ ~cut =>
       /\ \A r \in Requests : /\ req[r] = "write" => projection = 0
                              /\ req[r] = "fill" => projection = Partial
                              /\ req[r] \in {"write", "fill"} => answered = {}
       /\ \A r, q \in Requests :
            req[r] \in {"write", "fill"} /\ req[q] \in {"write", "fill"} => r = q
       /\ ~Closed => \A g \in answered : projection = g
       /\ \A g, h \in answered : g = h

\* The capability is taken away once, and whoever took it is the one to run the callback.
CapabilityInv ==
  /\ source # "taken" => /\ kicks = 0 /\ ~ticket
                         /\ \A r \in Requests : req[r] \notin {"create", "kick", "clean"}
  /\ \A r, q \in Requests :
       req[r] \in {"create", "kick", "clean"} /\ req[q] \in {"create", "kick", "clean"} => r = q
  /\ \A r \in Requests : req[r] \in {"create", "kick"} => kicks = 0
=============================================================================
