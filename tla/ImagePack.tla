------------------------------- MODULE ImagePack -------------------------------
(***************************************************************************)
(* The evaluator images of SkyDiscover: inventory, provision and doctor    *)
(* over one Docker daemon.  provision builds each image that is not ready  *)
(* from the checkout, on a base it acquires by digest from one source      *)
(* after another, and first gives what it is about to replace a second     *)
(* tag.  Runs fail at any command and are killed anywhere; others use the  *)
(* same daemon and the same checkout.                                      *)
(***************************************************************************)
EXTENDS Naturals

CONSTANTS NumImages, NumSources, MaxRuns, MaxTouches

VARIABLES
  source,            \* the checkout: at the profile's commit, with changes, or elsewhere
  base,              \* the image at the base reference
  image,             \* the image at each reference
  backups,           \* images that provision gave a _bak_ tag
  pc, at, tries,     \* the provision: its step, the image at work, sources tried
  before,            \* the inventory it began with
  answer,            \* the last inventory reported: ready or not
  runs, touches,     \* provisions begun, changes by others (the bounds)
  had, mixed         \* history: images others put at a reference; others changed what a
                     \* running provision had looked at

vars == <<source, base, image, backups, pc, at, tries, before, answer, runs, touches, had, mixed>>

Images == 1..NumImages
NoImage == [from |-> "nothing", tree |-> "none", base |-> "none", labels |-> FALSE]
\* The image the profile's audit names; one of somebody else's.
Audited == [from |-> "audit", tree |-> "pinned", base |-> "pinned", labels |-> FALSE]
Foreign == [from |-> "others", tree |-> "other", base |-> "other", labels |-> FALSE]
Bases == {"absent", "pinned", "other"}
Contents == [from : {"nothing", "audit", "others", "provision"},
             tree : {"none", "pinned", "other"}, base : {"none", "pinned", "other"},
             labels : BOOLEAN]

TypeOK ==
  /\ source \in {"pinned", "changed", "elsewhere"} /\ base \in Bases
  /\ image \in [Images -> Contents]
  /\ backups \subseteq Contents \X (0..NumImages) /\ had \subseteq Contents \X (0..NumImages)
  /\ pc \in {"idle", "inventory", "check", "base", "copy", "verify", "next", "build", "after"}
  /\ at \in 0..NumImages + 1 /\ tries \in 0..NumSources
  /\ before \in [source : BOOLEAN, base : Bases, ready : [Images -> BOOLEAN],
                 present : [Images -> BOOLEAN]]
  /\ answer \in {"none", "ready", "not ready", "failed"}
  /\ runs \in 0..MaxRuns /\ touches \in 0..MaxTouches /\ mixed \in BOOLEAN

\* The base as an image, to be told apart from an evaluator's by its reference 0.
BaseImage(b) == [NoImage EXCEPT !.from = "others", !.base = b]

Present(i) == image[i] # NoImage

\* Provenance by the audited id or by the labels of a build, and a checkout at the tree.
Ready(i) == source # "elsewhere" /\ (image[i] = Audited \/ image[i].labels)

Inventory ==
  [source |-> source = "pinned", base |-> base, ready |-> [i \in Images |-> Ready(i)],
   present |-> [i \in Images |-> Present(i)]]

Init ==
  /\ source = "pinned" /\ base \in Bases /\ image \in [Images -> {NoImage, Audited, Foreign}]
  /\ backups = {} /\ pc = "idle" /\ at = 0 /\ tries = 0 /\ before = Inventory /\ answer = "none"
  /\ runs = 0 /\ touches = 0 /\ mixed = FALSE
  /\ had = {<<image[i], i>> : i \in {j \in Images : Present(j)}}
           \cup IF base = "other" THEN {<<BaseImage(base), 0>>} ELSE {}

\* Others' image at reference i; the one it replaces was theirs to drop.
Put(x, i) == {h \in had : h[2] # i} \cup {<<x, i>>}

Daemon == <<base, image, backups>>
Others == <<source, touches, had, mixed>>
Go(to) == pc' = to
Fail == Go("idle") /\ answer' = "failed"

-----------------------------------------------------------------------------
\* Somebody works in the checkout, or puts an image of theirs at a reference.
Touch ==
  /\ touches < MaxTouches /\ touches' = touches + 1
  /\ \/ source' \in {"pinned", "changed", "elsewhere"} \ {source} /\ UNCHANGED <<base, image, had>>
     \/ base' = "other" /\ had' = Put(BaseImage("other"), 0) /\ UNCHANGED <<source, image>>
     \/ \E i \in Images : /\ image' = [image EXCEPT ![i] = Foreign]
                          /\ had' = Put(Foreign, i) /\ UNCHANGED <<source, base>>
  /\ mixed' = (mixed \/ pc # "idle")
  /\ UNCHANGED <<backups, pc, at, tries, before, answer, runs>>

\* inventory, by itself: every image, the source at its commit and clean.
Report ==
  /\ pc = "idle"
  /\ answer' = IF source = "pinned" /\ \A i \in Images : Ready(i) THEN "ready" ELSE "not ready"
  /\ UNCHANGED <<Daemon, Others, pc, at, tries, before, runs>>

Provision ==
  /\ pc = "idle" /\ runs < MaxRuns /\ runs' = runs + 1 /\ Go("inventory")
  /\ answer' = "none" /\ at' = 0 /\ tries' = 0
  /\ UNCHANGED <<Daemon, Others, before>>

Look ==
  /\ pc = "inventory" /\ before' = Inventory /\ Go("check")
  /\ UNCHANGED <<Daemon, Others, at, tries, answer, runs>>

Check ==
  /\ pc = "check"
  /\ \/ ~before.source /\ Fail
     \/ /\ before.source /\ UNCHANGED answer
        /\ Go(IF \E i \in Images : ~before.ready[i] THEN "base" ELSE "next")
  /\ UNCHANGED <<Daemon, Others, at, tries, before, runs>>

\* ensure_build_base: a base that is there and is the pinned one is used as it is.
Base ==
  /\ pc = "base"
  /\ \/ Fail /\ UNCHANGED backups       \* no skopeo, or docker tag fails
     \/ before.base = "pinned" /\ Go("next") /\ UNCHANGED <<backups, answer>>
     \/ before.base = "absent" /\ Go("copy") /\ UNCHANGED <<backups, answer>>
     \/ /\ before.base = "other" /\ Go("copy")
        /\ backups' = backups \cup {<<BaseImage(base), 0>>} /\ UNCHANGED answer
  /\ UNCHANGED <<base, image, Others, at, tries, before, runs>>

\* One source: it times out or fails, or loads what it has at the reference.
Copy ==
  /\ pc = "copy"
  /\ \/ tries = NumSources /\ Fail /\ UNCHANGED <<base, tries>>
     \/ /\ tries < NumSources /\ tries' = tries + 1 /\ UNCHANGED answer
        /\ \/ UNCHANGED <<base, pc>>
           \/ base' \in {"pinned", "other"} /\ Go("verify")
  /\ UNCHANGED <<image, backups, Others, at, before, runs>>

\* Mutant: what a source has delivered is taken.
VerifyNothing ==
  /\ pc = "verify" /\ Go("next")
  /\ UNCHANGED <<Daemon, Others, at, tries, before, answer, runs>>

\* The id and the architecture of what is at the reference now; or the next source.
Verify ==
  /\ pc = "verify" /\ Go(IF base = "pinned" THEN "next" ELSE "copy")
  /\ UNCHANGED <<Daemon, Others, at, tries, before, answer, runs>>

\* The next image: one that was ready is reused, one that was there gets a second tag.
NextImage ==
  /\ pc = "next" /\ at' = at + 1
  /\ \/ at = NumImages /\ Go("after") /\ UNCHANGED <<backups, answer>>
     \/ at < NumImages /\ before.ready[at + 1] /\ UNCHANGED <<pc, backups, answer>>
     \/ /\ at < NumImages /\ ~before.ready[at + 1]
        /\ \/ before.present[at + 1] /\ Fail /\ UNCHANGED backups
           \/ /\ Go("build") /\ UNCHANGED answer
              /\ backups' = IF before.present[at + 1]
                            THEN backups \cup {<<image[at + 1], at + 1>>} ELSE backups
  /\ UNCHANGED <<base, image, Others, tries, before, runs>>

\* docker build from the checkout as it stands; the labels say what the profile expects.
Build ==
  /\ pc = "build"
  /\ \/ Fail /\ UNCHANGED image
     \/ /\ Go("next") /\ UNCHANGED answer
        /\ image' = [image EXCEPT ![at] =
             [from |-> "provision", labels |-> TRUE, base |-> base,
              tree |-> IF source = "pinned" THEN "pinned" ELSE "other"]]
  /\ UNCHANGED <<base, backups, Others, at, tries, before, runs>>

After ==
  /\ pc = "after" /\ Go("idle")
  /\ answer' = IF source = "pinned" /\ \A i \in Images : Ready(i) THEN "ready" ELSE "not ready"
  /\ UNCHANGED <<Daemon, Others, at, tries, before, runs>>

Kill ==
  /\ pc # "idle" /\ Fail /\ UNCHANGED <<Daemon, Others, at, tries, before, runs>>

Next ==
  \/ Touch \/ Report \/ Provision \/ Look \/ Check \/ Base \/ Copy \/ Verify \/ NextImage
  \/ Build \/ After \/ Kill

Spec == Init /\ [][Next]_vars

-----------------------------------------------------------------------------
\* The images behind an inventory that says ready are the audited ones or come from the
\* pinned tree on the pinned base, over runs that failed half way with a wrong base at the
\* reference, unless others changed something under a running provision: the labels
\* name the tree that was asked for (inventory, ensure_build_base, provision).
ReadyIsPinned ==
  answer = "ready" /\ ~mixed /\ source = "pinned" =>
    \A i \in Images : image[i].labels => image[i].tree = "pinned" /\ image[i].base = "pinned"

\* An image that others had at a reference keeps a tag (backup_reference).
NothingUntagged ==
  ~mixed => \A h \in had \ backups : IF h[2] = 0 THEN base = h[1].base ELSE image[h[2]] = h[1]

PackIsSound == ReadyIsPinned /\ NothingUntagged

-----------------------------------------------------------------------------
(* The inductive invariant behind the two properties.                      *)

\* A base that was there when it was looked at is still some image, and what is built was not
\* ready and has one.
BaseInv ==
  /\ before.base # "absent" => base # "absent"
  /\ pc = "verify" => base # "absent"
  /\ pc \in {"next", "build"} => base # "absent" \/ \A i \in Images : before.ready[i]
  /\ pc = "build" => at \in Images /\ ~before.ready[at]

\* What others had: a base of their own, or an image.
HadInv == \A h \in had : IF h[2] = 0 THEN h = <<BaseImage("other"), 0>> ELSE h[1] # NoImage

\* What a provision under which nothing was changed still knows from its inventory.
Known ==
  ~mixed =>
    /\ pc = "check" => (before.source <=> source = "pinned")
    /\ pc \notin {"idle", "inventory", "check"} => source = "pinned"
    /\ pc \in {"check", "base"} => before.base = base
    /\ pc \notin {"idle", "inventory"} => \A i \in Images : i > at => before.present[i] = Present(i)

\* It builds on the pinned base, and what it replaces has a tag.
BuildInv ==
  ~mixed =>
    /\ pc \in {"next", "build"} => base = "pinned" \/ \A i \in Images : before.ready[i]
    /\ pc \in {"copy", "verify"} => \A h \in had : h[2] = 0 => h \in backups
    /\ pc = "build" => \A h \in had : h[2] = at => h \in backups

\* So every label is true.
LabelInv ==
  ~mixed => \A i \in Images : image[i].labels => image[i].tree = "pinned" /\ image[i].base = "pinned"
=============================================================================
