-------------------------- MODULE ProvisionProofs ----------------------------
(***************************************************************************)
(* Theorems about the commands of MCControllers that provide for the       *)
(* others, for every value of the bounds: the checkouts of the bootstrap,  *)
(* the pack of images, a run directory and an EdgeBench campaign's         *)
(* directory.  A section per part gives its inductive invariant (its       *)
(* conjuncts are in the part's own module) and shows that its steps keep   *)
(* it; the last section carries them over to Spec.                         *)
(***************************************************************************)
EXTENDS MCControllers, Sequences, FiniteSetTheorems, TLAPS

-----------------------------------------------------------------------------
(* A checkout and the commands of the bootstrap, within the bounds b       *)
(* (Checkouts). Here v1 is remote, v2 is disk, v3 is staging, v4 is        *)
(* staged, v5 is op, v6 is pc, v7 is seen, v8 is healthy, v9 is code, v10  *)
(* is changes, v11 is edits, v12 is work, v13 is moved.                    *)

LEMMA BootstrapBounded ==
  ASSUME NEW b \in CheckoutBounds
  PROVE  b.commands \in Nat /\ b.changes \in Nat /\ b.edits \in Nat
  BY DEF CheckoutBounds

BootstrapInv(b) ==
  /\ Bootstrap(b)!TypeOK /\ Bootstrap(b)!DiskInv /\ Bootstrap(b)!CommandsInv
  /\ Bootstrap(b)!CheckoutIsSound

BootstrapSteps(b) == {"idle", "doctor", "state", "query", "look", "make", "clone", "checkout",
          "rename", "inspect", "fetch", "attach", "upstream", "merge", "sparse",
          "verify", "install", "redoctor", "restate", "requery", "over"}

BootstrapGoodEnd(b, c) ==
  v9[c] = "ok" /\ ~v13[c] => Bootstrap(b)!Current /\ (v5[c] = "bootstrap" => v2.shaped)

BootstrapOwn(b, c) ==
  /\ Bootstrap(b)!ExitInv(c) /\ Bootstrap(b)!SeenInv(c) /\ Bootstrap(b)!CourseInv(c)
  /\ BootstrapGoodEnd(b, c)

\* A step of a command.
BootstrapStep(b, c) ==
  \/ Bootstrap(b)!Start(c) \/ Bootstrap(b)!Doctor(c) \/ Bootstrap(b)!ReadState(c)
       \/ Bootstrap(b)!Query(c) \/ Bootstrap(b)!Requery(c)
  \/ Bootstrap(b)!Look(c) \/ Bootstrap(b)!Make(c) \/ Bootstrap(b)!CloneFails(c)
       \/ Bootstrap(b)!Clone(c) \/ Bootstrap(b)!CheckOut(c) \/ Bootstrap(b)!Rename(c)
  \/ Bootstrap(b)!Inspect(c) \/ Bootstrap(b)!Fetch(c) \/ Bootstrap(b)!Attach(c)
       \/ Bootstrap(b)!AttachRefused(c) \/ Bootstrap(b)!SetUpstream(c)
  \/ Bootstrap(b)!Merge(c) \/ Bootstrap(b)!MergeRefused(c) \/ Bootstrap(b)!SetSparse(c)
       \/ Bootstrap(b)!Verify(c) \/ Bootstrap(b)!Install(c) \/ Bootstrap(b)!Kill(c)

LEMMA BootstrapOwned ==
  ASSUME NEW b \in CheckoutBounds
  PROVE  /\ BootstrapInv(b) <=> /\ Bootstrap(b)!TypeOK /\ Bootstrap(b)!DiskInv
              /\ Bootstrap(b)!WorkKept /\ Bootstrap(b)!CloneIsWhole
                                /\ \A c \in Bootstrap(b)!Commands : BootstrapOwn(b, c)
  BY DEF BootstrapInv, BootstrapOwn, BootstrapGoodEnd, Bootstrap!CommandsInv,
     Bootstrap!CheckoutIsSound, Bootstrap!GoodEndIsCurrent

LEMMA BootstrapOwnedNext ==
  ASSUME NEW b \in CheckoutBounds,
         Bootstrap(b)!TypeOK', Bootstrap(b)!DiskInv', Bootstrap(b)!WorkKept',
              Bootstrap(b)!CloneIsWhole', \A c \in Bootstrap(b)!Commands : BootstrapOwn(b, c)'
  PROVE  BootstrapInv(b)'
  BY DEF BootstrapInv, BootstrapOwn, BootstrapGoodEnd, Bootstrap!CommandsInv,
     Bootstrap!CheckoutIsSound, Bootstrap!GoodEndIsCurrent

LEMMA BootstrapSomeDisks ==
  ASSUME NEW b \in CheckoutBounds
  PROVE  /\ Bootstrap(b)!Nothing \in Bootstrap(b)!Commits /\ {0} \in Bootstrap(b)!Commits
         /\ Bootstrap(b)!Absent \in Bootstrap(b)!Disks /\ Bootstrap(b)!Absent.is = "absent"
              /\ Bootstrap(b)!Absent.at = "branch"
                   /\ Bootstrap(b)!Absent.other = Bootstrap(b)!Nothing
         /\ Bootstrap(b)!Absent.branch = Bootstrap(b)!Nothing
<1>1. Bootstrap(b)!Nothing \in Bootstrap(b)!Commits /\ {0} \in Bootstrap(b)!Commits
  BY BootstrapBounded DEF Bootstrap!Nothing, Bootstrap!Commits
<1> QED BY <1>1 DEF Bootstrap!Absent, Bootstrap!Disks

LEMMA BootstrapHeads ==
  ASSUME NEW b \in CheckoutBounds,
         Bootstrap(b)!TypeOK
  PROVE  Bootstrap(b)!Head(v2) \in Bootstrap(b)!Commits /\ v2.tracking \in Bootstrap(b)!Commits
  BY DEF Bootstrap!TypeOK, Bootstrap!Head, Bootstrap!Disks

\* Moving the head moves nothing else.
LEMMA BootstrapHeadMoved ==
  ASSUME NEW b \in CheckoutBounds,
         Bootstrap(b)!TypeOK, NEW x \in Bootstrap(b)!Commits
  PROVE  /\ Bootstrap(b)!WithHead(x) \in Bootstrap(b)!Disks
              /\ Bootstrap(b)!Head(Bootstrap(b)!WithHead(x)) = x
         /\ Bootstrap(b)!WithHead(x).is = v2.is /\ Bootstrap(b)!WithHead(x).at = v2.at
         /\ Bootstrap(b)!WithHead(x).upstream = v2.upstream
              /\ Bootstrap(b)!WithHead(x).dirty = v2.dirty
         /\ Bootstrap(b)!WithHead(x).tracking = v2.tracking
              /\ Bootstrap(b)!WithHead(x).shaped = v2.shaped
         /\ Bootstrap(b)!WithHead(x).branch = (IF v2.at = "branch" THEN x ELSE v2.branch)
         /\ Bootstrap(b)!WithHead(x).other = (IF v2.at = "other" THEN x ELSE v2.other)
  BY DEF Bootstrap!TypeOK, Bootstrap!WithHead, Bootstrap!Head, Bootstrap!Disks

LEMMA BootstrapInitInv ==
  ASSUME NEW b \in CheckoutBounds
  PROVE  Bootstrap(b)!Init => BootstrapInv(b)
<1> SUFFICES ASSUME Bootstrap(b)!Init PROVE BootstrapInv(b)
  OBVIOUS
<1> USE BootstrapBounded
<1> DEFINE BootstrapCloned == [Bootstrap(b)!Absent EXCEPT !.is = "clone", !.branch = {0},
      !.tracking = {0},
                                    !.upstream = TRUE, !.shaped = TRUE]
<1>1. v2 = Bootstrap(b)!Absent \/ v2 = BootstrapCloned
  BY DEF Bootstrap!Init
<1>2. /\ BootstrapCloned \in Bootstrap(b)!Disks /\ BootstrapCloned.is = "clone"
           /\ BootstrapCloned.at = "branch" /\ BootstrapCloned.branch = {0}
      /\ BootstrapCloned.tracking = {0} /\ BootstrapCloned.other = Bootstrap(b)!Nothing
  BY BootstrapSomeDisks DEF Bootstrap!Absent, Bootstrap!Disks
<1> HIDE DEF BootstrapCloned
<1>3. Bootstrap(b)!TypeOK
  <2>1. Bootstrap(b)!Unread \in Bootstrap(b)!Readings
    BY BootstrapSomeDisks DEF Bootstrap!Unread, Bootstrap!Readings
  <2>2. /\ v5 \in [Bootstrap(b)!Commands -> {"bootstrap", "check", "decline"}]
             /\ v6 \in [Bootstrap(b)!Commands -> BootstrapSteps(b)]
        /\ v7 \in [Bootstrap(b)!Commands -> Bootstrap(b)!Readings]
             /\ v8 \in [Bootstrap(b)!Commands -> BOOLEAN]
        /\ v9 \in [Bootstrap(b)!Commands -> {"none", "ok", "failed"}]
             /\ v13 \in [Bootstrap(b)!Commands -> BOOLEAN]
    BY <2>1 DEF Bootstrap!Init, BootstrapSteps
  <2>3. v1 \in Bootstrap(b)!Commits /\ v4 \in Bootstrap(b)!Commits /\ v3 = "none"
    BY BootstrapSomeDisks DEF Bootstrap!Init
  <2>4. v10 = 0 /\ v11 = 0 /\ v12 = {}
    BY DEF Bootstrap!Init
  <2>5. v2 \in Bootstrap(b)!Disks
    BY <1>1, <1>2, BootstrapSomeDisks
  <2> QED BY <2>2, <2>3, <2>4, <2>5 DEF Bootstrap!TypeOK, BootstrapSteps
<1>4. Bootstrap(b)!DiskInv
  <2>1. v1 # Bootstrap(b)!Nothing /\ v3 = "none" /\ v12 = {}
    BY DEF Bootstrap!Init, Bootstrap!Nothing
  <2> QED BY <1>1, <1>2, <2>1, BootstrapSomeDisks DEF Bootstrap!DiskInv
<1>5. Bootstrap(b)!WorkKept /\ Bootstrap(b)!CloneIsWhole
  <2>1. v12 = {}
    BY DEF Bootstrap!Init
  <2>2. v2.is = "clone" => Bootstrap(b)!Head(v2) = {0} /\ v2.tracking = {0}
    BY <1>1, <1>2, BootstrapSomeDisks DEF Bootstrap!Head
  <2> QED BY <2>1, <2>2 DEF Bootstrap!WorkKept, Bootstrap!CloneIsWhole, Bootstrap!Nothing
<1>6. ASSUME NEW c \in Bootstrap(b)!Commands PROVE BootstrapOwn(b, c)
  <2>1. v6[c] = "idle" /\ v9[c] = "none"
    BY DEF Bootstrap!Init
  <2> QED BY <2>1 DEF BootstrapOwn, Bootstrap!ExitInv, Bootstrap!SeenInv, Bootstrap!CourseInv,
             BootstrapGoodEnd
<1> QED BY <1>3, <1>4, <1>5, <1>6, BootstrapOwned

-----------------------------------------------------------------------------
\* What a step of a command does to the commands.
LEMMA BootstrapStepTypes ==
  ASSUME NEW b \in CheckoutBounds,
         Bootstrap(b)!TypeOK, NEW c \in Bootstrap(b)!Commands, BootstrapStep(b, c)
  PROVE  /\ v6' \in [Bootstrap(b)!Commands -> BootstrapSteps(b)]
         /\ v5' \in [Bootstrap(b)!Commands -> {"bootstrap", "check", "decline"}]
         /\ v9' \in [Bootstrap(b)!Commands -> {"none", "ok", "failed"}]
         /\ v7' \in [Bootstrap(b)!Commands -> Bootstrap(b)!Readings]
              /\ v8' \in [Bootstrap(b)!Commands -> BOOLEAN]
         /\ v13' \in [Bootstrap(b)!Commands -> BOOLEAN]
         /\ UNCHANGED <<v1, v10, v11, v12>>
         /\ \A d \in Bootstrap(b)!Commands \ {c} :
              v6'[d] = v6[d] /\ v5'[d] = v5[d] /\ v9'[d] = v9[d] /\ v7'[d] = v7[d]
<1> USE DEF BootstrapStep, Bootstrap!Start, Bootstrap!Doctor, Bootstrap!ReadState,
       Bootstrap!Query, Bootstrap!Requery, Bootstrap!Look, Bootstrap!Make, Bootstrap!CloneFails,
       Bootstrap!Clone, Bootstrap!CheckOut, Bootstrap!Rename, Bootstrap!Inspect, Bootstrap!Fetch,
       Bootstrap!Attach, Bootstrap!AttachRefused, Bootstrap!SetUpstream, Bootstrap!Merge,
       Bootstrap!MergeRefused, Bootstrap!SetSparse, Bootstrap!Verify, Bootstrap!Install,
       Bootstrap!Kill, Bootstrap!Git
<1>1. v6 \in [Bootstrap(b)!Commands -> BootstrapSteps(b)]
  BY DEF Bootstrap!TypeOK, BootstrapSteps
<1>2. \E x \in BootstrapSteps(b) : v6' = [v6 EXCEPT ![c] = x]
  BY DEF Bootstrap!Go, Bootstrap!Exit, Bootstrap!Raise, BootstrapSteps
<1>3. v5' = v5 \/ \E x \in {"bootstrap", "check", "decline"} : v5' = [v5 EXCEPT ![c] = x]
  OBVIOUS
<1>4. v9' = v9 \/ \E x \in {"ok", "failed"} : v9' = [v9 EXCEPT ![c] = x]
  BY DEF Bootstrap!Exit, Bootstrap!Raise
<1>5. v7' = v7 \/ \E x \in Bootstrap(b)!Readings : v7' = [v7 EXCEPT ![c] = x]
  <2>1. CASE Bootstrap(b)!ReadState(c)
    <3> DEFINE blocked == v2.is = "foreign" \/ (v2.is = "clone" /\ (v2.dirty \/ v2.at = "other"))
               x == [blocked |-> blocked, clone |-> v2.is = "absent",
                    head |-> Bootstrap(b)!Head(v2),
                     repair |-> /\ v2.is = "clone" /\ ~blocked
                                /\ \/ v2.at # "branch" \/ ~v2.upstream
                                   \/ v2.tracking # Bootstrap(b)!Head(v2)]
    <3>1. v7' = [v7 EXCEPT ![c] = x]
      BY <2>1
    <3>2. x \in Bootstrap(b)!Readings
      BY BootstrapHeads DEF Bootstrap!Readings
    <3> QED BY <3>1, <3>2
  <2>2. CASE ~Bootstrap(b)!ReadState(c)
    BY <2>2 DEF Bootstrap!Reading
  <2> QED BY <2>1, <2>2
<1>6. v8' = v8 \/ \E x \in BOOLEAN : v8' = [v8 EXCEPT ![c] = x]
  <2>1. CASE Bootstrap(b)!Doctor(c)
    <3>1. PICK rest \in BOOLEAN : v8' = [v8 EXCEPT ![c] = rest /\ Bootstrap(b)!InOrder(v2)]
      BY <2>1
    <3>2. (rest /\ Bootstrap(b)!InOrder(v2)) \in BOOLEAN
      BY DEF Bootstrap!InOrder
    <3> QED BY <3>1, <3>2
  <2>2. CASE ~Bootstrap(b)!Doctor(c)
    BY <2>2 DEF Bootstrap!Reading
  <2> QED BY <2>1, <2>2
<1>7. \/ v13' = v13
      \/ v13' = [v13 EXCEPT ![c] = FALSE]
      \/ v13' = [d \in Bootstrap(b)!Commands |-> v13[d] \/ d # c]
  BY DEF Bootstrap!Changed
<1>8. UNCHANGED <<v1, v10, v11, v12>>
  BY DEF Bootstrap!World
<1>9. v13' \in [Bootstrap(b)!Commands -> BOOLEAN]
  <2>1. CASE v13' = v13
    BY <2>1 DEF Bootstrap!TypeOK
  <2>2. CASE v13' = [v13 EXCEPT ![c] = FALSE]
    BY <2>2 DEF Bootstrap!TypeOK
  <2>3. CASE v13' = [d \in Bootstrap(b)!Commands |-> v13[d] \/ d # c]
    <3>1. \A d \in Bootstrap(b)!Commands : (v13[d] \/ d # c) \in BOOLEAN
      OBVIOUS
    <3> QED BY ONLY <2>3, <3>1
  <2> QED BY ONLY <1>7, <2>1, <2>2, <2>3
<1> QED BY ONLY <1>1, <1>2, <1>3, <1>4, <1>5, <1>6, <1>8, <1>9, Bootstrap(b)!TypeOK,
           c \in Bootstrap(b)!Commands DEF Bootstrap!TypeOK

\* The others' part in a step of c: something has moved under them, or it has not.
LEMMA BootstrapOthersKept ==
  ASSUME NEW b \in CheckoutBounds,
         BootstrapInv(b), NEW c \in Bootstrap(b)!Commands, BootstrapStep(b, c),
         \A d \in Bootstrap(b)!Commands \ {c} :
           \/ v13'[d]
           \/ /\ v13'[d] = v13[d] /\ v2' = v2
              /\ v3' \in {"fetched", "checked"} =>
                   \/ v4' = v1
                   \/ v3 \in {"fetched", "checked"} /\ v4' = v4
  PROVE  \A d \in Bootstrap(b)!Commands \ {c} : BootstrapOwn(b, d)'
<1>1. /\ UNCHANGED v1
      /\ \A d \in Bootstrap(b)!Commands \ {c} :
           v6'[d] = v6[d] /\ v5'[d] = v5[d] /\ v9'[d] = v9[d] /\ v7'[d] = v7[d]
  BY BootstrapStepTypes DEF BootstrapInv
<1> SUFFICES ASSUME NEW d \in Bootstrap(b)!Commands \ {c} PROVE BootstrapOwn(b, d)'
  OBVIOUS
<1>2. BootstrapOwn(b, d)
  BY BootstrapOwned
<1>3. Bootstrap(b)!ExitInv(d)'
  BY <1>1, <1>2 DEF BootstrapOwn, Bootstrap!ExitInv
<1>4. CASE v13'[d]
  BY <1>3, <1>4 DEF BootstrapOwn, Bootstrap!SeenInv, Bootstrap!CourseInv, BootstrapGoodEnd
<1>5. CASE /\ v13'[d] = v13[d] /\ v2' = v2
           /\ v3' \in {"fetched", "checked"} =>
                \/ v4' = v1
                \/ v3 \in {"fetched", "checked"} /\ v4' = v4
  <2>1. Bootstrap(b)!SeenInv(d)'
    BY <1>1, <1>2, <1>5 DEF BootstrapOwn, Bootstrap!SeenInv
  <2>2. Bootstrap(b)!CourseInv(d)'
    BY <1>1, <1>2, <1>5 DEF BootstrapOwn, Bootstrap!CourseInv
  <2>3. BootstrapGoodEnd(b, d)'
    BY <1>1, <1>2, <1>5 DEF BootstrapOwn, BootstrapGoodEnd, Bootstrap!Current
  <2> QED BY <1>3, <2>1, <2>2, <2>3 DEF BootstrapOwn
<1> QED BY <1>4, <1>5

\* A step that leaves the checkout and the staging directory alone.
LEMMA BootstrapQuietKept ==
  ASSUME NEW b \in CheckoutBounds,
         BootstrapInv(b), NEW c \in Bootstrap(b)!Commands, BootstrapStep(b, c),
              UNCHANGED <<v2, v3, v4>>,
         \A d \in Bootstrap(b)!Commands \ {c} : v13'[d] = v13[d],
         BootstrapOwn(b, c)'
  PROVE  BootstrapInv(b)'
<1>1. Bootstrap(b)!TypeOK'
  <2>1. Bootstrap(b)!TypeOK
    BY DEF BootstrapInv
  <2>2. /\ UNCHANGED <<v2, v3, v4, v1, v10, v11, v12>>
        /\ v5' \in [Bootstrap(b)!Commands -> {"bootstrap", "check", "decline"}]
             /\ v6' \in [Bootstrap(b)!Commands -> BootstrapSteps(b)]
        /\ v7' \in [Bootstrap(b)!Commands -> Bootstrap(b)!Readings]
             /\ v8' \in [Bootstrap(b)!Commands -> BOOLEAN]
        /\ v9' \in [Bootstrap(b)!Commands -> {"none", "ok", "failed"}]
             /\ v13' \in [Bootstrap(b)!Commands -> BOOLEAN]
    BY <2>1, BootstrapStepTypes
  <2> QED BY <2>1, <2>2 DEF Bootstrap!TypeOK, BootstrapSteps
<1>2. UNCHANGED <<v1, v12>>
  BY BootstrapStepTypes DEF BootstrapInv
<1>3. Bootstrap(b)!DiskInv' /\ Bootstrap(b)!WorkKept' /\ Bootstrap(b)!CloneIsWhole'
  BY <1>2 DEF BootstrapInv, Bootstrap!CheckoutIsSound, Bootstrap!DiskInv, Bootstrap!WorkKept,
     Bootstrap!CloneIsWhole
<1>4. \A d \in Bootstrap(b)!Commands \ {c} : BootstrapOwn(b, d)'
  BY BootstrapOthersKept DEF BootstrapInv
<1>5. \A d \in Bootstrap(b)!Commands : BootstrapOwn(b, d)'
  BY <1>4
<1> QED BY <1>1, <1>3, <1>5, BootstrapOwnedNext

\* Whatever has failed is over.
LEMMA BootstrapRaiseInv ==
  ASSUME NEW b \in CheckoutBounds,
         BootstrapInv(b), NEW c \in Bootstrap(b)!Commands, BootstrapStep(b, c),
              Bootstrap(b)!Raise(c), UNCHANGED <<v2, v3, v4, v13>>
  PROVE  BootstrapInv(b)'
<1>1. v6'[c] = "over" /\ v9'[c] = "failed"
  BY DEF Bootstrap!Raise, Bootstrap!Exit, Bootstrap!Go, BootstrapInv, Bootstrap!TypeOK
<1>2. BootstrapOwn(b, c)'
  BY <1>1 DEF BootstrapOwn, Bootstrap!ExitInv, Bootstrap!SeenInv, Bootstrap!CourseInv,
     BootstrapGoodEnd
<1> QED BY <1>2, BootstrapQuietKept

LEMMA BootstrapFailInv ==
  ASSUME NEW b \in CheckoutBounds,
         BootstrapInv(b), NEW c \in Bootstrap(b)!Commands,
         Bootstrap(b)!CloneFails(c) \/ Bootstrap(b)!AttachRefused(c)
              \/ Bootstrap(b)!MergeRefused(c) \/ Bootstrap(b)!Kill(c)
  PROVE  BootstrapInv(b)'
<1>1. Bootstrap(b)!Raise(c) /\ UNCHANGED <<v2, v3, v4, v13>> /\ BootstrapStep(b, c)
  BY DEF Bootstrap!CloneFails, Bootstrap!AttachRefused, Bootstrap!MergeRefused, Bootstrap!Kill,
     Bootstrap!Stage, BootstrapStep
<1> QED BY <1>1, BootstrapRaiseInv

LEMMA BootstrapStartInv ==
  ASSUME NEW b \in CheckoutBounds,
         BootstrapInv(b), NEW c \in Bootstrap(b)!Commands, Bootstrap(b)!Start(c)
  PROVE  BootstrapInv(b)'
<1>1. UNCHANGED <<v2, v3, v4, v13, v9>> /\ BootstrapStep(b, c) /\ v6[c] = "idle"
  BY DEF Bootstrap!Start, Bootstrap!Stage, BootstrapStep
<1>2. v6'[c] = "look" \/ (v6'[c] = "doctor" /\ v5'[c] # "bootstrap")
  BY DEF Bootstrap!Start, Bootstrap!Go, BootstrapInv, Bootstrap!TypeOK
<1>3. v9[c] = "none"
  BY <1>1 DEF BootstrapInv, Bootstrap!TypeOK, Bootstrap!CommandsInv, Bootstrap!ExitInv
<1>4. BootstrapOwn(b, c)'
  BY <1>1, <1>2, <1>3 DEF BootstrapOwn, Bootstrap!ExitInv, Bootstrap!SeenInv, Bootstrap!CourseInv,
     BootstrapGoodEnd
<1> QED BY <1>1, <1>4, BootstrapQuietKept

LEMMA BootstrapDoctorInv ==
  ASSUME NEW b \in CheckoutBounds,
         BootstrapInv(b), NEW c \in Bootstrap(b)!Commands, Bootstrap(b)!Doctor(c)
  PROVE  BootstrapInv(b)'
<1>1. UNCHANGED <<v2, v3, v4, v13, v5, v1>> /\ BootstrapStep(b, c)
      /\ v6[c] \in {"doctor", "redoctor"}
  BY DEF Bootstrap!Doctor, Bootstrap!Stage, BootstrapStep, Bootstrap!World
<1>2. \/ v6[c] = "doctor" /\ v6'[c] = "state" /\ v9'[c] = v9[c]
      \/ v6[c] = "redoctor" /\ v5[c] = "check" /\ v6'[c] = "restate" /\ v9'[c] = v9[c]
      \/ v6[c] = "redoctor" /\ v6'[c] = "over" /\ (v9'[c] = "ok" => Bootstrap(b)!InOrder(v2))
  BY DEF Bootstrap!Doctor, Bootstrap!Go, Bootstrap!Exit, BootstrapInv, Bootstrap!TypeOK
<1>3. BootstrapOwn(b, c)
  BY BootstrapOwned
<1>4. Bootstrap(b)!ExitInv(c)' /\ Bootstrap(b)!SeenInv(c)' /\ Bootstrap(b)!CourseInv(c)'
  BY <1>1, <1>2, <1>3 DEF BootstrapOwn, Bootstrap!ExitInv, Bootstrap!SeenInv, Bootstrap!CourseInv
<1>5. v9'[c] # "none" => v6'[c] = "over" /\ v6[c] = "redoctor"
        /\ (v9'[c] = "ok" => Bootstrap(b)!InOrder(v2))
  BY <1>1, <1>2, <1>3 DEF BootstrapOwn, Bootstrap!ExitInv
<1>6. BootstrapGoodEnd(b, c)'
  BY <1>1, <1>3, <1>5 DEF BootstrapOwn, Bootstrap!CourseInv, BootstrapGoodEnd, Bootstrap!Current,
     Bootstrap!InOrder, Bootstrap!Head
<1>7. BootstrapOwn(b, c)'
  BY <1>4, <1>6 DEF BootstrapOwn
<1> QED BY <1>1, <1>7, BootstrapQuietKept

LEMMA BootstrapReadStateInv ==
  ASSUME NEW b \in CheckoutBounds,
         BootstrapInv(b), NEW c \in Bootstrap(b)!Commands, Bootstrap(b)!ReadState(c)
  PROVE  BootstrapInv(b)'
<1> DEFINE blocked == v2.is = "foreign" \/ (v2.is = "clone" /\ (v2.dirty \/ v2.at = "other"))
           x == [blocked |-> blocked, clone |-> v2.is = "absent", head |-> Bootstrap(b)!Head(v2),
                 repair |-> /\ v2.is = "clone" /\ ~blocked
                            /\ \/ v2.at # "branch" \/ ~v2.upstream
                               \/ v2.tracking # Bootstrap(b)!Head(v2)]
<1>1. UNCHANGED <<v2, v3, v4, v5, v9>> /\ BootstrapStep(b, c)
      /\ v6[c] \in {"state", "restate"}
  BY DEF Bootstrap!ReadState, Bootstrap!Stage, BootstrapStep, Bootstrap!World
<1>2. v6'[c] \in {"query", "requery"} /\ (\A d \in Bootstrap(b)!Commands \ {c} : v13'[d] = v13[d])
  BY DEF Bootstrap!ReadState, Bootstrap!Go, BootstrapInv, Bootstrap!TypeOK
<1>3. v7'[c] = x
  BY DEF Bootstrap!ReadState, BootstrapInv, Bootstrap!TypeOK
<1>4. BootstrapOwn(b, c)
  BY BootstrapOwned
<1>5. Bootstrap(b)!ExitInv(c)' /\ Bootstrap(b)!CourseInv(c)' /\ BootstrapGoodEnd(b, c)'
  BY <1>1, <1>2, <1>4 DEF BootstrapOwn, Bootstrap!ExitInv, Bootstrap!CourseInv, BootstrapGoodEnd
<1>6. \/ x.blocked \/ x.clone \/ x.repair
      \/ /\ v2.is = "clone" /\ v2.at = "branch" /\ v2.upstream /\ ~v2.dirty
         /\ v2.branch = x.head
  BY DEF BootstrapInv, Bootstrap!TypeOK, Bootstrap!Disks, Bootstrap!Head
<1> HIDE DEF x
<1>7. Bootstrap(b)!SeenInv(c)'
  BY <1>1, <1>3, <1>6 DEF Bootstrap!SeenInv
<1>8. BootstrapOwn(b, c)'
  BY <1>5, <1>7 DEF BootstrapOwn
<1> QED BY <1>1, <1>2, <1>8, BootstrapQuietKept

LEMMA BootstrapQueryInv ==
  ASSUME NEW b \in CheckoutBounds,
         BootstrapInv(b), NEW c \in Bootstrap(b)!Commands, Bootstrap(b)!Query(c)
              \/ Bootstrap(b)!Requery(c)
  PROVE  BootstrapInv(b)'
<1>1. UNCHANGED <<v2, v3, v4, v13, v5, v7, v1>> /\ BootstrapStep(b, c)
      /\ v6[c] \in {"query", "requery"}
  BY DEF Bootstrap!Query, Bootstrap!Requery, Bootstrap!Stage, BootstrapStep, Bootstrap!World,
     Bootstrap!Reading
<1>2. \/ v6'[c] = "look" /\ v9'[c] = v9[c]
      \/ v6'[c] = "over" /\ v9'[c] = "failed"
      \/ v6'[c] = "over" /\ ~v7[c].blocked /\ ~Bootstrap(b)!ActionRequired(c, v1)
  BY DEF Bootstrap!Query, Bootstrap!Requery, Bootstrap!Raise, Bootstrap!Go, Bootstrap!Exit,
     BootstrapInv, Bootstrap!TypeOK
<1>3. BootstrapOwn(b, c)
  BY BootstrapOwned
<1>4. Bootstrap(b)!ExitInv(c)' /\ Bootstrap(b)!SeenInv(c)' /\ Bootstrap(b)!CourseInv(c)'
  BY <1>1, <1>2, <1>3 DEF BootstrapOwn, Bootstrap!ExitInv, Bootstrap!SeenInv, Bootstrap!CourseInv
<1>5. v9'[c] = "ok" => ~v7[c].blocked /\ ~Bootstrap(b)!ActionRequired(c, v1)
  BY <1>1, <1>2, <1>3 DEF BootstrapOwn, Bootstrap!ExitInv
<1>6. BootstrapGoodEnd(b, c)'
  BY <1>1, <1>3, <1>5 DEF BootstrapOwn, Bootstrap!ExitInv, Bootstrap!SeenInv, BootstrapGoodEnd,
     Bootstrap!Current, Bootstrap!ActionRequired
<1>7. BootstrapOwn(b, c)'
  BY <1>4, <1>6 DEF BootstrapOwn
<1> QED BY <1>1, <1>7, BootstrapQuietKept

LEMMA BootstrapLookInv ==
  ASSUME NEW b \in CheckoutBounds,
         BootstrapInv(b), NEW c \in Bootstrap(b)!Commands, Bootstrap(b)!Look(c)
  PROVE  BootstrapInv(b)'
<1>1. UNCHANGED <<v2, v3, v4, v5, v9>> /\ BootstrapStep(b, c) /\ v6[c] = "look"
  BY DEF Bootstrap!Look, Bootstrap!Stage, BootstrapStep
<1>2. v6'[c] \in {"make", "inspect"} /\ (\A d \in Bootstrap(b)!Commands \ {c} : v13'[d] = v13[d])
  BY DEF Bootstrap!Look, Bootstrap!Go, BootstrapInv, Bootstrap!TypeOK
<1>3. BootstrapOwn(b, c)
  BY BootstrapOwned
<1>4. BootstrapOwn(b, c)'
  BY <1>1, <1>2, <1>3 DEF BootstrapOwn, Bootstrap!ExitInv, Bootstrap!SeenInv, Bootstrap!CourseInv,
     BootstrapGoodEnd
<1> QED BY <1>1, <1>2, <1>4, BootstrapQuietKept

\* Inspect, Verify and Install go on or fail.
LEMMA BootstrapGoOnInv ==
  ASSUME NEW b \in CheckoutBounds,
         BootstrapInv(b), NEW c \in Bootstrap(b)!Commands, Bootstrap(b)!Inspect(c)
              \/ Bootstrap(b)!Verify(c) \/ Bootstrap(b)!Install(c)
  PROVE  BootstrapInv(b)'
<1>1. UNCHANGED <<v2, v3, v4, v5, v13, v1>> /\ BootstrapStep(b, c)
  BY DEF Bootstrap!Inspect, Bootstrap!Verify, Bootstrap!Install, Bootstrap!Stage, BootstrapStep,
     Bootstrap!World
<1>2. CASE Bootstrap(b)!Raise(c)
  BY <1>1, <1>2, BootstrapRaiseInv
<1>3. CASE ~Bootstrap(b)!Raise(c)
  <2>1. UNCHANGED v9
    BY <1>3 DEF Bootstrap!Inspect, Bootstrap!Verify, Bootstrap!Install
  <2>2. \/ v6[c] = "inspect" /\ v6'[c] = "fetch"
        \/ v6[c] = "verify" /\ v6'[c] = "install" /\ v2.tracking = Bootstrap(b)!Head(v2)
        \/ v6[c] = "install" /\ v6'[c] = "redoctor"
    BY <1>3 DEF Bootstrap!Inspect, Bootstrap!Verify, Bootstrap!Install, Bootstrap!Go,
       BootstrapInv, Bootstrap!TypeOK
  <2>3. BootstrapOwn(b, c)
    BY BootstrapOwned
  <2>4. BootstrapOwn(b, c)'
    BY <1>1, <2>1, <2>2, <2>3 DEF BootstrapOwn, Bootstrap!ExitInv, Bootstrap!SeenInv,
       Bootstrap!CourseInv, BootstrapGoodEnd
  <2> QED BY <1>1, <2>4, BootstrapQuietKept
<1> QED BY <1>2, <1>3

-----------------------------------------------------------------------------
\* The steps of the clone in its staging directory.
LEMMA BootstrapStagingInv ==
  ASSUME NEW b \in CheckoutBounds,
         BootstrapInv(b), NEW c \in Bootstrap(b)!Commands, Bootstrap(b)!Make(c)
              \/ Bootstrap(b)!Clone(c) \/ Bootstrap(b)!CheckOut(c)
  PROVE  BootstrapInv(b)'
<1>1. UNCHANGED <<v2, v5, v13, v1, v12, v10, v11>> /\ BootstrapStep(b, c)
  BY DEF Bootstrap!Make, Bootstrap!Clone, Bootstrap!CheckOut, BootstrapStep, Bootstrap!World
<1>2. CASE Bootstrap(b)!Raise(c) /\ UNCHANGED <<v3, v4>>
  BY <1>1, <1>2, BootstrapRaiseInv
<1>3. CASE ~(Bootstrap(b)!Raise(c) /\ UNCHANGED <<v3, v4>>)
  <2>1. UNCHANGED v9 /\ v6[c] \in {"make", "clone", "checkout"}
    BY <1>3 DEF Bootstrap!Make, Bootstrap!Clone, Bootstrap!CheckOut
  <2>2. \/ v6'[c] = "clone" /\ v3' = "made" /\ v4' = v4
        \/ v6'[c] = "checkout" /\ v3' = "fetched" /\ v4' = v1
        \/ /\ v6[c] = "checkout" /\ v6'[c] = "rename" /\ v3 = "fetched"
           /\ v3' = "checked" /\ v4' = v4
    BY <1>3 DEF Bootstrap!Make, Bootstrap!Clone, Bootstrap!CheckOut, Bootstrap!Go, BootstrapInv,
       Bootstrap!TypeOK
  <2>3. Bootstrap(b)!TypeOK'
    <3>1. Bootstrap(b)!TypeOK
      BY DEF BootstrapInv
    <3>2. /\ UNCHANGED <<v2, v1, v10, v11, v12>>
          /\ v5' \in [Bootstrap(b)!Commands -> {"bootstrap", "check", "decline"}]
               /\ v6' \in [Bootstrap(b)!Commands -> BootstrapSteps(b)]
          /\ v7' \in [Bootstrap(b)!Commands -> Bootstrap(b)!Readings]
               /\ v8' \in [Bootstrap(b)!Commands -> BOOLEAN]
          /\ v9' \in [Bootstrap(b)!Commands -> {"none", "ok", "failed"}]
               /\ v13' \in [Bootstrap(b)!Commands -> BOOLEAN]
      BY <1>1, <3>1, BootstrapStepTypes
    <3>3. v3' \in {"none", "made", "fetched", "checked"} /\ v4' \in Bootstrap(b)!Commits
      BY <2>2, <3>1 DEF Bootstrap!TypeOK
    <3> QED BY <3>1, <3>2, <3>3 DEF Bootstrap!TypeOK, BootstrapSteps
  <2>4. Bootstrap(b)!DiskInv' /\ Bootstrap(b)!WorkKept' /\ Bootstrap(b)!CloneIsWhole'
    BY <1>1, <2>2 DEF BootstrapInv, Bootstrap!CheckoutIsSound, Bootstrap!DiskInv,
       Bootstrap!WorkKept, Bootstrap!CloneIsWhole
  <2>5. BootstrapOwn(b, c)
    BY BootstrapOwned
  <2>6. BootstrapOwn(b, c)'
    BY <1>1, <2>1, <2>2, <2>5 DEF BootstrapOwn, Bootstrap!ExitInv, Bootstrap!SeenInv,
       Bootstrap!CourseInv, BootstrapGoodEnd
  <2>7. \A d \in Bootstrap(b)!Commands \ {c} : BootstrapOwn(b, d)'
    BY <1>1, <2>2, BootstrapOthersKept
  <2>8. \A d \in Bootstrap(b)!Commands : BootstrapOwn(b, d)'
    BY <2>6, <2>7
  <2> QED BY <2>3, <2>4, <2>8, BootstrapOwnedNext
<1> QED BY <1>2, <1>3

\* A step that changes the checkout: the others have to look again.
LEMMA BootstrapDiskKept ==
  ASSUME NEW b \in CheckoutBounds,
         BootstrapInv(b), NEW c \in Bootstrap(b)!Commands, BootstrapStep(b, c),
              Bootstrap(b)!Changed(c), v2' \in Bootstrap(b)!Disks,
         v3' \in {"none", "made", "fetched", "checked"}, v4' \in Bootstrap(b)!Commits,
         Bootstrap(b)!DiskInv', Bootstrap(b)!WorkKept', Bootstrap(b)!CloneIsWhole',
              BootstrapOwn(b, c)'
  PROVE  BootstrapInv(b)'
<1>1. Bootstrap(b)!TypeOK'
  <2>1. Bootstrap(b)!TypeOK
    BY DEF BootstrapInv
  <2>2. /\ UNCHANGED <<v1, v10, v11, v12>>
        /\ v5' \in [Bootstrap(b)!Commands -> {"bootstrap", "check", "decline"}]
             /\ v6' \in [Bootstrap(b)!Commands -> BootstrapSteps(b)]
        /\ v7' \in [Bootstrap(b)!Commands -> Bootstrap(b)!Readings]
             /\ v8' \in [Bootstrap(b)!Commands -> BOOLEAN]
        /\ v9' \in [Bootstrap(b)!Commands -> {"none", "ok", "failed"}]
             /\ v13' \in [Bootstrap(b)!Commands -> BOOLEAN]
    BY <2>1, BootstrapStepTypes
  <2> QED BY <2>1, <2>2 DEF Bootstrap!TypeOK, BootstrapSteps
<1>2. \A d \in Bootstrap(b)!Commands \ {c} : v13'[d]
  BY DEF Bootstrap!Changed
<1>3. \A d \in Bootstrap(b)!Commands \ {c} : BootstrapOwn(b, d)'
  BY <1>2, BootstrapOthersKept
<1>4. \A d \in Bootstrap(b)!Commands : BootstrapOwn(b, d)'
  BY <1>3
<1> QED BY <1>1, <1>4, BootstrapOwnedNext

LEMMA BootstrapRenameInv ==
  ASSUME NEW b \in CheckoutBounds,
         BootstrapInv(b), NEW c \in Bootstrap(b)!Commands, Bootstrap(b)!Rename(c)
  PROVE  BootstrapInv(b)'
<1> DEFINE made == [Bootstrap(b)!Absent EXCEPT !.is = "clone", !.branch = v4, !.tracking = v4,
                                  !.upstream = TRUE, !.shaped = TRUE]
<1>1. /\ v2' = made /\ v3 = "checked" /\ v3' = "none" /\ v4' = Bootstrap(b)!Nothing
      /\ v6[c] = "rename" /\ Bootstrap(b)!Changed(c) /\ UNCHANGED <<v5, v9, v1, v12>>
           /\ BootstrapStep(b, c)
      /\ v2.is = "absent"
  BY DEF Bootstrap!Rename, BootstrapStep, Bootstrap!World
<1>2. v4 \in Bootstrap(b)!Commits /\ v4 # Bootstrap(b)!Nothing /\ v12 = {}
  BY <1>1 DEF BootstrapInv, Bootstrap!TypeOK, Bootstrap!DiskInv
<1>3. /\ made \in Bootstrap(b)!Disks /\ made.is = "clone" /\ made.at = "branch"
           /\ made.other = Bootstrap(b)!Nothing
      /\ made.branch = v4 /\ made.tracking = v4 /\ made.shaped
  BY <1>2, BootstrapSomeDisks DEF Bootstrap!Disks, Bootstrap!Absent
<1> HIDE DEF made
<1>4. Bootstrap(b)!Head(v2') = v4
  BY <1>1, <1>3 DEF Bootstrap!Head
<1>5. Bootstrap(b)!DiskInv'
  BY <1>1, <1>2, <1>3 DEF BootstrapInv, Bootstrap!DiskInv
<1>6. Bootstrap(b)!WorkKept' /\ Bootstrap(b)!CloneIsWhole'
  BY <1>1, <1>2, <1>3, <1>4 DEF Bootstrap!WorkKept, Bootstrap!CloneIsWhole
<1>7. BootstrapOwn(b, c)
  BY BootstrapOwned
<1>8. v6'[c] = "install" /\ v13'[c] = v13[c]
  BY DEF Bootstrap!Rename, Bootstrap!Go, Bootstrap!Changed, BootstrapInv, Bootstrap!TypeOK
<1>9. BootstrapOwn(b, c)'
  BY <1>1, <1>3, <1>4, <1>7, <1>8 DEF BootstrapOwn, Bootstrap!ExitInv, Bootstrap!SeenInv,
     Bootstrap!CourseInv, BootstrapGoodEnd
<1>10. v4' \in Bootstrap(b)!Commits
  BY <1>1, BootstrapSomeDisks
<1> QED BY <1>1, <1>3, <1>5, <1>6, <1>9, <1>10, BootstrapDiskKept

\* A step of git: what it makes of the clone is a clone, at a commit, with the work in it.
LEMMA BootstrapGitInv ==
  ASSUME NEW b \in CheckoutBounds,
         BootstrapInv(b), NEW c \in Bootstrap(b)!Commands, NEW at, NEW next, NEW effect,
              Bootstrap(b)!Git(c, at, next, effect), BootstrapStep(b, c),
         v2.is = "clone" =>
           /\ effect \in Bootstrap(b)!Disks /\ effect.is = "clone"
           /\ effect.at # "other" => effect.other = Bootstrap(b)!Nothing
           /\ v12 \subseteq effect.branch \cup effect.other
           /\ Bootstrap(b)!Head(effect) # Bootstrap(b)!Nothing
                /\ effect.tracking # Bootstrap(b)!Nothing,
         \/ at = "fetch" /\ next = "attach" /\ effect.tracking = v1
         \/ /\ at \in {"attach", "upstream", "merge", "sparse"}
            /\ next \in {"upstream", "merge", "sparse", "verify"}
            /\ effect.tracking = v2.tracking /\ (next = "verify" => effect.shaped)
  PROVE  BootstrapInv(b)'
<1>1. v6[c] = at /\ UNCHANGED <<v3, v4, v5, v1, v12>>
  BY DEF Bootstrap!Git, Bootstrap!Stage, Bootstrap!World
<1>2. CASE Bootstrap(b)!Raise(c) /\ UNCHANGED <<v2, v13>>
  BY <1>1, <1>2, BootstrapRaiseInv
<1>3. CASE v2.is = "clone" /\ v2' = effect /\ Bootstrap(b)!Go(c, next) /\ Bootstrap(b)!Changed(c)
        /\ UNCHANGED v9
  <2>1. v6'[c] = next /\ v13'[c] = v13[c]
    BY <1>3 DEF Bootstrap!Go, Bootstrap!Changed, BootstrapInv, Bootstrap!TypeOK
  <2>2. Bootstrap(b)!DiskInv'
    BY <1>1, <1>3 DEF BootstrapInv, Bootstrap!DiskInv
  <2>3. Bootstrap(b)!WorkKept' /\ Bootstrap(b)!CloneIsWhole'
    BY <1>1, <1>3 DEF Bootstrap!WorkKept, Bootstrap!CloneIsWhole
  <2>4. BootstrapOwn(b, c)
    BY BootstrapOwned
  <2>5. BootstrapOwn(b, c)'
    BY <1>1, <1>3, <2>1, <2>4 DEF BootstrapOwn, Bootstrap!ExitInv, Bootstrap!SeenInv,
       Bootstrap!CourseInv, BootstrapGoodEnd
  <2>6. v3' \in {"none", "made", "fetched", "checked"} /\ v4' \in Bootstrap(b)!Commits
    BY <1>1 DEF BootstrapInv, Bootstrap!TypeOK
  <2> QED BY <1>3, <2>2, <2>3, <2>5, <2>6, BootstrapDiskKept
<1> QED BY <1>2, <1>3 DEF Bootstrap!Git

\* The clone as it is.
LEMMA BootstrapCloned ==
  ASSUME NEW b \in CheckoutBounds,
         BootstrapInv(b), v2.is = "clone"
  PROVE  /\ v2 \in Bootstrap(b)!Disks /\ (v2.at # "other" => v2.other = Bootstrap(b)!Nothing)
         /\ v12 \subseteq v2.branch \cup v2.other
         /\ Bootstrap(b)!Head(v2) # Bootstrap(b)!Nothing /\ v2.tracking # Bootstrap(b)!Nothing
         /\ v1 \in Bootstrap(b)!Commits /\ v1 # Bootstrap(b)!Nothing
  BY DEF BootstrapInv, Bootstrap!TypeOK, Bootstrap!DiskInv, Bootstrap!CheckoutIsSound,
     Bootstrap!WorkKept, Bootstrap!CloneIsWhole

LEMMA BootstrapSettingInv ==
  ASSUME NEW b \in CheckoutBounds,
         BootstrapInv(b), NEW c \in Bootstrap(b)!Commands, Bootstrap(b)!Fetch(c)
              \/ Bootstrap(b)!SetUpstream(c) \/ Bootstrap(b)!SetSparse(c)
  PROVE  BootstrapInv(b)'
<1>1. BootstrapStep(b, c)
  BY DEF BootstrapStep
<1>2. v2 \in Bootstrap(b)!Disks /\ v1 \in Bootstrap(b)!Commits
  BY DEF BootstrapInv, Bootstrap!TypeOK
<1>3. CASE Bootstrap(b)!Fetch(c)
  <2> DEFINE d == [v2 EXCEPT !.tracking = v1]
  <2>1. /\ d \in Bootstrap(b)!Disks /\ d.is = v2.is /\ d.at = v2.at /\ d.branch = v2.branch
        /\ d.other = v2.other /\ d.tracking = v1 /\ Bootstrap(b)!Head(d) = Bootstrap(b)!Head(v2)
    BY <1>2 DEF Bootstrap!Disks, Bootstrap!Head
  <2>2. Bootstrap(b)!Git(c, "fetch", "attach", d)
    BY <1>3 DEF Bootstrap!Fetch
  <2> HIDE DEF d
  <2>3. v2.is = "clone" =>
          /\ d \in Bootstrap(b)!Disks /\ d.is = "clone"
               /\ (d.at # "other" => d.other = Bootstrap(b)!Nothing)
          /\ v12 \subseteq d.branch \cup d.other /\ Bootstrap(b)!Head(d) # Bootstrap(b)!Nothing
               /\ d.tracking # Bootstrap(b)!Nothing
    BY <2>1, BootstrapCloned
  <2> QED BY <1>1, <2>1, <2>2, <2>3, BootstrapGitInv
<1>4. CASE Bootstrap(b)!SetUpstream(c)
  <2> DEFINE d == [v2 EXCEPT !.upstream = TRUE]
  <2>1. /\ d \in Bootstrap(b)!Disks /\ d.is = v2.is /\ d.at = v2.at /\ d.branch = v2.branch
        /\ d.other = v2.other /\ d.tracking = v2.tracking
             /\ Bootstrap(b)!Head(d) = Bootstrap(b)!Head(v2)
    BY <1>2 DEF Bootstrap!Disks, Bootstrap!Head
  <2>2. Bootstrap(b)!Git(c, "upstream", "merge", d)
    BY <1>4 DEF Bootstrap!SetUpstream
  <2> HIDE DEF d
  <2>3. v2.is = "clone" =>
          /\ d \in Bootstrap(b)!Disks /\ d.is = "clone"
               /\ (d.at # "other" => d.other = Bootstrap(b)!Nothing)
          /\ v12 \subseteq d.branch \cup d.other /\ Bootstrap(b)!Head(d) # Bootstrap(b)!Nothing
               /\ d.tracking # Bootstrap(b)!Nothing
    BY <2>1, BootstrapCloned
  <2> QED BY <1>1, <2>1, <2>2, <2>3, BootstrapGitInv
<1>5. CASE Bootstrap(b)!SetSparse(c)
  <2> DEFINE d == [v2 EXCEPT !.shaped = TRUE]
  <2>1. /\ d \in Bootstrap(b)!Disks /\ d.is = v2.is /\ d.at = v2.at /\ d.branch = v2.branch
        /\ d.other = v2.other /\ d.tracking = v2.tracking
             /\ Bootstrap(b)!Head(d) = Bootstrap(b)!Head(v2) /\ d.shaped
    BY <1>2 DEF Bootstrap!Disks, Bootstrap!Head
  <2>2. Bootstrap(b)!Git(c, "sparse", "verify", d)
    BY <1>5 DEF Bootstrap!SetSparse
  <2> HIDE DEF d
  <2>3. v2.is = "clone" =>
          /\ d \in Bootstrap(b)!Disks /\ d.is = "clone"
               /\ (d.at # "other" => d.other = Bootstrap(b)!Nothing)
          /\ v12 \subseteq d.branch \cup d.other /\ Bootstrap(b)!Head(d) # Bootstrap(b)!Nothing
               /\ d.tracking # Bootstrap(b)!Nothing
    BY <2>1, BootstrapCloned
  <2> QED BY <1>1, <2>1, <2>2, <2>3, BootstrapGitInv
<1> QED BY <1>3, <1>4, <1>5

LEMMA BootstrapAttachInv ==
  ASSUME NEW b \in CheckoutBounds,
         BootstrapInv(b), NEW c \in Bootstrap(b)!Commands, Bootstrap(b)!Attach(c)
  PROVE  BootstrapInv(b)'
<1>1. BootstrapStep(b, c) /\ v2.at # "other"
  BY DEF BootstrapStep, Bootstrap!Attach
<1>2. v2 \in Bootstrap(b)!Disks
  BY DEF BootstrapInv, Bootstrap!TypeOK
<1> DEFINE d == IF v2.at = "branch" THEN v2
                ELSE IF v2.branch # Bootstrap(b)!Nothing THEN [v2 EXCEPT !.at = "branch"]
                ELSE [v2 EXCEPT !.at = "branch", !.branch = v2.tracking, !.upstream = TRUE]
<1>3. /\ d \in Bootstrap(b)!Disks /\ d.is = v2.is /\ d.at = "branch" /\ d.other = v2.other
      /\ d.tracking = v2.tracking
      /\ d.branch = v2.branch \/ (d.branch = v2.tracking /\ v2.branch = Bootstrap(b)!Nothing)
      /\ v2.at = "branch" \/ d.branch # Bootstrap(b)!Nothing \/ d.branch = v2.tracking
      /\ v2.at = "branch" => d = v2
  <2>1. CASE v2.at = "branch"
    BY <1>2, <2>1
  <2>2. CASE v2.at # "branch" /\ v2.branch # Bootstrap(b)!Nothing
    BY <1>2, <2>2 DEF Bootstrap!Disks
  <2>3. CASE v2.at # "branch" /\ v2.branch = Bootstrap(b)!Nothing
    BY <1>2, <2>3 DEF Bootstrap!Disks
  <2> QED BY <2>1, <2>2, <2>3
<1>4. Bootstrap(b)!Git(c, "attach", "upstream", d)
  BY DEF Bootstrap!Attach
<1> HIDE DEF d
<1>5. v2.is = "clone" =>
        /\ d \in Bootstrap(b)!Disks /\ d.is = "clone"
             /\ (d.at # "other" => d.other = Bootstrap(b)!Nothing)
        /\ v12 \subseteq d.branch \cup d.other /\ Bootstrap(b)!Head(d) # Bootstrap(b)!Nothing
             /\ d.tracking # Bootstrap(b)!Nothing
  <2> SUFFICES ASSUME v2.is = "clone"
               PROVE  /\ d \in Bootstrap(b)!Disks /\ d.is = "clone"
                           /\ (d.at # "other" => d.other = Bootstrap(b)!Nothing)
                      /\ v12 \subseteq d.branch \cup d.other
                      /\ Bootstrap(b)!Head(d) # Bootstrap(b)!Nothing
                           /\ d.tracking # Bootstrap(b)!Nothing
    OBVIOUS
  <2>1. d.is = "clone" /\ d.other = Bootstrap(b)!Nothing /\ d.tracking # Bootstrap(b)!Nothing
    BY <1>1, <1>3, BootstrapCloned
  <2>2. v2.branch \subseteq d.branch
    BY <1>3 DEF Bootstrap!Nothing
  <2>3. v12 \subseteq d.branch \cup d.other
    BY <1>3, <2>2, BootstrapCloned
  <2>4. Bootstrap(b)!Head(d) # Bootstrap(b)!Nothing
    BY <1>3, BootstrapCloned DEF Bootstrap!Head
  <2> QED BY <1>3, <2>1, <2>3, <2>4
<1> QED BY <1>1, <1>3, <1>4, <1>5, BootstrapGitInv

LEMMA BootstrapMergeInv ==
  ASSUME NEW b \in CheckoutBounds,
         BootstrapInv(b), NEW c \in Bootstrap(b)!Commands, Bootstrap(b)!Merge(c)
  PROVE  BootstrapInv(b)'
<1>1. BootstrapStep(b, c)
  BY DEF BootstrapStep
<1> DEFINE x == Bootstrap(b)!Head(v2) \cup v2.tracking
           d == Bootstrap(b)!WithHead(x)
<1>2. x \in Bootstrap(b)!Commits
  BY BootstrapHeads DEF BootstrapInv, Bootstrap!Commits
<1>3. Bootstrap(b)!Git(c, "merge", "sparse", d)
  BY DEF Bootstrap!Merge
<1>4. Bootstrap(b)!Head(v2) \subseteq x
  OBVIOUS
<1> HIDE DEF x
<1>5. /\ d \in Bootstrap(b)!Disks /\ d.is = v2.is /\ d.at = v2.at /\ d.tracking = v2.tracking
      /\ Bootstrap(b)!Head(d) = x
      /\ d.branch = (IF v2.at = "branch" THEN x ELSE v2.branch)
      /\ d.other = (IF v2.at = "other" THEN x ELSE v2.other)
  BY <1>2, BootstrapHeadMoved DEF BootstrapInv
<1> HIDE DEF d
<1>6. v2.is = "clone" =>
        /\ d \in Bootstrap(b)!Disks /\ d.is = "clone"
             /\ (d.at # "other" => d.other = Bootstrap(b)!Nothing)
        /\ v12 \subseteq d.branch \cup d.other /\ Bootstrap(b)!Head(d) # Bootstrap(b)!Nothing
             /\ d.tracking # Bootstrap(b)!Nothing
  <2> SUFFICES ASSUME v2.is = "clone"
               PROVE  /\ d.other = Bootstrap(b)!Nothing \/ d.at = "other"
                      /\ v12 \subseteq d.branch \cup d.other
                      /\ Bootstrap(b)!Head(d) # Bootstrap(b)!Nothing
                           /\ d.tracking # Bootstrap(b)!Nothing
    BY <1>5
  <2>1. v2.branch \subseteq d.branch /\ v2.other \subseteq d.other
    BY <1>4, <1>5 DEF Bootstrap!Head
  <2>2. v12 \subseteq d.branch \cup d.other
    BY <2>1, BootstrapCloned
  <2>3. Bootstrap(b)!Head(d) # Bootstrap(b)!Nothing
    BY <1>4, <1>5, BootstrapCloned DEF Bootstrap!Nothing
  <2> QED BY <1>5, <2>2, <2>3, BootstrapCloned
<1> QED BY <1>1, <1>3, <1>5, <1>6, BootstrapGitInv

-----------------------------------------------------------------------------
\* The user and the remote: every command has to look again.
LEMMA BootstrapWorldKept ==
  ASSUME NEW b \in CheckoutBounds,
         BootstrapInv(b), Bootstrap(b)!Changed(Bootstrap(b)!User),
              UNCHANGED <<v5, v6, v7, v8, v9>>, Bootstrap(b)!TypeOK', Bootstrap(b)!DiskInv',
         Bootstrap(b)!WorkKept', Bootstrap(b)!CloneIsWhole'
  PROVE  BootstrapInv(b)'
<1>1. \A c \in Bootstrap(b)!Commands : v13'[c]
  <2>1. \A c \in Bootstrap(b)!Commands : c # Bootstrap(b)!User
    BY BootstrapBounded DEF Bootstrap!User, Bootstrap!Commands
  <2> QED BY <2>1 DEF Bootstrap!Changed
<1>2. \A c \in Bootstrap(b)!Commands : Bootstrap(b)!ExitInv(c)'
  BY DEF BootstrapInv, Bootstrap!CommandsInv, Bootstrap!ExitInv
<1>3. \A c \in Bootstrap(b)!Commands : BootstrapOwn(b, c)'
  BY <1>1, <1>2 DEF BootstrapOwn, Bootstrap!SeenInv, Bootstrap!CourseInv, BootstrapGoodEnd
<1> QED BY <1>3, BootstrapOwnedNext

\* The types of the commands' part.
LEMMA BootstrapWorldTypes ==
  ASSUME NEW b \in CheckoutBounds,
         BootstrapInv(b), Bootstrap(b)!Changed(Bootstrap(b)!User),
              UNCHANGED <<v5, v6, v7, v8, v9>>, v2' \in Bootstrap(b)!Disks,
         v1' \in Bootstrap(b)!Commits, v4' \in Bootstrap(b)!Commits,
         v3' \in {"none", "made", "fetched", "checked"},
         v10' \in 0..b.changes, v11' \in 0..b.edits, v12' \subseteq 1..b.changes
  PROVE  Bootstrap(b)!TypeOK'
<1>1. v13' \in [Bootstrap(b)!Commands -> BOOLEAN]
  BY DEF Bootstrap!Changed, BootstrapInv, Bootstrap!TypeOK
<1> QED BY <1>1 DEF BootstrapInv, Bootstrap!TypeOK

LEMMA BootstrapPublishInv ==
  ASSUME NEW b \in CheckoutBounds,
         BootstrapInv(b), Bootstrap(b)!Publish
  PROVE  BootstrapInv(b)'
<1>1. /\ UNCHANGED <<v5, v6, v7, v8, v9, v2, v3, v4, v11, v12>>
      /\ Bootstrap(b)!Changed(Bootstrap(b)!User) /\ v10 < b.changes /\ v10' = v10 + 1
      /\ v1' \in {v1 \cup {v10 + 1}, {0, v10 + 1}}
  BY DEF Bootstrap!Publish, Bootstrap!Reading, Bootstrap!Stage
<1>2. v10' \in 0..b.changes /\ v10 + 1 \in 0..b.changes /\ 0 \in 0..b.changes
  BY <1>1, BootstrapBounded DEF BootstrapInv, Bootstrap!TypeOK
<1>3. v1' \in Bootstrap(b)!Commits /\ v1' # Bootstrap(b)!Nothing
  BY <1>1, <1>2 DEF BootstrapInv, Bootstrap!TypeOK, Bootstrap!Commits, Bootstrap!Nothing
<1>4. Bootstrap(b)!TypeOK'
  BY <1>1, <1>2, <1>3, BootstrapWorldTypes DEF BootstrapInv, Bootstrap!TypeOK
<1>5. Bootstrap(b)!DiskInv' /\ Bootstrap(b)!WorkKept' /\ Bootstrap(b)!CloneIsWhole'
  BY <1>1, <1>3 DEF BootstrapInv, Bootstrap!CheckoutIsSound, Bootstrap!DiskInv,
     Bootstrap!WorkKept, Bootstrap!CloneIsWhole
<1> QED BY <1>1, <1>4, <1>5, BootstrapWorldKept

\* What the user makes of a clone is a clone with the work in it, or it is gone with none.
LEMMA BootstrapUserKept ==
  ASSUME NEW b \in CheckoutBounds,
         BootstrapInv(b), Bootstrap(b)!Changed(Bootstrap(b)!User),
              UNCHANGED <<v5, v6, v7, v8, v9, v1>>,
         NEW d \in Bootstrap(b)!Disks, v2' = d, v2.is = "clone",
         d.at # "other" => d.other = Bootstrap(b)!Nothing,
         \/ /\ d.is = "clone" /\ v12' \subseteq d.branch \cup d.other
            /\ Bootstrap(b)!Head(d) # Bootstrap(b)!Nothing /\ d.tracking # Bootstrap(b)!Nothing
         \/ d.is = "foreign" /\ v12' = {},
         UNCHANGED <<v3, v4>>,
         v10' \in 0..b.changes, v11' \in 0..b.edits, v12' \subseteq 1..b.changes
  PROVE  BootstrapInv(b)'
<1>1. Bootstrap(b)!TypeOK'
  BY BootstrapWorldTypes DEF BootstrapInv, Bootstrap!TypeOK
<1>2. Bootstrap(b)!DiskInv'
  BY DEF BootstrapInv, Bootstrap!DiskInv
<1>3. Bootstrap(b)!WorkKept' /\ Bootstrap(b)!CloneIsWhole'
  BY DEF Bootstrap!WorkKept, Bootstrap!CloneIsWhole
<1> QED BY <1>1, <1>2, <1>3, BootstrapWorldKept

LEMMA BootstrapEditInv ==
  ASSUME NEW b \in CheckoutBounds,
         BootstrapInv(b), Bootstrap(b)!Edit
  PROVE  BootstrapInv(b)'
<1>1. /\ UNCHANGED <<v5, v6, v7, v8, v9, v1, v10, v12>>
      /\ Bootstrap(b)!Changed(Bootstrap(b)!User) /\ v11 < b.edits /\ v11' = v11 + 1
  BY DEF Bootstrap!Edit, Bootstrap!Reading
<1>2. /\ v11' \in 0..b.edits /\ v10' \in 0..b.changes /\ v12' \subseteq 1..b.changes
      /\ v2 \in Bootstrap(b)!Disks /\ Bootstrap(b)!Head(v2) \in Bootstrap(b)!Commits
  BY <1>1, BootstrapBounded, BootstrapHeads DEF BootstrapInv, Bootstrap!TypeOK
<1>3. CASE v3' = "none" /\ v4' = Bootstrap(b)!Nothing /\ UNCHANGED v2
  <2>1. Bootstrap(b)!TypeOK'
    BY <1>1, <1>2, <1>3, BootstrapSomeDisks, BootstrapWorldTypes DEF BootstrapInv,
       Bootstrap!TypeOK
  <2>2. Bootstrap(b)!DiskInv' /\ Bootstrap(b)!WorkKept' /\ Bootstrap(b)!CloneIsWhole'
    BY <1>1, <1>3 DEF BootstrapInv, Bootstrap!CheckoutIsSound, Bootstrap!DiskInv,
       Bootstrap!WorkKept, Bootstrap!CloneIsWhole
  <2> QED BY <1>1, <2>1, <2>2, BootstrapWorldKept
<1>4. CASE v2.is = "clone" /\ UNCHANGED <<v3, v4>> /\ v2' = [v2 EXCEPT !.dirty = TRUE]
  <2> DEFINE d == [v2 EXCEPT !.dirty = TRUE]
  <2>1. /\ d \in Bootstrap(b)!Disks /\ d.is = v2.is /\ d.at = v2.at /\ d.branch = v2.branch
        /\ d.other = v2.other /\ d.tracking = v2.tracking
             /\ Bootstrap(b)!Head(d) = Bootstrap(b)!Head(v2)
    BY <1>2 DEF Bootstrap!Disks, Bootstrap!Head
  <2>2. v2' = d
    BY <1>4
  <2> HIDE DEF d
  <2>3. /\ d.is = "clone" /\ (d.at # "other" => d.other = Bootstrap(b)!Nothing)
        /\ v12' \subseteq d.branch \cup d.other /\ Bootstrap(b)!Head(d) # Bootstrap(b)!Nothing
             /\ d.tracking # Bootstrap(b)!Nothing
    BY <1>1, <1>4, <2>1, BootstrapCloned
  <2> QED BY <1>1, <1>2, <1>4, <2>1, <2>2, <2>3, BootstrapUserKept
<1>5. CASE v2.is = "clone" /\ UNCHANGED <<v3, v4>>
           /\ v2' = [v2 EXCEPT !.upstream = FALSE]
  <2> DEFINE d == [v2 EXCEPT !.upstream = FALSE]
  <2>1. /\ d \in Bootstrap(b)!Disks /\ d.is = v2.is /\ d.at = v2.at /\ d.branch = v2.branch
        /\ d.other = v2.other /\ d.tracking = v2.tracking
             /\ Bootstrap(b)!Head(d) = Bootstrap(b)!Head(v2)
    BY <1>2 DEF Bootstrap!Disks, Bootstrap!Head
  <2>2. v2' = d
    BY <1>5
  <2> HIDE DEF d
  <2>3. /\ d.is = "clone" /\ (d.at # "other" => d.other = Bootstrap(b)!Nothing)
        /\ v12' \subseteq d.branch \cup d.other /\ Bootstrap(b)!Head(d) # Bootstrap(b)!Nothing
             /\ d.tracking # Bootstrap(b)!Nothing
    BY <1>1, <1>5, <2>1, BootstrapCloned
  <2> QED BY <1>1, <1>2, <1>5, <2>1, <2>2, <2>3, BootstrapUserKept
<1>6. CASE v2.is = "clone" /\ UNCHANGED <<v3, v4>>
           /\ v2' = [v2 EXCEPT !.shaped = FALSE]
  <2> DEFINE d == [v2 EXCEPT !.shaped = FALSE]
  <2>1. /\ d \in Bootstrap(b)!Disks /\ d.is = v2.is /\ d.at = v2.at /\ d.branch = v2.branch
        /\ d.other = v2.other /\ d.tracking = v2.tracking
             /\ Bootstrap(b)!Head(d) = Bootstrap(b)!Head(v2)
    BY <1>2 DEF Bootstrap!Disks, Bootstrap!Head
  <2>2. v2' = d
    BY <1>6
  <2> HIDE DEF d
  <2>3. /\ d.is = "clone" /\ (d.at # "other" => d.other = Bootstrap(b)!Nothing)
        /\ v12' \subseteq d.branch \cup d.other /\ Bootstrap(b)!Head(d) # Bootstrap(b)!Nothing
             /\ d.tracking # Bootstrap(b)!Nothing
    BY <1>1, <1>6, <2>1, BootstrapCloned
  <2> QED BY <1>1, <1>2, <1>6, <2>1, <2>2, <2>3, BootstrapUserKept
<1>7. CASE v2.is = "clone" /\ UNCHANGED <<v3, v4>> /\ v2.at = "branch"
           /\ v2' = [v2 EXCEPT !.at = "detached", !.loose = Bootstrap(b)!Head(v2)]
  <2> DEFINE d == [v2 EXCEPT !.at = "detached", !.loose = Bootstrap(b)!Head(v2)]
  <2>1. /\ d \in Bootstrap(b)!Disks /\ d.is = v2.is /\ d.at = "detached" /\ d.branch = v2.branch
        /\ d.other = v2.other /\ d.tracking = v2.tracking
             /\ Bootstrap(b)!Head(d) = Bootstrap(b)!Head(v2)
    BY <1>2 DEF Bootstrap!Disks, Bootstrap!Head
  <2>2. v2' = d
    BY <1>7
  <2> HIDE DEF d
  <2>3. /\ d.is = "clone" /\ d.other = Bootstrap(b)!Nothing
        /\ v12' \subseteq d.branch \cup d.other /\ Bootstrap(b)!Head(d) # Bootstrap(b)!Nothing
             /\ d.tracking # Bootstrap(b)!Nothing
    BY <1>1, <1>7, <2>1, BootstrapCloned
  <2> QED BY <1>1, <1>2, <1>7, <2>1, <2>2, <2>3, BootstrapUserKept
<1>8. CASE v2.is = "clone" /\ UNCHANGED <<v3, v4>> /\ v2.at = "branch"
           /\ v2' = [v2 EXCEPT !.at = "other", !.other = Bootstrap(b)!Head(v2)]
  <2> DEFINE d == [v2 EXCEPT !.at = "other", !.other = Bootstrap(b)!Head(v2)]
  <2>1. /\ d \in Bootstrap(b)!Disks /\ d.is = v2.is /\ d.at = "other" /\ d.branch = v2.branch
        /\ d.other = Bootstrap(b)!Head(v2) /\ d.tracking = v2.tracking
             /\ Bootstrap(b)!Head(d) = Bootstrap(b)!Head(v2)
    BY <1>2 DEF Bootstrap!Disks, Bootstrap!Head
  <2>2. v2' = d
    BY <1>8
  <2> HIDE DEF d
  <2>3. /\ d.is = "clone"
        /\ v12' \subseteq d.branch \cup d.other /\ Bootstrap(b)!Head(d) # Bootstrap(b)!Nothing
             /\ d.tracking # Bootstrap(b)!Nothing
    BY <1>1, <1>8, <2>1, BootstrapCloned DEF Bootstrap!Nothing
  <2> QED BY <1>1, <1>2, <1>8, <2>1, <2>2, <2>3, BootstrapUserKept
<1>9. CASE v2.is = "clone" /\ UNCHANGED <<v3, v4>> /\ v12 = {}
           /\ v2' = [Bootstrap(b)!Absent EXCEPT !.is = "foreign"]
  <2> DEFINE d == [Bootstrap(b)!Absent EXCEPT !.is = "foreign"]
  <2>1. d \in Bootstrap(b)!Disks /\ d.is = "foreign" /\ d.other = Bootstrap(b)!Nothing
    BY BootstrapSomeDisks DEF Bootstrap!Disks
  <2>2. v2' = d
    BY <1>9
  <2> HIDE DEF d
  <2> QED BY <1>1, <1>2, <1>9, <2>1, <2>2, BootstrapUserKept
<1> QED BY <1>3, <1>4, <1>5, <1>6, <1>7, <1>8, <1>9 DEF Bootstrap!Edit, Bootstrap!Stage

LEMMA BootstrapCommitInv ==
  ASSUME NEW b \in CheckoutBounds,
         BootstrapInv(b), Bootstrap(b)!Commit
  PROVE  BootstrapInv(b)'
<1> DEFINE x == Bootstrap(b)!Head(v2) \cup {v10 + 1}
           d == [Bootstrap(b)!WithHead(x) EXCEPT !.dirty = FALSE]
<1>1. /\ UNCHANGED <<v5, v6, v7, v8, v9, v1, v11, v3, v4>>
      /\ Bootstrap(b)!Changed(Bootstrap(b)!User) /\ v10 < b.changes /\ v10' = v10 + 1
           /\ v2.is = "clone"
      /\ v2' = d
      /\ v12' = IF v2.at = "detached" THEN v12 ELSE v12 \cup {v10 + 1}
  BY DEF Bootstrap!Commit, Bootstrap!Reading, Bootstrap!Stage
<1>2. /\ v10' \in 0..b.changes /\ v10 + 1 \in 1..b.changes
      /\ v11' \in 0..b.edits
  BY <1>1, BootstrapBounded DEF BootstrapInv, Bootstrap!TypeOK
<1>3. v12' \subseteq 1..b.changes
  BY <1>1, <1>2 DEF BootstrapInv, Bootstrap!TypeOK
<1>4. x \in Bootstrap(b)!Commits
  <2>1. Bootstrap(b)!Head(v2) \subseteq 0..b.changes
    BY BootstrapHeads DEF BootstrapInv, Bootstrap!Commits
  <2> QED BY <1>2, <2>1 DEF Bootstrap!Commits
<1>5. Bootstrap(b)!Head(v2) \subseteq x /\ v10 + 1 \in x
  OBVIOUS
<1> HIDE DEF x
<1>6. /\ Bootstrap(b)!WithHead(x) \in Bootstrap(b)!Disks
           /\ Bootstrap(b)!Head(Bootstrap(b)!WithHead(x)) = x
      /\ Bootstrap(b)!WithHead(x).is = v2.is /\ Bootstrap(b)!WithHead(x).at = v2.at
      /\ Bootstrap(b)!WithHead(x).tracking = v2.tracking
      /\ Bootstrap(b)!WithHead(x).branch = (IF v2.at = "branch" THEN x ELSE v2.branch)
      /\ Bootstrap(b)!WithHead(x).other = (IF v2.at = "other" THEN x ELSE v2.other)
  BY <1>4, BootstrapHeadMoved DEF BootstrapInv
<1>7. /\ d \in Bootstrap(b)!Disks /\ d.is = v2.is /\ d.at = v2.at /\ d.tracking = v2.tracking
      /\ Bootstrap(b)!Head(d) = x
      /\ d.branch = (IF v2.at = "branch" THEN x ELSE v2.branch)
      /\ d.other = (IF v2.at = "other" THEN x ELSE v2.other)
  BY <1>6 DEF Bootstrap!Disks, Bootstrap!Head
<1> HIDE DEF d
<1>8. v2.branch \subseteq d.branch /\ v2.other \subseteq d.other
  BY <1>5, <1>7 DEF Bootstrap!Head
<1>9. v2.at # "detached" => v10 + 1 \in d.branch \cup d.other
  BY <1>5, <1>7 DEF BootstrapInv, Bootstrap!TypeOK, Bootstrap!Disks
<1>10. v12' \subseteq d.branch \cup d.other
  BY <1>1, <1>8, <1>9, BootstrapCloned
<1>11. Bootstrap(b)!Head(d) # Bootstrap(b)!Nothing /\ d.tracking # Bootstrap(b)!Nothing
         /\ (d.at # "other" => d.other = Bootstrap(b)!Nothing)
  BY <1>1, <1>5, <1>7, BootstrapCloned DEF Bootstrap!Nothing
<1> QED BY <1>1, <1>2, <1>3, <1>7, <1>10, <1>11, BootstrapUserKept

-----------------------------------------------------------------------------
LEMMA BootstrapNextInv ==
  ASSUME NEW b \in CheckoutBounds,
         BootstrapInv(b), Bootstrap(b)!Next \/ UNCHANGED Bootstrap(b)!vars
  PROVE  BootstrapInv(b)'
<1>1. CASE UNCHANGED Bootstrap(b)!vars
  <2> USE <1>1 DEF Bootstrap!vars, BootstrapInv
  <2>1. Bootstrap(b)!TypeOK'
    BY DEF Bootstrap!TypeOK
  <2>2. Bootstrap(b)!DiskInv' /\ Bootstrap(b)!WorkKept' /\ Bootstrap(b)!CloneIsWhole'
    BY DEF Bootstrap!CheckoutIsSound, Bootstrap!DiskInv, Bootstrap!WorkKept,
       Bootstrap!CloneIsWhole
  <2>3. \A c \in Bootstrap(b)!Commands : Bootstrap(b)!ExitInv(c)' /\ Bootstrap(b)!SeenInv(c)'
    BY DEF Bootstrap!CommandsInv, Bootstrap!ExitInv, Bootstrap!SeenInv
  <2>4. \A c \in Bootstrap(b)!Commands : Bootstrap(b)!CourseInv(c)' /\ BootstrapGoodEnd(b, c)'
    BY DEF Bootstrap!CommandsInv, Bootstrap!CourseInv, Bootstrap!CheckoutIsSound,
       Bootstrap!GoodEndIsCurrent, BootstrapGoodEnd, Bootstrap!Current
  <2> QED BY <2>1, <2>2, <2>3, <2>4, BootstrapOwnedNext DEF BootstrapOwn
<1>2. ASSUME NEW c \in Bootstrap(b)!Commands, BootstrapStep(b, c) PROVE BootstrapInv(b)'
  BY <1>2, BootstrapStartInv, BootstrapDoctorInv, BootstrapReadStateInv, BootstrapQueryInv,
     BootstrapLookInv, BootstrapStagingInv, BootstrapFailInv, BootstrapRenameInv,
     BootstrapGoOnInv, BootstrapSettingInv, BootstrapAttachInv, BootstrapMergeInv
     DEF BootstrapStep
<1> QED BY <1>1, <1>2, BootstrapPublishInv, BootstrapEditInv, BootstrapCommitInv
           DEF Bootstrap!Next, BootstrapStep

LEMMA BootstrapSound ==
  ASSUME NEW b \in CheckoutBounds
  PROVE  BootstrapInv(b) => Bootstrap(b)!TypeOK /\ Bootstrap(b)!CheckoutIsSound
  BY DEF BootstrapInv

-----------------------------------------------------------------------------
(* The pack of images that a provision builds (ImagePack). Here v1 is      *)
(* source, v2 is base, v3 is image, v4 is backups, v5 is pc, v6 is at, v7  *)
(* is tries, v8 is before, v9 is answer, v10 is runs, v11 is touches, v12  *)
(* is had, v13 is mixed.                                                   *)

ImagesInv ==
  /\ Images!TypeOK /\ Images!BaseInv /\ Images!HadInv /\ Images!Known /\ Images!BuildInv
  /\ Images!LabelInv /\ Images!NothingUntagged

\* The steps of a provision that change no image, and those that do.
ImagesQuiet ==
  \/ Images!Report \/ Images!Provision \/ Images!Look \/ Images!Check \/ Images!Verify
  \/ Images!After \/ Images!Kill

LEMMA ImagesSomeImages ==
  /\ Images!NoImage \in Images!Contents /\ Images!Audited \in Images!Contents
       /\ Images!Foreign \in Images!Contents
  /\ Images!Foreign # Images!NoImage /\ Images!Audited # Images!NoImage
  /\ ~Images!NoImage.labels /\ ~Images!Audited.labels /\ ~Images!Foreign.labels
  BY DEF Images!NoImage, Images!Audited, Images!Foreign, Images!Contents

LEMMA ImagesSomeBase ==
  ASSUME NEW b \in {"none", "pinned", "other"}
  PROVE  Images!BaseImage(b) \in Images!Contents /\ Images!BaseImage(b).base = b
<1>1. Images!NoImage \in [from : {"nothing", "audit", "others", "provision"},
                   tree : {"none", "pinned", "other"}, base : {"none", "pinned", "other"},
                   labels : BOOLEAN]
  BY ImagesSomeImages DEF Images!Contents
<1> DEFINE x == [Images!NoImage EXCEPT !.from = "others"]
<1>2. x \in [from : {"nothing", "audit", "others", "provision"},
             tree : {"none", "pinned", "other"}, base : {"none", "pinned", "other"},
             labels : BOOLEAN]
  BY <1>1
<1>3. Images!BaseImage(b) = [x EXCEPT !.base = b]
  BY DEF Images!BaseImage
<1> HIDE DEF x
<1> QED BY <1>2, <1>3 DEF Images!Contents

LEMMA ImagesInventoried ==
  ASSUME Images!TypeOK
  PROVE  /\ Images!Inventory \in [source : BOOLEAN, base : Images!Bases, ready :
              [Images!Images -> BOOLEAN],
                           present : [Images!Images -> BOOLEAN]]
         /\ Images!Inventory.source <=> v1 = "pinned"
         /\ Images!Inventory.base = v2
         /\ \A i \in Images!Images : Images!Inventory.present[i] = Images!Present(i)
<1>1. \A i \in Images!Images : Images!Ready(i) \in BOOLEAN /\ Images!Present(i) \in BOOLEAN
  BY DEF Images!TypeOK, Images!Ready, Images!Present, Images!Contents
<1>2. [i \in Images!Images |-> Images!Ready(i)] \in [Images!Images -> BOOLEAN]
      /\ [i \in Images!Images |-> Images!Present(i)] \in [Images!Images -> BOOLEAN]
  BY <1>1
<1>3. v2 \in Images!Bases /\ (v1 = "pinned") \in BOOLEAN
  BY DEF Images!TypeOK
<1> QED BY <1>2, <1>3 DEF Images!Inventory

LEMMA ImagesInitInv == Images!Init => ImagesInv
<1> SUFFICES ASSUME Images!Init PROVE ImagesInv
  OBVIOUS
<1> USE PackBounds
<1>1. v2 \in Images!Bases
        /\ v3 \in [Images!Images -> {Images!NoImage, Images!Audited, Images!Foreign}] /\ v4 = {}
  BY DEF Images!Init
<1>2. /\ v12 = {<<v3[i], i>> : i \in {j \in Images!Images : Images!Present(j)}}
               \cup IF v2 = "other" THEN {<<Images!BaseImage(v2), 0>>} ELSE {}
  BY DEF Images!Init
<1>3. \A h \in v12 : \/ \E i \in Images!Images : h = <<v3[i], i>> /\ v3[i] # Images!NoImage
                     \/ v2 = "other" /\ h = <<Images!BaseImage("other"), 0>>
  BY <1>2 DEF Images!Present
<1>4. v3 \in [Images!Images -> Images!Contents]
  BY <1>1, ImagesSomeImages
<1>5. v12 \subseteq Images!Contents \X (0..PackImages)
  BY <1>3, <1>4, ImagesSomeBase DEF Images!Images
<1>6. Images!TypeOK
  <2>1. v8 \in [source : BOOLEAN, base : Images!Bases, ready : [Images!Images -> BOOLEAN],
                    present : [Images!Images -> BOOLEAN]]
    <3>1. \A i \in Images!Images : Images!Ready(i) \in BOOLEAN /\ Images!Present(i) \in BOOLEAN
      BY <1>4 DEF Images!Ready, Images!Present, Images!Contents
    <3>2. [i \in Images!Images |-> Images!Ready(i)] \in [Images!Images -> BOOLEAN]
          /\ [i \in Images!Images |-> Images!Present(i)] \in [Images!Images -> BOOLEAN]
      BY <3>1
    <3> QED BY <1>1, <3>2 DEF Images!Init, Images!Inventory
  <2>2. /\ v1 = "pinned" /\ v5 = "idle" /\ v6 = 0 /\ v7 = 0 /\ v9 = "none" /\ v10 = 0
        /\ v11 = 0
    BY DEF Images!Init
  <2>3. v13 \in BOOLEAN
    BY DEF Images!Init
  <2>4. /\ v6 \in 0..PackImages + 1 /\ v7 \in 0..PackSources /\ v10 \in 0..PackRuns
        /\ v11 \in 0..PackTouches
    BY <2>2
  <2>5. v4 \subseteq Images!Contents \X (0..PackImages)
    BY <1>1
  <2> QED BY <1>1, <1>4, <1>5, <2>1, <2>2, <2>3, <2>4, <2>5 DEF Images!TypeOK
<1>7. Images!BaseInv /\ Images!Known /\ Images!BuildInv
  BY DEF Images!Init, Images!BaseInv, Images!Known, Images!BuildInv, Images!Inventory
<1>8. Images!HadInv
  BY <1>3 DEF Images!HadInv, Images!Images
<1>9. Images!LabelInv
  BY <1>1, ImagesSomeImages DEF Images!LabelInv
<1>10. Images!NothingUntagged
  BY <1>3, ImagesSomeBase DEF Images!NothingUntagged, Images!Images
<1> QED BY <1>6, <1>7, <1>8, <1>9, <1>10 DEF ImagesInv

-----------------------------------------------------------------------------
LEMMA ImagesQuietInv ==
  ASSUME ImagesInv, ImagesQuiet
  PROVE  ImagesInv'
<1> USE PackBounds
<1>1. UNCHANGED <<v2, v3, v4, v1, v11, v12, v13>>
  BY DEF ImagesQuiet, Images!Report, Images!Provision, Images!Look, Images!Check, Images!Verify,
     Images!After, Images!Kill, Images!Daemon, Images!Others
<1>2. Images!TypeOK'
  <2>1. v8' \in [source : BOOLEAN, base : Images!Bases, ready : [Images!Images -> BOOLEAN],
                     present : [Images!Images -> BOOLEAN]]
    BY ImagesInventoried DEF ImagesQuiet, Images!Report, Images!Provision, Images!Look,
       Images!Check, Images!Verify, Images!After, Images!Kill, ImagesInv, Images!TypeOK
  <2>2. v5' \in {"idle", "inventory", "check", "base", "copy", "verify", "next", "build", "after"}
    BY DEF ImagesQuiet, Images!Report, Images!Provision, Images!Look, Images!Check, Images!Verify,
       Images!After, Images!Kill, Images!Go, Images!Fail, ImagesInv, Images!TypeOK
  <2>3. v6' \in 0..PackImages + 1 /\ v7' \in 0..PackSources /\ v10' \in 0..PackRuns
    <3>1. \/ v6' = v6 /\ v7' = v7 /\ v10' = v10
          \/ v6' = 0 /\ v7' = 0 /\ v10 < PackRuns /\ v10' = v10 + 1
      BY DEF ImagesQuiet, Images!Report, Images!Provision, Images!Look, Images!Check,
         Images!Verify, Images!After, Images!Kill
    <3>2. v6 \in 0..PackImages + 1 /\ v7 \in 0..PackSources /\ v10 \in 0..PackRuns
      BY DEF ImagesInv, Images!TypeOK
    <3> QED BY <3>1, <3>2
  <2>4. v9' \in {"none", "ready", "not ready", "failed"}
    BY DEF ImagesQuiet, Images!Report, Images!Provision, Images!Look, Images!Check, Images!Verify,
       Images!After, Images!Kill, Images!Fail, ImagesInv, Images!TypeOK
  <2> QED BY <1>1, <2>1, <2>2, <2>3, <2>4 DEF ImagesInv, Images!TypeOK
<1>3. Images!HadInv' /\ Images!LabelInv' /\ Images!NothingUntagged'
  BY <1>1 DEF ImagesInv, Images!HadInv, Images!LabelInv, Images!NothingUntagged
<1>4. Images!BaseInv' /\ Images!Known' /\ Images!BuildInv'
  <2> USE <1>1 DEF ImagesInv
  <2>1. CASE Images!Report
    BY <2>1 DEF Images!Report, Images!BaseInv, Images!Known, Images!BuildInv, Images!Present
  <2>2. CASE Images!Provision
    BY <2>2 DEF Images!Provision, Images!Go, Images!BaseInv, Images!Known, Images!BuildInv
  <2>3. CASE Images!Look
    <3>1. v5' = "check" /\ v8' = Images!Inventory /\ UNCHANGED v6
      BY <2>3 DEF Images!Look, Images!Go
    <3> QED BY <3>1, ImagesInventoried DEF Images!BaseInv, Images!Known, Images!BuildInv,
               Images!Present
  <2>4. CASE Images!Check
    <3>1. v5 = "check" /\ UNCHANGED <<v6, v8>>
      BY <2>4 DEF Images!Check
    <3>2. \/ v5' = "idle"
          \/ v5' = "base" /\ v8.source
          \/ v5' = "next" /\ v8.source /\ \A i \in Images!Images : v8.ready[i]
      BY <2>4 DEF Images!Check, Images!Go, Images!Fail
    <3> QED BY <3>1, <3>2 DEF Images!BaseInv, Images!Known, Images!BuildInv, Images!Present
  <2>5. CASE Images!Verify
    BY <2>5 DEF Images!Verify, Images!Go, Images!BaseInv, Images!Known, Images!BuildInv,
       Images!Present
  <2>6. CASE Images!After
    BY <2>6 DEF Images!After, Images!Go, Images!BaseInv, Images!Known, Images!BuildInv
  <2>7. CASE Images!Kill
    BY <2>7 DEF Images!Kill, Images!Fail, Images!Go, Images!BaseInv, Images!Known, Images!BuildInv
  <2> QED BY <2>1, <2>2, <2>3, <2>4, <2>5, <2>6, <2>7 DEF ImagesQuiet
<1> QED BY <1>2, <1>3, <1>4 DEF ImagesInv

\* Others: nothing is known after it of a provision that is running.
LEMMA ImagesTouchInv ==
  ASSUME ImagesInv, Images!Touch
  PROVE  ImagesInv'
<1> USE PackBounds
<1>1. UNCHANGED <<v4, v5, v6, v7, v8, v9, v10>> /\ v13' = (v13 \/ v5 # "idle")
  BY DEF Images!Touch
<1>2. \/ v1' \in {"pinned", "changed", "elsewhere"} /\ UNCHANGED <<v2, v3, v12>>
      \/ v2' = "other" /\ v12' = Images!Put(Images!BaseImage("other"), 0) /\ UNCHANGED <<v1, v3>>
      \/ \E i \in Images!Images : /\ v3' = [v3 EXCEPT ![i] = Images!Foreign]
                                  /\ v12' = Images!Put(Images!Foreign, i) /\ UNCHANGED <<v1, v2>>
  BY DEF Images!Touch
<1>3. Images!TypeOK'
  <2>1. v11' \in 0..PackTouches
    <3>1. v11 < PackTouches /\ v11' = v11 + 1
      BY DEF Images!Touch
    <3>2. v11 \in 0..PackTouches
      BY DEF ImagesInv, Images!TypeOK
    <3> QED BY <3>1, <3>2
  <2>5. v13' \in BOOLEAN
    BY <1>1
  <2>2. v1' \in {"pinned", "changed", "elsewhere"} /\ v2' \in Images!Bases
    BY <1>2 DEF ImagesInv, Images!TypeOK, Images!Bases
  <2>3. v3' \in [Images!Images -> Images!Contents]
    BY <1>2, ImagesSomeImages DEF ImagesInv, Images!TypeOK
  <2>4. v12' \subseteq Images!Contents \X (0..PackImages)
    <3>1. v12 \subseteq Images!Contents \X (0..PackImages)
      BY DEF ImagesInv, Images!TypeOK
    <3>2. <<Images!BaseImage("other"), 0>> \in Images!Contents \X (0..PackImages)
      BY ImagesSomeBase
    <3>3. \A i \in Images!Images : <<Images!Foreign, i>> \in Images!Contents \X (0..PackImages)
      BY ImagesSomeImages DEF Images!Images
    <3>4. \A h \in v12' : \/ h \in v12 \/ h = <<Images!BaseImage("other"), 0>>
                          \/ \E i \in Images!Images : h = <<Images!Foreign, i>>
      BY <1>2 DEF Images!Put
    <3> QED BY <3>1, <3>2, <3>3, <3>4
  <2> QED BY <1>1, <2>1, <2>2, <2>3, <2>4, <2>5 DEF ImagesInv, Images!TypeOK
<1>4. Images!BaseInv'
  BY <1>1, <1>2 DEF ImagesInv, Images!BaseInv
<1>5. Images!Known' /\ Images!BuildInv'
  BY <1>1 DEF Images!Known, Images!BuildInv
<1>6. Images!HadInv'
  BY <1>2, ImagesSomeImages DEF ImagesInv, Images!HadInv, Images!Put, Images!Images
<1>7. Images!LabelInv'
  <2>1. ~v13' => ~v13
    BY <1>1
  <2>2. \A i \in Images!Images : v3'[i] = v3[i] \/ v3'[i] = Images!Foreign
    BY <1>2 DEF ImagesInv, Images!TypeOK
  <2> QED BY <2>1, <2>2, ImagesSomeImages DEF ImagesInv, Images!LabelInv
<1>8. Images!NothingUntagged'
  <2> SUFFICES ASSUME ~v13', NEW h \in v12', h \notin v4
               PROVE  IF h[2] = 0 THEN v2' = h[1].base ELSE v3'[h[2]] = h[1]
    BY <1>1 DEF Images!NothingUntagged
  <2>1. \A g \in v12 \ v4 : IF g[2] = 0 THEN v2 = g[1].base ELSE v3[g[2]] = g[1]
    BY <1>1 DEF ImagesInv, Images!NothingUntagged
  <2>2. CASE v1' \in {"pinned", "changed", "elsewhere"} /\ UNCHANGED <<v2, v3, v12>>
    BY <2>1, <2>2
  <2>3. CASE v2' = "other" /\ v12' = Images!Put(Images!BaseImage("other"), 0)
          /\ UNCHANGED <<v1, v3>>
    <3>1. CASE h = <<Images!BaseImage("other"), 0>>
      <4>1. h[1] = Images!BaseImage("other") /\ h[2] = 0
        BY <3>1
      <4> QED BY <2>3, <4>1, ImagesSomeBase
    <3>2. CASE h # <<Images!BaseImage("other"), 0>>
      <4>1. h \in v12 /\ h[2] # 0
        BY <2>3, <3>2 DEF Images!Put
      <4> QED BY <2>1, <2>3, <4>1
    <3> QED BY <3>1, <3>2
  <2>4. ASSUME NEW i \in Images!Images, v3' = [v3 EXCEPT ![i] = Images!Foreign],
               v12' = Images!Put(Images!Foreign, i),
               UNCHANGED <<v1, v2>>
        PROVE  IF h[2] = 0 THEN v2' = h[1].base ELSE v3'[h[2]] = h[1]
    <3>1. CASE h = <<Images!Foreign, i>>
      <4>1. h[1] = Images!Foreign /\ h[2] = i /\ i # 0
        BY <3>1 DEF Images!Images
      <4>2. v3'[i] = Images!Foreign
        BY <2>4 DEF ImagesInv, Images!TypeOK
      <4> QED BY <4>1, <4>2
    <3>2. CASE h # <<Images!Foreign, i>>
      <4>1. h \in v12 /\ h[2] # i
        BY <2>4, <3>2 DEF Images!Put
      <4>2. h[2] \in 0..PackImages
        BY <4>1 DEF ImagesInv, Images!TypeOK
      <4>5. h[2] # 0 => h[2] \in Images!Images
        BY <4>2 DEF Images!Images
      <4>6. v3 \in [Images!Images -> Images!Contents]
        BY DEF ImagesInv, Images!TypeOK
      <4>3. h[2] # 0 => v3'[h[2]] = v3[h[2]]
        BY <2>4, <4>1, <4>5, <4>6
      <4>4. IF h[2] = 0 THEN v2 = h[1].base ELSE v3[h[2]] = h[1]
        BY <2>1, <4>1
      <4> QED BY <2>4, <4>3, <4>4
    <3> QED BY <3>1, <3>2
  <2> QED BY <1>2, <2>2, <2>3, <2>4
<1> QED BY <1>3, <1>4, <1>5, <1>6, <1>7, <1>8 DEF ImagesInv

LEMMA ImagesBaseStepInv ==
  ASSUME ImagesInv, Images!Base
  PROVE  ImagesInv'
<1> USE PackBounds
<1>1. v5 = "base" /\ UNCHANGED <<v2, v3, v1, v11, v12, v13, v6, v7, v8, v10>>
  BY DEF Images!Base, Images!Others
<1>2. \/ v5' = "idle" /\ UNCHANGED v4
      \/ v5' = "next" /\ v8.base = "pinned" /\ UNCHANGED v4
      \/ v5' = "copy" /\ v8.base = "absent" /\ UNCHANGED v4
      \/ /\ v5' = "copy" /\ v8.base = "other" /\ v4' = v4 \cup {<<Images!BaseImage(v2), 0>>}
  BY DEF Images!Base, Images!Go, Images!Fail
<1>3. Images!TypeOK'
  <2>1. v4' \subseteq Images!Contents \X (0..PackImages)
    <3>1. CASE v4' = v4
      BY <3>1 DEF ImagesInv, Images!TypeOK
    <3>2. CASE v8.base = "other" /\ v4' = v4 \cup {<<Images!BaseImage(v2), 0>>}
      <4>1. v2 \in {"none", "pinned", "other"}
        BY <3>2 DEF ImagesInv, Images!BaseInv, Images!TypeOK, Images!Bases
      <4>2. Images!BaseImage(v2) \in Images!Contents
        BY <4>1, ImagesSomeBase
      <4>3. <<Images!BaseImage(v2), 0>> \in Images!Contents \X (0..PackImages)
        BY <4>2
      <4>4. v4 \subseteq Images!Contents \X (0..PackImages)
        BY DEF ImagesInv, Images!TypeOK
      <4> QED BY <3>2, <4>3, <4>4
    <3> QED BY <1>2, <3>1, <3>2
  <2>2. v9' \in {"none", "ready", "not ready", "failed"}
    BY DEF Images!Base, Images!Fail, ImagesInv, Images!TypeOK
  <2> QED BY <1>1, <1>2, <2>1, <2>2 DEF ImagesInv, Images!TypeOK
<1>4. Images!BaseInv' /\ Images!HadInv' /\ Images!LabelInv'
  BY <1>1, <1>2 DEF ImagesInv, Images!BaseInv, Images!HadInv, Images!LabelInv
<1>5. Images!Known'
  BY <1>1, <1>2 DEF ImagesInv, Images!Known, Images!Present
<1>6. v4 \subseteq v4'
  BY <1>2
<1>7. Images!NothingUntagged'
  BY <1>1, <1>6 DEF ImagesInv, Images!NothingUntagged
<1>8. Images!BuildInv'
  <2> SUFFICES ASSUME ~v13
               PROVE  /\ v5' = "next" => v2 = "pinned"
                      /\ v5' = "copy" => \A h \in v12 : h[2] = 0 => h \in v4'
    BY <1>1, <1>2 DEF Images!BuildInv
  <2>1. v8.base = v2
    BY <1>1 DEF ImagesInv, Images!Known
  <2>2. ASSUME NEW h \in v12, h[2] = 0, v5' = "copy" PROVE h \in v4'
    <3>1. h = <<Images!BaseImage("other"), 0>>
      BY <2>2 DEF ImagesInv, Images!HadInv
    <3>4. h[1].base = "other"
      BY <3>1, ImagesSomeBase
    <3>2. h \in v4 \/ v2 = "other"
      BY <2>2, <3>4 DEF ImagesInv, Images!NothingUntagged
    <3> QED BY <1>2, <1>6, <2>1, <2>2, <3>1, <3>2
  <2> QED BY <1>2, <2>1, <2>2
<1> QED BY <1>3, <1>4, <1>5, <1>7, <1>8 DEF ImagesInv

LEMMA ImagesCopyInv ==
  ASSUME ImagesInv, Images!Copy
  PROVE  ImagesInv'
<1> USE PackBounds
<1>1. v5 = "copy" /\ UNCHANGED <<v3, v4, v1, v11, v12, v13, v6, v8, v10>>
  BY DEF Images!Copy, Images!Others
<1>2. \/ v5' \in {"idle", "copy"} /\ UNCHANGED v2
      \/ v5' = "verify" /\ v2' \in {"pinned", "other"}
  BY DEF Images!Copy, Images!Go, Images!Fail
<1>3. Images!TypeOK'
  <2>1. v2' \in Images!Bases
    BY <1>2 DEF ImagesInv, Images!TypeOK, Images!Bases
  <2>2. v7' \in 0..PackSources
    <3>1. v7' = v7 \/ (v7 < PackSources /\ v7' = v7 + 1)
      BY DEF Images!Copy
    <3>2. v7 \in 0..PackSources
      BY DEF ImagesInv, Images!TypeOK
    <3> QED BY <3>1, <3>2
  <2>3. v9' \in {"none", "ready", "not ready", "failed"}
    BY DEF Images!Copy, Images!Fail, ImagesInv, Images!TypeOK
  <2> QED BY <1>1, <1>2, <2>1, <2>2, <2>3 DEF ImagesInv, Images!TypeOK
<1>4. Images!BaseInv' /\ Images!HadInv' /\ Images!LabelInv'
  BY <1>1, <1>2 DEF ImagesInv, Images!BaseInv, Images!HadInv, Images!LabelInv
<1>5. Images!Known'
  BY <1>1, <1>2 DEF ImagesInv, Images!Known, Images!Present
<1>6. Images!BuildInv'
  BY <1>1, <1>2 DEF ImagesInv, Images!BuildInv
<1>7. Images!NothingUntagged'
  BY <1>1 DEF ImagesInv, Images!NothingUntagged, Images!BuildInv
<1> QED BY <1>3, <1>4, <1>5, <1>6, <1>7 DEF ImagesInv

LEMMA ImagesNextImageInv ==
  ASSUME ImagesInv, Images!NextImage
  PROVE  ImagesInv'
<1> USE PackBounds
<1>10. v5 = "next" /\ v6' = v6 + 1
       /\ UNCHANGED <<v2, v3, v1, v11, v12, v13, v7, v8, v10>>
  BY DEF Images!NextImage, Images!Others
<1>11. v6 \in 0..PackImages
  <2>1. v6 \in 0..PackImages + 1
    BY DEF ImagesInv, Images!TypeOK
  <2>2. v6 = PackImages \/ v6 < PackImages
    BY DEF Images!NextImage
  <2> QED BY <2>1, <2>2
<1>1. v5 = "next" /\ v6' = v6 + 1 /\ v6 \in 0..PackImages
      /\ UNCHANGED <<v2, v3, v1, v11, v12, v13, v7, v8, v10>>
  BY <1>10, <1>11
<1>2. \/ v5' \in {"after", "idle", "next"} /\ UNCHANGED v4
      \/ /\ v5' = "build" /\ v6 + 1 \in Images!Images /\ ~v8.ready[v6 + 1]
         /\ v4' = IF v8.present[v6 + 1] THEN v4 \cup {<<v3[v6 + 1], v6 + 1>>}
                       ELSE v4
  BY <1>1 DEF Images!NextImage, Images!Go, Images!Fail, Images!Images
<1>3. Images!TypeOK'
  <2>1. v4' \subseteq Images!Contents \X (0..PackImages)
    <3>1. v4 \subseteq Images!Contents \X (0..PackImages)
            /\ v3 \in [Images!Images -> Images!Contents]
      BY DEF ImagesInv, Images!TypeOK
    <3>2. \/ v4' = v4
          \/ v6 + 1 \in Images!Images /\ v4' = v4 \cup {<<v3[v6 + 1], v6 + 1>>}
      BY <1>2
    <3>3. ASSUME v6 + 1 \in Images!Images
          PROVE  <<v3[v6 + 1], v6 + 1>> \in Images!Contents \X (0..PackImages)
      BY <3>1, <3>3 DEF Images!Images
    <3> QED BY <3>1, <3>2, <3>3
  <2>2. v9' \in {"none", "ready", "not ready", "failed"}
    BY DEF Images!NextImage, Images!Fail, ImagesInv, Images!TypeOK
  <2>3. v6' \in 0..PackImages + 1
    BY <1>1
  <2> QED BY <1>1, <1>2, <2>1, <2>2, <2>3 DEF ImagesInv, Images!TypeOK
<1>4. Images!BaseInv' /\ Images!HadInv' /\ Images!LabelInv'
  BY <1>1, <1>2 DEF ImagesInv, Images!BaseInv, Images!HadInv, Images!LabelInv
<1>5. Images!Known'
  BY <1>1, <1>2 DEF ImagesInv, Images!Known, Images!Present, Images!Images
<1>6. v4 \subseteq v4'
  BY <1>2
<1>7. Images!NothingUntagged'
  BY <1>1, <1>6 DEF ImagesInv, Images!NothingUntagged
<1>8. Images!BuildInv'
  <2> SUFFICES ASSUME ~v13
               PROVE  /\ v5' \in {"next", "build"} => v2 = "pinned" \/ \A i \in Images!Images :
                           v8.ready[i]
                      /\ v5' = "build" => \A h \in v12 : h[2] = v6 + 1 => h \in v4'
    BY <1>1, <1>2 DEF Images!BuildInv
  <2>1. v2 = "pinned" \/ \A i \in Images!Images : v8.ready[i]
    BY <1>1 DEF ImagesInv, Images!BuildInv
  <2>2. ASSUME NEW h \in v12, h[2] = v6 + 1, v5' = "build" PROVE h \in v4'
    <3>1. v6 + 1 \in Images!Images /\ v8.present[v6 + 1] = Images!Present(v6 + 1)
      BY <1>1, <1>2, <2>2 DEF ImagesInv, Images!Known, Images!Images
    <3>5. h \in Images!Contents \X (0..PackImages)
      BY <2>2 DEF ImagesInv, Images!TypeOK
    <3>6. h = <<h[1], h[2]>>
      BY <3>5
    <3>7. h[2] # 0
      BY <2>2, <3>1 DEF Images!Images
    <3>2. h[2] # 0 /\ h[1] # Images!NoImage /\ h = <<h[1], v6 + 1>>
      BY <2>2, <3>6, <3>7 DEF ImagesInv, Images!HadInv
    <3>3. h \in v4 \/ v3[v6 + 1] = h[1]
      BY <2>2, <3>2 DEF ImagesInv, Images!NothingUntagged
    <3> QED BY <1>2, <1>6, <2>2, <3>1, <3>2, <3>3 DEF Images!Present
  <2> QED BY <2>1, <2>2
<1> QED BY <1>3, <1>4, <1>5, <1>7, <1>8 DEF ImagesInv

LEMMA ImagesBuildStepInv ==
  ASSUME ImagesInv, Images!Build
  PROVE  ImagesInv'
<1> USE PackBounds
<1> DEFINE built == [from |-> "provision", labels |-> TRUE, base |-> v2,
                     tree |-> IF v1 = "pinned" THEN "pinned" ELSE "other"]
<1>1. v5 = "build" /\ v6 \in Images!Images /\ ~v8.ready[v6]
      /\ UNCHANGED <<v2, v4, v1, v11, v12, v13, v6, v7, v8, v10>>
  BY DEF Images!Build, Images!Others, ImagesInv, Images!BaseInv
<1>2. \/ v5' = "idle" /\ v3' = v3
      \/ v5' = "next" /\ v3' = [v3 EXCEPT ![v6] = built]
  BY DEF Images!Build, Images!Go, Images!Fail, built
<1>3. v2 # "absent"
  BY <1>1 DEF ImagesInv, Images!BaseInv
<1>4. built \in Images!Contents /\ built.base = v2
      /\ built.tree = (IF v1 = "pinned" THEN "pinned" ELSE "other")
  BY <1>3 DEF ImagesInv, Images!TypeOK, Images!Bases, Images!Contents
<1> HIDE DEF built
<1>5. Images!TypeOK'
  <2>1. v3' \in [Images!Images -> Images!Contents]
    BY <1>2, <1>4 DEF ImagesInv, Images!TypeOK
  <2>2. v9' \in {"none", "ready", "not ready", "failed"}
    BY DEF Images!Build, Images!Fail, ImagesInv, Images!TypeOK
  <2> QED BY <1>1, <1>2, <2>1, <2>2 DEF ImagesInv, Images!TypeOK
<1>6. Images!BaseInv' /\ Images!HadInv'
  BY <1>1, <1>2, <1>3 DEF ImagesInv, Images!BaseInv, Images!HadInv
<1>7. \A i \in Images!Images : i # v6 => v3'[i] = v3[i]
  BY <1>1, <1>2 DEF ImagesInv, Images!TypeOK
<1>8. Images!Known'
  <2>1. \A i \in Images!Images : i > v6 => v3'[i] = v3[i]
    BY <1>1, <1>7 DEF Images!Images
  <2> QED BY <1>1, <1>2, <2>1 DEF ImagesInv, Images!Known, Images!Present
<1>9. Images!BuildInv'
  BY <1>1, <1>2 DEF ImagesInv, Images!BuildInv
<1>10. Images!LabelInv'
  <2> SUFFICES ASSUME ~v13, NEW i \in Images!Images, v3'[i].labels
               PROVE  v3'[i].tree = "pinned" /\ v3'[i].base = "pinned"
    BY <1>1 DEF Images!LabelInv
  <2>1. v1 = "pinned" /\ v2 = "pinned"
    BY <1>1 DEF ImagesInv, Images!Known, Images!BuildInv
  <2>2. v3'[i] = v3[i] \/ v3'[i] = built
    BY <1>1, <1>2 DEF ImagesInv, Images!TypeOK
  <2> QED BY <1>4, <2>1, <2>2 DEF ImagesInv, Images!LabelInv
<1>11. Images!NothingUntagged'
  <2> SUFFICES ASSUME ~v13, NEW h \in v12, h \notin v4
               PROVE  IF h[2] = 0 THEN v2 = h[1].base ELSE v3'[h[2]] = h[1]
    BY <1>1 DEF Images!NothingUntagged
  <2>1. IF h[2] = 0 THEN v2 = h[1].base ELSE v3[h[2]] = h[1]
    BY DEF ImagesInv, Images!NothingUntagged
  <2>2. h[2] # v6 /\ h[2] \in 0..PackImages
    BY <1>1 DEF ImagesInv, Images!BuildInv, Images!TypeOK
  <2> QED BY <1>7, <2>1, <2>2 DEF Images!Images
<1> QED BY <1>5, <1>6, <1>8, <1>9, <1>10, <1>11 DEF ImagesInv

-----------------------------------------------------------------------------
LEMMA ImagesNextInv ==
  ASSUME ImagesInv, Images!Next \/ UNCHANGED Images!vars
  PROVE  ImagesInv'
<1>1. CASE UNCHANGED Images!vars
  <2> USE <1>1 DEF Images!vars, ImagesInv
  <2>1. Images!TypeOK'
    BY DEF Images!TypeOK
  <2>2. Images!BaseInv' /\ Images!HadInv'
    BY DEF Images!BaseInv, Images!HadInv
  <2>3. Images!Known'
    BY DEF Images!Known, Images!Present
  <2>4. Images!BuildInv' /\ Images!LabelInv'
    BY DEF Images!BuildInv, Images!LabelInv
  <2>5. Images!NothingUntagged'
    BY DEF Images!NothingUntagged
  <2> QED BY <2>1, <2>2, <2>3, <2>4, <2>5
<1> QED BY <1>1, ImagesQuietInv, ImagesTouchInv, ImagesBaseStepInv, ImagesCopyInv,
           ImagesNextImageInv, ImagesBuildStepInv DEF Images!Next, ImagesQuiet

LEMMA ImagesSound == ImagesInv => Images!TypeOK /\ Images!PackIsSound
<1> SUFFICES ASSUME ImagesInv PROVE Images!TypeOK /\ Images!PackIsSound
  OBVIOUS
<1>1. Images!ReadyIsPinned
  BY DEF ImagesInv, Images!LabelInv, Images!ReadyIsPinned
<1> QED BY <1>1 DEF ImagesInv, Images!PackIsSound

-----------------------------------------------------------------------------
(* A run directory, the prepares that make it and the runs that start from *)
(* it, within the bounds b (RunPreparation). Here v1 is adapter, v2 is     *)
(* method, v3 is external, v4 is source, v5 is host, v6 is dir, v7 is      *)
(* lane, v8 is manifest, v9 is prep, v10 is run, v11 is maker, v12 is      *)
(* moves.                                                                  *)

LEMMA PrepareBounded ==
  ASSUME NEW b \in RunBounds
  PROVE  /\ b.names \subseteq DOMAIN Prepare(b)!Adapters /\ b.lanes \in Nat \ {0}
         /\ b.prepares \in Nat /\ b.runs \in Nat /\ b.moves \in Nat
  BY DEF RunBounds, PreparedAdapters, Prepare!Adapters

PrepareInv(b) ==
  /\ Prepare(b)!TypeOK /\ Prepare(b)!MakerInv /\ Prepare(b)!PrepareInv /\ Prepare(b)!ArchiveInv
  /\ Prepare(b)!RunsInv /\ Prepare(b)!OneMaker /\ Prepare(b)!RunOnce

\* The cardinality of the instance is that of the library's theorems.
LEMMA PrepareSameSize ==
  ASSUME NEW b \in RunBounds
  PROVE  \A S : Prepare(b)!Cardinality(S) = Cardinality(S)
  BY DEF Prepare!Cardinality, Cardinality

PrepareOwn(b, p) ==
  /\ Prepare(b)!LaneInv(p) /\ Prepare(b)!ValueInv(p) /\ Prepare(b)!HostInv(p)
  /\ Prepare(b)!DetectInv(p)

PreparePcs(b) ==
  {"idle", "mkdir", "lane", "step", "assets", "write", "done", "refused", "raised", "killed"}

\* What the proofs need to know of an adapter.
PrepareFine(b, T) ==
  /\ T.managed \in BOOLEAN /\ Len(T.steps) \in 1..3 /\ DOMAIN T.steps = 1..Len(T.steps)
  /\ \A i, j \in 1..Len(T.steps) :
       /\ T.steps[i] = "archive" => T.steps[j] # "files"
       /\ T.steps[i] = "validate" => i = 1
  /\ (\E i \in 1..Len(T.steps) : T.steps[i] \in {"hash", "validate"}) =>
       \E i \in 1..Len(T.steps) : T.steps[i] = "files"
  /\ (\E i \in 1..Len(T.steps) : T.steps[i] = "validate") =>
       T.steps[1] = "validate" /\ \A i \in 1..Len(T.steps) : T.steps[i] # "archive"

LEMMA PrepareFineTasks ==
  ASSUME NEW b \in RunBounds
  PROVE  \A n \in DOMAIN Prepare(b)!Adapters : PrepareFine(b, Prepare(b)!Adapters[n])
<1>1. PrepareFine(b, Prepare(b)!HeuriGymTask)
  BY DEF PrepareFine, Prepare!HeuriGymTask, Prepare!Managed
<1>2. PrepareFine(b, Prepare(b)!FrontierCSTask)
  BY DEF PrepareFine, Prepare!FrontierCSTask, Prepare!Managed
<1>3. PrepareFine(b, Prepare(b)!AutoLabTask)
  BY DEF PrepareFine, Prepare!AutoLabTask, Prepare!Managed
<1>4. PrepareFine(b, Prepare(b)!MallocLabTask)
  BY DEF PrepareFine, Prepare!MallocLabTask, Prepare!Managed
<1>5. PrepareFine(b, Prepare(b)!AleTask)
  BY DEF PrepareFine, Prepare!AleTask, Prepare!Managed
<1>6. PrepareFine(b, Prepare(b)!TorchBenchTask)
  BY DEF PrepareFine, Prepare!TorchBenchTask, Prepare!Managed
<1>7. PrepareFine(b, Prepare(b)!FrontierEngineeringTask)
  BY DEF PrepareFine, Prepare!FrontierEngineeringTask, Prepare!Managed
<1>8. PrepareFine(b, Prepare(b)!LocalVliwTask)
  BY DEF PrepareFine, Prepare!LocalVliwTask, Prepare!Managed
<1>9. PrepareFine(b, Prepare(b)!ZSoftL1Task)
  BY DEF PrepareFine, Prepare!ZSoftL1Task, Prepare!Managed
<1>10. PrepareFine(b, Prepare(b)!ZSoftDetectTask)
  BY DEF PrepareFine, Prepare!ZSoftDetectTask, Prepare!Managed
<1>11. DOMAIN Prepare(b)!Adapters = {"heurigym", "frontier_cs", "autolab", "malloclab", "ale",
         "torchbench", "frontier_engineering", "local_vliw", "zsoft_l1", "zsoft_detect"}
  BY DEF Prepare!Adapters
<1>12. Prepare(b)!Adapters.heurigym = Prepare(b)!HeuriGymTask
  BY DEF Prepare!Adapters
<1>13. Prepare(b)!Adapters.frontier_cs = Prepare(b)!FrontierCSTask
  BY DEF Prepare!Adapters
<1>14. Prepare(b)!Adapters.autolab = Prepare(b)!AutoLabTask
  BY DEF Prepare!Adapters
<1>15. Prepare(b)!Adapters.malloclab = Prepare(b)!MallocLabTask
  BY DEF Prepare!Adapters
<1>16. Prepare(b)!Adapters.ale = Prepare(b)!AleTask
  BY DEF Prepare!Adapters
<1>17. Prepare(b)!Adapters.torchbench = Prepare(b)!TorchBenchTask
  BY DEF Prepare!Adapters
<1>18. Prepare(b)!Adapters.frontier_engineering = Prepare(b)!FrontierEngineeringTask
  BY DEF Prepare!Adapters
<1>19. Prepare(b)!Adapters.local_vliw = Prepare(b)!LocalVliwTask
  BY DEF Prepare!Adapters
<1>20. Prepare(b)!Adapters.zsoft_l1 = Prepare(b)!ZSoftL1Task
  BY DEF Prepare!Adapters
<1>21. Prepare(b)!Adapters.zsoft_detect = Prepare(b)!ZSoftDetectTask
  BY DEF Prepare!Adapters
<1>22. ASSUME NEW n \in DOMAIN Prepare(b)!Adapters PROVE PrepareFine(b, Prepare(b)!Adapters[n])
  <2>1. CASE n = "heurigym"
    BY <1>1, <1>12, <2>1
  <2>2. CASE n = "frontier_cs"
    BY <1>2, <1>13, <2>2
  <2>3. CASE n = "autolab"
    BY <1>3, <1>14, <2>3
  <2>4. CASE n = "malloclab"
    BY <1>4, <1>15, <2>4
  <2>5. CASE n = "ale"
    BY <1>5, <1>16, <2>5
  <2>6. CASE n = "torchbench"
    BY <1>6, <1>17, <2>6
  <2>7. CASE n = "frontier_engineering"
    BY <1>7, <1>18, <2>7
  <2>8. CASE n = "local_vliw"
    BY <1>8, <1>19, <2>8
  <2>9. CASE n = "zsoft_l1"
    BY <1>9, <1>20, <2>9
  <2>10. CASE n = "zsoft_detect"
    BY <1>10, <1>21, <2>10
  <2> QED BY <1>11, <1>22, <2>1, <2>2, <2>3, <2>4, <2>5, <2>6, <2>7, <2>8, <2>9, <2>10
<1> QED BY <1>22

LEMMA PrepareTheAdapter ==
  ASSUME NEW b \in RunBounds,
         Prepare(b)!TypeOK
  PROVE  /\ Prepare(b)!A.managed \in BOOLEAN /\ Len(Prepare(b)!A.steps) \in 1..3
              /\ DOMAIN Prepare(b)!A.steps = 1..Len(Prepare(b)!A.steps)
         /\ \A i, j \in DOMAIN Prepare(b)!A.steps : Prepare(b)!A.steps[i] = "archive" =>
              Prepare(b)!A.steps[j] # "files"
         /\ \A i \in DOMAIN Prepare(b)!A.steps : Prepare(b)!A.steps[i] = "validate" => i = 1
         /\ Prepare(b)!Reads("hash") \/ Prepare(b)!Reads("validate") => Prepare(b)!Reads("files")
         /\ Prepare(b)!Reads("archive") => \A i \in DOMAIN Prepare(b)!A.steps :
              Prepare(b)!A.steps[i] # "files"
         /\ Prepare(b)!Reads("validate") =>
              Prepare(b)!A.steps[1] = "validate" /\ \A i \in DOMAIN Prepare(b)!A.steps :
                   Prepare(b)!A.steps[i] # "archive"
         /\ Prepare(b)!LastLane \in 1..b.lanes /\ (v2 # "plain" => Prepare(b)!LastLane = 1)
<1>1. PrepareFine(b, Prepare(b)!A)
  BY PrepareFineTasks DEF Prepare!TypeOK, Prepare!A
<1>2. Prepare(b)!LastLane \in 1..b.lanes /\ (v2 # "plain" => Prepare(b)!LastLane = 1)
  BY PrepareBounded DEF Prepare!LastLane
<1> QED BY <1>1, <1>2 DEF PrepareFine, Prepare!Reads

LEMMA PrepareFixedKept ==
  ASSUME NEW b \in RunBounds,
         UNCHANGED <<v1, v2, v3>>
  PROVE  /\ Prepare(b)!A' = Prepare(b)!A /\ Prepare(b)!LastLane' = Prepare(b)!LastLane
              /\ (Prepare(b)!Reads("validate")' <=> Prepare(b)!Reads("validate"))
         /\ (Prepare(b)!Reads("archive")' <=> Prepare(b)!Reads("archive"))
<1>1. Prepare(b)!A' = Prepare(b)!A
  BY DEF Prepare!A
<1> QED BY <1>1 DEF Prepare!LastLane, Prepare!Reads

LEMMA PrepareSomes ==
  ASSUME NEW b \in RunBounds
  PROVE  /\ 0 \in Prepare(b)!Versions /\ Prepare(b)!Clean0 \in Prepare(b)!Contents
              /\ Prepare(b)!Clean0.commit = 0 /\ Prepare(b)!Clean0.dirty = FALSE
         /\ \A v \in Prepare(b)!Versions : Prepare(b)!Copy(v) \in Prepare(b)!Contents
              /\ Prepare(b)!Copy(v).dirty = FALSE
         /\ Prepare(b)!Copy(0) = Prepare(b)!Clean0
         /\ Prepare(b)!NoLane \in Prepare(b)!LaneStates
              /\ Prepare(b)!NoLane.copied = Prepare(b)!Clean0
<1>1. 0 \in Prepare(b)!Versions
  BY PrepareBounded DEF Prepare!Versions
<1>2. Prepare(b)!Clean0 \in Prepare(b)!Contents /\ Prepare(b)!Clean0.commit = 0
        /\ Prepare(b)!Clean0.dirty = FALSE
  BY <1>1 DEF Prepare!Clean0, Prepare!Contents
<1>3. \A v \in Prepare(b)!Versions : Prepare(b)!Copy(v) \in Prepare(b)!Contents
        /\ Prepare(b)!Copy(v).dirty = FALSE
  BY DEF Prepare!Copy, Prepare!Contents
<1>4. Prepare(b)!Copy(0) = Prepare(b)!Clean0
  BY DEF Prepare!Copy, Prepare!Clean0
<1>5. Prepare(b)!NoLane \in Prepare(b)!LaneStates /\ Prepare(b)!NoLane.copied = Prepare(b)!Clean0
  BY <1>1, <1>2 DEF Prepare!NoLane, Prepare!LaneStates
<1> QED BY <1>1, <1>2, <1>3, <1>4, <1>5

\* What is read of a clean checkout.
LEMMA PrepareReading ==
  ASSUME NEW b \in RunBounds,
         Prepare(b)!TypeOK
  PROVE  /\ Prepare(b)!Content \in Prepare(b)!Contents
              /\ (~v4.dirty => Prepare(b)!Content = Prepare(b)!Copy(v4.commit))
         /\ v4.commit \in Prepare(b)!Versions /\ v4.dirty \in BOOLEAN
<1>1. v4.commit \in Prepare(b)!Versions /\ v4.dirty \in BOOLEAN
  BY DEF Prepare!TypeOK
<1>2. ASSUME ~v4.dirty PROVE Prepare(b)!Content = Prepare(b)!Copy(v4.commit)
  <2>1. v4.dirty = FALSE
    BY <1>1, <1>2
  <2> QED BY <2>1 DEF Prepare!Content, Prepare!Copy
<1> QED BY <1>1, <1>2 DEF Prepare!Content, Prepare!Contents

LEMMA PrepareInitInv ==
  ASSUME NEW b \in RunBounds
  PROVE  Prepare(b)!Init => PrepareInv(b)
<1> SUFFICES ASSUME Prepare(b)!Init PROVE PrepareInv(b)
  OBVIOUS
<1> USE PrepareBounded
<1>1. /\ v1 \in DOMAIN Prepare(b)!Adapters /\ v2 \in {"plain", "goal-plus", "sky"}
      /\ v4 \in [commit : {0}, dirty : BOOLEAN, branch : {"tracking", "other"}] /\ v5 = 0
      /\ v6 = "absent" /\ v11 = {} /\ v12 = 0
  BY DEF Prepare!Init
<1>2. v3 \in BOOLEAN
  BY DEF Prepare!Init
<1>3. /\ v7 = [l \in 1..b.lanes |-> Prepare(b)!NoLane] /\ v8 = Prepare(b)!NoManifest
      /\ \A p \in Prepare(b)!Prepares : v9[p].pc = "idle" /\ v9[p].lane = 1
      /\ \A r \in Prepare(b)!Runs : v10[r].pc = "idle"
  BY DEF Prepare!Init
<1>4. Prepare(b)!TypeOK
  <2>1. [pc |-> "idle", lane |-> 1, step |-> 1, moved |-> FALSE] \in Prepare(b)!PrepStates
    BY DEF Prepare!PrepStates
  <2>2. [pc |-> "idle", late |-> FALSE, host |-> 0] \in Prepare(b)!RunStates
    BY PrepareSomes DEF Prepare!RunStates
  <2>3. v9 \in [Prepare(b)!Prepares -> Prepare(b)!PrepStates]
          /\ v10 \in [Prepare(b)!Runs -> Prepare(b)!RunStates]
    BY <2>1, <2>2 DEF Prepare!Init
  <2>4. v8 \in [status : {"none", "prepared", "running"}, commit : Prepare(b)!Versions, host :
          Prepare(b)!Versions]
    BY <1>3, PrepareSomes DEF Prepare!NoManifest
  <2>5. v7 \in [1..b.lanes -> Prepare(b)!LaneStates]
    BY <1>3, PrepareSomes
  <2>6. /\ v4 \in [commit : Prepare(b)!Versions, dirty : BOOLEAN, branch : {"tracking", "other"}]
        /\ v5 \in Prepare(b)!Versions /\ v12 \in Prepare(b)!Versions
    BY <1>1, PrepareSomes
  <2> QED BY <1>1, <1>2, <2>3, <2>4, <2>5, <2>6 DEF Prepare!TypeOK
<1>5. ~Prepare(b)!Prepared
  BY <1>3 DEF Prepare!Prepared, Prepare!NoManifest
<1>6. Prepare(b)!MakerInv
  BY <1>1, <1>3, <1>5 DEF Prepare!MakerInv, Prepare!Begun
<1>7. Prepare(b)!PrepareInv
  BY <1>3 DEF Prepare!PrepareInv, Prepare!LaneInv, Prepare!ValueInv, Prepare!HostInv,
     Prepare!DetectInv, Prepare!Begun, Prepare!Working
<1>8. Prepare(b)!ArchiveInv
  BY <1>3, PrepareSomes DEF Prepare!ArchiveInv
<1>9. Prepare(b)!RunsInv /\ Prepare(b)!RunOnce
  BY <1>3 DEF Prepare!RunsInv, Prepare!RunInv, Prepare!RunOnce
<1>10. Prepare(b)!OneMaker
  <2>1. Cardinality(v11) = 0
    BY <1>1, FS_EmptySet, PrepareSameSize
  <2> QED BY <1>3, <2>1, PrepareSameSize DEF Prepare!OneMaker
<1> QED BY <1>4, <1>6, <1>7, <1>8, <1>9, <1>10 DEF PrepareInv

-----------------------------------------------------------------------------
LEMMA PrepareOneMakerKept ==
  ASSUME NEW b \in RunBounds,
         Prepare(b)!MakerInv'
  PROVE  Prepare(b)!OneMaker'
<1>1. CASE v11' = {}
  <2>1. Cardinality(v11') = 0
    BY <1>1, FS_EmptySet, PrepareSameSize
  <2> QED BY <2>1, PrepareSameSize DEF Prepare!OneMaker, Prepare!MakerInv, Prepare!Begun
<1>2. CASE v11' # {}
  <2>1. PICK p \in v11' : TRUE
    BY <1>2
  <2>2. v11' = {p}
    BY <2>1 DEF Prepare!MakerInv
  <2>3. Cardinality({p}) = 1
    BY FS_Singleton, PrepareSameSize
  <2>4. Cardinality(v11') <= 1
    BY <2>2, <2>3
  <2> QED BY <2>4, PrepareSameSize DEF Prepare!OneMaker, Prepare!MakerInv, Prepare!Begun
<1> QED BY <1>1, <1>2

\* Beside the maker nobody has begun.
LEMMA PrepareAlone ==
  ASSUME NEW b \in RunBounds,
         PrepareInv(b), NEW p \in v11
  PROVE  p \in Prepare(b)!Prepares /\ \A q \in Prepare(b)!Prepares \ {p} : ~Prepare(b)!Begun(q)
  BY DEF PrepareInv, Prepare!TypeOK, Prepare!MakerInv

\* A working prepare means that nothing is prepared.
LEMMA PrepareNotYet ==
  ASSUME NEW b \in RunBounds,
         PrepareInv(b), NEW p \in Prepare(b)!Prepares,
              v9[p].pc \in {"lane", "step", "assets", "write"}
  PROVE  p \in v11 /\ ~Prepare(b)!Prepared /\ v6 = "made" /\ \A q \in Prepare(b)!Prepares \ {p} :
           ~Prepare(b)!Begun(q)
<1>1. p \in v11
  BY DEF PrepareInv, Prepare!MakerInv, Prepare!Begun
<1>2. \A q \in Prepare(b)!Prepares \ {p} : ~Prepare(b)!Begun(q)
  BY <1>1, PrepareAlone
<1>3. ~Prepare(b)!Prepared
  BY <1>2 DEF PrepareInv, Prepare!MakerInv, Prepare!Begun
<1>4. v6 = "made"
  BY <1>1 DEF PrepareInv, Prepare!TypeOK, Prepare!MakerInv
<1> QED BY <1>1, <1>2, <1>3, <1>4

\* A new state of a prepare, and what it leaves of the others.
LEMMA PreparePut ==
  ASSUME NEW b \in RunBounds,
         Prepare(b)!TypeOK, NEW p \in Prepare(b)!Prepares, NEW new \in Prepare(b)!PrepStates,
              Prepare(b)!Set(p, new)
  PROVE  /\ v9' \in [Prepare(b)!Prepares -> Prepare(b)!PrepStates] /\ v9'[p] = new
         /\ \A q \in Prepare(b)!Prepares \ {p} : v9'[q] = v9[q]
  BY DEF Prepare!TypeOK, Prepare!Set

LEMMA PrepareGone ==
  ASSUME NEW b \in RunBounds,
         Prepare(b)!TypeOK, NEW p \in Prepare(b)!Prepares, NEW to \in PreparePcs(b),
              Prepare(b)!Go(p, to)
  PROVE  /\ v9' \in [Prepare(b)!Prepares -> Prepare(b)!PrepStates] /\ v9'[p].pc = to
         /\ v9'[p].lane = v9[p].lane /\ v9'[p].step = v9[p].step
         /\ v9'[p].moved = v9[p].moved
         /\ \A q \in Prepare(b)!Prepares \ {p} : v9'[q] = v9[q]
<1> DEFINE new == [v9[p] EXCEPT !.pc = to]
<1>1. v9[p] \in Prepare(b)!PrepStates
  BY DEF Prepare!TypeOK
<1>2. /\ new \in Prepare(b)!PrepStates /\ new.pc = to /\ new.lane = v9[p].lane
           /\ new.step = v9[p].step
      /\ new.moved = v9[p].moved
  BY <1>1 DEF Prepare!PrepStates, PreparePcs
<1>3. Prepare(b)!Set(p, new)
  BY DEF Prepare!Go
<1> HIDE DEF new
<1> QED BY <1>2, <1>3, PreparePut

\* A step of p: the others have not begun, or nothing of theirs has changed.
LEMMA PrepareOthersKept ==
  ASSUME NEW b \in RunBounds,
         PrepareInv(b), NEW p \in Prepare(b)!Prepares, UNCHANGED <<v1, v2, v3, v4, v5>>,
         \A q \in Prepare(b)!Prepares \ {p} :
           v9'[q] = v9[q] /\ (~Prepare(b)!Begun(q) \/ UNCHANGED <<v7, v8>>)
  PROVE  \A q \in Prepare(b)!Prepares \ {p} : PrepareOwn(b, q)'
<1>1. /\ Prepare(b)!A' = Prepare(b)!A /\ Prepare(b)!LastLane' = Prepare(b)!LastLane
           /\ (Prepare(b)!Reads("validate")' <=> Prepare(b)!Reads("validate"))
  BY PrepareFixedKept
<1> SUFFICES ASSUME NEW q \in Prepare(b)!Prepares \ {p} PROVE PrepareOwn(b, q)'
  OBVIOUS
<1>2. PrepareOwn(b, q) /\ v9'[q] = v9[q]
  BY DEF PrepareInv, Prepare!PrepareInv, PrepareOwn
<1>3. CASE ~Prepare(b)!Begun(q)
  <2>1. ~Prepare(b)!Begun(q)' /\ v9'[q].pc \notin {"lane", "step", "assets", "write", "done"}
    BY <1>2, <1>3 DEF Prepare!Begun
  <2>2. Prepare(b)!LaneInv(q)' /\ Prepare(b)!HostInv(q)' /\ Prepare(b)!DetectInv(q)'
    BY <1>2, <2>1 DEF PrepareOwn, Prepare!LaneInv, Prepare!HostInv, Prepare!DetectInv
  <2>3. Prepare(b)!ValueInv(q)'
    BY <1>1, <1>2, <2>1 DEF PrepareOwn, Prepare!ValueInv, Prepare!Working
  <2> QED BY <2>2, <2>3 DEF PrepareOwn
<1>4. CASE UNCHANGED <<v7, v8>>
  <2>1. Prepare(b)!LaneInv(q)'
    BY <1>1, <1>2, <1>4 DEF PrepareOwn, Prepare!LaneInv, Prepare!Begun, Prepare!Finished
  <2>2. Prepare(b)!HostInv(q)'
    BY <1>1, <1>2, <1>4 DEF PrepareOwn, Prepare!HostInv
  <2>3. Prepare(b)!DetectInv(q)'
    BY <1>1, <1>2, <1>4 DEF PrepareOwn, Prepare!DetectInv, Prepare!Begun, Prepare!Finished
  <2>4. Prepare(b)!ValueInv(q)'
    BY <1>1, <1>2, <1>4 DEF PrepareOwn, Prepare!ValueInv, Prepare!Begun, Prepare!Finished,
       Prepare!Working, Prepare!CommitOf, Prepare!StepDone
  <2> QED BY <2>1, <2>2, <2>3, <2>4 DEF PrepareOwn
<1> QED BY <1>3, <1>4

\* The runs' part of a step that leaves the runs, and experiment.json if it is there.
LEMMA PrepareRunsKept ==
  ASSUME NEW b \in RunBounds,
         PrepareInv(b), UNCHANGED <<v3, v10>>, Prepare(b)!Prepared => UNCHANGED v8
  PROVE  Prepare(b)!RunsInv' /\ Prepare(b)!RunOnce'
<1>1. Prepare(b)!RunOnce'
  BY DEF PrepareInv, Prepare!RunOnce
<1>2. ASSUME NEW r \in Prepare(b)!Runs PROVE Prepare(b)!RunInv(r)'
  <2>1. Prepare(b)!RunInv(r)
    BY DEF PrepareInv, Prepare!RunsInv
  <2>2. CASE Prepare(b)!Prepared
    BY <2>1, <2>2 DEF Prepare!RunInv, Prepare!Prepared
  <2>3. CASE ~Prepare(b)!Prepared
    BY <2>1, <2>3 DEF Prepare!RunInv
  <2> QED BY <2>2, <2>3
<1> QED BY <1>1, <1>2 DEF Prepare!RunsInv

\* One step of p in its directory.
LEMMA PreparePrepareKept ==
  ASSUME NEW b \in RunBounds,
         PrepareInv(b), NEW p \in Prepare(b)!Prepares, UNCHANGED <<v1, v2, v3, v4, v5, v10, v12>>,
         v9' \in [Prepare(b)!Prepares -> Prepare(b)!PrepStates],
         \A q \in Prepare(b)!Prepares \ {p} :
           v9'[q] = v9[q] /\ (~Prepare(b)!Begun(q) \/ UNCHANGED <<v7, v8>>),
         Prepare(b)!Prepared => UNCHANGED v8,
         v6' \in {"absent", "made"}, v11' \subseteq Prepare(b)!Prepares,
         v7' \in [1..b.lanes -> Prepare(b)!LaneStates],
         v8' \in [status : {"none", "prepared", "running"}, commit : Prepare(b)!Versions, host :
              Prepare(b)!Versions],
         Prepare(b)!MakerInv', Prepare(b)!ArchiveInv', PrepareOwn(b, p)'
  PROVE  PrepareInv(b)'
<1>1. Prepare(b)!TypeOK'
  BY DEF PrepareInv, Prepare!TypeOK
<1>2. Prepare(b)!RunsInv' /\ Prepare(b)!RunOnce'
  BY PrepareRunsKept
<1>3. \A q \in Prepare(b)!Prepares \ {p} : PrepareOwn(b, q)'
  BY PrepareOthersKept
<1>4. Prepare(b)!PrepareInv'
  BY <1>3 DEF Prepare!PrepareInv, PrepareOwn
<1>5. Prepare(b)!OneMaker'
  BY PrepareOneMakerKept
<1> QED BY <1>1, <1>2, <1>4, <1>5 DEF PrepareInv

\* It stops, for whatever reason.
LEMMA PrepareStopInv ==
  ASSUME NEW b \in RunBounds,
         PrepareInv(b), NEW p \in Prepare(b)!Prepares, v9[p].pc = "idle" \/ Prepare(b)!Working(p),
         NEW to \in {"refused", "raised", "killed"}, Prepare(b)!Go(p, to),
         UNCHANGED <<v1, v2, v3, v4, v5, v6, v7, v8, v10, v11, v12>>
  PROVE  PrepareInv(b)'
<1>1. /\ v9' \in [Prepare(b)!Prepares -> Prepare(b)!PrepStates] /\ v9'[p].pc = to
      /\ \A q \in Prepare(b)!Prepares \ {p} : v9'[q] = v9[q]
  BY PrepareGone DEF PrepareInv, PreparePcs
<1>2. ~Prepare(b)!Begun(p)' /\ ~Prepare(b)!Working(p)' /\ v9[p].pc # "done"
      /\ v9'[p].pc \notin {"idle", "mkdir", "lane", "step", "assets", "write", "done"}
  BY <1>1 DEF Prepare!Begun, Prepare!Working
<1>3. PrepareOwn(b, p)'
  BY <1>2 DEF PrepareOwn, Prepare!LaneInv, Prepare!ValueInv, Prepare!HostInv, Prepare!DetectInv
<1>4. Prepare(b)!MakerInv'
  <2>1. Prepare(b)!Prepared' <=> Prepare(b)!Prepared
    BY DEF Prepare!Prepared
  <2>2. \A q \in Prepare(b)!Prepares : v9'[q].pc = "done" <=> v9[q].pc = "done"
    BY <1>1, <1>2
  <2>3. \A q \in Prepare(b)!Prepares : Prepare(b)!Begun(q)' => Prepare(b)!Begun(q)
    BY <1>1, <1>2 DEF Prepare!Begun
  <2> QED BY <2>1, <2>2, <2>3 DEF PrepareInv, Prepare!MakerInv
<1>5. Prepare(b)!ArchiveInv'
  BY PrepareFixedKept DEF PrepareInv, Prepare!ArchiveInv
<1> QED BY <1>1, <1>3, <1>4, <1>5, PreparePrepareKept DEF PrepareInv, Prepare!TypeOK

LEMMA PrepareValidateInv ==
  ASSUME NEW b \in RunBounds,
         PrepareInv(b), NEW p \in Prepare(b)!Prepares, Prepare(b)!Validate(p)
  PROVE  PrepareInv(b)'
<1>1. /\ v9[p].pc = "idle"
      /\ UNCHANGED <<v1, v2, v3, v4, v5, v6, v7, v8, v10, v11, v12>>
  BY DEF Prepare!Validate, Prepare!Fixed
<1>2. CASE Prepare(b)!Go(p, "refused")
  BY <1>1, <1>2, PrepareStopInv
<1>3. CASE Prepare(b)!Validated /\ Prepare(b)!Go(p, "mkdir")
  <2>1. /\ v9' \in [Prepare(b)!Prepares -> Prepare(b)!PrepStates] /\ v9'[p].pc = "mkdir"
        /\ \A q \in Prepare(b)!Prepares \ {p} : v9'[q] = v9[q]
    BY <1>3, PrepareGone DEF PrepareInv, PreparePcs
  <2>2. Prepare(b)!A' = Prepare(b)!A /\ Prepare(b)!LaneInv(p) /\ v9'[p].lane = v9[p].lane
    BY <1>1, <1>3, PrepareFixedKept, PrepareGone DEF PrepareInv, Prepare!PrepareInv, PreparePcs
  <2>3. PrepareOwn(b, p)'
    BY <1>1, <1>3, <2>1, <2>2 DEF PrepareOwn, Prepare!LaneInv, Prepare!ValueInv, Prepare!HostInv,
       Prepare!DetectInv, Prepare!Begun, Prepare!Validated
  <2>4. Prepare(b)!MakerInv'
    <3>1. Prepare(b)!Prepared' <=> Prepare(b)!Prepared
      BY <1>1 DEF Prepare!Prepared
    <3>2. \A q \in Prepare(b)!Prepares : v9'[q].pc = "done" <=> v9[q].pc = "done"
      BY <1>1, <2>1
    <3>3. \A q \in Prepare(b)!Prepares : Prepare(b)!Begun(q)' => Prepare(b)!Begun(q)
      BY <1>1, <2>1 DEF Prepare!Begun
    <3> QED BY <1>1, <3>1, <3>2, <3>3 DEF PrepareInv, Prepare!MakerInv
  <2>5. Prepare(b)!ArchiveInv'
    BY <1>1, PrepareFixedKept DEF PrepareInv, Prepare!ArchiveInv
  <2> QED BY <1>1, <2>1, <2>3, <2>4, <2>5, PreparePrepareKept DEF PrepareInv, Prepare!TypeOK
<1> QED BY <1>2, <1>3 DEF Prepare!Validate

LEMMA PrepareMakeDirInv ==
  ASSUME NEW b \in RunBounds,
         PrepareInv(b), NEW p \in Prepare(b)!Prepares, Prepare(b)!MakeDir(p)
  PROVE  PrepareInv(b)'
<1>1. /\ v9[p].pc = "mkdir"
      /\ UNCHANGED <<v1, v2, v3, v4, v5, v7, v8, v10, v12>>
  BY DEF Prepare!MakeDir, Prepare!Fixed
<1>2. CASE Prepare(b)!Go(p, "refused") /\ UNCHANGED <<v6, v11>>
  BY <1>1, <1>2, PrepareStopInv DEF Prepare!Working
<1>3. CASE v6 = "absent" /\ v6' = "made" /\ v11' = v11 \cup {p} /\ Prepare(b)!Go(p, "lane")
  <2>1. /\ v9' \in [Prepare(b)!Prepares -> Prepare(b)!PrepStates] /\ v9'[p].pc = "lane"
        /\ v9'[p].lane = v9[p].lane /\ v9'[p].moved = v9[p].moved
        /\ \A q \in Prepare(b)!Prepares \ {p} : v9'[q] = v9[q]
    BY <1>3, PrepareGone DEF PrepareInv, PreparePcs
  <2>2. v11 = {} /\ v11' = {p} /\ ~Prepare(b)!Prepared /\ \A q \in Prepare(b)!Prepares :
          ~Prepare(b)!Begun(q)
    BY <1>3 DEF PrepareInv, Prepare!MakerInv, Prepare!Begun
  <2>3. PrepareOwn(b, p) /\ v9[p].lane = 1
    BY <1>1 DEF PrepareInv, Prepare!PrepareInv, PrepareOwn, Prepare!LaneInv
  <2>4. Prepare(b)!A' = Prepare(b)!A /\ Prepare(b)!LastLane' = Prepare(b)!LastLane
          /\ Prepare(b)!LastLane \in 1..b.lanes
    BY <1>1, PrepareFixedKept, PrepareTheAdapter DEF PrepareInv
  <2>5. Prepare(b)!Finished(p)' = {}
    BY <2>1, <2>3 DEF Prepare!Finished
  <2>6. PrepareOwn(b, p)'
    BY <1>1, <2>1, <2>3, <2>4, <2>5 DEF PrepareOwn, Prepare!LaneInv, Prepare!ValueInv,
       Prepare!HostInv, Prepare!DetectInv, Prepare!Working
  <2>7. Prepare(b)!MakerInv'
    <3>1. ~Prepare(b)!Prepared'
      BY <1>1, <2>2 DEF Prepare!Prepared
    <3>2. \A q \in Prepare(b)!Prepares : v9'[q].pc # "done"
      BY <2>1, <2>2 DEF Prepare!Begun
    <3>3. \A q \in Prepare(b)!Prepares : Prepare(b)!Begun(q)' => q = p
      BY <2>1, <2>2 DEF Prepare!Begun
    <3> QED BY <1>3, <2>2, <3>1, <3>2, <3>3 DEF Prepare!MakerInv
  <2>8. Prepare(b)!ArchiveInv'
    BY <1>1, PrepareFixedKept DEF PrepareInv, Prepare!ArchiveInv
  <2> QED BY <1>1, <1>3, <2>1, <2>2, <2>6, <2>7, <2>8, PreparePrepareKept DEF PrepareInv,
             Prepare!TypeOK
<1> QED BY <1>2, <1>3 DEF Prepare!MakeDir

\* A step of the one at work that leaves experiment.json and the directory.
LEMMA PrepareLaneKept ==
  ASSUME NEW b \in RunBounds,
         PrepareInv(b), NEW p \in Prepare(b)!Prepares, v9[p].pc \in {"lane", "step", "assets"},
         NEW new \in Prepare(b)!PrepStates, Prepare(b)!Set(p, new),
              new.pc \in {"lane", "step", "assets", "write"},
         UNCHANGED <<v1, v2, v3, v4, v5, v6, v8, v10, v11, v12>>,
         v7' \in [1..b.lanes -> Prepare(b)!LaneStates], Prepare(b)!ArchiveInv', PrepareOwn(b, p)'
  PROVE  PrepareInv(b)'
<1>1. /\ v9' \in [Prepare(b)!Prepares -> Prepare(b)!PrepStates] /\ v9'[p] = new
      /\ \A q \in Prepare(b)!Prepares \ {p} : v9'[q] = v9[q]
  BY PreparePut DEF PrepareInv
<1>2. p \in v11 /\ ~Prepare(b)!Prepared /\ \A q \in Prepare(b)!Prepares \ {p} :
        ~Prepare(b)!Begun(q)
  BY PrepareNotYet
<1>3. Prepare(b)!MakerInv'
  <2>1. Prepare(b)!Prepared' <=> Prepare(b)!Prepared
    BY DEF Prepare!Prepared
  <2>2. \A q \in Prepare(b)!Prepares : v9'[q].pc = "done" <=> v9[q].pc = "done"
    BY <1>1
  <2>3. \A q \in Prepare(b)!Prepares : Prepare(b)!Begun(q)' => Prepare(b)!Begun(q)
    BY <1>1 DEF Prepare!Begun
  <2> QED BY <2>1, <2>2, <2>3 DEF PrepareInv, Prepare!MakerInv
<1> QED BY <1>1, <1>2, <1>3, PreparePrepareKept DEF PrepareInv, Prepare!TypeOK

LEMMA PrepareBeginLaneInv ==
  ASSUME NEW b \in RunBounds,
         PrepareInv(b), NEW p \in Prepare(b)!Prepares, Prepare(b)!BeginLane(p)
  PROVE  PrepareInv(b)'
<1>1. /\ v9[p].pc = "lane"
      /\ UNCHANGED <<v1, v2, v3, v4, v5, v6, v8, v10, v11, v12>>
  BY DEF Prepare!BeginLane, Prepare!Fixed
<1>2. CASE Prepare(b)!Go(p, "raised") /\ UNCHANGED v7
  BY <1>1, <1>2, PrepareStopInv DEF Prepare!Working
<1>3. CASE /\ v7' = [v7 EXCEPT ![v9[p].lane].begun = TRUE]
           /\ Prepare(b)!Set(p, [v9[p] EXCEPT !.pc = "step", !.step = 1])
  <2> DEFINE new == [v9[p] EXCEPT !.pc = "step", !.step = 1]
             one == [v7[v9[p].lane] EXCEPT !.begun = TRUE]
  <2>1. v9[p] \in Prepare(b)!PrepStates /\ PrepareOwn(b, p)
          /\ v7 \in [1..b.lanes -> Prepare(b)!LaneStates]
    BY DEF PrepareInv, Prepare!TypeOK, Prepare!PrepareInv, PrepareOwn
  <2>2. /\ new \in Prepare(b)!PrepStates /\ new.pc = "step" /\ new.lane = v9[p].lane
             /\ new.step = 1
        /\ new.moved = v9[p].moved
    <3>1. v9[p] \in [pc : PreparePcs(b), lane : 1..(b.lanes + 1), step : 1..4, moved : BOOLEAN]
      BY <2>1 DEF Prepare!PrepStates, PreparePcs
    <3>2. 1 \in 1..4 /\ "step" \in PreparePcs(b)
      BY DEF PreparePcs
    <3>3. new \in [pc : PreparePcs(b), lane : 1..(b.lanes + 1), step : 1..4, moved : BOOLEAN]
      BY ONLY <3>1, <3>2
    <3>4. /\ new.pc = "step" /\ new.lane = v9[p].lane /\ new.step = 1
          /\ new.moved = v9[p].moved
      BY <3>1
    <3> QED BY <3>3, <3>4 DEF Prepare!PrepStates, PreparePcs
  <2>3. Prepare(b)!A' = Prepare(b)!A /\ Prepare(b)!LastLane' = Prepare(b)!LastLane
          /\ Prepare(b)!LastLane \in 1..b.lanes
    BY <1>1, PrepareFixedKept, PrepareTheAdapter DEF PrepareInv
  <2>4. v9[p].lane \in 1..b.lanes
    <3>1. v9[p].lane <= Prepare(b)!LastLane /\ v9[p].lane \in 1..(b.lanes + 1)
      BY <1>1, <2>1 DEF PrepareOwn, Prepare!LaneInv, Prepare!PrepStates
    <3> QED BY <2>3, <3>1, PrepareBounded
  <2>5. one \in Prepare(b)!LaneStates /\ one.copied = v7[v9[p].lane].copied
    BY <2>1, <2>4 DEF Prepare!LaneStates
  <2>6. v7' = [v7 EXCEPT ![v9[p].lane] = one] /\ Prepare(b)!Set(p, new)
    BY <1>3
  <2> HIDE DEF new, one
  <2>7. /\ v7' \in [1..b.lanes -> Prepare(b)!LaneStates]
        /\ \A l \in 1..b.lanes : l # v9[p].lane => v7'[l] = v7[l]
        /\ \A l \in 1..b.lanes : v7'[l].copied = v7[l].copied
    BY <2>1, <2>4, <2>5, <2>6
  <2>8. v9'[p] = new
    BY <2>2, <2>6, PreparePut DEF PrepareInv
  <2>9. /\ Prepare(b)!Finished(p)' = Prepare(b)!Finished(p)
             /\ Prepare(b)!Finished(p) = 1..(v9[p].lane - 1)
        /\ \A l \in Prepare(b)!Finished(p) : l \in 1..b.lanes /\ v7'[l] = v7[l]
    <3>1. Prepare(b)!Finished(p) = 1..(v9[p].lane - 1)
            /\ Prepare(b)!Finished(p)' = 1..(v9[p].lane - 1)
      BY <1>1, <2>2, <2>8 DEF Prepare!Finished
    <3>2. \A l \in 1..(v9[p].lane - 1) : l \in 1..b.lanes /\ l # v9[p].lane
      BY <2>4, PrepareBounded
    <3> QED BY <2>7, <3>1, <3>2
  <2>10. Prepare(b)!LaneInv(p)'
    BY <1>1, <2>1, <2>2, <2>3, <2>8, <2>9 DEF PrepareOwn, Prepare!LaneInv, Prepare!Begun
  <2>11. Prepare(b)!ValueInv(p)'
    <3>1. DOMAIN Prepare(b)!A.steps = 1..Len(Prepare(b)!A.steps)
            /\ Len(Prepare(b)!A.steps) \in 1..3
      BY PrepareTheAdapter DEF PrepareInv
    <3>2. \A i \in DOMAIN Prepare(b)!A.steps : ~(i < 1)
      BY <3>1
    <3>3. \A l \in Prepare(b)!Finished(p) : \A i \in DOMAIN Prepare(b)!A.steps :
            Prepare(b)!StepDone(l, i, v4.commit) => Prepare(b)!StepDone(l, i, v4.commit)'
      BY <1>1, <2>3, <2>9 DEF Prepare!StepDone
    <3>4. Prepare(b)!CommitOf(p) = v4.commit /\ Prepare(b)!CommitOf(p)' = v4.commit
      BY <1>1, <2>2, <2>8 DEF Prepare!CommitOf
    <3> QED BY <1>1, <2>1, <2>2, <2>3, <2>8, <2>9, <3>2, <3>3, <3>4 DEF PrepareOwn,
               Prepare!ValueInv, Prepare!Working, Prepare!Begun
  <2>12. Prepare(b)!HostInv(p)' /\ Prepare(b)!DetectInv(p)'
    <3>1. DOMAIN Prepare(b)!A.steps = 1..Len(Prepare(b)!A.steps)
            /\ Len(Prepare(b)!A.steps) \in 1..3
      BY PrepareTheAdapter DEF PrepareInv
    <3>2. \A i \in DOMAIN Prepare(b)!A.steps : ~(i < 1)
      BY <3>1
    <3>3. Prepare(b)!Reads("validate")' <=> Prepare(b)!Reads("validate")
      BY <1>1, PrepareFixedKept
    <3> QED BY <1>1, <2>1, <2>2, <2>3, <2>8, <2>9, <3>2, <3>3 DEF PrepareOwn, Prepare!HostInv,
               Prepare!DetectInv, Prepare!Begun
  <2>13. Prepare(b)!ArchiveInv'
    BY <1>1, <2>7, PrepareFixedKept DEF PrepareInv, Prepare!ArchiveInv
  <2>14. PrepareOwn(b, p)'
    BY <2>10, <2>11, <2>12 DEF PrepareOwn
  <2> QED BY <1>1, <2>2, <2>6, <2>7, <2>13, <2>14, PrepareLaneKept
<1> QED BY <1>2, <1>3 DEF Prepare!BeginLane

\* What a step leaves in a lane.
LEMMA PrepareStepped ==
  ASSUME NEW b \in RunBounds,
         Prepare(b)!TypeOK, NEW what, NEW old \in Prepare(b)!LaneStates
  PROVE  LET x == Prepare(b)!After(what, old) IN
         /\ x \in Prepare(b)!LaneStates /\ x.whole = old.whole /\ x.hosted = old.hosted
         /\ x.copied = (IF what = "files" THEN Prepare(b)!Content
                        ELSE IF what = "archive" THEN Prepare(b)!Copy(v4.commit) ELSE old.copied)
         /\ x.pinned = (IF what = "hash" THEN Prepare(b)!Content ELSE old.pinned)
         /\ x.commit = (IF what = "commit" THEN v4.commit ELSE old.commit)
<1>1. Prepare(b)!Content \in Prepare(b)!Contents /\ v4.commit \in Prepare(b)!Versions
        /\ Prepare(b)!Copy(v4.commit) \in Prepare(b)!Contents
  BY PrepareReading, PrepareSomes
<1>2. CASE what = "files"
  BY <1>1, <1>2 DEF Prepare!After, Prepare!LaneStates
<1>3. CASE what = "archive"
  BY <1>1, <1>3 DEF Prepare!After, Prepare!LaneStates
<1>4. CASE what = "hash"
  BY <1>1, <1>4 DEF Prepare!After, Prepare!LaneStates
<1>5. CASE what = "commit"
  BY <1>1, <1>5 DEF Prepare!After, Prepare!LaneStates
<1>6. CASE what \notin {"files", "archive", "hash", "commit"}
  BY <1>1, <1>6 DEF Prepare!After, Prepare!LaneStates
<1> QED BY <1>2, <1>3, <1>4, <1>5, <1>6

LEMMA PrepareStepInv ==
  ASSUME NEW b \in RunBounds,
         PrepareInv(b), NEW p \in Prepare(b)!Prepares, Prepare(b)!Step(p)
  PROVE  PrepareInv(b)'
<1> DEFINE what == Prepare(b)!A.steps[v9[p].step]
           new == [v9[p] EXCEPT !.step = @ + 1]
<1> SUFFICES ASSUME NEW l, l = v9[p].lane, NEW n, n = v9[p].step
             PROVE  PrepareInv(b)'
  OBVIOUS
<1>1. /\ v9[p].pc = "step" /\ v9[p].step <= Len(Prepare(b)!A.steps)
      /\ UNCHANGED <<v1, v2, v3, v4, v5, v6, v8, v10, v11, v12>>
  BY DEF Prepare!Step, Prepare!Fixed
<1>2. CASE Prepare(b)!Go(p, "raised") /\ UNCHANGED v7
  BY <1>1, <1>2, PrepareStopInv DEF Prepare!Working
<1>3. CASE /\ ~Prepare(b)!Fails(what) /\ v7' = [v7 EXCEPT ![l] = Prepare(b)!After(what, v7[l])]
        /\ Prepare(b)!Set(p, new)
  <2>1. v9[p] \in Prepare(b)!PrepStates /\ PrepareOwn(b, p)
          /\ v7 \in [1..b.lanes -> Prepare(b)!LaneStates]
    BY DEF PrepareInv, Prepare!TypeOK, Prepare!PrepareInv, PrepareOwn
  <2>2. /\ Prepare(b)!A' = Prepare(b)!A /\ Prepare(b)!LastLane' = Prepare(b)!LastLane
             /\ Prepare(b)!LastLane \in 1..b.lanes /\ Len(Prepare(b)!A.steps) \in 1..3
        /\ DOMAIN Prepare(b)!A.steps = 1..Len(Prepare(b)!A.steps)
             /\ (Prepare(b)!Reads("validate")' <=> Prepare(b)!Reads("validate"))
        /\ (Prepare(b)!Reads("archive")' <=> Prepare(b)!Reads("archive"))
    BY <1>1, PrepareFixedKept, PrepareTheAdapter DEF PrepareInv
  <2>3. v9[p].step \in 1..4 /\ v9[p].step + 1 \in 1..4 /\ v9[p].step \in DOMAIN Prepare(b)!A.steps
    <3>1. v9[p].step \in 1..4
      BY <2>1 DEF Prepare!PrepStates
    <3>2. /\ v9[p].step <= Len(Prepare(b)!A.steps) /\ Len(Prepare(b)!A.steps) \in 1..3
          /\ DOMAIN Prepare(b)!A.steps = 1..Len(Prepare(b)!A.steps)
      BY <1>1, <2>2
    <3>4. \A a \in 1..4, m \in 1..3 : a <= m => a + 1 \in 1..4 /\ a \in 1..m
      OBVIOUS
    <3>3. v9[p].step + 1 \in 1..4 /\ v9[p].step \in 1..Len(Prepare(b)!A.steps)
      BY ONLY <3>1, <3>2, <3>4
    <3> QED BY <3>1, <3>2, <3>3
  <2>4. /\ new \in Prepare(b)!PrepStates /\ new.pc = "step" /\ new.lane = l
             /\ new.step = v9[p].step + 1
        /\ new.moved = v9[p].moved
    BY <1>1, <2>1, <2>3 DEF Prepare!PrepStates
  <2>5. l \in 1..b.lanes
    <3>1. v9[p].lane <= Prepare(b)!LastLane /\ v9[p].lane \in 1..(b.lanes + 1)
      BY <1>1, <2>1 DEF PrepareOwn, Prepare!LaneInv, Prepare!PrepStates
    <3> QED BY <2>2, <3>1, PrepareBounded
  <2> DEFINE x == Prepare(b)!After(what, v7[l])
  <2>6. /\ x \in Prepare(b)!LaneStates /\ x.whole = v7[l].whole /\ x.hosted = v7[l].hosted
        /\ x.copied = (IF what = "files" THEN Prepare(b)!Content
                       ELSE IF what = "archive" THEN Prepare(b)!Copy(v4.commit) ELSE v7[l].copied)
        /\ x.pinned = (IF what = "hash" THEN Prepare(b)!Content ELSE v7[l].pinned)
        /\ x.commit = (IF what = "commit" THEN v4.commit ELSE v7[l].commit)
    BY <2>1, <2>5, PrepareStepped DEF PrepareInv
  <2>7. v7' = [v7 EXCEPT ![l] = x] /\ Prepare(b)!Set(p, new)
    BY <1>3
  <2> HIDE DEF new, x
  <2>8. /\ v7' \in [1..b.lanes -> Prepare(b)!LaneStates] /\ v7'[l] = x
        /\ \A k \in 1..b.lanes : k # l => v7'[k] = v7[k]
    BY <2>1, <2>5, <2>6, <2>7
  <2>9. v9'[p] = new
    BY <2>4, <2>7, PreparePut DEF PrepareInv
  <2>10. /\ Prepare(b)!Finished(p)' = Prepare(b)!Finished(p)
              /\ Prepare(b)!Finished(p) = 1..(l - 1)
         /\ \A k \in Prepare(b)!Finished(p) : k \in 1..b.lanes /\ v7'[k] = v7[k]
    <3>1. Prepare(b)!Finished(p) = 1..(l - 1) /\ Prepare(b)!Finished(p)' = 1..(l - 1)
      BY <1>1, <2>4, <2>9 DEF Prepare!Finished
    <3>2. \A k \in 1..(l - 1) : k \in 1..b.lanes /\ k # l
      BY <2>5, PrepareBounded
    <3> QED BY <2>8, <3>1, <3>2
  <2>11. Prepare(b)!LaneInv(p)'
    BY <1>1, <2>1, <2>2, <2>4, <2>9, <2>10 DEF PrepareOwn, Prepare!LaneInv, Prepare!Begun
  <2>12. Prepare(b)!ValueInv(p)'
    <3> SUFFICES ASSUME ~v9[p].moved, Prepare(b)!A.managed
                 PROVE  /\ ~v4.dirty
                        /\ \A k \in Prepare(b)!Finished(p) : \A i \in DOMAIN Prepare(b)!A.steps :
                             Prepare(b)!StepDone(k, i, v4.commit)'
                        /\ \A i \in DOMAIN Prepare(b)!A.steps :
                             i < v9[p].step + 1 => Prepare(b)!StepDone(l, i, v4.commit)'
      BY <1>1, <2>2, <2>4, <2>9, <2>10 DEF Prepare!ValueInv, Prepare!CommitOf
    <3>1. /\ ~v4.dirty
          /\ \A k \in Prepare(b)!Finished(p) : \A i \in DOMAIN Prepare(b)!A.steps :
               Prepare(b)!StepDone(k, i, v4.commit)
          /\ \A i \in DOMAIN Prepare(b)!A.steps : i < v9[p].step =>
               Prepare(b)!StepDone(l, i, v4.commit)
      BY <1>1, <2>1 DEF PrepareOwn, Prepare!ValueInv, Prepare!Working, Prepare!Begun,
         Prepare!CommitOf
    <3>2. Prepare(b)!Content = Prepare(b)!Copy(v4.commit)
      BY <3>1, PrepareReading DEF PrepareInv
    <3>3. \A k \in Prepare(b)!Finished(p) : \A i \in DOMAIN Prepare(b)!A.steps :
            Prepare(b)!StepDone(k, i, v4.commit)'
      BY <1>1, <2>2, <2>10, <3>1 DEF Prepare!StepDone
    <3>4. \A i \in DOMAIN Prepare(b)!A.steps : Prepare(b)!StepDone(l, i, v4.commit) =>
            Prepare(b)!StepDone(l, i, v4.commit)'
      BY <1>1, <2>2, <2>6, <2>8, <3>2 DEF Prepare!StepDone
    <3>5. Prepare(b)!StepDone(l, n, v4.commit)'
      BY <1>1, <2>2, <2>6, <2>8, <3>2 DEF Prepare!StepDone
    <3>6. \A i \in DOMAIN Prepare(b)!A.steps : i < v9[p].step + 1 => i < v9[p].step
            \/ i = v9[p].step
      BY <2>2, <2>3
    <3>7. n = v9[p].step
      OBVIOUS
    <3> QED BY <3>1, <3>3, <3>4, <3>5, <3>6, <3>7
  <2>13. Prepare(b)!HostInv(p)'
    BY <2>4, <2>9 DEF Prepare!HostInv
  <2>14. Prepare(b)!DetectInv(p)'
    <3> SUFFICES ASSUME ~v9[p].moved, Prepare(b)!Reads("validate")
                 PROVE  /\ \A k \in Prepare(b)!Finished(p) : v7'[k].copied = Prepare(b)!Clean0
                        /\ v4.commit = 0 /\ ~v4.dirty
                        /\ \A i \in DOMAIN Prepare(b)!A.steps :
                             i < v9[p].step + 1 /\ Prepare(b)!A.steps[i] = "files" =>
                               v7'[l].copied = Prepare(b)!Clean0
      BY <1>1, <2>2, <2>4, <2>9, <2>10 DEF Prepare!DetectInv
    <3>1. /\ \A k \in Prepare(b)!Finished(p) : v7[k].copied = Prepare(b)!Clean0
          /\ v9[p].step > 1 => v4.commit = 0 /\ ~v4.dirty
          /\ \A i \in DOMAIN Prepare(b)!A.steps :
               i < v9[p].step /\ Prepare(b)!A.steps[i] = "files" =>
                    v7[l].copied = Prepare(b)!Clean0
      BY <1>1, <2>1 DEF PrepareOwn, Prepare!DetectInv, Prepare!Begun
    <3>2. Prepare(b)!A.steps[1] = "validate" /\ what # "archive"
      BY <2>3, PrepareTheAdapter DEF PrepareInv
    <3>3. v4.commit = 0 /\ ~v4.dirty
      <4>1. CASE v9[p].step > 1
        BY <3>1, <4>1
      <4>2. CASE v9[p].step = 1
        BY <1>3, <3>2, <4>2 DEF Prepare!Fails
      <4> QED BY <2>3, <4>1, <4>2
    <3>4. Prepare(b)!Content = Prepare(b)!Clean0
      BY <3>3, PrepareReading, PrepareSomes DEF PrepareInv
    <3>5. \A i \in DOMAIN Prepare(b)!A.steps :
            i < v9[p].step + 1 /\ Prepare(b)!A.steps[i] = "files" =>
                 v7'[l].copied = Prepare(b)!Clean0
      <4>1. \A i \in DOMAIN Prepare(b)!A.steps : i < v9[p].step + 1 => i < v9[p].step
              \/ i = v9[p].step
        BY <2>2, <2>3
      <4> QED BY <2>6, <2>8, <3>1, <3>2, <3>4, <4>1
    <3> QED BY <2>10, <3>1, <3>3, <3>5
  <2>15. Prepare(b)!ArchiveInv'
    <3> SUFFICES ASSUME Prepare(b)!Reads("archive"), NEW k \in 1..b.lanes
          PROVE ~v7'[k].copied.dirty
      BY <2>2 DEF Prepare!ArchiveInv
    <3>1. ~v7[k].copied.dirty
      BY DEF PrepareInv, Prepare!ArchiveInv
    <3>2. what # "files"
      BY <2>3, PrepareTheAdapter DEF PrepareInv
    <3>3. Prepare(b)!Copy(v4.commit).dirty = FALSE
      BY PrepareSomes, PrepareReading DEF PrepareInv
    <3> QED BY <2>6, <2>8, <3>1, <3>2, <3>3
  <2>16. PrepareOwn(b, p)'
    BY <2>11, <2>12, <2>13, <2>14 DEF PrepareOwn
  <2> QED BY <1>1, <2>4, <2>7, <2>8, <2>15, <2>16, PrepareLaneKept
<1> QED BY <1>2, <1>3 DEF Prepare!Step

LEMMA PrepareEndLaneInv ==
  ASSUME NEW b \in RunBounds,
         PrepareInv(b), NEW p \in Prepare(b)!Prepares, Prepare(b)!EndLane(p)
  PROVE  PrepareInv(b)'
<1> DEFINE l == v9[p].lane
           to == IF v9[p].lane < Prepare(b)!LastLane THEN "lane"
                 ELSE IF v2 = "goal-plus" THEN "assets" ELSE "write"
           new == [v9[p] EXCEPT !.lane = @ + 1, !.pc = to]
           x == [v7[l] EXCEPT !.whole = TRUE]
<1>1. /\ v9[p].pc = "step" /\ v9[p].step > Len(Prepare(b)!A.steps)
      /\ UNCHANGED <<v1, v2, v3, v4, v5, v6, v8, v10, v11, v12>>
  BY DEF Prepare!EndLane, Prepare!Fixed
<1>2. v9[p] \in Prepare(b)!PrepStates /\ PrepareOwn(b, p)
        /\ v7 \in [1..b.lanes -> Prepare(b)!LaneStates]
  BY DEF PrepareInv, Prepare!TypeOK, Prepare!PrepareInv, PrepareOwn
<1>3. /\ Prepare(b)!A' = Prepare(b)!A /\ Prepare(b)!LastLane' = Prepare(b)!LastLane
           /\ Prepare(b)!LastLane \in 1..b.lanes /\ Len(Prepare(b)!A.steps) \in 1..3
      /\ DOMAIN Prepare(b)!A.steps = 1..Len(Prepare(b)!A.steps)
           /\ (Prepare(b)!Reads("validate")' <=> Prepare(b)!Reads("validate"))
      /\ (Prepare(b)!Reads("archive")' <=> Prepare(b)!Reads("archive"))
  BY <1>1, PrepareFixedKept, PrepareTheAdapter DEF PrepareInv
<1>4. l \in 1..Prepare(b)!LastLane /\ l \in 1..b.lanes /\ l + 1 \in 1..(b.lanes + 1)
  <2>1. v9[p].lane <= Prepare(b)!LastLane /\ v9[p].lane \in 1..(b.lanes + 1)
    BY <1>1, <1>2 DEF PrepareOwn, Prepare!LaneInv, Prepare!PrepStates
  <2> QED BY <1>3, <2>1, PrepareBounded
<1>5. to \in {"lane", "assets", "write"} /\ (to = "lane" <=> l < Prepare(b)!LastLane)
      /\ (to = "write" => v2 # "goal-plus")
  OBVIOUS
<1>6. v7' = [v7 EXCEPT ![l] = x] /\ Prepare(b)!Set(p, new)
  BY DEF Prepare!EndLane
<1> HIDE DEF to
<1>7. /\ new \in Prepare(b)!PrepStates /\ new.pc = to /\ new.lane = l + 1
           /\ new.moved = v9[p].moved
  <2>1. v9[p] \in [pc : PreparePcs(b), lane : 1..(b.lanes + 1), step : 1..4, moved : BOOLEAN]
    BY <1>2 DEF Prepare!PrepStates, PreparePcs
  <2>2. to \in PreparePcs(b)
    BY <1>5 DEF PreparePcs
  <2>3. new \in [pc : PreparePcs(b), lane : 1..(b.lanes + 1), step : 1..4, moved : BOOLEAN]
    BY <1>4, <2>1, <2>2
  <2>4. new.pc = to /\ new.lane = l + 1 /\ new.moved = v9[p].moved
    BY <2>1
  <2> QED BY <2>3, <2>4 DEF Prepare!PrepStates, PreparePcs
<1>8. /\ x \in Prepare(b)!LaneStates /\ x.whole /\ x.hosted = v7[l].hosted
           /\ x.copied = v7[l].copied
      /\ x.pinned = v7[l].pinned /\ x.commit = v7[l].commit
  BY <1>2, <1>4 DEF Prepare!LaneStates
<1> HIDE DEF new, x
<1>9. /\ v7' \in [1..b.lanes -> Prepare(b)!LaneStates] /\ v7'[l] = x
      /\ \A k \in 1..b.lanes : k # l => v7'[k] = v7[k]
  BY <1>2, <1>4, <1>6, <1>8
<1>10. v9'[p] = new
  BY <1>6, <1>7, PreparePut DEF PrepareInv
<1>11. /\ Prepare(b)!Finished(p) = 1..(l - 1) /\ Prepare(b)!Finished(p)' = 1..l
       /\ \A k \in 1..l : k \in 1..b.lanes /\ (k = l \/ k \in Prepare(b)!Finished(p))
  <2>1. Prepare(b)!Finished(p) = 1..(l - 1)
    BY <1>1 DEF Prepare!Finished
  <2>2. l < Prepare(b)!LastLane \/ l = Prepare(b)!LastLane
    BY <1>3, <1>4
  <2>3. v9'[p].lane - 1 = l
    BY <1>4, <1>7, <1>10
  <2>4. Prepare(b)!Finished(p)' = 1..l
    <3>1. CASE l < Prepare(b)!LastLane
      BY <1>5, <1>7, <1>10, <2>3, <3>1 DEF Prepare!Finished
    <3>2. CASE l = Prepare(b)!LastLane
      <4>1. to # "lane"
        BY <1>3, <1>4, <1>5, <3>2
      <4> QED BY <1>3, <1>5, <1>7, <1>10, <3>2, <4>1 DEF Prepare!Finished
    <3> QED BY <2>2, <3>1, <3>2
  <2>5. \A k \in 1..l : k \in 1..b.lanes /\ (k = l \/ k \in 1..(l - 1))
    BY <1>4, PrepareBounded
  <2> QED BY <2>1, <2>4, <2>5
<1>12. \A k \in 1..b.lanes : v7'[k].copied = v7[k].copied /\ v7'[k].pinned = v7[k].pinned
                           /\ v7'[k].commit = v7[k].commit
  BY <1>4, <1>8, <1>9
<1>13. Prepare(b)!Begun(p) /\ Prepare(b)!Begun(p)'
  BY <1>1, <1>5, <1>7, <1>10 DEF Prepare!Begun
<1>14. Prepare(b)!LaneInv(p)'
  <2>1. \A k \in 1..l : v7'[k].whole
    BY <1>2, <1>4, <1>8, <1>9, <1>11, <1>13 DEF PrepareOwn, Prepare!LaneInv
  <2>2. to = "lane" => l + 1 <= Prepare(b)!LastLane
    BY <1>3, <1>4, <1>5
  <2> QED BY <1>3, <1>5, <1>7, <1>10, <1>11, <2>1, <2>2 DEF Prepare!LaneInv
<1>15. \A i \in DOMAIN Prepare(b)!A.steps : i < v9[p].step
  BY <1>1, <1>2, <1>3 DEF Prepare!PrepStates
<1>16. Prepare(b)!ValueInv(p)'
  <2> SUFFICES ASSUME ~v9[p].moved, Prepare(b)!A.managed
               PROVE  /\ ~v4.dirty
                      /\ \A k \in 1..l : \A i \in DOMAIN Prepare(b)!A.steps :
                           Prepare(b)!StepDone(k, i, v4.commit)'
    BY <1>1, <1>3, <1>5, <1>7, <1>10, <1>11 DEF Prepare!ValueInv, Prepare!CommitOf
  <2>1. /\ ~v4.dirty
        /\ \A k \in Prepare(b)!Finished(p) : \A i \in DOMAIN Prepare(b)!A.steps :
             Prepare(b)!StepDone(k, i, v4.commit)
        /\ \A i \in DOMAIN Prepare(b)!A.steps : i < v9[p].step =>
             Prepare(b)!StepDone(l, i, v4.commit)
    BY <1>1, <1>2 DEF PrepareOwn, Prepare!ValueInv, Prepare!Working, Prepare!Begun,
       Prepare!CommitOf
  <2>2. \A k \in 1..l : \A i \in DOMAIN Prepare(b)!A.steps : Prepare(b)!StepDone(k, i, v4.commit)
    BY <1>11, <1>15, <2>1
  <2>3. \A k \in 1..l : \A i \in DOMAIN Prepare(b)!A.steps :
          Prepare(b)!StepDone(k, i, v4.commit) => Prepare(b)!StepDone(k, i, v4.commit)'
    BY <1>1, <1>3, <1>11, <1>12 DEF Prepare!StepDone
  <2> QED BY <2>1, <2>2, <2>3
<1>17. Prepare(b)!HostInv(p)'
  BY <1>1, <1>5, <1>7, <1>10 DEF Prepare!HostInv
<1>18. Prepare(b)!DetectInv(p)'
  <2> SUFFICES ASSUME ~v9[p].moved, Prepare(b)!Reads("validate")
               PROVE  \A k \in 1..l : v7'[k].copied = Prepare(b)!Clean0
    BY <1>3, <1>5, <1>7, <1>10, <1>11 DEF Prepare!DetectInv
  <2>1. /\ \A k \in Prepare(b)!Finished(p) : v7[k].copied = Prepare(b)!Clean0
        /\ \A i \in DOMAIN Prepare(b)!A.steps :
             i < v9[p].step /\ Prepare(b)!A.steps[i] = "files" => v7[l].copied = Prepare(b)!Clean0
    BY <1>1, <1>2 DEF PrepareOwn, Prepare!DetectInv, Prepare!Begun
  <2>2. PICK i \in DOMAIN Prepare(b)!A.steps : Prepare(b)!A.steps[i] = "files"
    BY PrepareTheAdapter DEF PrepareInv, Prepare!Reads
  <2> QED BY <1>11, <1>12, <1>15, <2>1, <2>2
<1>19. Prepare(b)!ArchiveInv'
  BY <1>3, <1>12 DEF PrepareInv, Prepare!ArchiveInv
<1>20. PrepareOwn(b, p)'
  BY <1>14, <1>16, <1>17, <1>18 DEF PrepareOwn
<1> QED BY <1>1, <1>5, <1>6, <1>7, <1>9, <1>19, <1>20, PrepareLaneKept

LEMMA PrepareInstallAssetsInv ==
  ASSUME NEW b \in RunBounds,
         PrepareInv(b), NEW p \in Prepare(b)!Prepares, Prepare(b)!InstallAssets(p)
  PROVE  PrepareInv(b)'
<1>1. /\ v9[p].pc = "assets"
      /\ UNCHANGED <<v1, v2, v3, v4, v5, v6, v8, v10, v11, v12>>
  BY DEF Prepare!InstallAssets, Prepare!Fixed
<1>2. CASE Prepare(b)!Go(p, "raised") /\ UNCHANGED v7
  BY <1>1, <1>2, PrepareStopInv DEF Prepare!Working
<1>3. CASE v7' = [v7 EXCEPT ![1].hosted = v5] /\ Prepare(b)!Go(p, "write")
  <2> DEFINE new == [v9[p] EXCEPT !.pc = "write"]
             x == [v7[1] EXCEPT !.hosted = v5]
  <2>1. v9[p] \in Prepare(b)!PrepStates /\ PrepareOwn(b, p)
          /\ v7 \in [1..b.lanes -> Prepare(b)!LaneStates] /\ v5 \in Prepare(b)!Versions
    BY DEF PrepareInv, Prepare!TypeOK, Prepare!PrepareInv, PrepareOwn
  <2>2. /\ Prepare(b)!A' = Prepare(b)!A /\ Prepare(b)!LastLane' = Prepare(b)!LastLane
             /\ Prepare(b)!LastLane \in 1..b.lanes
        /\ (Prepare(b)!Reads("validate")' <=> Prepare(b)!Reads("validate"))
             /\ (Prepare(b)!Reads("archive")' <=> Prepare(b)!Reads("archive"))
    BY <1>1, PrepareFixedKept, PrepareTheAdapter DEF PrepareInv
  <2>3. 1 \in 1..b.lanes
    BY PrepareBounded
  <2>4. /\ x \in Prepare(b)!LaneStates /\ x.whole = v7[1].whole /\ x.hosted = v5
        /\ x.copied = v7[1].copied /\ x.pinned = v7[1].pinned /\ x.commit = v7[1].commit
    BY <2>1, <2>3 DEF Prepare!LaneStates
  <2>5. /\ new \in Prepare(b)!PrepStates /\ new.pc = "write" /\ new.moved = v9[p].moved
    BY <2>1 DEF Prepare!PrepStates
  <2>6. v7' = [v7 EXCEPT ![1] = x] /\ Prepare(b)!Set(p, new)
    BY <1>3 DEF Prepare!Go
  <2> HIDE DEF new, x
  <2>7. /\ v7' \in [1..b.lanes -> Prepare(b)!LaneStates] /\ v7'[1].hosted = v5
        /\ \A k \in 1..b.lanes :
             /\ v7'[k].whole = v7[k].whole /\ v7'[k].copied = v7[k].copied
             /\ v7'[k].pinned = v7[k].pinned /\ v7'[k].commit = v7[k].commit
    BY <2>1, <2>3, <2>4, <2>6
  <2>8. v9'[p] = new
    BY <2>5, <2>6, PreparePut DEF PrepareInv
  <2>9. /\ Prepare(b)!Finished(p) = 1..Prepare(b)!LastLane
             /\ Prepare(b)!Finished(p)' = 1..Prepare(b)!LastLane
        /\ \A k \in 1..Prepare(b)!LastLane : k \in 1..b.lanes
    <3>1. Prepare(b)!Finished(p) = 1..Prepare(b)!LastLane
            /\ Prepare(b)!Finished(p)' = 1..Prepare(b)!LastLane
      BY <1>1, <2>2, <2>5, <2>8 DEF Prepare!Finished
    <3>2. \A k \in 1..Prepare(b)!LastLane : k \in 1..b.lanes
      BY <2>2, PrepareBounded
    <3> QED BY <3>1, <3>2
  <2>10. Prepare(b)!LaneInv(p)'
    BY <1>1, <2>1, <2>5, <2>7, <2>8, <2>9 DEF PrepareOwn, Prepare!LaneInv, Prepare!Begun
  <2>11. Prepare(b)!ValueInv(p)'
    <3> SUFFICES ASSUME ~v9[p].moved, Prepare(b)!A.managed
                 PROVE  /\ ~v4.dirty
                        /\ \A k \in 1..Prepare(b)!LastLane : \A i \in DOMAIN Prepare(b)!A.steps :
                             Prepare(b)!StepDone(k, i, v4.commit)'
      BY <1>1, <2>2, <2>5, <2>8, <2>9 DEF Prepare!ValueInv, Prepare!CommitOf
    <3>1. /\ ~v4.dirty
          /\ \A k \in Prepare(b)!Finished(p) : \A i \in DOMAIN Prepare(b)!A.steps :
               Prepare(b)!StepDone(k, i, v4.commit)
      BY <1>1, <2>1 DEF PrepareOwn, Prepare!ValueInv, Prepare!Working, Prepare!Begun,
         Prepare!CommitOf
    <3>2. \A k \in 1..Prepare(b)!LastLane : \A i \in DOMAIN Prepare(b)!A.steps :
            Prepare(b)!StepDone(k, i, v4.commit) => Prepare(b)!StepDone(k, i, v4.commit)'
      BY <1>1, <2>2, <2>7, <2>9 DEF Prepare!StepDone
    <3> QED BY <2>9, <3>1, <3>2
  <2>12. Prepare(b)!HostInv(p)'
    BY <1>1, <2>5, <2>7, <2>8 DEF Prepare!HostInv
  <2>13. Prepare(b)!DetectInv(p)'
    BY <1>1, <2>1, <2>2, <2>5, <2>7, <2>8, <2>9 DEF PrepareOwn, Prepare!DetectInv, Prepare!Begun
  <2>14. Prepare(b)!ArchiveInv'
    BY <2>2, <2>7 DEF PrepareInv, Prepare!ArchiveInv
  <2>15. PrepareOwn(b, p)'
    BY <2>10, <2>11, <2>12, <2>13 DEF PrepareOwn
  <2> QED BY <1>1, <2>5, <2>6, <2>7, <2>14, <2>15, PrepareLaneKept
<1> QED BY <1>2, <1>3 DEF Prepare!InstallAssets

LEMMA PrepareWriteManifestInv ==
  ASSUME NEW b \in RunBounds,
         PrepareInv(b), NEW p \in Prepare(b)!Prepares, Prepare(b)!WriteManifest(p)
  PROVE  PrepareInv(b)'
<1>1. /\ v9[p].pc = "write" /\ Prepare(b)!Go(p, "done")
      /\ UNCHANGED <<v1, v2, v3, v4, v5, v6, v7, v10, v11, v12>>
  BY DEF Prepare!WriteManifest, Prepare!Fixed
<1>2. /\ v8' \in [status : {"none", "prepared", "running"}, commit : Prepare(b)!Versions, host :
           Prepare(b)!Versions]
      /\ v8'.status = "prepared" /\ v8'.commit = v4.commit /\ v8'.host = v5
  <2>1. v4.commit \in Prepare(b)!Versions /\ v5 \in Prepare(b)!Versions
    BY DEF PrepareInv, Prepare!TypeOK
  <2>2. v8' = [status |-> "prepared", commit |-> v4.commit, host |-> v5]
    BY DEF Prepare!WriteManifest
  <2> QED BY <2>1, <2>2
<1>3. /\ p \in v11 /\ ~Prepare(b)!Prepared /\ v6 = "made" /\ \A q \in Prepare(b)!Prepares \ {p} :
           ~Prepare(b)!Begun(q)
  BY <1>1, PrepareNotYet
<1>4. /\ v9' \in [Prepare(b)!Prepares -> Prepare(b)!PrepStates] /\ v9'[p].pc = "done"
      /\ v9'[p].moved = v9[p].moved
      /\ \A q \in Prepare(b)!Prepares \ {p} : v9'[q] = v9[q]
  BY <1>1, PrepareGone DEF PrepareInv, PreparePcs
<1>5. /\ Prepare(b)!A' = Prepare(b)!A /\ Prepare(b)!LastLane' = Prepare(b)!LastLane
      /\ (Prepare(b)!Reads("validate")' <=> Prepare(b)!Reads("validate"))
           /\ (Prepare(b)!Reads("archive")' <=> Prepare(b)!Reads("archive"))
  BY <1>1, PrepareFixedKept
<1>6. Prepare(b)!MakerInv'
  <2>1. Prepare(b)!Prepared'
    BY <1>2 DEF Prepare!Prepared
  <2>2. \A q \in Prepare(b)!Prepares : Prepare(b)!Begun(q)' => q = p
    BY <1>3, <1>4 DEF Prepare!Begun
  <2> QED BY <1>1, <1>3, <1>4, <2>1, <2>2 DEF PrepareInv, Prepare!MakerInv
<1>7. PrepareOwn(b, p)'
  <2>1. PrepareOwn(b, p) /\ Prepare(b)!Finished(p) = 1..Prepare(b)!LastLane
          /\ Prepare(b)!Finished(p)' = 1..Prepare(b)!LastLane
    BY <1>1, <1>4, <1>5 DEF PrepareInv, Prepare!PrepareInv, PrepareOwn, Prepare!Finished
  <2>2. Prepare(b)!LaneInv(p)'
    BY <1>1, <1>4, <2>1 DEF PrepareOwn, Prepare!LaneInv, Prepare!Begun
  <2>3. Prepare(b)!HostInv(p)'
    BY <1>1, <1>2, <1>4, <2>1 DEF PrepareOwn, Prepare!HostInv
  <2>4. Prepare(b)!DetectInv(p)'
    BY <1>1, <1>4, <1>5, <2>1 DEF PrepareOwn, Prepare!DetectInv, Prepare!Begun
  <2>5. Prepare(b)!ValueInv(p)'
    <3> SUFFICES ASSUME ~v9[p].moved, Prepare(b)!A.managed
                 PROVE  \A k \in 1..Prepare(b)!LastLane : \A i \in DOMAIN Prepare(b)!A.steps :
                          Prepare(b)!StepDone(k, i, v4.commit)'
      BY <1>1, <1>2, <1>4, <1>5, <2>1 DEF Prepare!ValueInv, Prepare!CommitOf, Prepare!Working,
         Prepare!StepDone
    <3>1. \A k \in 1..Prepare(b)!LastLane : \A i \in DOMAIN Prepare(b)!A.steps :
            Prepare(b)!StepDone(k, i, v4.commit)
      BY <1>1, <2>1 DEF PrepareOwn, Prepare!ValueInv, Prepare!Begun, Prepare!CommitOf
    <3> QED BY <1>1, <1>5, <3>1 DEF Prepare!StepDone
  <2> QED BY <2>2, <2>3, <2>4, <2>5 DEF PrepareOwn
<1>8. Prepare(b)!ArchiveInv'
  BY <1>1, <1>5 DEF PrepareInv, Prepare!ArchiveInv
<1> QED BY <1>1, <1>2, <1>3, <1>4, <1>6, <1>7, <1>8, PreparePrepareKept DEF PrepareInv,
           Prepare!TypeOK

-----------------------------------------------------------------------------
LEMMA PrepareMoveInv ==
  ASSUME NEW b \in RunBounds,
         PrepareInv(b), Prepare(b)!Move
  PROVE  PrepareInv(b)'
<1>1. /\ UNCHANGED <<v1, v2, v3, v6, v7, v8, v10, v11>>
      /\ v12 < b.moves /\ v12' = v12 + 1
      /\ v9' = [p \in Prepare(b)!Prepares |-> [v9[p] EXCEPT !.moved = @ \/ Prepare(b)!Working(p)]]
  BY DEF Prepare!Move, Prepare!Fixed
<1>2. v12' \in Prepare(b)!Versions /\ v12 + 1 \in Prepare(b)!Versions
  BY <1>1, PrepareBounded DEF PrepareInv, Prepare!TypeOK, Prepare!Versions
<1>3. /\ v4' \in [commit : Prepare(b)!Versions, dirty : BOOLEAN, branch : {"tracking", "other"}]
      /\ v5' \in Prepare(b)!Versions
  <2>1. /\ v4 \in [commit : Prepare(b)!Versions, dirty : BOOLEAN, branch : {"tracking", "other"}]
        /\ v5 \in Prepare(b)!Versions
    BY DEF PrepareInv, Prepare!TypeOK
  <2>2. CASE v4' = [v4 EXCEPT !.commit = v12 + 1] /\ UNCHANGED v5
    BY <1>2, <2>1, <2>2
  <2>3. CASE v4' = [v4 EXCEPT !.dirty = ~@] /\ UNCHANGED v5
    BY <2>1, <2>3
  <2>4. CASE v4' = [v4 EXCEPT !.branch = "other"] /\ UNCHANGED v5
    BY <2>1, <2>4
  <2>5. CASE v5' = v12 + 1 /\ UNCHANGED v4
    BY <1>2, <2>1, <2>5
  <2> QED BY <2>2, <2>3, <2>4, <2>5 DEF Prepare!Move
<1>4. ASSUME NEW p \in Prepare(b)!Prepares
      PROVE  /\ v9'[p] \in Prepare(b)!PrepStates /\ v9'[p].pc = v9[p].pc
                  /\ v9'[p].lane = v9[p].lane
             /\ v9'[p].step = v9[p].step
                  /\ (~v9'[p].moved => ~v9[p].moved /\ ~Prepare(b)!Working(p))
  <2>1. v9[p] \in Prepare(b)!PrepStates
    BY DEF PrepareInv, Prepare!TypeOK
  <2> DEFINE m == v9[p].moved \/ Prepare(b)!Working(p)
             x == [v9[p] EXCEPT !.moved = m]
  <2>2. v9'[p] = x
    BY <1>1
  <2>3. m \in BOOLEAN
    OBVIOUS
  <2> HIDE DEF m
  <2>4. x \in Prepare(b)!PrepStates /\ x.pc = v9[p].pc /\ x.lane = v9[p].lane
          /\ x.step = v9[p].step
        /\ x.moved = m
    BY <2>1, <2>3 DEF Prepare!PrepStates
  <2> HIDE DEF x
  <2> QED BY <2>2, <2>4 DEF m
<1>5. Prepare(b)!TypeOK'
  <2>1. DOMAIN v9' = Prepare(b)!Prepares /\ v9' = [p \in Prepare(b)!Prepares |-> v9'[p]]
    BY <1>1
  <2>2. v9' \in [Prepare(b)!Prepares -> Prepare(b)!PrepStates]
    BY <1>4, <2>1
  <2> QED BY <1>1, <1>2, <1>3, <2>2 DEF PrepareInv, Prepare!TypeOK
<1>6. Prepare(b)!A' = Prepare(b)!A /\ Prepare(b)!LastLane' = Prepare(b)!LastLane
        /\ (Prepare(b)!Reads("validate")' <=> Prepare(b)!Reads("validate"))
      /\ (Prepare(b)!Reads("archive")' <=> Prepare(b)!Reads("archive"))
  BY <1>1, PrepareFixedKept
<1>7. Prepare(b)!MakerInv'
  <2>1. Prepare(b)!Prepared' <=> Prepare(b)!Prepared
    BY <1>1 DEF Prepare!Prepared
  <2> QED BY <1>1, <1>4, <2>1 DEF PrepareInv, Prepare!MakerInv, Prepare!Begun
<1>8. ASSUME NEW p \in Prepare(b)!Prepares PROVE PrepareOwn(b, p)'
  <2>1. PrepareOwn(b, p) /\ Prepare(b)!Finished(p)' = Prepare(b)!Finished(p)
          /\ (Prepare(b)!Begun(p)' <=> Prepare(b)!Begun(p))
    BY <1>4, <1>6 DEF PrepareInv, Prepare!PrepareInv, PrepareOwn, Prepare!Finished, Prepare!Begun
  <2>2. Prepare(b)!LaneInv(p)'
    BY <1>1, <1>4, <1>6, <2>1 DEF PrepareOwn, Prepare!LaneInv
  <2>3. CASE v9'[p].moved
    BY <2>2, <2>3 DEF PrepareOwn, Prepare!ValueInv, Prepare!HostInv, Prepare!DetectInv
  <2>4. CASE ~v9'[p].moved
    <3>1. ~v9[p].moved /\ ~Prepare(b)!Working(p) /\ ~Prepare(b)!Working(p)'
      BY <1>4, <2>4 DEF Prepare!Working
    <3>2. ~(v9[p].pc \in {"lane", "step", "assets", "write"})
            /\ (Prepare(b)!Begun(p) => v9[p].pc = "done")
      BY <3>1 DEF Prepare!Working, Prepare!Begun
    <3>3. Prepare(b)!HostInv(p)' /\ Prepare(b)!DetectInv(p)'
      BY <1>1, <1>4, <1>6, <2>1, <3>1, <3>2 DEF PrepareOwn, Prepare!HostInv, Prepare!DetectInv
    <3>4. Prepare(b)!ValueInv(p)'
      <4> SUFFICES ASSUME Prepare(b)!A.managed, Prepare(b)!Begun(p)
                   PROVE  \A k \in Prepare(b)!Finished(p) : \A i \in DOMAIN Prepare(b)!A.steps :
                            Prepare(b)!StepDone(k, i, v8.commit)'
        BY <1>1, <1>4, <1>6, <2>1, <3>1, <3>2 DEF Prepare!ValueInv, Prepare!CommitOf,
           Prepare!StepDone
      <4>1. \A k \in Prepare(b)!Finished(p) : \A i \in DOMAIN Prepare(b)!A.steps :
              Prepare(b)!StepDone(k, i, v8.commit)
        BY <2>1, <3>1, <3>2 DEF PrepareOwn, Prepare!ValueInv, Prepare!CommitOf
      <4> QED BY <1>1, <1>6, <4>1 DEF Prepare!StepDone
    <3> QED BY <2>2, <3>3, <3>4 DEF PrepareOwn
  <2> QED BY <2>3, <2>4
<1>9. Prepare(b)!PrepareInv'
  BY <1>8 DEF Prepare!PrepareInv, PrepareOwn
<1>10. Prepare(b)!ArchiveInv'
  BY <1>1, <1>6 DEF PrepareInv, Prepare!ArchiveInv
<1>11. Prepare(b)!RunsInv' /\ Prepare(b)!RunOnce'
  BY <1>1, PrepareRunsKept
<1>12. Prepare(b)!OneMaker'
  BY <1>7, PrepareOneMakerKept
<1> QED BY <1>5, <1>7, <1>9, <1>10, <1>11, <1>12 DEF PrepareInv

LEMMA PrepareRemoveInv ==
  ASSUME NEW b \in RunBounds,
         PrepareInv(b), Prepare(b)!Remove
  PROVE  PrepareInv(b)'
<1>1. /\ v6' = "absent" /\ v7' = [l \in 1..b.lanes |-> Prepare(b)!NoLane] /\ v11' = {}
      /\ \A p \in Prepare(b)!Prepares : ~Prepare(b)!Working(p)
      /\ v8.status = "none"
      /\ UNCHANGED <<v1, v2, v3, v4, v5, v8, v9, v10, v12>>
  BY DEF Prepare!Remove, Prepare!Fixed
<1>2. \A p \in Prepare(b)!Prepares : ~Prepare(b)!Begun(p) /\ v9[p].pc # "done"
  BY <1>1 DEF PrepareInv, Prepare!MakerInv, Prepare!Begun, Prepare!Working, Prepare!Prepared
<1>3. Prepare(b)!TypeOK'
  <2>1. v7' \in [1..b.lanes -> Prepare(b)!LaneStates]
    BY <1>1, PrepareSomes
  <2> QED BY <1>1, <2>1 DEF PrepareInv, Prepare!TypeOK
<1>4. Prepare(b)!MakerInv'
  BY <1>1, <1>2 DEF Prepare!MakerInv, Prepare!Begun, Prepare!Prepared
<1>5. Prepare(b)!PrepareInv'
  <2> SUFFICES ASSUME NEW p \in Prepare(b)!Prepares PROVE PrepareOwn(b, p)'
    BY DEF Prepare!PrepareInv, PrepareOwn
  <2>1. PrepareOwn(b, p) /\ ~Prepare(b)!Begun(p)' /\ ~Prepare(b)!Working(p)' /\ v9'[p] = v9[p]
        /\ v9[p].pc \notin {"lane", "step", "assets", "write", "done"}
    BY <1>1, <1>2 DEF PrepareInv, Prepare!PrepareInv, PrepareOwn, Prepare!Begun, Prepare!Working
  <2> QED BY <2>1 DEF PrepareOwn, Prepare!LaneInv, Prepare!ValueInv, Prepare!HostInv,
             Prepare!DetectInv
<1>6. Prepare(b)!ArchiveInv'
  BY <1>1, PrepareSomes DEF Prepare!ArchiveInv
<1>7. Prepare(b)!RunsInv' /\ Prepare(b)!RunOnce'
  BY <1>1, PrepareRunsKept
<1>8. Prepare(b)!OneMaker'
  BY <1>4, PrepareOneMakerKept
<1> QED BY <1>3, <1>4, <1>5, <1>6, <1>7, <1>8 DEF PrepareInv

-----------------------------------------------------------------------------
\* The runs leave the lanes and the commits of experiment.json alone.
LEMMA PrepareRunKept ==
  ASSUME NEW b \in RunBounds,
         PrepareInv(b), UNCHANGED <<v1, v2, v3, v4, v5, v6, v7, v9, v11, v12>>,
         v8' \in [status : {"none", "prepared", "running"}, commit : Prepare(b)!Versions, host :
              Prepare(b)!Versions],
         v8'.commit = v8.commit, v8'.host = v8.host,
         Prepare(b)!Prepared' <=> Prepare(b)!Prepared,
              v10' \in [Prepare(b)!Runs -> Prepare(b)!RunStates], Prepare(b)!RunsInv',
                   Prepare(b)!RunOnce'
  PROVE  PrepareInv(b)'
<1>1. Prepare(b)!TypeOK'
  BY DEF PrepareInv, Prepare!TypeOK
<1>2. Prepare(b)!A' = Prepare(b)!A /\ Prepare(b)!LastLane' = Prepare(b)!LastLane
        /\ (Prepare(b)!Reads("validate")' <=> Prepare(b)!Reads("validate"))
      /\ (Prepare(b)!Reads("archive")' <=> Prepare(b)!Reads("archive"))
  BY PrepareFixedKept
<1>3. Prepare(b)!MakerInv'
  BY DEF PrepareInv, Prepare!MakerInv, Prepare!Begun
<1>4. ASSUME NEW p \in Prepare(b)!Prepares PROVE PrepareOwn(b, p)'
  <2>1. PrepareOwn(b, p) /\ Prepare(b)!Finished(p)' = Prepare(b)!Finished(p)
          /\ (Prepare(b)!Begun(p)' <=> Prepare(b)!Begun(p))
    BY <1>2 DEF PrepareInv, Prepare!PrepareInv, PrepareOwn, Prepare!Finished, Prepare!Begun
  <2>2. Prepare(b)!LaneInv(p)' /\ Prepare(b)!HostInv(p)'
    BY <1>2, <2>1 DEF PrepareOwn, Prepare!LaneInv, Prepare!HostInv
  <2>3. Prepare(b)!DetectInv(p)'
    BY <1>2, <2>1 DEF PrepareOwn, Prepare!DetectInv
  <2>4. Prepare(b)!CommitOf(p)' = Prepare(b)!CommitOf(p)
          /\ (Prepare(b)!Working(p)' <=> Prepare(b)!Working(p))
    BY DEF Prepare!CommitOf, Prepare!Working
  <2>5. Prepare(b)!ValueInv(p)'
    BY <1>2, <2>1, <2>4 DEF PrepareOwn, Prepare!ValueInv, Prepare!StepDone
  <2> QED BY <2>2, <2>3, <2>5 DEF PrepareOwn
<1>5. Prepare(b)!PrepareInv'
  BY <1>4 DEF Prepare!PrepareInv, PrepareOwn
<1>6. Prepare(b)!ArchiveInv'
  BY <1>2 DEF PrepareInv, Prepare!ArchiveInv
<1>7. Prepare(b)!OneMaker'
  BY <1>3, PrepareOneMakerKept
<1> QED BY <1>1, <1>3, <1>5, <1>6, <1>7 DEF PrepareInv

LEMMA PrepareLoadInv ==
  ASSUME NEW b \in RunBounds,
         PrepareInv(b), NEW r \in Prepare(b)!Runs, Prepare(b)!Load(r) \/ Prepare(b)!LoadFails(r)
              \/ Prepare(b)!KillRun(r)
  PROVE  PrepareInv(b)'
<1>1. UNCHANGED <<v1, v2, v3, v4, v5, v6, v7, v8, v9, v11, v12>>
  BY DEF Prepare!Load, Prepare!LoadFails, Prepare!KillRun, Prepare!Fixed
<1>2. PICK x \in Prepare(b)!RunStates :
        /\ v10' = [v10 EXCEPT ![r] = x]
        /\ \/ x.pc \in {"refused", "killed"}
           \/ x.pc = "start" /\ v8.status = "prepared" /\ (v3 => x.host = v8.host)
  <2>1. v10[r] \in Prepare(b)!RunStates /\ v5 \in Prepare(b)!Versions
    BY DEF PrepareInv, Prepare!TypeOK
  <2>2. CASE Prepare(b)!Load(r) /\ (Prepare(b)!SourceDiffers \/ v8.status # "prepared")
    <3> DEFINE x == [v10[r] EXCEPT !.pc = "refused"]
    <3>1. v10' = [v10 EXCEPT ![r] = x]
      BY <2>2 DEF Prepare!Load
    <3>2. x \in Prepare(b)!RunStates /\ x.pc = "refused"
      BY <2>1 DEF Prepare!RunStates
    <3> HIDE DEF x
    <3> QED BY <3>1, <3>2
  <2>3. CASE Prepare(b)!Load(r) /\ ~Prepare(b)!SourceDiffers /\ v8.status = "prepared"
    <3> DEFINE x == [v10[r] EXCEPT !.pc = "start", !.host = v5]
    <3>1. v10' = [v10 EXCEPT ![r] = x]
      BY <2>3 DEF Prepare!Load
    <3>2. x \in Prepare(b)!RunStates /\ x.pc = "start" /\ x.host = v5
      BY <2>1 DEF Prepare!RunStates
    <3> HIDE DEF x
    <3> QED BY <2>3, <3>1, <3>2 DEF Prepare!SourceDiffers
  <2>4. CASE Prepare(b)!LoadFails(r)
    <3> DEFINE x == [v10[r] EXCEPT !.pc = "refused"]
    <3>1. v10' = [v10 EXCEPT ![r] = x]
      BY <2>4 DEF Prepare!LoadFails
    <3>2. x \in Prepare(b)!RunStates /\ x.pc = "refused"
      BY <2>1 DEF Prepare!RunStates
    <3> HIDE DEF x
    <3> QED BY <3>1, <3>2
  <2>5. CASE Prepare(b)!KillRun(r)
    <3> DEFINE x == [v10[r] EXCEPT !.pc = "killed"]
    <3>1. v10' = [v10 EXCEPT ![r] = x]
      BY <2>5 DEF Prepare!KillRun
    <3>2. x \in Prepare(b)!RunStates /\ x.pc = "killed"
      BY <2>1 DEF Prepare!RunStates
    <3> HIDE DEF x
    <3> QED BY <3>1, <3>2
  <2> QED BY <2>2, <2>3, <2>4, <2>5
<1>3. /\ v10' \in [Prepare(b)!Runs -> Prepare(b)!RunStates] /\ v10'[r] = x
      /\ \A s \in Prepare(b)!Runs \ {r} : v10'[s] = v10[s]
  BY <1>2 DEF PrepareInv, Prepare!TypeOK
<1>4. Prepare(b)!Prepared' <=> Prepare(b)!Prepared
  BY <1>1 DEF Prepare!Prepared
<1>5. x.pc = "start" => \A s \in Prepare(b)!Runs : v10[s].pc # "running"
  BY <1>2 DEF PrepareInv, Prepare!RunsInv, Prepare!RunInv
<1>6. \A s \in Prepare(b)!Runs : v10'[s].pc = "running" => s # r /\ v10[s].pc = "running"
  BY <1>2, <1>3
<1>7. Prepare(b)!RunsInv'
  <2> SUFFICES ASSUME NEW s \in Prepare(b)!Runs PROVE Prepare(b)!RunInv(s)'
    BY DEF Prepare!RunsInv
  <2>1. Prepare(b)!RunInv(s)
    BY DEF PrepareInv, Prepare!RunsInv
  <2>2. CASE s = r
    BY <1>1, <1>2, <1>3, <1>4, <1>5, <1>6, <2>2 DEF Prepare!RunInv, Prepare!Prepared
  <2>3. CASE s # r
    BY <1>1, <1>3, <1>4, <1>6, <2>1, <2>3 DEF Prepare!RunInv
  <2> QED BY <2>2, <2>3
<1>8. Prepare(b)!RunOnce'
  BY <1>3, <1>6 DEF PrepareInv, Prepare!RunOnce
<1>9. v8 \in [status : {"none", "prepared", "running"}, commit : Prepare(b)!Versions, host :
        Prepare(b)!Versions]
  BY DEF PrepareInv, Prepare!TypeOK
<1> QED BY <1>1, <1>3, <1>4, <1>7, <1>8, <1>9, PrepareRunKept

LEMMA PrepareStartRunInv ==
  ASSUME NEW b \in RunBounds,
         PrepareInv(b), NEW r \in Prepare(b)!Runs, Prepare(b)!StartRun(r)
  PROVE  PrepareInv(b)'
<1>1. /\ UNCHANGED <<v1, v2, v3, v4, v5, v6, v7, v9, v11, v12>>
      /\ v10[r].pc = "start" /\ v8' = [v8 EXCEPT !.status = "running"]
      /\ v10' = [s \in Prepare(b)!Runs |-> IF s = r THEN [v10[s] EXCEPT !.pc = "running"]
                                ELSE [v10[s] EXCEPT !.late = @ \/ v10[s].pc = "start"]]
  BY DEF Prepare!StartRun, Prepare!Fixed
<1>2. /\ v8' \in [status : {"none", "prepared", "running"}, commit : Prepare(b)!Versions, host :
           Prepare(b)!Versions]
      /\ v8'.status = "running" /\ v8'.commit = v8.commit
      /\ v8'.host = v8.host
  <2>1. v8 \in [status : {"none", "prepared", "running"}, commit : Prepare(b)!Versions, host :
          Prepare(b)!Versions]
    BY DEF PrepareInv, Prepare!TypeOK
  <2> QED BY <1>1, <2>1
<1>3. Prepare(b)!Prepared /\ Prepare(b)!Prepared'
  <2>1. Prepare(b)!Prepared
    BY <1>1 DEF PrepareInv, Prepare!RunsInv, Prepare!RunInv
  <2> QED BY <1>2, <2>1 DEF Prepare!Prepared
<1>4. v10'[r] \in Prepare(b)!RunStates /\ v10'[r].pc = "running" /\ v10'[r].late = v10[r].late
      /\ v10'[r].host = v10[r].host
  <2>1. v10[r] \in Prepare(b)!RunStates /\ v10'[r] = [v10[r] EXCEPT !.pc = "running"]
    BY <1>1 DEF PrepareInv, Prepare!TypeOK
  <2> QED BY <2>1 DEF Prepare!RunStates
<1>5. ASSUME NEW s \in Prepare(b)!Runs, s # r
      PROVE  /\ v10'[s] \in Prepare(b)!RunStates /\ v10'[s].pc = v10[s].pc
                  /\ v10'[s].host = v10[s].host
             /\ v10'[s].late <=> v10[s].late \/ v10[s].pc = "start"
  <2>1. v10[s] \in Prepare(b)!RunStates
    BY DEF PrepareInv, Prepare!TypeOK
  <2> DEFINE m == v10[s].late \/ v10[s].pc = "start"
             x == [v10[s] EXCEPT !.late = m]
  <2>2. v10'[s] = x
    BY <1>1, <1>5
  <2>3. m \in BOOLEAN
    OBVIOUS
  <2> HIDE DEF m
  <2>4. x \in Prepare(b)!RunStates /\ x.pc = v10[s].pc /\ x.host = v10[s].host /\ x.late = m
    BY <2>1, <2>3 DEF Prepare!RunStates
  <2> HIDE DEF x
  <2> QED BY <2>2, <2>4 DEF m
<1>6. v10' \in [Prepare(b)!Runs -> Prepare(b)!RunStates]
  <2>1. v10' = [s \in Prepare(b)!Runs |-> v10'[s]]
    BY <1>1
  <2> QED BY <1>4, <1>5, <2>1
<1>7. Prepare(b)!RunsInv'
  <2> SUFFICES ASSUME NEW s \in Prepare(b)!Runs PROVE Prepare(b)!RunInv(s)'
    BY DEF Prepare!RunsInv
  <2>1. Prepare(b)!RunInv(s)
    BY DEF PrepareInv, Prepare!RunsInv
  <2>2. CASE s = r
    BY <1>1, <1>2, <1>3, <1>4, <2>1, <2>2 DEF Prepare!RunInv
  <2>3. CASE s # r
    BY <1>1, <1>2, <1>3, <1>5, <2>1, <2>3 DEF Prepare!RunInv
  <2> QED BY <2>2, <2>3
<1>8. Prepare(b)!RunOnce'
  <2> SUFFICES ASSUME NEW s \in Prepare(b)!Runs, NEW t \in Prepare(b)!Runs,
                 v10'[s].pc = "running",
                      v10'[t].pc = "running", s # t
               PROVE  v10'[s].late \/ v10'[t].late
    BY DEF Prepare!RunOnce
  <2>1. Prepare(b)!RunInv(r)
    BY DEF PrepareInv, Prepare!RunsInv
  <2>2. CASE s # r /\ t # r
    BY <1>5, <2>2 DEF PrepareInv, Prepare!RunOnce
  <2>3. CASE s = r
    BY <1>1, <1>4, <1>5, <2>1, <2>3 DEF Prepare!RunInv
  <2>4. CASE t = r
    BY <1>1, <1>4, <1>5, <2>1, <2>4 DEF Prepare!RunInv
  <2> QED BY <2>2, <2>3, <2>4
<1> QED BY <1>1, <1>2, <1>3, <1>6, <1>7, <1>8, PrepareRunKept

-----------------------------------------------------------------------------
LEMMA PrepareNextInv ==
  ASSUME NEW b \in RunBounds,
         PrepareInv(b), Prepare(b)!Next \/ UNCHANGED Prepare(b)!vars
  PROVE  PrepareInv(b)'
<1>1. CASE UNCHANGED Prepare(b)!vars
  <2>1. /\ UNCHANGED <<v1, v2, v3, v4, v5, v6, v7, v9, v11, v12>>
        /\ UNCHANGED <<v8, v10>>
    BY <1>1 DEF Prepare!vars
  <2>2. v8 \in [status : {"none", "prepared", "running"}, commit : Prepare(b)!Versions, host :
          Prepare(b)!Versions]
        /\ v10 \in [Prepare(b)!Runs -> Prepare(b)!RunStates]
    BY DEF PrepareInv, Prepare!TypeOK
  <2>3. Prepare(b)!Prepared' <=> Prepare(b)!Prepared
    BY <2>1 DEF Prepare!Prepared
  <2>4. Prepare(b)!RunsInv' /\ Prepare(b)!RunOnce'
    BY <2>1, PrepareRunsKept
  <2> QED BY <2>1, <2>2, <2>3, <2>4, PrepareRunKept
<1>2. ASSUME NEW p \in Prepare(b)!Prepares, Prepare(b)!KillPrepare(p) PROVE PrepareInv(b)'
  BY <1>2, PrepareStopInv DEF Prepare!KillPrepare, Prepare!Fixed
<1> QED BY <1>1, <1>2, PrepareMoveInv, PrepareRemoveInv, PrepareValidateInv, PrepareMakeDirInv,
           PrepareBeginLaneInv, PrepareStepInv, PrepareEndLaneInv, PrepareInstallAssetsInv,
           PrepareWriteManifestInv, PrepareLoadInv, PrepareStartRunInv DEF Prepare!Next

LEMMA PrepareSound ==
  ASSUME NEW b \in RunBounds
  PROVE  PrepareInv(b) => Prepare(b)!TypeOK /\ Prepare(b)!PreparationIsSound
<1> SUFFICES ASSUME PrepareInv(b) PROVE Prepare(b)!TypeOK /\ Prepare(b)!PreparationIsSound
  OBVIOUS
<1>1. Prepare(b)!LastLane \in 1..b.lanes /\ \A l \in 1..Prepare(b)!LastLane : l \in 1..b.lanes
  BY PrepareTheAdapter, PrepareBounded DEF PrepareInv
<1>2. ASSUME Prepare(b)!Prepared
      PROVE  \E p \in v11 : /\ p \in Prepare(b)!Prepares /\ v9[p].pc = "done"
               /\ Prepare(b)!Begun(p) /\ PrepareOwn(b, p)
                            /\ Prepare(b)!Finished(p) = 1..Prepare(b)!LastLane
                                 /\ Prepare(b)!CommitOf(p) = v8.commit
                            /\ (~Prepare(b)!Moved => ~v9[p].moved)
  <2>1. PICK p \in Prepare(b)!Prepares : v9[p].pc = "done"
    BY <1>2 DEF PrepareInv, Prepare!MakerInv
  <2>2. Prepare(b)!Begun(p) /\ p \in v11
    BY <2>1 DEF PrepareInv, Prepare!MakerInv, Prepare!Begun
  <2> QED BY <2>1, <2>2 DEF PrepareInv, Prepare!PrepareInv, PrepareOwn, Prepare!Finished,
             Prepare!CommitOf, Prepare!Moved
<1>3. Prepare(b)!PreparedIsWhole
  <2>1. Prepare(b)!Prepared => \A l \in 1..Prepare(b)!LastLane : v7[l].whole
    BY <1>2 DEF PrepareOwn, Prepare!LaneInv
  <2>2. \A r \in Prepare(b)!Runs : v10[r].pc = "running" => Prepare(b)!Prepared
    BY DEF PrepareInv, Prepare!RunsInv, Prepare!RunInv
  <2> QED BY <2>1, <2>2 DEF Prepare!PreparedIsWhole
<1>4. Prepare(b)!LanesAlike
  <2> SUFFICES ASSUME Prepare(b)!Prepared, ~Prepare(b)!Moved, Prepare(b)!A.managed,
                 NEW l \in 1..Prepare(b)!LastLane
               PROVE  /\ Prepare(b)!Reads("files") \/ Prepare(b)!Reads("archive") =>
                           v7[l].copied = Prepare(b)!Copy(v8.commit)
                      /\ Prepare(b)!Reads("commit") => v7[l].commit = v8.commit
                      /\ Prepare(b)!Reads("hash") => v7[l].pinned = v7[l].copied
                      /\ v2 = "goal-plus" => v7[l].hosted = v8.host
    BY DEF Prepare!LanesAlike
  <2>1. PICK p \in v11 : /\ v9[p].pc = "done" /\ Prepare(b)!Begun(p) /\ PrepareOwn(b, p)
          /\ ~v9[p].moved
                         /\ Prepare(b)!Finished(p) = 1..Prepare(b)!LastLane
                              /\ Prepare(b)!CommitOf(p) = v8.commit
    BY <1>2
  <2>2. \A i \in DOMAIN Prepare(b)!A.steps : Prepare(b)!StepDone(l, i, v8.commit)
    BY <2>1 DEF PrepareOwn, Prepare!ValueInv
  <2>3. Prepare(b)!Reads("files") \/ Prepare(b)!Reads("archive") =>
          v7[l].copied = Prepare(b)!Copy(v8.commit)
    BY <2>2 DEF Prepare!Reads, Prepare!StepDone
  <2>4. Prepare(b)!Reads("commit") => v7[l].commit = v8.commit
    BY <2>2 DEF Prepare!Reads, Prepare!StepDone
  <2>5. Prepare(b)!Reads("hash") => v7[l].pinned = v7[l].copied
    <3>1. Prepare(b)!Reads("hash") => Prepare(b)!Reads("files")
      BY PrepareTheAdapter DEF PrepareInv
    <3>2. Prepare(b)!Reads("hash") => v7[l].pinned = Prepare(b)!Copy(v8.commit)
      BY <2>2 DEF Prepare!Reads, Prepare!StepDone
    <3> QED BY <2>3, <3>1, <3>2
  <2>6. v2 = "goal-plus" => v7[l].hosted = v8.host
    <3>1. v2 = "goal-plus" => l = 1
      BY PrepareTheAdapter DEF PrepareInv
    <3> QED BY <2>1, <3>1 DEF PrepareOwn, Prepare!HostInv
  <2> QED BY <2>3, <2>4, <2>5, <2>6
<1>5. Prepare(b)!CopiesAreClean
  <2>1. Prepare(b)!Prepared /\ Prepare(b)!Reads("validate") /\ ~Prepare(b)!Moved =>
          \A l \in 1..Prepare(b)!LastLane : v7[l].copied = Prepare(b)!Clean0
    BY <1>2 DEF PrepareOwn, Prepare!DetectInv
  <2>2. Prepare(b)!Reads("archive") => \A l \in 1..Prepare(b)!LastLane : ~v7[l].copied.dirty
    BY <1>1 DEF PrepareInv, Prepare!ArchiveInv
  <2> QED BY <2>1, <2>2 DEF Prepare!CopiesAreClean
<1>6. Prepare(b)!HostAsPrepared
  BY DEF PrepareInv, Prepare!RunsInv, Prepare!RunInv, Prepare!HostAsPrepared
<1> QED BY <1>3, <1>4, <1>5, <1>6 DEF PrepareInv, Prepare!PreparationIsSound

-----------------------------------------------------------------------------
(* An EdgeBench campaign's directory, the prepares that make it and the    *)
(* launches that start from it, within the bounds b (EdgePreparation).     *)
(* Here v1 is protocol, v2 is methods, v3 is assets, v4 is source, v5 is   *)
(* edge, v6 is live, v7 is config, v8 is dir, v9 is copied, v10 is cells,  *)
(* v11 is files, v12 is prep, v13 is launch, v14 is maker, v15 is moves.   *)

LEMMA FreezeBounded ==
  ASSUME NEW b \in CampaignBounds
  PROVE  /\ b.tasks \in Nat \ {0} /\ b.prepares \in Nat /\ b.launches \in Nat
         /\ b.moves \in Nat
  BY DEF CampaignBounds

FreezeInv(b) ==
  Freeze(b)!TypeOK /\ Freeze(b)!MakerInv /\ Freeze(b)!PreparesInv /\ Freeze(b)!LaunchesInv

\* The cardinality of the instance is that of the library's theorems.
LEMMA FreezeSameSize ==
  ASSUME NEW b \in CampaignBounds
  PROVE  \A S : Freeze(b)!Cardinality(S) = Cardinality(S)
  BY DEF Freeze!Cardinality, Cardinality

FreezeOwn(b, p) ==
  /\ Freeze(b)!CourseInv(p) /\ Freeze(b)!CellsInv(p) /\ Freeze(b)!DriftInv(p)
  /\ Freeze(b)!FilesInv(p)

FreezePcs(b) ==
  {"idle", "source", "mkdir", "assets", "task", "cell", "profile", "campaign", "controller",
       "done",
   "refused", "raised", "killed"}
FreezeTwice(b) == <<"goal-plus-codex", "goal-plus-codex">>
FreezeNames(b) == {"profile", "campaign", "controller"}

LEMMA FreezeTheMethods ==
  ASSUME NEW b \in CampaignBounds,
         v2 \in Freeze(b)!Given
  PROVE  /\ Len(v2) \in 1..2 /\ DOMAIN v2 = 1..Len(v2)
         /\ \A i \in DOMAIN v2 : i \in 1..2 /\ v2[i] \in Freeze(b)!Methods
         /\ v2 = FreezeTwice(b) => Len(v2) = 2 /\ v2[1] = v2[2]
<1>1. CASE v2 = <<"codex">>
  BY <1>1 DEF Freeze!Methods, FreezeTwice
<1>2. CASE v2 = <<"codex", "goal-plus-codex">>
  BY <1>2 DEF Freeze!Methods, FreezeTwice
<1>3. CASE v2 = <<"goal-plus-codex", "goal-plus-codex">>
  BY <1>3 DEF Freeze!Methods, FreezeTwice
<1> QED BY <1>1, <1>2, <1>3 DEF Freeze!Given

LEMMA FreezeFixedKept ==
  ASSUME NEW b \in CampaignBounds,
         UNCHANGED <<v1, v2, v3>>
  PROVE  Freeze(b)!Cells' = Freeze(b)!Cells /\ (Freeze(b)!HasGoalPlus' <=> Freeze(b)!HasGoalPlus)
           /\ (Freeze(b)!HasContract' <=> Freeze(b)!HasContract)
<1>1. Freeze(b)!Cells' = Freeze(b)!Cells
  BY DEF Freeze!Cells
<1> QED BY <1>1 DEF Freeze!HasGoalPlus, Freeze!HasContract

LEMMA FreezeSomes ==
  ASSUME NEW b \in CampaignBounds
  PROVE  /\ 0 \in Freeze(b)!Versions /\ Freeze(b)!NoFile \in Freeze(b)!Frozen
              /\ Freeze(b)!NoFile.state = "absent"
         /\ Freeze(b)!NoCell \in Freeze(b)!CellFiles /\ Freeze(b)!NoCell.state = "absent"
<1>1. 0 \in Freeze(b)!Versions
  BY FreezeBounded DEF Freeze!Versions
<1> QED BY <1>1 DEF Freeze!NoFile, Freeze!Frozen, Freeze!NoCell, Freeze!CellFiles, Freeze!States

LEMMA FreezeInitInv ==
  ASSUME NEW b \in CampaignBounds
  PROVE  Freeze(b)!Init => FreezeInv(b)
<1> SUFFICES ASSUME Freeze(b)!Init PROVE FreezeInv(b)
  OBVIOUS
<1> USE FreezeBounded
<1>1. /\ v1 \in {"pi", "codex", "claude"} /\ v2 \in Freeze(b)!Given /\ v3 \in BOOLEAN
      /\ v4 = [commit |-> 0, valid |-> TRUE] /\ v5 = 0 /\ v6 = 0 /\ v7 = 0
      /\ v8 = "absent" /\ v14 = {} /\ v15 = 0
  BY DEF Freeze!Init
<1>2. /\ v9 = [t \in Freeze(b)!Tasks |-> 0]
           /\ v10 = [c \in Freeze(b)!Tasks \X Freeze(b)!Methods |-> Freeze(b)!NoCell]
      /\ v11 = [f \in FreezeNames(b) |-> Freeze(b)!NoFile]
  BY DEF Freeze!Init, FreezeNames
<1> DEFINE p0 == [pc |-> "idle", task |-> 1, method |-> 1, read |-> 0, contract |-> 0,
      source |-> 0,
                  drift |-> FALSE]
           l0 == [pc |-> "idle", source |-> 0, contract |-> 0, registry |-> 0, late |-> FALSE]
<1>3. /\ p0 \in Freeze(b)!PrepStates /\ p0.pc = "idle" /\ p0.task = 1
  <2>1. 1 \in 1..(b.tasks + 1) /\ 1 \in 1..2
    OBVIOUS
  <2> QED BY <2>1, FreezeSomes DEF Freeze!PrepStates
<1>4. l0 \in Freeze(b)!LaunchStates /\ l0.pc = "idle"
  BY FreezeSomes DEF Freeze!LaunchStates
<1>5. v12 = [p \in Freeze(b)!Prepares |-> p0] /\ v13 = [l \in Freeze(b)!Launches |-> l0]
  BY DEF Freeze!Init
<1> HIDE DEF p0, l0
<1>6. Freeze(b)!TypeOK
  <2>1. v4 \in [commit : Freeze(b)!Versions, valid : BOOLEAN] /\ v15 \in Freeze(b)!Versions
    BY <1>1, FreezeSomes
  <2>2. v10 \in [Freeze(b)!Tasks \X Freeze(b)!Methods -> Freeze(b)!CellFiles]
          /\ v11 \in [FreezeNames(b) -> Freeze(b)!Frozen]
        /\ v9 \in [Freeze(b)!Tasks -> Freeze(b)!Versions]
    BY <1>2, FreezeSomes
  <2>3. v12 \in [Freeze(b)!Prepares -> Freeze(b)!PrepStates]
          /\ v13 \in [Freeze(b)!Launches -> Freeze(b)!LaunchStates]
    BY <1>3, <1>4, <1>5
  <2> QED BY <1>1, <2>1, <2>2, <2>3, FreezeSomes DEF Freeze!TypeOK, FreezeNames
<1>7. ~Freeze(b)!Prepared
  BY <1>2, FreezeSomes DEF Freeze!Prepared, FreezeNames
<1>8. /\ \A p \in Freeze(b)!Prepares : v12[p].pc = "idle" /\ v12[p].task = 1
      /\ \A l \in Freeze(b)!Launches : v13[l].pc = "idle"
  BY <1>3, <1>4, <1>5
<1>9. Freeze(b)!MakerInv
  BY <1>1, <1>7, <1>8 DEF Freeze!MakerInv, Freeze!Begun
<1>10. Freeze(b)!PreparesInv
  BY <1>8 DEF Freeze!PreparesInv, Freeze!CourseInv, Freeze!CellsInv, Freeze!DriftInv,
     Freeze!FilesInv, Freeze!Begun, Freeze!Working
<1>11. Freeze(b)!LaunchesInv
  BY <1>8 DEF Freeze!LaunchesInv, Freeze!LaunchInv, Freeze!Checking, Freeze!Running
<1> QED BY <1>6, <1>9, <1>10, <1>11 DEF FreezeInv

-----------------------------------------------------------------------------
\* A working prepare means that nothing is prepared and that nobody else is in the directory.
LEMMA FreezeNotYet ==
  ASSUME NEW b \in CampaignBounds,
         FreezeInv(b), NEW p \in Freeze(b)!Prepares, Freeze(b)!Begun(p), v12[p].pc # "done"
  PROVE  p \in v14 /\ ~Freeze(b)!Prepared /\ v8 = "made" /\ \A q \in Freeze(b)!Prepares \ {p} :
           ~Freeze(b)!Begun(q)
<1>1. p \in v14
  BY DEF FreezeInv, Freeze!MakerInv
<1>2. \A q \in Freeze(b)!Prepares \ {p} : ~Freeze(b)!Begun(q)
  BY <1>1 DEF FreezeInv, Freeze!MakerInv
<1>3. ~Freeze(b)!Prepared
  BY <1>2 DEF FreezeInv, Freeze!MakerInv, Freeze!Begun
<1>4. v8 = "made"
  BY <1>1 DEF FreezeInv, Freeze!TypeOK, Freeze!MakerInv
<1> QED BY <1>1, <1>2, <1>3, <1>4

\* A new state of a prepare, and what it leaves of the others.
LEMMA FreezePut ==
  ASSUME NEW b \in CampaignBounds,
         Freeze(b)!TypeOK, NEW p \in Freeze(b)!Prepares, NEW new \in Freeze(b)!PrepStates,
              v12' = [v12 EXCEPT ![p] = new]
  PROVE  /\ v12' \in [Freeze(b)!Prepares -> Freeze(b)!PrepStates] /\ v12'[p] = new
         /\ \A q \in Freeze(b)!Prepares \ {p} : v12'[q] = v12[q]
  BY DEF Freeze!TypeOK

LEMMA FreezeGone ==
  ASSUME NEW b \in CampaignBounds,
         Freeze(b)!TypeOK, NEW p \in Freeze(b)!Prepares, NEW to \in FreezePcs(b),
              Freeze(b)!Go(p, to)
  PROVE  /\ v12' \in [Freeze(b)!Prepares -> Freeze(b)!PrepStates] /\ v12'[p].pc = to
         /\ v12'[p].task = v12[p].task /\ v12'[p].method = v12[p].method
         /\ v12'[p].read = v12[p].read /\ v12'[p].contract = v12[p].contract
         /\ v12'[p].source = v12[p].source /\ v12'[p].drift = v12[p].drift
         /\ \A q \in Freeze(b)!Prepares \ {p} : v12'[q] = v12[q]
<1> DEFINE new == [v12[p] EXCEPT !.pc = to]
<1>1. v12[p] \in Freeze(b)!PrepStates
  BY DEF Freeze!TypeOK
<1>2. /\ new \in Freeze(b)!PrepStates /\ new.pc = to /\ new.task = v12[p].task
      /\ new.method = v12[p].method /\ new.read = v12[p].read
      /\ new.contract = v12[p].contract /\ new.source = v12[p].source
      /\ new.drift = v12[p].drift
  BY <1>1 DEF Freeze!PrepStates, FreezePcs
<1>3. v12' = [v12 EXCEPT ![p] = new]
  BY DEF Freeze!Go
<1> HIDE DEF new
<1> QED BY <1>2, <1>3, FreezePut

\* A step of p: the others have not begun, or nothing of theirs has changed.
LEMMA FreezeOthersKept ==
  ASSUME NEW b \in CampaignBounds,
         FreezeInv(b), NEW p \in Freeze(b)!Prepares, UNCHANGED <<v1, v2, v3, v5, v6>>,
         \A q \in Freeze(b)!Prepares \ {p} :
           v12'[q] = v12[q] /\ (~Freeze(b)!Begun(q) \/ UNCHANGED <<v9, v10, v11>>)
  PROVE  \A q \in Freeze(b)!Prepares \ {p} : FreezeOwn(b, q)'
<1>1. Freeze(b)!Cells' = Freeze(b)!Cells
  BY FreezeFixedKept
<1> SUFFICES ASSUME NEW q \in Freeze(b)!Prepares \ {p} PROVE FreezeOwn(b, q)'
  OBVIOUS
<1>2. FreezeOwn(b, q) /\ v12'[q] = v12[q]
  BY DEF FreezeInv, Freeze!PreparesInv, FreezeOwn
<1>3. Freeze(b)!CourseInv(q)'
  BY <1>2 DEF FreezeOwn, Freeze!CourseInv
<1>4. CASE ~Freeze(b)!Begun(q)
  <2>1. ~Freeze(b)!Begun(q)' /\ v12'[q].pc \notin
          {"assets", "task", "cell", "profile", "campaign", "controller", "done"}
    BY <1>2, <1>4 DEF Freeze!Begun
  <2>2. Freeze(b)!CellsInv(q)' /\ Freeze(b)!FilesInv(q)'
    BY <2>1 DEF Freeze!CellsInv, Freeze!FilesInv
  <2>3. Freeze(b)!DriftInv(q)'
    BY <1>2, <2>1 DEF FreezeOwn, Freeze!DriftInv, Freeze!Working
  <2> QED BY <1>3, <2>2, <2>3 DEF FreezeOwn
<1>5. CASE UNCHANGED <<v9, v10, v11>>
  <2>1. Freeze(b)!Written(q)' = Freeze(b)!Written(q)
          /\ (Freeze(b)!Working(q)' <=> Freeze(b)!Working(q))
               /\ (Freeze(b)!Begun(q)' <=> Freeze(b)!Begun(q))
    BY <1>1, <1>2 DEF Freeze!Written, Freeze!Working, Freeze!Begun
  <2>2. Freeze(b)!CellsInv(q)'
    BY <1>2, <1>5, <2>1 DEF FreezeOwn, Freeze!CellsInv
  <2>3. Freeze(b)!DriftInv(q)'
    BY <1>2, <1>5, <2>1 DEF FreezeOwn, Freeze!DriftInv
  <2>4. Freeze(b)!FilesInv(q)'
    BY <1>1, <1>2, <1>5 DEF FreezeOwn, Freeze!FilesInv
  <2> QED BY <1>3, <2>2, <2>3, <2>4 DEF FreezeOwn
<1> QED BY <1>4, <1>5

\* A step that leaves the launches, and the files once they are all there.
LEMMA FreezeLaunchesKept ==
  ASSUME NEW b \in CampaignBounds,
         FreezeInv(b), UNCHANGED <<v1, v2, v3, v7, v13>>, Freeze(b)!Prepared => UNCHANGED v11
  PROVE  Freeze(b)!LaunchesInv'
<1>1. (Freeze(b)!HasGoalPlus' <=> Freeze(b)!HasGoalPlus)
        /\ (Freeze(b)!HasContract' <=> Freeze(b)!HasContract)
  BY FreezeFixedKept
<1>2. ASSUME NEW l \in Freeze(b)!Launches PROVE Freeze(b)!LaunchInv(l)'
  <2>1. Freeze(b)!LaunchInv(l)
    BY DEF FreezeInv, Freeze!LaunchesInv
  <2>2. CASE Freeze(b)!Prepared
    BY <1>1, <2>1, <2>2 DEF Freeze!LaunchInv, Freeze!Prepared, Freeze!Checking, Freeze!Running
  <2>3. CASE ~Freeze(b)!Prepared
    BY <2>1, <2>3 DEF Freeze!LaunchInv, Freeze!Checking, Freeze!Running
  <2> QED BY <2>2, <2>3
<1> QED BY <1>2 DEF Freeze!LaunchesInv

\* One step of p in its directory.
LEMMA FreezePrepareKept ==
  ASSUME NEW b \in CampaignBounds,
         FreezeInv(b), NEW p \in Freeze(b)!Prepares,
         UNCHANGED <<v1, v2, v3, v4, v5, v6, v7, v15, v13>>,
         v12' \in [Freeze(b)!Prepares -> Freeze(b)!PrepStates],
         \A q \in Freeze(b)!Prepares \ {p} :
           v12'[q] = v12[q] /\ (~Freeze(b)!Begun(q) \/ UNCHANGED <<v9, v10, v11>>),
         Freeze(b)!Prepared => UNCHANGED v11,
         v8' \in {"absent", "made"}, v14' \subseteq Freeze(b)!Prepares,
         v9' \in [Freeze(b)!Tasks -> Freeze(b)!Versions],
              v10' \in [Freeze(b)!Tasks \X Freeze(b)!Methods -> Freeze(b)!CellFiles],
         v11' \in [FreezeNames(b) -> Freeze(b)!Frozen], Freeze(b)!MakerInv', FreezeOwn(b, p)'
  PROVE  FreezeInv(b)'
<1>1. Freeze(b)!TypeOK'
  BY DEF FreezeInv, Freeze!TypeOK, FreezeNames
<1>2. Freeze(b)!LaunchesInv'
  BY FreezeLaunchesKept
<1>3. \A q \in Freeze(b)!Prepares \ {p} : FreezeOwn(b, q)'
  BY FreezeOthersKept
<1>4. Freeze(b)!PreparesInv'
  BY <1>3 DEF Freeze!PreparesInv, FreezeOwn
<1> QED BY <1>1, <1>2, <1>4 DEF FreezeInv

\* Who has made the directory and whether it is finished does not change.
LEMMA FreezeMakerKept ==
  ASSUME NEW b \in CampaignBounds,
         FreezeInv(b), NEW p \in Freeze(b)!Prepares, UNCHANGED <<v8, v14>>,
              Freeze(b)!Prepared' <=> Freeze(b)!Prepared,
         \A q \in Freeze(b)!Prepares \ {p} : v12'[q] = v12[q],
         v12[p].pc # "done", v12'[p].pc # "done", Freeze(b)!Begun(p)' => p \in v14
  PROVE  Freeze(b)!MakerInv'
<1>1. \A q \in Freeze(b)!Prepares : v12'[q].pc = "done" <=> v12[q].pc = "done"
  OBVIOUS
<1>2. \A q \in Freeze(b)!Prepares \ {p} : Freeze(b)!Begun(q)' => Freeze(b)!Begun(q)
  BY DEF Freeze!Begun
<1> QED BY <1>1, <1>2 DEF FreezeInv, Freeze!MakerInv

\* It stops, for whatever reason, and may leave a torn file.
LEMMA FreezeStopInv ==
  ASSUME NEW b \in CampaignBounds,
         FreezeInv(b), NEW p \in Freeze(b)!Prepares, v12[p].pc = "idle" \/ Freeze(b)!Working(p),
         NEW to \in {"refused", "raised", "killed"}, Freeze(b)!Go(p, to),
         UNCHANGED <<v1, v2, v3, v4, v5, v6, v7, v15, v13, v8,
                     v9, v14>>,
         v10' \in [Freeze(b)!Tasks \X Freeze(b)!Methods -> Freeze(b)!CellFiles],
              v11' \in [FreezeNames(b) -> Freeze(b)!Frozen],
         Freeze(b)!Prepared' <=> Freeze(b)!Prepared,
         UNCHANGED <<v10, v11>> \/ Freeze(b)!Begun(p)
  PROVE  FreezeInv(b)'
<1>1. /\ v12' \in [Freeze(b)!Prepares -> Freeze(b)!PrepStates] /\ v12'[p].pc = to
      /\ \A q \in Freeze(b)!Prepares \ {p} : v12'[q] = v12[q]
  BY FreezeGone DEF FreezeInv, FreezePcs
<1>2. ~Freeze(b)!Begun(p)' /\ ~Freeze(b)!Working(p)' /\ v12[p].pc # "done"
      /\ v12'[p].pc \notin {"idle", "source", "mkdir", "assets", "task", "cell", "profile",
                             "campaign", "controller", "done"}
  BY <1>1 DEF Freeze!Begun, Freeze!Working
<1>3. FreezeOwn(b, p)'
  BY <1>2 DEF FreezeOwn, Freeze!CourseInv, Freeze!CellsInv, Freeze!DriftInv, Freeze!FilesInv
<1>4. Freeze(b)!MakerInv'
  BY <1>1, <1>2, FreezeMakerKept
<1>5. v9 \in [Freeze(b)!Tasks -> Freeze(b)!Versions] /\ v8 \in {"absent", "made"}
        /\ v14 \subseteq Freeze(b)!Prepares
  BY DEF FreezeInv, Freeze!TypeOK
<1>6. CASE UNCHANGED <<v10, v11>>
  BY <1>1, <1>3, <1>4, <1>5, <1>6, FreezePrepareKept
<1>7. CASE Freeze(b)!Begun(p)
  <2>1. ~Freeze(b)!Prepared /\ \A q \in Freeze(b)!Prepares \ {p} : ~Freeze(b)!Begun(q)
    BY <1>2, <1>7, FreezeNotYet
  <2> QED BY <1>1, <1>3, <1>4, <1>5, <2>1, FreezePrepareKept
<1> QED BY <1>6, <1>7

LEMMA FreezeJustStopInv ==
  ASSUME NEW b \in CampaignBounds,
         FreezeInv(b), NEW p \in Freeze(b)!Prepares, v12[p].pc = "idle" \/ Freeze(b)!Working(p),
         NEW to \in {"refused", "raised", "killed"}, Freeze(b)!Go(p, to),
         UNCHANGED <<v1, v2, v3, v4, v5, v6, v7, v15, v13, v8,
                     v9, v14, v10, v11>>
  PROVE  FreezeInv(b)'
<1>1. v10 \in [Freeze(b)!Tasks \X Freeze(b)!Methods -> Freeze(b)!CellFiles]
        /\ v11 \in [FreezeNames(b) -> Freeze(b)!Frozen]
  BY DEF FreezeInv, Freeze!TypeOK, FreezeNames
<1>2. Freeze(b)!Prepared' <=> Freeze(b)!Prepared
  BY DEF Freeze!Prepared
<1> QED BY <1>1, <1>2, FreezeStopInv

LEMMA FreezeKillPrepareInv ==
  ASSUME NEW b \in CampaignBounds,
         FreezeInv(b), NEW p \in Freeze(b)!Prepares, Freeze(b)!KillPrepare(p)
  PROVE  FreezeInv(b)'
<1> SUFFICES ASSUME NEW pc, pc = v12[p].pc, NEW t, t = v12[p].task,
                    NEW m, m = v2[v12[p].method]
             PROVE  FreezeInv(b)'
  OBVIOUS
<1>1. /\ Freeze(b)!Working(p) /\ Freeze(b)!Go(p, "killed")
      /\ UNCHANGED <<v1, v2, v3, v4, v5, v6, v7, v15, v13, v8,
                     v9, v14>>
  BY DEF Freeze!KillPrepare, Freeze!Fixed, Freeze!World
<1>2. v10 \in [Freeze(b)!Tasks \X Freeze(b)!Methods -> Freeze(b)!CellFiles]
        /\ v11 \in [FreezeNames(b) -> Freeze(b)!Frozen]
      /\ DOMAIN v11 = FreezeNames(b)
  BY DEF FreezeInv, Freeze!TypeOK, FreezeNames
<1>3. CASE UNCHANGED <<v10, v11>>
  BY <1>1, <1>3, FreezeJustStopInv
<1>4. CASE pc \in DOMAIN v11 /\ v11' = [v11 EXCEPT ![pc].state = "torn"] /\ UNCHANGED v10
  <2>1. Freeze(b)!Begun(p) /\ pc # "done"
    BY <1>2, <1>4 DEF Freeze!Begun, FreezeNames
  <2> DEFINE x == [v11[pc] EXCEPT !.state = "torn"]
  <2>2. x \in Freeze(b)!Frozen /\ x.state = "torn"
    BY <1>2, <1>4 DEF Freeze!Frozen, Freeze!States
  <2>3. v11' = [v11 EXCEPT ![pc] = x]
    BY <1>4
  <2> HIDE DEF x
  <2>4. v11' \in [FreezeNames(b) -> Freeze(b)!Frozen] /\ v11'[pc] = x
          /\ \A f \in FreezeNames(b) \ {pc} : v11'[f] = v11[f]
    BY <1>2, <1>4, <2>2, <2>3
  <2>5. ~Freeze(b)!Prepared
    BY <2>1, FreezeNotYet
  <2>6. ~Freeze(b)!Prepared'
    BY <2>2, <2>4, <2>5 DEF Freeze!Prepared, FreezeNames
  <2> QED BY <1>1, <1>2, <1>4, <2>1, <2>4, <2>5, <2>6, FreezeStopInv
<1>5. CASE /\ pc = "cell" /\ UNCHANGED v11
           /\ v10' = [v10 EXCEPT ![<<t, m>>].state = "torn"]
  <2>1. Freeze(b)!Begun(p)
    BY <1>5 DEF Freeze!Begun
  <2>2. t \in Freeze(b)!Tasks /\ m \in Freeze(b)!Methods
    <3>1. FreezeOwn(b, p) /\ v12[p] \in Freeze(b)!PrepStates /\ v2 \in Freeze(b)!Given
      BY DEF FreezeInv, Freeze!TypeOK, Freeze!PreparesInv, FreezeOwn
    <3>2. t <= b.tasks /\ v12[p].method \in DOMAIN v2 /\ t \in 1..(b.tasks + 1)
      BY <1>5, <3>1 DEF FreezeOwn, Freeze!CourseInv, Freeze!PrepStates
    <3> QED BY <3>1, <3>2, FreezeTheMethods, FreezeBounded DEF Freeze!Tasks
  <2>3. <<t, m>> \in Freeze(b)!Tasks \X Freeze(b)!Methods
    BY <2>2
  <2> DEFINE x == [v10[<<t, m>>] EXCEPT !.state = "torn"]
  <2>4. x \in Freeze(b)!CellFiles
    BY <1>2, <2>3 DEF Freeze!CellFiles, Freeze!States
  <2>5. v10' = [v10 EXCEPT ![<<t, m>>] = x]
    BY <1>5
  <2> HIDE DEF x
  <2>6. v10' \in [Freeze(b)!Tasks \X Freeze(b)!Methods -> Freeze(b)!CellFiles]
    BY <1>2, <2>3, <2>4, <2>5
  <2>7. Freeze(b)!Prepared' <=> Freeze(b)!Prepared
    BY <1>5 DEF Freeze!Prepared
  <2>8. UNCHANGED v11
    BY <1>5
  <2> QED BY <1>1, <1>2, <2>1, <2>6, <2>7, <2>8, FreezeStopInv
<1> QED BY <1>3, <1>4, <1>5 DEF Freeze!KillPrepare

-----------------------------------------------------------------------------
\* Before the directory is made.
LEMMA FreezeBeforeKept ==
  ASSUME NEW b \in CampaignBounds,
         FreezeInv(b), NEW p \in Freeze(b)!Prepares, v12[p].pc \in {"idle", "source"},
              NEW new \in Freeze(b)!PrepStates,
         v12' = [v12 EXCEPT ![p] = new], new.pc \in {"source", "mkdir"}, new.task = 1,
         ~v3 /\ ~new.drift => v5 = v6,
         UNCHANGED <<v1, v2, v3, v4, v5, v6, v7, v15, v13, v8,
                     v9, v14, v10, v11>>
  PROVE  FreezeInv(b)'
<1>1. /\ v12' \in [Freeze(b)!Prepares -> Freeze(b)!PrepStates] /\ v12'[p] = new
      /\ \A q \in Freeze(b)!Prepares \ {p} : v12'[q] = v12[q]
  BY FreezePut DEF FreezeInv
<1>2. ~Freeze(b)!Begun(p)' /\ v12'[p].pc \notin
        {"assets", "task", "cell", "profile", "campaign", "controller", "done"}
  BY <1>1 DEF Freeze!Begun
<1>3. FreezeOwn(b, p)'
  BY <1>1, <1>2 DEF FreezeOwn, Freeze!CourseInv, Freeze!CellsInv, Freeze!DriftInv,
     Freeze!FilesInv, Freeze!Working
<1>4. Freeze(b)!Prepared' <=> Freeze(b)!Prepared
  BY DEF Freeze!Prepared
<1>5. Freeze(b)!MakerInv'
  BY <1>1, <1>2, <1>4, FreezeMakerKept
<1>6. /\ v9 \in [Freeze(b)!Tasks -> Freeze(b)!Versions]
           /\ v10 \in [Freeze(b)!Tasks \X Freeze(b)!Methods -> Freeze(b)!CellFiles]
      /\ v11 \in [FreezeNames(b) -> Freeze(b)!Frozen] /\ v8 \in {"absent", "made"}
           /\ v14 \subseteq Freeze(b)!Prepares
  BY DEF FreezeInv, Freeze!TypeOK, FreezeNames
<1> QED BY <1>1, <1>3, <1>5, <1>6, FreezePrepareKept

LEMMA FreezeResolveInv ==
  ASSUME NEW b \in CampaignBounds,
         FreezeInv(b), NEW p \in Freeze(b)!Prepares, Freeze(b)!Resolve(p)
  PROVE  FreezeInv(b)'
<1>1. /\ v12[p].pc = "idle"
      /\ UNCHANGED <<v1, v2, v3, v4, v5, v6, v7, v15, v13, v8,
                     v9, v14, v10, v11>>
  BY DEF Freeze!Resolve, Freeze!Fixed, Freeze!World, Freeze!Disk
<1>2. CASE Freeze(b)!Go(p, "refused")
  BY <1>1, <1>2, FreezeJustStopInv
<1>3. CASE v12' = [v12 EXCEPT ![p].pc = IF Freeze(b)!HasGoalPlus THEN "source" ELSE "mkdir",
                                ![p].contract = v7, ![p].drift = ~v3 /\ v5 # v6]
  <2> DEFINE d == ~v3 /\ v5 # v6
             w == IF Freeze(b)!HasGoalPlus THEN "source" ELSE "mkdir"
             new == [v12[p] EXCEPT !.pc = w, !.contract = v7, !.drift = d]
  <2>1. v12[p] \in Freeze(b)!PrepStates /\ v7 \in Freeze(b)!Versions /\ FreezeOwn(b, p)
    BY DEF FreezeInv, Freeze!TypeOK, Freeze!PreparesInv, FreezeOwn
  <2>2. d \in BOOLEAN /\ w \in {"source", "mkdir"}
    OBVIOUS
  <2>3. v12' = [v12 EXCEPT ![p] = new]
    BY <1>3
  <2>4. ~v3 /\ ~d => v5 = v6
    OBVIOUS
  <2> HIDE DEF d, w
  <2>5. new \in Freeze(b)!PrepStates /\ new.pc = w /\ new.task = v12[p].task /\ new.drift = d
    BY <2>1, <2>2 DEF Freeze!PrepStates
  <2>6. new.task = 1
    BY <1>1, <2>1, <2>5 DEF FreezeOwn, Freeze!CourseInv
  <2> HIDE DEF new
  <2> QED BY <1>1, <2>2, <2>3, <2>4, <2>5, <2>6, FreezeBeforeKept
<1> QED BY <1>2, <1>3 DEF Freeze!Resolve

LEMMA FreezeResolveSourceInv ==
  ASSUME NEW b \in CampaignBounds,
         FreezeInv(b), NEW p \in Freeze(b)!Prepares, Freeze(b)!ResolveSource(p)
  PROVE  FreezeInv(b)'
<1> DEFINE w == IF v4.valid THEN "mkdir" ELSE "refused"
           new == [v12[p] EXCEPT !.pc = w, !.source = v4.commit]
<1>1. /\ v12[p].pc = "source" /\ v12' = [v12 EXCEPT ![p] = new]
      /\ UNCHANGED <<v1, v2, v3, v4, v5, v6, v7, v15, v13, v8,
                     v9, v14, v10, v11>>
  BY DEF Freeze!ResolveSource, Freeze!Fixed, Freeze!World, Freeze!Disk
<1>2. v12[p] \in Freeze(b)!PrepStates /\ v4.commit \in Freeze(b)!Versions /\ FreezeOwn(b, p)
  BY DEF FreezeInv, Freeze!TypeOK, Freeze!PreparesInv, FreezeOwn
<1>3. w \in {"mkdir", "refused"}
  OBVIOUS
<1> HIDE DEF w
<1>4. new \in Freeze(b)!PrepStates /\ new.pc = w /\ new.task = v12[p].task
        /\ new.drift = v12[p].drift
  BY <1>2, <1>3 DEF Freeze!PrepStates
<1>5. new.task = 1
  BY <1>1, <1>2, <1>4 DEF FreezeOwn, Freeze!CourseInv
<1>6. ~v3 /\ ~new.drift => v5 = v6
  BY <1>1, <1>2, <1>4 DEF FreezeOwn, Freeze!DriftInv, Freeze!Working
<1> HIDE DEF new
<1>7. CASE w = "mkdir"
  BY <1>1, <1>4, <1>5, <1>6, <1>7, FreezeBeforeKept
<1>8. CASE w = "refused"
  <2>1. /\ v12' \in [Freeze(b)!Prepares -> Freeze(b)!PrepStates] /\ v12'[p] = new
        /\ \A q \in Freeze(b)!Prepares \ {p} : v12'[q] = v12[q]
    BY <1>1, <1>4, FreezePut DEF FreezeInv
  <2>2. ~Freeze(b)!Begun(p)' /\ v12'[p].pc = "refused"
    BY <1>4, <1>8, <2>1 DEF Freeze!Begun
  <2>3. FreezeOwn(b, p)'
    BY <2>2 DEF FreezeOwn, Freeze!CourseInv, Freeze!CellsInv, Freeze!DriftInv, Freeze!FilesInv,
       Freeze!Working
  <2>4. Freeze(b)!Prepared' <=> Freeze(b)!Prepared
    BY <1>1 DEF Freeze!Prepared
  <2>5. Freeze(b)!MakerInv'
    BY <1>1, <2>1, <2>2, <2>4, FreezeMakerKept
  <2>6. /\ v9 \in [Freeze(b)!Tasks -> Freeze(b)!Versions]
             /\ v10 \in [Freeze(b)!Tasks \X Freeze(b)!Methods -> Freeze(b)!CellFiles]
        /\ v11 \in [FreezeNames(b) -> Freeze(b)!Frozen] /\ v8 \in {"absent", "made"}
             /\ v14 \subseteq Freeze(b)!Prepares
    BY DEF FreezeInv, Freeze!TypeOK, FreezeNames
  <2> QED BY <1>1, <2>1, <2>3, <2>5, <2>6, FreezePrepareKept
<1> QED BY <1>3, <1>7, <1>8

LEMMA FreezeMakeDirInv ==
  ASSUME NEW b \in CampaignBounds,
         FreezeInv(b), NEW p \in Freeze(b)!Prepares, Freeze(b)!MakeDir(p)
  PROVE  FreezeInv(b)'
<1> DEFINE w == IF v3 THEN "assets" ELSE "task"
<1>1. /\ v12[p].pc = "mkdir"
      /\ UNCHANGED <<v1, v2, v3, v4, v5, v6, v7, v15, v13, v9,
                     v10, v11>>
  BY DEF Freeze!MakeDir, Freeze!Fixed, Freeze!World
<1>2. CASE Freeze(b)!Go(p, "raised") /\ UNCHANGED <<v8, v14>>
  BY <1>1, <1>2, FreezeJustStopInv DEF Freeze!Working
<1>3. CASE v8 = "absent" /\ v8' = "made" /\ v14' = v14 \cup {p} /\ Freeze(b)!Go(p, w)
  <2>1. w \in {"assets", "task"} /\ w \in FreezePcs(b)
    BY DEF FreezePcs
  <2> HIDE DEF w
  <2>2. /\ v12' \in [Freeze(b)!Prepares -> Freeze(b)!PrepStates] /\ v12'[p].pc = w
        /\ v12'[p].task = v12[p].task /\ v12'[p].drift = v12[p].drift
        /\ \A q \in Freeze(b)!Prepares \ {p} : v12'[q] = v12[q]
    BY <1>3, <2>1, FreezeGone DEF FreezeInv
  <2>3. v14 = {} /\ v14' = {p} /\ ~Freeze(b)!Prepared /\ \A q \in Freeze(b)!Prepares :
          ~Freeze(b)!Begun(q)
    BY <1>3 DEF FreezeInv, Freeze!MakerInv, Freeze!Begun
  <2>4. FreezeOwn(b, p) /\ v12[p].task = 1
    BY <1>1 DEF FreezeInv, Freeze!PreparesInv, FreezeOwn, Freeze!CourseInv
  <2>5. Freeze(b)!Written(p)' = {}
    BY <2>1, <2>2, <2>4 DEF Freeze!Written, Freeze!Cells, Freeze!Tasks
  <2>6. Freeze(b)!CourseInv(p)'
    BY <2>1, <2>2, <2>4, FreezeBounded DEF Freeze!CourseInv
  <2>7. Freeze(b)!CellsInv(p)' /\ Freeze(b)!FilesInv(p)'
    BY <2>1, <2>2, <2>5 DEF Freeze!CellsInv, Freeze!FilesInv
  <2>8. Freeze(b)!DriftInv(p)'
    BY <1>1, <2>1, <2>2, <2>4 DEF FreezeOwn, Freeze!DriftInv, Freeze!Working
  <2>9. Freeze(b)!MakerInv'
    <3>1. ~Freeze(b)!Prepared'
      BY <1>1, <2>3 DEF Freeze!Prepared
    <3>2. \A q \in Freeze(b)!Prepares : v12'[q].pc # "done"
      BY <2>1, <2>2, <2>3 DEF Freeze!Begun
    <3>3. \A q \in Freeze(b)!Prepares : Freeze(b)!Begun(q)' => q = p
      BY <2>2, <2>3 DEF Freeze!Begun
    <3> QED BY <1>3, <2>3, <3>1, <3>2, <3>3 DEF Freeze!MakerInv
  <2>10. /\ v9 \in [Freeze(b)!Tasks -> Freeze(b)!Versions]
              /\ v10 \in [Freeze(b)!Tasks \X Freeze(b)!Methods -> Freeze(b)!CellFiles]
         /\ v11 \in [FreezeNames(b) -> Freeze(b)!Frozen]
    BY DEF FreezeInv, Freeze!TypeOK, FreezeNames
  <2>11. FreezeOwn(b, p)'
    BY <2>6, <2>7, <2>8 DEF FreezeOwn
  <2> QED BY <1>1, <1>3, <2>2, <2>3, <2>9, <2>10, <2>11, FreezePrepareKept
<1> QED BY <1>2, <1>3 DEF Freeze!MakeDir

\* A step of the one at work in the directory that does not finish it.
LEMMA FreezeWorkKept ==
  ASSUME NEW b \in CampaignBounds,
         FreezeInv(b), NEW p \in Freeze(b)!Prepares, Freeze(b)!Begun(p), v12[p].pc # "done",
              NEW new \in Freeze(b)!PrepStates,
         v12' = [v12 EXCEPT ![p] = new], new.pc # "done",
         UNCHANGED <<v1, v2, v3, v4, v5, v6, v7, v15, v13, v8,
                     v14>>,
         v9' \in [Freeze(b)!Tasks -> Freeze(b)!Versions],
              v10' \in [Freeze(b)!Tasks \X Freeze(b)!Methods -> Freeze(b)!CellFiles],
         v11' \in [FreezeNames(b) -> Freeze(b)!Frozen], ~Freeze(b)!Prepared', FreezeOwn(b, p)'
  PROVE  FreezeInv(b)'
<1>1. /\ v12' \in [Freeze(b)!Prepares -> Freeze(b)!PrepStates] /\ v12'[p] = new
      /\ \A q \in Freeze(b)!Prepares \ {p} : v12'[q] = v12[q]
  BY FreezePut DEF FreezeInv
<1>2. p \in v14 /\ ~Freeze(b)!Prepared /\ \A q \in Freeze(b)!Prepares \ {p} : ~Freeze(b)!Begun(q)
  BY FreezeNotYet
<1>3. Freeze(b)!MakerInv'
  BY <1>1, <1>2, FreezeMakerKept
<1> QED BY <1>1, <1>2, <1>3, FreezePrepareKept DEF FreezeInv, Freeze!TypeOK

LEMMA FreezeCopyTaskInv ==
  ASSUME NEW b \in CampaignBounds,
         FreezeInv(b), NEW p \in Freeze(b)!Prepares, Freeze(b)!CopyTask(p)
  PROVE  FreezeInv(b)'
<1> DEFINE t == IF v12[p].task = b.tasks THEN 1 ELSE v12[p].task + 1
           w == IF v12[p].task = b.tasks THEN "task" ELSE v12[p].pc
           new == [v12[p] EXCEPT !.task = t, !.pc = w]
<1>1. /\ v12[p].pc = "assets" /\ v12' = [v12 EXCEPT ![p] = new]
      /\ v9' = [v9 EXCEPT ![v12[p].task] = v6]
      /\ UNCHANGED <<v1, v2, v3, v4, v5, v6, v7, v15, v13, v8,
                     v10, v11, v14>>
  BY DEF Freeze!CopyTask, Freeze!Fixed, Freeze!World
<1>2. /\ v12[p] \in Freeze(b)!PrepStates /\ FreezeOwn(b, p) /\ v12[p].task \in 1..(b.tasks + 1)
      /\ v12[p].task <= b.tasks
  BY <1>1 DEF FreezeInv, Freeze!TypeOK, Freeze!PreparesInv, FreezeOwn, Freeze!CourseInv,
     Freeze!PrepStates
<1>3. /\ t \in 1..(b.tasks + 1) /\ w \in {"assets", "task"}
      /\ t <= b.tasks /\ (w = "task" => t = 1)
  BY <1>1, <1>2, FreezeBounded
<1> HIDE DEF t, w
<1>4. new \in Freeze(b)!PrepStates /\ new.pc = w /\ new.task = t /\ new.drift = v12[p].drift
  BY <1>2, <1>3 DEF Freeze!PrepStates
<1> HIDE DEF new
<1>5. v12'[p] = new
  BY <1>1, <1>4, FreezePut DEF FreezeInv
<1>6. /\ v9' \in [Freeze(b)!Tasks -> Freeze(b)!Versions]
           /\ v10 \in [Freeze(b)!Tasks \X Freeze(b)!Methods -> Freeze(b)!CellFiles]
      /\ v11 \in [FreezeNames(b) -> Freeze(b)!Frozen]
  BY <1>1 DEF FreezeInv, Freeze!TypeOK, FreezeNames
<1>7. FreezeOwn(b, p)'
  <2>1. Freeze(b)!CourseInv(p)'
    BY <1>3, <1>4, <1>5 DEF Freeze!CourseInv
  <2>2. w = "task" => Freeze(b)!Written(p)' = {}
    BY <1>3, <1>4, <1>5 DEF Freeze!Written, Freeze!Cells, Freeze!Tasks
  <2>3. Freeze(b)!CellsInv(p)' /\ Freeze(b)!FilesInv(p)'
    BY <1>3, <1>4, <1>5, <2>2 DEF Freeze!CellsInv, Freeze!FilesInv
  <2>4. Freeze(b)!DriftInv(p)'
    BY <1>1, <1>2, <1>3, <1>4, <1>5 DEF FreezeOwn, Freeze!DriftInv, Freeze!Working
  <2> QED BY <2>1, <2>3, <2>4 DEF FreezeOwn
<1>8. Freeze(b)!Begun(p) /\ ~Freeze(b)!Prepared
  <2>1. Freeze(b)!Begun(p)
    BY <1>1 DEF Freeze!Begun
  <2> QED BY <1>1, <2>1, FreezeNotYet
<1>9. ~Freeze(b)!Prepared'
  BY <1>1, <1>8 DEF Freeze!Prepared
<1> QED BY <1>1, <1>3, <1>4, <1>6, <1>7, <1>8, <1>9, FreezeWorkKept

LEMMA FreezeReadTaskInv ==
  ASSUME NEW b \in CampaignBounds,
         FreezeInv(b), NEW p \in Freeze(b)!Prepares, Freeze(b)!ReadTask(p)
  PROVE  FreezeInv(b)'
<1> DEFINE v == IF v3 THEN v9[v12[p].task] ELSE v6
           new == [v12[p] EXCEPT !.pc = "cell", !.method = 1, !.read = v]
<1>1. /\ v12[p].pc = "task"
      /\ UNCHANGED <<v1, v2, v3, v4, v5, v6, v7, v15, v13, v8,
                     v9, v10, v11, v14>>
  BY DEF Freeze!ReadTask, Freeze!Fixed, Freeze!World, Freeze!Disk
<1>2. CASE Freeze(b)!Go(p, "raised")
  BY <1>1, <1>2, FreezeJustStopInv DEF Freeze!Working
<1>3. CASE v12' = [v12 EXCEPT ![p] = new]
  <2>1. /\ v12[p] \in Freeze(b)!PrepStates /\ FreezeOwn(b, p) /\ v12[p].task \in Freeze(b)!Tasks
             /\ v2 \in Freeze(b)!Given
    BY <1>1, FreezeBounded DEF FreezeInv, Freeze!TypeOK, Freeze!PreparesInv, FreezeOwn,
       Freeze!CourseInv, Freeze!PrepStates, Freeze!Tasks
  <2>2. v \in Freeze(b)!Versions
    BY <2>1 DEF FreezeInv, Freeze!TypeOK
  <2>3. v = IF v3 THEN v9[v12[p].task] ELSE v6
    OBVIOUS
  <2> HIDE DEF v
  <2>4. /\ new \in Freeze(b)!PrepStates /\ new.pc = "cell" /\ new.task = v12[p].task
        /\ new.method = 1 /\ new.read = v /\ new.drift = v12[p].drift
        /\ new.source = v12[p].source
    <3>1. v12[p] \in [pc : FreezePcs(b), task : 1..(b.tasks + 1), method : 1..2, read :
            Freeze(b)!Versions,
                       contract : Freeze(b)!Versions, source : Freeze(b)!Versions, drift :
                            BOOLEAN]
      BY <2>1 DEF Freeze!PrepStates, FreezePcs
    <3>2. "cell" \in FreezePcs(b) /\ 1 \in 1..2
      BY DEF FreezePcs
    <3>3. new \in [pc : FreezePcs(b), task : 1..(b.tasks + 1), method : 1..2, read :
            Freeze(b)!Versions,
                   contract : Freeze(b)!Versions, source : Freeze(b)!Versions, drift : BOOLEAN]
      BY ONLY <2>2, <3>1, <3>2
    <3>4. /\ new.pc = "cell" /\ new.task = v12[p].task /\ new.method = 1 /\ new.read = v
          /\ new.drift = v12[p].drift /\ new.source = v12[p].source
      BY <3>1
    <3> QED BY <3>3, <3>4 DEF Freeze!PrepStates, FreezePcs
  <2> HIDE DEF new
  <2>5. v12'[p] = new
    BY <1>3, <2>4, FreezePut DEF FreezeInv
  <2>6. /\ v9 \in [Freeze(b)!Tasks -> Freeze(b)!Versions]
             /\ v10 \in [Freeze(b)!Tasks \X Freeze(b)!Methods -> Freeze(b)!CellFiles]
        /\ v11 \in [FreezeNames(b) -> Freeze(b)!Frozen]
    BY DEF FreezeInv, Freeze!TypeOK, FreezeNames
  <2>7. Freeze(b)!CourseInv(p)'
    <3>1. 1 \in DOMAIN v2
      BY <2>1, FreezeTheMethods
    <3> QED BY <1>1, <2>1, <2>4, <2>5, <3>1 DEF FreezeOwn, Freeze!CourseInv
  <2>8. Freeze(b)!Written(p)' = Freeze(b)!Written(p) /\ \A c \in Freeze(b)!Written(p) :
          c[1] # v12[p].task
    <3>1. Freeze(b)!Cells' = Freeze(b)!Cells
      BY <1>1, FreezeFixedKept
    <3>2. \A c \in Freeze(b)!Cells : c[1] \in Nat
      BY DEF Freeze!Cells, Freeze!Tasks
    <3>3. v12[p].task \in Nat
      BY <2>1 DEF Freeze!Tasks
    <3> QED BY <1>1, <2>4, <2>5, <3>1, <3>2, <3>3 DEF Freeze!Written
  <2>9. Freeze(b)!CellsInv(p)'
    BY <1>1, <2>1, <2>4, <2>5, <2>8 DEF FreezeOwn, Freeze!CellsInv, Freeze!Begun, Freeze!Working
  <2>10. Freeze(b)!DriftInv(p)'
    BY <1>1, <2>1, <2>3, <2>4, <2>5 DEF FreezeOwn, Freeze!DriftInv, Freeze!Working
  <2>11. Freeze(b)!FilesInv(p)'
    BY <2>4, <2>5 DEF Freeze!FilesInv
  <2>12. Freeze(b)!Begun(p)
    BY <1>1 DEF Freeze!Begun
  <2>13. ~Freeze(b)!Prepared'
    BY <1>1, <2>12, FreezeNotYet DEF Freeze!Prepared
  <2>14. FreezeOwn(b, p)'
    BY <2>7, <2>9, <2>10, <2>11 DEF FreezeOwn
  <2> QED BY <1>1, <1>3, <2>4, <2>6, <2>12, <2>13, <2>14, FreezeWorkKept
<1> QED BY <1>2, <1>3 DEF Freeze!ReadTask

LEMMA FreezeWriteCellInv ==
  ASSUME NEW b \in CampaignBounds,
         FreezeInv(b), NEW p \in Freeze(b)!Prepares, Freeze(b)!WriteCell(p)
  PROVE  FreezeInv(b)'
<1> SUFFICES ASSUME NEW t, t = v12[p].task, NEW n, n = v12[p].method, NEW m, m = v2[n],
                    NEW c, c = <<t, m>>, NEW r, r = v12[p].read
             PROVE  FreezeInv(b)'
  OBVIOUS
<1> DEFINE last == n = Len(v2)
           toMethod == IF last THEN 1 ELSE n + 1
           toTask == IF last THEN t + 1 ELSE t
           w == IF ~last THEN "cell" ELSE IF t < b.tasks THEN "task" ELSE "profile"
           new == [v12[p] EXCEPT !.method = toMethod, !.task = toTask, !.pc = w]
           cell == [state |-> "whole", task |-> r, source |-> v12[p].source]
<1>1. /\ v12[p].pc = "cell"
      /\ UNCHANGED <<v1, v2, v3, v4, v5, v6, v7, v15, v13, v8,
                     v9, v11, v14>>
  BY DEF Freeze!WriteCell, Freeze!Fixed, Freeze!World
<1>2. CASE v10[c].state # "absent" /\ Freeze(b)!Go(p, "raised") /\ UNCHANGED v10
  BY <1>1, <1>2, FreezeJustStopInv DEF Freeze!Working
<1>3. CASE v10[c].state = "absent" /\ v10' = [v10 EXCEPT ![c] = cell]
           /\ v12' = [v12 EXCEPT ![p] = new]
  <2>1. /\ v12[p] \in Freeze(b)!PrepStates /\ FreezeOwn(b, p) /\ v2 \in Freeze(b)!Given
        /\ v10 \in [Freeze(b)!Tasks \X Freeze(b)!Methods -> Freeze(b)!CellFiles]
    BY DEF FreezeInv, Freeze!TypeOK, Freeze!PreparesInv, FreezeOwn
  <2>2. /\ t \in 1..b.tasks /\ n \in DOMAIN v2 /\ n \in 1..2 /\ m \in Freeze(b)!Methods
        /\ Len(v2) \in 1..2 /\ DOMAIN v2 = 1..Len(v2) /\ n <= Len(v2)
    <3>1. t <= b.tasks /\ n \in DOMAIN v2 /\ t \in 1..(b.tasks + 1)
      BY <1>1, <2>1 DEF FreezeOwn, Freeze!CourseInv, Freeze!PrepStates
    <3>2. /\ Len(v2) \in 1..2 /\ DOMAIN v2 = 1..Len(v2)
          /\ n \in 1..2 /\ m \in Freeze(b)!Methods
      BY <2>1, <3>1, FreezeTheMethods
    <3> QED BY <3>1, <3>2, FreezeBounded
  <2>3. /\ toMethod \in 1..2 /\ toTask \in 1..(b.tasks + 1)
        /\ w \in {"cell", "task", "profile"}
        /\ w = "cell" => toTask = t /\ toMethod = n + 1 /\ toMethod \in DOMAIN v2
        /\ w # "cell" => toTask = t + 1 /\ n = Len(v2)
        /\ w = "task" => t + 1 <= b.tasks
        /\ w = "profile" => t + 1 = b.tasks + 1
    <3>1. CASE last
      BY <2>2, <3>1, FreezeBounded
    <3>2. CASE ~last
      <4>1. \A a \in 1..2, k \in 1..2 : a <= k /\ a # k => a + 1 \in 1..k /\ a + 1 \in 1..2
        OBVIOUS
      <4>2. n # Len(v2) /\ n \in 1..2 /\ Len(v2) \in 1..2 /\ n <= Len(v2)
            /\ DOMAIN v2 = 1..Len(v2)
        BY <2>2, <3>2
      <4>3. n + 1 \in 1..2 /\ n + 1 \in DOMAIN v2
        BY <4>1, <4>2
      <4>4. w = "cell" /\ toTask = t /\ toMethod = n + 1
        BY <3>2
      <4>5. t \in 1..(b.tasks + 1)
        BY <2>2, FreezeBounded
      <4> HIDE DEF w, toTask, toMethod
      <4> QED BY <4>3, <4>4, <4>5
    <3> QED BY <3>1, <3>2
  <2> HIDE DEF toMethod, toTask, w
  <2>4. /\ new \in Freeze(b)!PrepStates /\ new.pc = w /\ new.task = toTask
             /\ new.method = toMethod
        /\ new.read = r /\ new.drift = v12[p].drift /\ new.source = v12[p].source
    <3>1. v12[p] \in [pc : FreezePcs(b), task : 1..(b.tasks + 1), method : 1..2, read :
            Freeze(b)!Versions,
                       contract : Freeze(b)!Versions, source : Freeze(b)!Versions, drift :
                            BOOLEAN]
      BY <2>1 DEF Freeze!PrepStates, FreezePcs
    <3>2. w \in FreezePcs(b)
      BY <2>3 DEF FreezePcs
    <3>3. new \in [pc : FreezePcs(b), task : 1..(b.tasks + 1), method : 1..2, read :
            Freeze(b)!Versions,
                   contract : Freeze(b)!Versions, source : Freeze(b)!Versions, drift : BOOLEAN]
      BY ONLY <2>3, <3>1, <3>2
    <3>4. /\ new.pc = w /\ new.task = toTask /\ new.method = toMethod
          /\ new.read = v12[p].read /\ new.drift = v12[p].drift /\ new.source = v12[p].source
      BY <3>1
    <3> QED BY <3>3, <3>4 DEF Freeze!PrepStates, FreezePcs
  <2>5. /\ cell \in Freeze(b)!CellFiles /\ cell.state = "whole" /\ cell.task = r
        /\ cell.source = v12[p].source
    BY <2>1 DEF Freeze!CellFiles, Freeze!PrepStates, Freeze!States
  <2> HIDE DEF new, cell
  <2>6. v12'[p] = new
    BY <1>3, <2>4, FreezePut DEF FreezeInv
  <2>7. c \in Freeze(b)!Tasks \X Freeze(b)!Methods /\ c[1] = t /\ c[2] = m
    BY <2>2 DEF Freeze!Tasks
  <2>8. /\ v10' \in [Freeze(b)!Tasks \X Freeze(b)!Methods -> Freeze(b)!CellFiles]
             /\ v10'[c] = cell
        /\ \A d \in Freeze(b)!Tasks \X Freeze(b)!Methods : d # c => v10'[d] = v10[d]
    BY <1>3, <2>1, <2>5, <2>7
  <2>9. Freeze(b)!Cells' = Freeze(b)!Cells
          /\ Freeze(b)!Cells \subseteq Freeze(b)!Tasks \X Freeze(b)!Methods
               /\ c \in Freeze(b)!Cells
    BY <1>1, <2>2, <2>7, FreezeFixedKept DEF Freeze!Cells
  <2>10. ASSUME NEW d \in Freeze(b)!Written(p)'
         PROVE  /\ d \in Freeze(b)!Tasks \X Freeze(b)!Methods
                     /\ (d = c \/ d \in Freeze(b)!Written(p)) /\ d[1] <= t
                /\ d[1] \in Nat
    <3>1. /\ d \in Freeze(b)!Cells /\ d \in Freeze(b)!Tasks \X Freeze(b)!Methods
               /\ d[1] \in 1..b.tasks
          /\ d = <<d[1], d[2]>>
          /\ \/ d[1] < toTask
             \/ d[1] = toTask /\ w = "cell" /\ \E i \in 1..(toMethod - 1) : v2[i] = d[2]
      <4>1. /\ d \in Freeze(b)!Cells'
            /\ \/ d[1] < v12'[p].task
               \/ /\ d[1] = v12'[p].task /\ v12'[p].pc = "cell"
                  /\ \E i \in 1..(v12'[p].method - 1) : v2'[i] = d[2]
        BY DEF Freeze!Written
      <4>2. /\ v12'[p].task = toTask /\ v12'[p].pc = w /\ v12'[p].method = toMethod
            /\ v2' = v2
        BY <1>1, <2>4, <2>6
      <4>3. d \in Freeze(b)!Cells /\ d \in Freeze(b)!Tasks \X Freeze(b)!Methods
        BY <2>9, <4>1
      <4>4. d[1] \in 1..b.tasks /\ d = <<d[1], d[2]>>
        BY <4>3 DEF Freeze!Tasks
      <4> QED BY <4>1, <4>2, <4>3, <4>4
    <3>2. toTask \in 1..(b.tasks + 1) /\ toTask <= t + 1 /\ d[1] <= t /\ d[1] \in Nat
      BY <2>2, <2>3, <3>1, FreezeBounded
    <3>3. CASE d[1] < t
      BY <1>1, <3>1, <3>2, <3>3 DEF Freeze!Written
    <3>4. CASE d[1] = t
      <4>1. PICK i \in DOMAIN v2 : i <= n /\ v2[i] = d[2]
        <5>1. CASE w = "cell"
          <6>1. PICK i \in 1..(toMethod - 1) : v2[i] = d[2]
            BY <2>2, <2>3, <3>1, <3>4, <5>1
          <6> QED BY <2>2, <2>3, <5>1, <6>1
        <5>2. CASE w # "cell"
          BY <2>2, <2>3, <3>1, <5>2 DEF Freeze!Cells
        <5> QED BY <5>1, <5>2
      <4>2. CASE i = n
        BY <3>1, <3>2, <3>4, <4>1, <4>2
      <4>3. CASE i # n
        <5>1. i \in 1..(n - 1)
          BY <2>2, <4>1, <4>3
        <5> QED BY <1>1, <3>1, <3>2, <3>4, <4>1, <5>1 DEF Freeze!Written
      <4> QED BY <4>2, <4>3
    <3> QED BY <2>2, <3>1, <3>2, <3>3, <3>4
  <2>11. /\ Freeze(b)!Begun(p) /\ v12[p].pc # "assets" /\ Freeze(b)!Working(p)
         /\ \A d \in Freeze(b)!Written(p) :
              /\ v10[d].state = "whole" /\ v10[d].source = v12[p].source
              /\ v3 => v10[d].task = v9[d[1]]
              /\ d[1] = t => v10[d].task = r
              /\ \A e \in Freeze(b)!Written(p) : d[1] = e[1] => v10[d].task = v10[e].task
              /\ ~v3 /\ ~v12[p].drift => v10[d].task = v5
    <3>1. Freeze(b)!Begun(p) /\ v12[p].pc # "assets" /\ Freeze(b)!Working(p)
      BY <1>1 DEF Freeze!Begun, Freeze!Working
    <3> QED BY <2>1, <3>1 DEF FreezeOwn, Freeze!CellsInv
  <2>12. IF v3 THEN r = v9[t] ELSE ~v12[p].drift => r = v5
    BY <1>1, <2>1 DEF FreezeOwn, Freeze!DriftInv
  <2>13. c \notin Freeze(b)!Written(p)
    BY <1>3, <2>11
  <2>14. Freeze(b)!CourseInv(p)'
    <3>1. v2 = FreezeTwice(b) => t = 1 /\ n = 1 /\ w = "cell"
      <4> SUFFICES ASSUME v2 = FreezeTwice(b) PROVE t = 1 /\ n = 1 /\ w = "cell"
        OBVIOUS
      <4>1. t = 1 /\ Len(v2) = 2 /\ v2[1] = v2[2]
        BY <1>1, <2>1, FreezeTheMethods DEF FreezeOwn, Freeze!CourseInv, FreezeTwice
      <4>2. ASSUME n = 2 PROVE FALSE
        <5>1. \E i \in 1..(n - 1) : v2[i] = c[2]
          BY <2>7, <4>1, <4>2
        <5>2. c \in Freeze(b)!Written(p)
          BY <1>1, <2>7, <2>9, <5>1 DEF Freeze!Written
        <5> QED BY <2>13, <5>2
      <4>3. n = 1
        BY <2>2, <4>2
      <4> QED BY <4>1, <4>3 DEF w
    <3>2. toTask <= b.tasks \/ w = "profile"
      BY <2>2, <2>3, FreezeBounded
    <3>3. w = "profile" => toTask = b.tasks + 1
      BY <2>3
    <3> QED BY <1>1, <2>3, <2>4, <2>6, <3>1, <3>2, <3>3 DEF Freeze!CourseInv, FreezeTwice
  <2>15. Freeze(b)!CellsInv(p)'
    <3>1. ASSUME NEW d \in Freeze(b)!Written(p)'
          PROVE  /\ v10'[d].state = "whole" /\ v10'[d].source = v12[p].source
                 /\ v3 => v10'[d].task = v9[d[1]]
                 /\ d[1] = t => v10'[d].task = r
                 /\ ~v3 /\ ~v12[p].drift => v10'[d].task = v5
                 /\ d # c => d \in Freeze(b)!Written(p) /\ v10'[d] = v10[d]
      <4>1. CASE d = c
        BY <2>5, <2>7, <2>8, <2>12, <4>1
      <4>2. CASE d # c
        BY <2>8, <2>10, <2>11, <4>2
      <4> QED BY <4>1, <4>2
    <3>2. ASSUME NEW d \in Freeze(b)!Written(p)', NEW e \in Freeze(b)!Written(p)', d[1] = e[1]
          PROVE  v10'[d].task = v10'[e].task
      <4>1. CASE d = c \/ e = c
        BY <2>7, <3>1, <3>2, <4>1
      <4>2. CASE d # c /\ e # c
        BY <2>11, <3>1, <3>2, <4>2
      <4> QED BY <4>1, <4>2
    <3>3. ASSUME NEW d \in Freeze(b)!Written(p)', d[1] = toTask PROVE v10'[d].task = r
      <4>1. toTask = t
        BY <2>2, <2>3, <2>10, <3>3
      <4> QED BY <3>1, <3>3, <4>1
    <3> QED BY <1>1, <2>4, <2>6, <3>1, <3>2, <3>3 DEF Freeze!CellsInv
  <2>16. Freeze(b)!DriftInv(p)'
    BY <1>1, <2>1, <2>3, <2>4, <2>6, <2>11, <2>12 DEF FreezeOwn, Freeze!DriftInv, Freeze!Working
  <2>17. Freeze(b)!FilesInv(p)'
    BY <2>3, <2>4, <2>6 DEF Freeze!FilesInv
  <2>18. ~Freeze(b)!Prepared'
    BY <1>1, <2>11, FreezeNotYet DEF Freeze!Prepared
  <2>19. FreezeOwn(b, p)'
    BY <2>14, <2>15, <2>16, <2>17 DEF FreezeOwn
  <2>20. v9 \in [Freeze(b)!Tasks -> Freeze(b)!Versions]
           /\ v11 \in [FreezeNames(b) -> Freeze(b)!Frozen]
    BY DEF FreezeInv, Freeze!TypeOK, FreezeNames
  <2>21. new.pc # "done"
    BY <2>3, <2>4
  <2> QED BY <1>1, <1>3, <2>4, <2>8, <2>11, <2>18, <2>19, <2>20, <2>21, FreezeWorkKept
<1> QED BY <1>2, <1>3 DEF Freeze!WriteCell

\* A file of the directory is written, with what the prepare knows.
LEMMA FreezeWrote ==
  ASSUME NEW b \in CampaignBounds,
         FreezeInv(b), NEW p \in Freeze(b)!Prepares, NEW f \in FreezeNames(b), v12[p].pc = f,
              NEW next \in FreezePcs(b),
         Freeze(b)!WriteFile(p, next)
  PROVE  /\ Freeze(b)!Go(p, next) /\ Freeze(b)!Begun(p) /\ FreezeOwn(b, p)
              /\ Freeze(b)!Written(p) = Freeze(b)!Cells
         /\ UNCHANGED <<v1, v2, v3, v4, v5, v6, v7, v15, v13, v8,
                        v9, v10, v14>>
         /\ v11' \in [FreezeNames(b) -> Freeze(b)!Frozen] /\ v11'[f].state = "whole"
              /\ v11'[f].edge = v5
         /\ v11'[f].source = v12[p].source /\ v11'[f].contract = v12[p].contract
         /\ \A g \in FreezeNames(b) \ {f} : v11'[g] = v11[g]
<1>1. /\ Freeze(b)!Go(p, next)
      /\ UNCHANGED <<v1, v2, v3, v4, v5, v6, v7, v15, v13, v8,
                     v9, v10, v14>>
  BY DEF Freeze!WriteFile, Freeze!Fixed, Freeze!World
<1>2. Freeze(b)!Begun(p) /\ FreezeOwn(b, p) /\ v12[p] \in Freeze(b)!PrepStates
        /\ v11 \in [FreezeNames(b) -> Freeze(b)!Frozen]
  BY DEF FreezeInv, Freeze!TypeOK, Freeze!PreparesInv, FreezeOwn, Freeze!Begun, FreezeNames
<1>3. Freeze(b)!Written(p) = Freeze(b)!Cells
  <2>1. v12[p].task = b.tasks + 1
    BY <1>2 DEF FreezeOwn, Freeze!CourseInv, FreezeNames
  <2>2. \A c \in Freeze(b)!Cells : c[1] \in 1..b.tasks
    BY DEF Freeze!Cells, Freeze!Tasks
  <2>3. \A c \in Freeze(b)!Cells : c[1] < v12[p].task
    BY <2>1, <2>2, FreezeBounded
  <2> QED BY <2>3 DEF Freeze!Written
<1> DEFINE x == [state |-> "whole", source |-> v12[p].source, edge |-> v5,
                 contract |-> v12[p].contract]
<1>4. /\ x \in Freeze(b)!Frozen /\ x.state = "whole" /\ x.edge = v5 /\ x.source = v12[p].source
      /\ x.contract = v12[p].contract
  <2>1. v5 \in Freeze(b)!Versions
    BY DEF FreezeInv, Freeze!TypeOK
  <2> QED BY <1>2, <2>1 DEF Freeze!Frozen, Freeze!PrepStates, Freeze!States
<1>5. v11' = [v11 EXCEPT ![f] = x]
  BY DEF Freeze!WriteFile
<1> HIDE DEF x
<1> QED BY <1>1, <1>2, <1>3, <1>4, <1>5

\* What it knows is left as it is.
LEMMA FreezeWroteOwn ==
  ASSUME NEW b \in CampaignBounds,
         FreezeInv(b), NEW p \in Freeze(b)!Prepares, NEW f \in FreezeNames(b), v12[p].pc = f,
              NEW next \in FreezePcs(b),
         Freeze(b)!WriteFile(p, next), next \in {"campaign", "controller", "done"}
  PROVE  Freeze(b)!CourseInv(p)' /\ Freeze(b)!CellsInv(p)' /\ Freeze(b)!DriftInv(p)'
<1>1. /\ Freeze(b)!Go(p, next) /\ Freeze(b)!Begun(p) /\ FreezeOwn(b, p)
           /\ Freeze(b)!Written(p) = Freeze(b)!Cells
      /\ UNCHANGED <<v1, v2, v3, v4, v5, v6, v7, v15, v13, v8,
                     v9, v10, v14>>
  BY FreezeWrote
<1>2. /\ v12'[p].pc = next /\ v12'[p].task = v12[p].task /\ v12'[p].method = v12[p].method
      /\ v12'[p].read = v12[p].read /\ v12'[p].drift = v12[p].drift
      /\ v12'[p].source = v12[p].source
  BY <1>1, FreezeGone DEF FreezeInv
<1>3. Freeze(b)!CourseInv(p)'
  BY <1>1, <1>2 DEF FreezeOwn, Freeze!CourseInv, FreezeNames
<1>4. Freeze(b)!DriftInv(p)'
  BY <1>1, <1>2 DEF FreezeOwn, Freeze!DriftInv, Freeze!Working, FreezeNames
<1>5. Freeze(b)!CellsInv(p)'
  <2>1. Freeze(b)!Written(p)' \subseteq Freeze(b)!Written(p)
    <3>1. Freeze(b)!Cells' = Freeze(b)!Cells
      BY <1>1, FreezeFixedKept
    <3> QED BY <1>1, <3>1 DEF Freeze!Written
  <2> QED BY <1>1, <1>2, <2>1 DEF FreezeOwn, Freeze!CellsInv, Freeze!Working, FreezeNames
<1> QED BY <1>3, <1>4, <1>5

LEMMA FreezeFileKept ==
  ASSUME NEW b \in CampaignBounds,
         FreezeInv(b), NEW p \in Freeze(b)!Prepares, NEW f \in FreezeNames(b), v12[p].pc = f,
         NEW next \in {"campaign", "controller"}, Freeze(b)!WriteFile(p, next), f # "controller",
         Freeze(b)!FilesInv(p)'
  PROVE  FreezeInv(b)'
<1>1. /\ Freeze(b)!Go(p, next) /\ Freeze(b)!Begun(p)
      /\ UNCHANGED <<v1, v2, v3, v4, v5, v6, v7, v15, v13, v8,
                     v9, v10, v14>>
      /\ v11' \in [FreezeNames(b) -> Freeze(b)!Frozen] /\ \A g \in FreezeNames(b) \ {f} :
           v11'[g] = v11[g]
  BY FreezeWrote DEF FreezePcs
<1>2. Freeze(b)!CourseInv(p)' /\ Freeze(b)!CellsInv(p)' /\ Freeze(b)!DriftInv(p)'
  BY FreezeWroteOwn DEF FreezePcs
<1>3. /\ v12' \in [Freeze(b)!Prepares -> Freeze(b)!PrepStates] /\ v12'[p].pc = next
      /\ \A q \in Freeze(b)!Prepares \ {p} : v12'[q] = v12[q]
  BY <1>1, FreezeGone DEF FreezeInv, FreezePcs
<1>4. p \in v14 /\ ~Freeze(b)!Prepared /\ \A q \in Freeze(b)!Prepares \ {p} : ~Freeze(b)!Begun(q)
  BY <1>1, FreezeNotYet DEF FreezeNames
<1>5. ~Freeze(b)!Prepared'
  BY <1>1, <1>4 DEF Freeze!Prepared, FreezeNames
<1>6. Freeze(b)!MakerInv'
  BY <1>1, <1>3, <1>4, <1>5, FreezeMakerKept DEF FreezeNames
<1>7. v9 \in [Freeze(b)!Tasks -> Freeze(b)!Versions]
        /\ v10 \in [Freeze(b)!Tasks \X Freeze(b)!Methods -> Freeze(b)!CellFiles]
      /\ v8 \in {"absent", "made"} /\ v14 \subseteq Freeze(b)!Prepares
  BY DEF FreezeInv, Freeze!TypeOK
<1>8. FreezeOwn(b, p)'
  BY <1>2 DEF FreezeOwn
<1> QED BY <1>1, <1>3, <1>4, <1>6, <1>7, <1>8, FreezePrepareKept

LEMMA FreezeWriteProfileInv ==
  ASSUME NEW b \in CampaignBounds,
         FreezeInv(b), NEW p \in Freeze(b)!Prepares, Freeze(b)!WriteProfile(p)
  PROVE  FreezeInv(b)'
<1>1. v12[p].pc = "profile" /\ "profile" \in FreezeNames(b) /\ Freeze(b)!WriteFile(p, "campaign")
  BY DEF Freeze!WriteProfile, FreezeNames
<1>2. /\ Freeze(b)!Go(p, "campaign") /\ v11'["profile"].state = "whole"
      /\ v11'["profile"].source = v12[p].source /\ v11'["profile"].contract = v12[p].contract
  BY <1>1, FreezeWrote DEF FreezePcs
<1>3. v12'[p].pc = "campaign" /\ v12'[p].source = v12[p].source
      /\ v12'[p].contract = v12[p].contract
  BY <1>2, FreezeGone DEF FreezeInv, FreezePcs
<1>4. Freeze(b)!FilesInv(p)'
  BY <1>2, <1>3 DEF Freeze!FilesInv
<1> QED BY <1>1, <1>4, FreezeFileKept

LEMMA FreezeWriteCampaignInv ==
  ASSUME NEW b \in CampaignBounds,
         FreezeInv(b), NEW p \in Freeze(b)!Prepares, Freeze(b)!WriteCampaign(p)
  PROVE  FreezeInv(b)'
<1>1. v12[p].pc = "campaign" /\ "campaign" \in FreezeNames(b)
        /\ Freeze(b)!WriteFile(p, "controller")
  BY DEF Freeze!WriteCampaign, FreezeNames
<1>2. /\ Freeze(b)!Go(p, "controller") /\ Freeze(b)!Begun(p) /\ FreezeOwn(b, p)
           /\ Freeze(b)!Written(p) = Freeze(b)!Cells
      /\ v11'["campaign"].state = "whole" /\ v11'["campaign"].edge = v5
      /\ v11'["campaign"].source = v12[p].source
      /\ v11'["campaign"].contract = v12[p].contract
      /\ v11'["profile"] = v11["profile"] /\ UNCHANGED <<v2, v1, v3, v10>>
  BY <1>1, FreezeWrote DEF FreezePcs, FreezeNames
<1>3. v12'[p].pc = "controller" /\ v12'[p].source = v12[p].source
      /\ v12'[p].contract = v12[p].contract /\ v12'[p].drift = v12[p].drift
  BY <1>2, FreezeGone DEF FreezeInv, FreezePcs
<1>4. ~v3 /\ ~v12[p].drift => \A c \in Freeze(b)!Cells : v10[c].task = v5
  BY <1>1, <1>2 DEF FreezeOwn, Freeze!CellsInv, Freeze!Working
<1>5. Freeze(b)!Cells' = Freeze(b)!Cells
  BY <1>2, FreezeFixedKept
<1>6. Freeze(b)!FilesInv(p)'
  BY <1>1, <1>2, <1>3, <1>4, <1>5 DEF Freeze!FilesInv, FreezeOwn
<1> QED BY <1>1, <1>6, FreezeFileKept

LEMMA FreezeWriteControllerInv ==
  ASSUME NEW b \in CampaignBounds,
         FreezeInv(b), NEW p \in Freeze(b)!Prepares, Freeze(b)!WriteController(p)
  PROVE  FreezeInv(b)'
<1>1. v12[p].pc = "controller" /\ "controller" \in FreezeNames(b)
        /\ Freeze(b)!WriteFile(p, "done")
  BY DEF Freeze!WriteController, FreezeNames
<1>2. /\ Freeze(b)!Go(p, "done") /\ Freeze(b)!Begun(p) /\ FreezeOwn(b, p)
           /\ v11' \in [FreezeNames(b) -> Freeze(b)!Frozen]
      /\ v11'["controller"].state = "whole"
      /\ v11'["profile"] = v11["profile"] /\ v11'["campaign"] = v11["campaign"]
      /\ UNCHANGED <<v1, v2, v3, v4, v5, v6, v7, v15, v13, v8,
                     v9, v10, v14>>
  BY <1>1, FreezeWrote DEF FreezePcs, FreezeNames
<1>3. /\ v12'[p].pc = "done" /\ v12'[p].source = v12[p].source
      /\ v12'[p].contract = v12[p].contract /\ v12'[p].drift = v12[p].drift
      /\ v12' \in [Freeze(b)!Prepares -> Freeze(b)!PrepStates]
           /\ \A q \in Freeze(b)!Prepares \ {p} : v12'[q] = v12[q]
  BY <1>2, FreezeGone DEF FreezeInv, FreezePcs
<1>4. Freeze(b)!Cells' = Freeze(b)!Cells
  BY <1>2, FreezeFixedKept
<1>5. Freeze(b)!FilesInv(p)'
  BY <1>1, <1>2, <1>3, <1>4 DEF Freeze!FilesInv, FreezeOwn
<1>6. FreezeOwn(b, p)'
  BY <1>1, <1>5, FreezeWroteOwn DEF FreezeOwn, FreezePcs
<1>7. p \in v14 /\ ~Freeze(b)!Prepared /\ v8 = "made" /\ \A q \in Freeze(b)!Prepares \ {p} :
        ~Freeze(b)!Begun(q)
  BY <1>1, <1>2, FreezeNotYet
<1>8. Freeze(b)!MakerInv'
  <2>1. Freeze(b)!Prepared'
    BY <1>2 DEF Freeze!Prepared
  <2>2. \A q \in Freeze(b)!Prepares \ {p} : ~Freeze(b)!Begun(q)'
    BY <1>3, <1>7 DEF Freeze!Begun
  <2> QED BY <1>2, <1>3, <1>7, <2>1, <2>2 DEF FreezeInv, Freeze!MakerInv
<1>9. v9 \in [Freeze(b)!Tasks -> Freeze(b)!Versions]
        /\ v10 \in [Freeze(b)!Tasks \X Freeze(b)!Methods -> Freeze(b)!CellFiles]
      /\ v8 \in {"absent", "made"} /\ v14 \subseteq Freeze(b)!Prepares
  BY DEF FreezeInv, Freeze!TypeOK
<1> QED BY <1>2, <1>3, <1>6, <1>7, <1>8, <1>9, FreezePrepareKept

-----------------------------------------------------------------------------
\* Around the commands.
LEMMA FreezeMoveInv ==
  ASSUME NEW b \in CampaignBounds,
         FreezeInv(b), Freeze(b)!Move
  PROVE  FreezeInv(b)'
<1>1. /\ v15 < b.moves /\ v15' = v15 + 1
      /\ UNCHANGED <<v1, v2, v3, v8, v9, v10, v11, v14>>
      /\ v12' = [p \in Freeze(b)!Prepares |-> [v12[p] EXCEPT !.drift =
                    @ \/ (Freeze(b)!Working(p) /\ <<v5', v6'>> # <<v5, v6>>)]]
      /\ v13' = [l \in Freeze(b)!Launches |-> [v13[l] EXCEPT !.late =
                      @ \/ (v13[l].pc = "registry" /\ v7' # v7)]]
  BY DEF Freeze!Move, Freeze!Fixed, Freeze!Disk
<1>2. v15' \in Freeze(b)!Versions /\ v15 + 1 \in Freeze(b)!Versions
  BY <1>1, FreezeBounded DEF FreezeInv, Freeze!TypeOK, Freeze!Versions
<1>3. /\ v4' \in [commit : Freeze(b)!Versions, valid : BOOLEAN] /\ v5' \in Freeze(b)!Versions
      /\ v6' \in Freeze(b)!Versions /\ v7' \in Freeze(b)!Versions
  <2>1. /\ v4 \in [commit : Freeze(b)!Versions, valid : BOOLEAN] /\ v5 \in Freeze(b)!Versions
        /\ v6 \in Freeze(b)!Versions /\ v7 \in Freeze(b)!Versions
    BY DEF FreezeInv, Freeze!TypeOK
  <2>2. CASE Freeze(b)!MoveSource
    BY <1>2, <2>1, <2>2 DEF Freeze!MoveSource
  <2>3. CASE Freeze(b)!MoveEdge
    BY <1>2, <2>1, <2>3 DEF Freeze!MoveEdge
  <2>4. CASE Freeze(b)!MoveTasks
    BY <1>2, <2>1, <2>4 DEF Freeze!MoveTasks
  <2>5. CASE Freeze(b)!MoveConfig
    BY <1>2, <2>1, <2>5 DEF Freeze!MoveConfig
  <2> QED BY <2>2, <2>3, <2>4, <2>5 DEF Freeze!Move
<1>4. ASSUME NEW p \in Freeze(b)!Prepares
      PROVE  /\ v12'[p] \in Freeze(b)!PrepStates /\ v12'[p].pc = v12[p].pc
                  /\ v12'[p].task = v12[p].task
             /\ v12'[p].method = v12[p].method /\ v12'[p].read = v12[p].read
             /\ v12'[p].contract = v12[p].contract /\ v12'[p].source = v12[p].source
             /\ (~v12'[p].drift => ~v12[p].drift)
             /\ (~v12'[p].drift /\ Freeze(b)!Working(p) => v5' = v5 /\ v6' = v6)
  <2>1. v12[p] \in Freeze(b)!PrepStates
    BY DEF FreezeInv, Freeze!TypeOK
  <2> DEFINE m == v12[p].drift \/ (Freeze(b)!Working(p) /\ <<v5', v6'>> # <<v5, v6>>)
             x == [v12[p] EXCEPT !.drift = m]
  <2>2. v12'[p] = x
    BY <1>1
  <2>3. m \in BOOLEAN
    OBVIOUS
  <2>4. ~m => ~v12[p].drift /\ (Freeze(b)!Working(p) => v5' = v5 /\ v6' = v6)
    OBVIOUS
  <2> HIDE DEF m
  <2>5. /\ x \in Freeze(b)!PrepStates /\ x.pc = v12[p].pc /\ x.task = v12[p].task
        /\ x.method = v12[p].method /\ x.read = v12[p].read /\ x.contract = v12[p].contract
        /\ x.source = v12[p].source /\ x.drift = m
    BY <2>1, <2>3 DEF Freeze!PrepStates
  <2> HIDE DEF x
  <2> QED BY <2>2, <2>4, <2>5
<1>5. ASSUME NEW l \in Freeze(b)!Launches
      PROVE  /\ v13'[l] \in Freeze(b)!LaunchStates /\ v13'[l].pc = v13[l].pc
             /\ v13'[l].source = v13[l].source /\ v13'[l].contract = v13[l].contract
             /\ v13'[l].registry = v13[l].registry /\ (~v13'[l].late => ~v13[l].late)
             /\ (~v13'[l].late /\ v13[l].pc = "registry" => v7' = v7)
  <2>1. v13[l] \in Freeze(b)!LaunchStates
    BY DEF FreezeInv, Freeze!TypeOK
  <2> DEFINE m == v13[l].late \/ (v13[l].pc = "registry" /\ v7' # v7)
             x == [v13[l] EXCEPT !.late = m]
  <2>2. v13'[l] = x
    BY <1>1
  <2>3. m \in BOOLEAN
    OBVIOUS
  <2>4. ~m => ~v13[l].late /\ (v13[l].pc = "registry" => v7' = v7)
    OBVIOUS
  <2> HIDE DEF m
  <2>5. /\ x \in Freeze(b)!LaunchStates /\ x.pc = v13[l].pc /\ x.source = v13[l].source
        /\ x.contract = v13[l].contract /\ x.registry = v13[l].registry /\ x.late = m
    BY <2>1, <2>3 DEF Freeze!LaunchStates
  <2> HIDE DEF x
  <2> QED BY <2>2, <2>4, <2>5
<1>6. Freeze(b)!TypeOK'
  <2>1. v12' = [p \in Freeze(b)!Prepares |-> v12'[p]]
          /\ v13' = [l \in Freeze(b)!Launches |-> v13'[l]]
    BY <1>1
  <2>2. v12' \in [Freeze(b)!Prepares -> Freeze(b)!PrepStates]
          /\ v13' \in [Freeze(b)!Launches -> Freeze(b)!LaunchStates]
    BY <1>4, <1>5, <2>1
  <2> QED BY <1>1, <1>2, <1>3, <2>2 DEF FreezeInv, Freeze!TypeOK
<1>7. Freeze(b)!Cells' = Freeze(b)!Cells /\ (Freeze(b)!HasGoalPlus' <=> Freeze(b)!HasGoalPlus)
        /\ (Freeze(b)!HasContract' <=> Freeze(b)!HasContract)
      /\ (Freeze(b)!Prepared' <=> Freeze(b)!Prepared)
  BY <1>1, FreezeFixedKept DEF Freeze!Prepared
<1>8. Freeze(b)!MakerInv'
  BY <1>1, <1>4, <1>7 DEF FreezeInv, Freeze!MakerInv, Freeze!Begun
<1>9. ASSUME NEW p \in Freeze(b)!Prepares PROVE FreezeOwn(b, p)'
  <2>1. FreezeOwn(b, p)
    BY DEF FreezeInv, Freeze!PreparesInv, FreezeOwn
  <2>2. /\ (Freeze(b)!Working(p)' <=> Freeze(b)!Working(p))
             /\ (Freeze(b)!Begun(p)' <=> Freeze(b)!Begun(p))
                  /\ Freeze(b)!Written(p)' = Freeze(b)!Written(p)
    BY <1>1, <1>4, <1>7 DEF Freeze!Working, Freeze!Begun, Freeze!Written
  <2>3. Freeze(b)!CourseInv(p)'
    BY <1>1, <1>4, <2>1 DEF FreezeOwn, Freeze!CourseInv
  <2>4. Freeze(b)!CellsInv(p)'
    <3>1. ASSUME Freeze(b)!Begun(p), v12[p].pc # "assets", NEW c \in Freeze(b)!Written(p)
          PROVE  /\ v10[c].state = "whole" /\ v10[c].source = v12[p].source
                 /\ v3 => v10[c].task = v9[c[1]]
                 /\ c[1] = v12[p].task => v10[c].task = v12[p].read
                 /\ \A d \in Freeze(b)!Written(p) : c[1] = d[1] => v10[c].task = v10[d].task
                 /\ ~v3 /\ ~v12[p].drift /\ Freeze(b)!Working(p) => v10[c].task = v5
      BY <2>1, <3>1 DEF FreezeOwn, Freeze!CellsInv
    <3>2. /\ v12'[p].pc = v12[p].pc /\ v12'[p].source = v12[p].source
          /\ v12'[p].task = v12[p].task /\ v12'[p].read = v12[p].read
          /\ (~v12'[p].drift /\ Freeze(b)!Working(p) => ~v12[p].drift /\ v5' = v5)
      BY <1>4
    <3>3. v10' = v10 /\ v9' = v9 /\ (v3' <=> v3)
      BY <1>1
    <3> QED BY <2>2, <3>1, <3>2, <3>3 DEF Freeze!CellsInv
  <2>5. Freeze(b)!DriftInv(p)'
    <3>1. v12[p].pc = "cell" => Freeze(b)!Working(p)
      BY DEF Freeze!Working
    <3> QED BY <1>1, <1>4, <2>1, <2>2, <3>1 DEF FreezeOwn, Freeze!DriftInv
  <2>6. Freeze(b)!FilesInv(p)'
    BY <1>1, <1>4, <1>7, <2>1 DEF FreezeOwn, Freeze!FilesInv
  <2> QED BY <2>3, <2>4, <2>5, <2>6 DEF FreezeOwn
<1>10. Freeze(b)!PreparesInv'
  BY <1>9 DEF Freeze!PreparesInv, FreezeOwn
<1>11. Freeze(b)!LaunchesInv'
  <2> SUFFICES ASSUME NEW l \in Freeze(b)!Launches PROVE Freeze(b)!LaunchInv(l)'
    BY DEF Freeze!LaunchesInv
  <2>1. Freeze(b)!LaunchInv(l)
    BY DEF FreezeInv, Freeze!LaunchesInv
  <2> QED BY <1>1, <1>5, <1>7, <2>1 DEF Freeze!LaunchInv, Freeze!Checking, Freeze!Running
<1> QED BY <1>6, <1>8, <1>10, <1>11 DEF FreezeInv

LEMMA FreezeRemoveInv ==
  ASSUME NEW b \in CampaignBounds,
         FreezeInv(b), Freeze(b)!Remove
  PROVE  FreezeInv(b)'
<1>1. /\ v8' = "absent" /\ v14' = {} /\ v9' = [t \in Freeze(b)!Tasks |-> 0]
      /\ v10' = [c \in Freeze(b)!Tasks \X Freeze(b)!Methods |-> Freeze(b)!NoCell]
           /\ v11' = [f \in DOMAIN v11 |-> Freeze(b)!NoFile]
      /\ ~Freeze(b)!Prepared /\ \A p \in Freeze(b)!Prepares : ~Freeze(b)!Working(p)
      /\ UNCHANGED <<v1, v2, v3, v4, v5, v6, v7, v15, v12, v13>>
  BY DEF Freeze!Remove, Freeze!Fixed, Freeze!World, Freeze!Prepared
<1>2. \A p \in Freeze(b)!Prepares : ~Freeze(b)!Begun(p) /\ v12[p].pc # "done"
  BY <1>1 DEF FreezeInv, Freeze!MakerInv, Freeze!Begun, Freeze!Working
<1>3. v11' = [f \in FreezeNames(b) |-> Freeze(b)!NoFile]
        /\ v11' \in [FreezeNames(b) -> Freeze(b)!Frozen]
      /\ v10' \in [Freeze(b)!Tasks \X Freeze(b)!Methods -> Freeze(b)!CellFiles]
           /\ v9' \in [Freeze(b)!Tasks -> Freeze(b)!Versions]
  BY <1>1, FreezeSomes DEF FreezeInv, Freeze!TypeOK, FreezeNames
<1>4. Freeze(b)!TypeOK'
  BY <1>1, <1>3 DEF FreezeInv, Freeze!TypeOK, FreezeNames
<1>5. ~Freeze(b)!Prepared'
  BY <1>3, FreezeSomes DEF Freeze!Prepared, FreezeNames
<1>6. Freeze(b)!MakerInv'
  BY <1>1, <1>2, <1>5 DEF Freeze!MakerInv, Freeze!Begun
<1>7. Freeze(b)!PreparesInv'
  <2> SUFFICES ASSUME NEW p \in Freeze(b)!Prepares PROVE FreezeOwn(b, p)'
    BY DEF Freeze!PreparesInv, FreezeOwn
  <2>1. FreezeOwn(b, p) /\ ~Freeze(b)!Begun(p)' /\ ~Freeze(b)!Working(p)' /\ v12'[p] = v12[p]
        /\ v12[p].pc \notin {"assets", "task", "cell", "profile", "campaign", "controller",
             "done"}
    BY <1>1, <1>2 DEF FreezeInv, Freeze!PreparesInv, FreezeOwn, Freeze!Begun, Freeze!Working
  <2> QED BY <1>1, <2>1 DEF FreezeOwn, Freeze!CourseInv, Freeze!CellsInv, Freeze!DriftInv,
             Freeze!FilesInv
<1>8. Freeze(b)!LaunchesInv'
  BY <1>1, FreezeLaunchesKept
<1> QED BY <1>4, <1>6, <1>7, <1>8 DEF FreezeInv

-----------------------------------------------------------------------------
\* The launches write nothing of all this.
LEMMA FreezeLaunchKept ==
  ASSUME NEW b \in CampaignBounds,
         FreezeInv(b), UNCHANGED <<v1, v2, v3, v4, v5, v6, v7, v15, v8,
                          v9, v10, v11, v14, v12>>,
         v13' \in [Freeze(b)!Launches -> Freeze(b)!LaunchStates], Freeze(b)!LaunchesInv'
  PROVE  FreezeInv(b)'
<1>1. Freeze(b)!TypeOK'
  BY DEF FreezeInv, Freeze!TypeOK
<1>2. Freeze(b)!Cells' = Freeze(b)!Cells /\ (Freeze(b)!Prepared' <=> Freeze(b)!Prepared)
  BY FreezeFixedKept DEF Freeze!Prepared
<1>3. Freeze(b)!MakerInv'
  BY <1>2 DEF FreezeInv, Freeze!MakerInv, Freeze!Begun
<1>4. ASSUME NEW p \in Freeze(b)!Prepares PROVE FreezeOwn(b, p)'
  <2>1. FreezeOwn(b, p) /\ (Freeze(b)!Working(p)' <=> Freeze(b)!Working(p))
          /\ (Freeze(b)!Begun(p)' <=> Freeze(b)!Begun(p))
        /\ Freeze(b)!Written(p)' = Freeze(b)!Written(p)
    BY <1>2 DEF FreezeInv, Freeze!PreparesInv, FreezeOwn, Freeze!Working, Freeze!Begun,
       Freeze!Written
  <2>2. Freeze(b)!CourseInv(p)' /\ Freeze(b)!CellsInv(p)'
    BY <2>1 DEF FreezeOwn, Freeze!CourseInv, Freeze!CellsInv
  <2>3. Freeze(b)!DriftInv(p)' /\ Freeze(b)!FilesInv(p)'
    BY <1>2, <2>1 DEF FreezeOwn, Freeze!DriftInv, Freeze!FilesInv
  <2> QED BY <2>2, <2>3 DEF FreezeOwn
<1>5. Freeze(b)!PreparesInv'
  BY <1>4 DEF Freeze!PreparesInv, FreezeOwn
<1> QED BY <1>1, <1>3, <1>5 DEF FreezeInv

LEMMA FreezeOneLaunchKept ==
  ASSUME NEW b \in CampaignBounds,
         FreezeInv(b), UNCHANGED <<v1, v2, v3, v4, v5, v6, v7, v15, v8,
                          v9, v10, v11, v14, v12>>,
         NEW l \in Freeze(b)!Launches, NEW new \in Freeze(b)!LaunchStates, Freeze(b)!Set(l, new),
              Freeze(b)!LaunchInv(l)'
  PROVE  FreezeInv(b)'
<1>1. /\ v13' \in [Freeze(b)!Launches -> Freeze(b)!LaunchStates]
      /\ \A k \in Freeze(b)!Launches \ {l} : v13'[k] = v13[k]
  BY DEF FreezeInv, Freeze!TypeOK, Freeze!Set
<1>2. (Freeze(b)!HasGoalPlus' <=> Freeze(b)!HasGoalPlus)
        /\ (Freeze(b)!HasContract' <=> Freeze(b)!HasContract)
             /\ (Freeze(b)!Prepared' <=> Freeze(b)!Prepared)
  BY FreezeFixedKept DEF Freeze!Prepared
<1>3. ASSUME NEW k \in Freeze(b)!Launches \ {l} PROVE Freeze(b)!LaunchInv(k)'
  <2>1. Freeze(b)!LaunchInv(k)
    BY DEF FreezeInv, Freeze!LaunchesInv
  <2> QED BY <1>1, <1>2, <2>1 DEF Freeze!LaunchInv, Freeze!Checking, Freeze!Running
<1>4. Freeze(b)!LaunchesInv'
  BY <1>3 DEF Freeze!LaunchesInv
<1> QED BY <1>1, <1>4, FreezeLaunchKept

\* A launch ends before its containers, or is killed.
LEMMA FreezeLaunchStopInv ==
  ASSUME NEW b \in CampaignBounds,
         FreezeInv(b), UNCHANGED <<v1, v2, v3, v4, v5, v6, v7, v15, v8,
                          v9, v10, v11, v14, v12>>,
         NEW l \in Freeze(b)!Launches, NEW to \in {"failed", "refused", "killed"},
         Freeze(b)!Set(l, [v13[l] EXCEPT !.pc = to])
  PROVE  FreezeInv(b)'
<1> DEFINE new == [v13[l] EXCEPT !.pc = to]
<1>1. v13[l] \in Freeze(b)!LaunchStates
  BY DEF FreezeInv, Freeze!TypeOK
<1>2. new \in Freeze(b)!LaunchStates /\ new.pc = to
  BY <1>1 DEF Freeze!LaunchStates
<1> HIDE DEF new
<1>3. v13'[l] = new
  BY <1>2 DEF FreezeInv, Freeze!TypeOK, Freeze!Set, new
<1>4. Freeze(b)!LaunchInv(l)'
  BY <1>2, <1>3 DEF Freeze!LaunchInv, Freeze!Checking, Freeze!Running
<1> QED BY <1>2, <1>4, FreezeOneLaunchKept DEF new

LEMMA FreezeOpenInv ==
  ASSUME NEW b \in CampaignBounds,
         FreezeInv(b), NEW l \in Freeze(b)!Launches, Freeze(b)!Open(l)
  PROVE  FreezeInv(b)'
<1> DEFINE stop == \/ \E f \in DOMAIN v11 : v11[f].state # "whole"
                   \/ \E k \in Freeze(b)!Launches : Freeze(b)!Checking(k) \/ v13[k].pc = "running"
           w == IF stop THEN "refused" ELSE IF Freeze(b)!HasGoalPlus THEN "source" ELSE "contract"
           new == [v13[l] EXCEPT !.pc = w]
<1>1. /\ v13[l].pc = "idle" /\ Freeze(b)!Set(l, new)
      /\ UNCHANGED <<v1, v2, v3, v4, v5, v6, v7, v15, v8,
                     v9, v10, v11, v14, v12>>
  BY DEF Freeze!Open, Freeze!NothingElse, Freeze!Fixed, Freeze!World, Freeze!Disk
<1>2. v13[l] \in Freeze(b)!LaunchStates /\ DOMAIN v11 = FreezeNames(b)
  BY DEF FreezeInv, Freeze!TypeOK, FreezeNames
<1>3. /\ w \in {"refused", "source", "contract"}
      /\ w # "refused" => Freeze(b)!Prepared
      /\ w = "contract" => ~Freeze(b)!HasGoalPlus
  BY <1>2 DEF Freeze!Prepared, FreezeNames
<1> HIDE DEF w
<1>4. new \in Freeze(b)!LaunchStates /\ new.pc = w
  BY <1>2, <1>3 DEF Freeze!LaunchStates
<1> HIDE DEF new
<1>5. v13'[l] = new
  BY <1>1, <1>4 DEF FreezeInv, Freeze!TypeOK, Freeze!Set
<1>6. (Freeze(b)!HasGoalPlus' <=> Freeze(b)!HasGoalPlus)
        /\ (Freeze(b)!Prepared' <=> Freeze(b)!Prepared)
  BY <1>1, FreezeFixedKept DEF Freeze!Prepared
<1>7. Freeze(b)!LaunchInv(l)'
  BY <1>3, <1>4, <1>5, <1>6 DEF Freeze!LaunchInv, Freeze!Checking, Freeze!Running
<1> QED BY <1>1, <1>4, <1>7, FreezeOneLaunchKept

LEMMA FreezeSourceInv ==
  ASSUME NEW b \in CampaignBounds,
         FreezeInv(b), NEW l \in Freeze(b)!Launches, Freeze(b)!Source(l)
  PROVE  FreezeInv(b)'
<1>1. /\ v13[l].pc = "source"
      /\ UNCHANGED <<v1, v2, v3, v4, v5, v6, v7, v15, v8,
                     v9, v10, v11, v14, v12>>
  BY DEF Freeze!Source, Freeze!NothingElse, Freeze!Fixed, Freeze!World, Freeze!Disk
<1>2. CASE Freeze(b)!LaunchFails(l)
  BY <1>1, <1>2, FreezeLaunchStopInv DEF Freeze!LaunchFails
<1> DEFINE new == [v13[l] EXCEPT !.pc = "contract", !.source = v4.commit]
<1>3. CASE v4.valid /\ v4.commit = v11["profile"].source /\ Freeze(b)!Set(l, new)
  <2>1. v13[l] \in Freeze(b)!LaunchStates /\ v4.commit \in Freeze(b)!Versions
          /\ Freeze(b)!LaunchInv(l)
    BY DEF FreezeInv, Freeze!TypeOK, Freeze!LaunchesInv
  <2>2. new \in Freeze(b)!LaunchStates /\ new.pc = "contract" /\ new.source = v4.commit
    BY <2>1 DEF Freeze!LaunchStates
  <2> HIDE DEF new
  <2>3. v13'[l] = new
    BY <1>3, <2>2 DEF FreezeInv, Freeze!TypeOK, Freeze!Set
  <2>4. Freeze(b)!Prepared /\ Freeze(b)!Prepared'
    BY <1>1, <2>1 DEF Freeze!LaunchInv, Freeze!Checking, Freeze!Prepared
  <2>5. Freeze(b)!LaunchInv(l)'
    BY <1>1, <1>3, <2>2, <2>3, <2>4 DEF Freeze!LaunchInv, Freeze!Checking, Freeze!Running
  <2> QED BY <1>1, <1>3, <2>2, <2>5, FreezeOneLaunchKept
<1> QED BY <1>2, <1>3 DEF Freeze!Source

LEMMA FreezeContractInv ==
  ASSUME NEW b \in CampaignBounds,
         FreezeInv(b), NEW l \in Freeze(b)!Launches, Freeze(b)!Contract(l)
  PROVE  FreezeInv(b)'
<1>1. /\ v13[l].pc = "contract"
      /\ UNCHANGED <<v1, v2, v3, v4, v5, v6, v7, v15, v8,
                     v9, v10, v11, v14, v12>>
  BY DEF Freeze!Contract, Freeze!NothingElse, Freeze!Fixed, Freeze!World, Freeze!Disk
<1>2. CASE Freeze(b)!LaunchFails(l)
  BY <1>1, <1>2, FreezeLaunchStopInv DEF Freeze!LaunchFails
<1> DEFINE new == [v13[l] EXCEPT !.pc = "probe", !.contract = v7]
<1>3. CASE (Freeze(b)!HasContract => v7 = v11["profile"].contract) /\ Freeze(b)!Set(l, new)
  <2>1. v13[l] \in Freeze(b)!LaunchStates /\ v7 \in Freeze(b)!Versions /\ Freeze(b)!LaunchInv(l)
    BY DEF FreezeInv, Freeze!TypeOK, Freeze!LaunchesInv
  <2>2. /\ new \in Freeze(b)!LaunchStates /\ new.pc = "probe" /\ new.contract = v7
        /\ new.source = v13[l].source
    BY <2>1 DEF Freeze!LaunchStates
  <2> HIDE DEF new
  <2>3. v13'[l] = new
    BY <1>3, <2>2 DEF FreezeInv, Freeze!TypeOK, Freeze!Set
  <2>4. /\ Freeze(b)!Prepared /\ Freeze(b)!Prepared'
             /\ (Freeze(b)!HasGoalPlus' <=> Freeze(b)!HasGoalPlus)
        /\ (Freeze(b)!HasContract' <=> Freeze(b)!HasContract)
    BY <1>1, <2>1, FreezeFixedKept DEF Freeze!LaunchInv, Freeze!Checking, Freeze!Prepared
  <2>5. Freeze(b)!LaunchInv(l)'
    BY <1>1, <1>3, <2>1, <2>2, <2>3, <2>4 DEF Freeze!LaunchInv, Freeze!Checking, Freeze!Running
  <2> QED BY <1>1, <1>3, <2>2, <2>5, FreezeOneLaunchKept
<1> QED BY <1>2, <1>3 DEF Freeze!Contract

LEMMA FreezeProbeBeginsInv ==
  ASSUME NEW b \in CampaignBounds,
         FreezeInv(b), NEW l \in Freeze(b)!Launches, Freeze(b)!ProbeBegins(l)
  PROVE  FreezeInv(b)'
<1>1. /\ v13[l].pc = "probe"
      /\ UNCHANGED <<v1, v2, v3, v4, v5, v6, v7, v15, v8,
                     v9, v10, v11, v14, v12>>
  BY DEF Freeze!ProbeBegins, Freeze!NothingElse, Freeze!Fixed, Freeze!World, Freeze!Disk
<1>2. CASE Freeze(b)!LaunchFails(l)
  BY <1>1, <1>2, FreezeLaunchStopInv DEF Freeze!LaunchFails
<1> DEFINE new == [v13[l] EXCEPT !.pc = "registry", !.late = FALSE]
<1>3. CASE (Freeze(b)!HasContract => v7 = v13[l].contract) /\ Freeze(b)!Set(l, new)
  <2>1. v13[l] \in Freeze(b)!LaunchStates /\ Freeze(b)!LaunchInv(l)
    BY DEF FreezeInv, Freeze!TypeOK, Freeze!LaunchesInv
  <2>2. /\ new \in Freeze(b)!LaunchStates /\ new.pc = "registry" /\ new.contract = v13[l].contract
        /\ new.source = v13[l].source
    BY <2>1 DEF Freeze!LaunchStates
  <2> HIDE DEF new
  <2>3. v13'[l] = new
    BY <1>3, <2>2 DEF FreezeInv, Freeze!TypeOK, Freeze!Set
  <2>4. /\ Freeze(b)!Prepared /\ Freeze(b)!Prepared'
             /\ (Freeze(b)!HasGoalPlus' <=> Freeze(b)!HasGoalPlus)
        /\ (Freeze(b)!HasContract' <=> Freeze(b)!HasContract)
    BY <1>1, <2>1, FreezeFixedKept DEF Freeze!LaunchInv, Freeze!Checking, Freeze!Prepared
  <2>5. Freeze(b)!LaunchInv(l)'
    BY <1>1, <1>3, <2>1, <2>2, <2>3, <2>4 DEF Freeze!LaunchInv, Freeze!Checking, Freeze!Running
  <2> QED BY <1>1, <1>3, <2>2, <2>5, FreezeOneLaunchKept
<1> QED BY <1>2, <1>3 DEF Freeze!ProbeBegins

LEMMA FreezeWriteRegistryInv ==
  ASSUME NEW b \in CampaignBounds,
         FreezeInv(b), NEW l \in Freeze(b)!Launches, Freeze(b)!WriteRegistry(l)
  PROVE  FreezeInv(b)'
<1> DEFINE new == [v13[l] EXCEPT !.pc = "running", !.registry = v7]
<1>1. /\ v13[l].pc = "registry" /\ Freeze(b)!Set(l, new)
      /\ UNCHANGED <<v1, v2, v3, v4, v5, v6, v7, v15, v8,
                     v9, v10, v11, v14, v12>>
  BY DEF Freeze!WriteRegistry, Freeze!NothingElse, Freeze!Fixed, Freeze!World, Freeze!Disk
<1>2. v13[l] \in Freeze(b)!LaunchStates /\ v7 \in Freeze(b)!Versions /\ Freeze(b)!LaunchInv(l)
  BY DEF FreezeInv, Freeze!TypeOK, Freeze!LaunchesInv
<1>3. /\ new \in Freeze(b)!LaunchStates /\ new.pc = "running" /\ new.contract = v13[l].contract
      /\ new.source = v13[l].source /\ new.registry = v7 /\ new.late = v13[l].late
  BY <1>2 DEF Freeze!LaunchStates
<1> HIDE DEF new
<1>4. v13'[l] = new
  BY <1>1, <1>3 DEF FreezeInv, Freeze!TypeOK, Freeze!Set
<1>5. /\ Freeze(b)!Prepared /\ Freeze(b)!Prepared'
           /\ (Freeze(b)!HasGoalPlus' <=> Freeze(b)!HasGoalPlus)
      /\ (Freeze(b)!HasContract' <=> Freeze(b)!HasContract)
  BY <1>1, <1>2, FreezeFixedKept DEF Freeze!LaunchInv, Freeze!Checking, Freeze!Prepared
<1>6. Freeze(b)!LaunchInv(l)'
  BY <1>1, <1>2, <1>3, <1>4, <1>5 DEF Freeze!LaunchInv, Freeze!Checking, Freeze!Running
<1> QED BY <1>1, <1>3, <1>6, FreezeOneLaunchKept

-----------------------------------------------------------------------------
LEMMA FreezeNextInv ==
  ASSUME NEW b \in CampaignBounds,
         FreezeInv(b), Freeze(b)!Next \/ UNCHANGED Freeze(b)!vars
  PROVE  FreezeInv(b)'
<1>1. CASE UNCHANGED Freeze(b)!vars
  <2>1. /\ UNCHANGED <<v1, v2, v3, v4, v5, v6, v7, v15, v8,
                       v9, v10, v11, v14, v12>>
        /\ UNCHANGED v13
    BY <1>1 DEF Freeze!vars
  <2>2. Freeze(b)!LaunchesInv'
    BY <2>1, FreezeLaunchesKept
  <2> QED BY <2>1, <2>2, FreezeLaunchKept DEF FreezeInv, Freeze!TypeOK
<1>2. ASSUME NEW l \in Freeze(b)!Launches, Freeze(b)!ProbeFails(l) \/ Freeze(b)!KillLaunch(l)
      PROVE FreezeInv(b)'
  BY <1>2, FreezeLaunchStopInv DEF Freeze!ProbeFails, Freeze!KillLaunch, Freeze!LaunchFails,
     Freeze!NothingElse, Freeze!Fixed, Freeze!World, Freeze!Disk
<1>3. CASE \E p \in Freeze(b)!Prepares :
             \/ Freeze(b)!Resolve(p) \/ Freeze(b)!ResolveSource(p) \/ Freeze(b)!MakeDir(p)
                  \/ Freeze(b)!CopyTask(p) \/ Freeze(b)!ReadTask(p)
             \/ Freeze(b)!WriteCell(p) \/ Freeze(b)!WriteProfile(p) \/ Freeze(b)!WriteCampaign(p)
                  \/ Freeze(b)!WriteController(p)
             \/ Freeze(b)!KillPrepare(p)
  BY <1>3, FreezeResolveInv, FreezeResolveSourceInv, FreezeMakeDirInv, FreezeCopyTaskInv,
     FreezeReadTaskInv, FreezeWriteCellInv, FreezeWriteProfileInv, FreezeWriteCampaignInv,
     FreezeWriteControllerInv, FreezeKillPrepareInv
<1>4. CASE \E l \in Freeze(b)!Launches : \/ Freeze(b)!Open(l) \/ Freeze(b)!Source(l)
        \/ Freeze(b)!Contract(l) \/ Freeze(b)!ProbeBegins(l)
                                         \/ Freeze(b)!ProbeFails(l) \/ Freeze(b)!WriteRegistry(l)
                                              \/ Freeze(b)!KillLaunch(l)
  BY <1>2, <1>4, FreezeOpenInv, FreezeSourceInv, FreezeContractInv, FreezeProbeBeginsInv,
     FreezeWriteRegistryInv
<1> QED BY <1>1, <1>3, <1>4, FreezeMoveInv, FreezeRemoveInv DEF Freeze!Next

\* How many cells there are, when no method is given twice.
LEMMA FreezeCellCount ==
  ASSUME NEW b \in CampaignBounds,
         v2 \in Freeze(b)!Given, v2 # FreezeTwice(b)
  PROVE  Cardinality(Freeze(b)!Cells) = b.tasks * Len(v2)
<1>1. IsFiniteSet(Freeze(b)!Tasks) /\ Cardinality(Freeze(b)!Tasks) = b.tasks /\ b.tasks \in Nat
  <2>1. /\ 1 \in Int /\ b.tasks \in Int
    BY FreezeBounded
  <2>2. IsFiniteSet(1..b.tasks)
          /\ Cardinality(1..b.tasks) = IF 1 > b.tasks THEN 0 ELSE b.tasks - 1 + 1
    BY <2>1, FS_Interval, FreezeSameSize
  <2>3. ~(1 > b.tasks) /\ b.tasks - 1 + 1 = b.tasks
    BY FreezeBounded
  <2> QED BY <2>2, <2>3, FreezeSameSize, FreezeBounded DEF Freeze!Tasks
<1>2. CASE v2 = <<"codex">>
  <2>1. IsFiniteSet({"codex"}) /\ Cardinality({"codex"}) = 1 /\ Len(v2) = 1
    BY <1>2, FS_Singleton, FreezeSameSize
  <2>2. Freeze(b)!Cells = Freeze(b)!Tasks \X {"codex"}
    <3>1. \A m \in Freeze(b)!Methods : (\E i \in DOMAIN v2 : v2[i] = m) <=> m = "codex"
      BY <1>2
    <3> QED BY <3>1 DEF Freeze!Cells, Freeze!Methods
  <2>3. Cardinality(Freeze(b)!Tasks \X {"codex"})
        = Cardinality(Freeze(b)!Tasks) * Cardinality({"codex"})
    BY <1>1, <2>1, FS_Product, FreezeSameSize
  <2> QED BY <1>1, <2>1, <2>2, <2>3, FreezeSameSize
<1>3. CASE v2 = <<"codex", "goal-plus-codex">>
  <2>1. IsFiniteSet(Freeze(b)!Methods) /\ Cardinality(Freeze(b)!Methods) = 2 /\ Len(v2) = 2
    <3>1. IsFiniteSet({"codex"}) /\ Cardinality({"codex"}) = 1
      BY FS_Singleton, FreezeSameSize
    <3>2. Freeze(b)!Methods = {"codex"} \cup {"goal-plus-codex"}
            /\ "goal-plus-codex" \notin {"codex"}
      BY DEF Freeze!Methods
    <3>3. /\ IsFiniteSet({"codex"} \cup {"goal-plus-codex"})
          /\ Cardinality({"codex"} \cup {"goal-plus-codex"}) =
               IF "goal-plus-codex" \in {"codex"} THEN Cardinality({"codex"})
               ELSE Cardinality({"codex"}) + 1
      BY <3>1, FS_AddElement, FreezeSameSize
    <3> QED BY <1>3, <3>1, <3>2, <3>3, FreezeSameSize
  <2>2. Freeze(b)!Cells = Freeze(b)!Tasks \X Freeze(b)!Methods
    <3>1. \A m \in Freeze(b)!Methods : \E i \in DOMAIN v2 : v2[i] = m
      BY <1>3 DEF Freeze!Methods
    <3> QED BY <3>1 DEF Freeze!Cells
  <2>3. Cardinality(Freeze(b)!Tasks \X Freeze(b)!Methods)
        = Cardinality(Freeze(b)!Tasks) * Cardinality(Freeze(b)!Methods)
    BY <1>1, <2>1, FS_Product, FreezeSameSize
  <2> QED BY <1>1, <2>1, <2>2, <2>3, FreezeSameSize
<1> QED BY <1>2, <1>3 DEF Freeze!Given, FreezeTwice

LEMMA FreezeSound ==
  ASSUME NEW b \in CampaignBounds
  PROVE  FreezeInv(b) => Freeze(b)!TypeOK /\ Freeze(b)!EdgePreparationIsSound
<1> SUFFICES ASSUME FreezeInv(b) PROVE Freeze(b)!TypeOK /\ Freeze(b)!EdgePreparationIsSound
  OBVIOUS
<1>1. ASSUME NEW p \in Freeze(b)!Prepares, v12[p].pc = "done"
      PROVE  p \in v14 /\ FreezeOwn(b, p) /\ Freeze(b)!Begun(p)
               /\ Freeze(b)!Written(p) = Freeze(b)!Cells /\ v2 # FreezeTwice(b)
  <2>1. Freeze(b)!Begun(p) /\ FreezeOwn(b, p) /\ p \in v14
    BY <1>1 DEF FreezeInv, Freeze!MakerInv, Freeze!PreparesInv, FreezeOwn, Freeze!Begun
  <2>2. v12[p].task = b.tasks + 1 /\ v2 # FreezeTwice(b)
    BY <1>1, <2>1 DEF FreezeOwn, Freeze!CourseInv, FreezeTwice
  <2>3. \A c \in Freeze(b)!Cells : c[1] \in 1..b.tasks
    BY DEF Freeze!Cells, Freeze!Tasks
  <2>4. \A c \in Freeze(b)!Cells : c[1] < v12[p].task
    BY <2>2, <2>3, FreezeBounded
  <2> QED BY <2>1, <2>2, <2>4 DEF Freeze!Written
<1>2. Freeze(b)!OneMaker
  <2>1. Cardinality(v14) <= 1
    <3>1. CASE v14 = {}
      BY <3>1, FS_EmptySet, FreezeSameSize
    <3>2. CASE v14 # {}
      <4>1. PICK p \in v14 : TRUE
        BY <3>2
      <4>2. v14 = {p}
        BY <4>1 DEF FreezeInv, Freeze!MakerInv
      <4>3. Cardinality({p}) = 1
        BY FS_Singleton, FreezeSameSize
      <4> QED BY <4>2, <4>3, FreezeSameSize
    <3> QED BY <3>1, <3>2
  <2>2. ASSUME NEW p \in Freeze(b)!Prepares, v12[p].pc = "done"
        PROVE  p \in v14 /\ Cardinality(Freeze(b)!Cells) = b.tasks * Len(v2)
    BY <1>1, <2>2, FreezeCellCount DEF FreezeInv, Freeze!TypeOK
  <2> QED BY <2>1, <2>2, FreezeSameSize DEF Freeze!OneMaker
<1>3. ASSUME Freeze(b)!Prepared
      PROVE  \E p \in v14 :
               /\ p \in Freeze(b)!Prepares /\ v12[p].pc = "done" /\ FreezeOwn(b, p)
                    /\ Freeze(b)!Begun(p) /\ Freeze(b)!Written(p) = Freeze(b)!Cells
               /\ v14 = {p}
  <2>1. PICK p \in Freeze(b)!Prepares : v12[p].pc = "done"
    BY <1>3 DEF FreezeInv, Freeze!MakerInv
  <2>2. p \in v14 /\ v14 = {p}
    BY <1>1, <2>1 DEF FreezeInv, Freeze!MakerInv
  <2> QED BY <1>1, <2>1, <2>2
<1>4. Freeze(b)!LaunchedIsWhole
  <2>1. Freeze(b)!Prepared => /\ v11["profile"].state = "whole" /\ v11["campaign"].state = "whole"
                              /\ \A c \in Freeze(b)!Cells : v10[c].state = "whole"
    BY <1>3 DEF FreezeOwn, Freeze!FilesInv, Freeze!CellsInv
  <2>2. \A l \in Freeze(b)!Launches : Freeze(b)!Checking(l) \/ Freeze(b)!Running(l) =>
          Freeze(b)!Prepared
    BY DEF FreezeInv, Freeze!LaunchesInv, Freeze!LaunchInv
  <2> QED BY <2>1, <2>2 DEF Freeze!LaunchedIsWhole
<1>5. ASSUME Freeze(b)!Prepared
      PROVE  /\ v11["profile"].source = v11["campaign"].source
             /\ v11["profile"].contract = v11["campaign"].contract
  BY <1>3, <1>5 DEF FreezeOwn, Freeze!FilesInv
<1>6. Freeze(b)!CellsAgree
  <2> SUFFICES ASSUME Freeze(b)!Prepared PROVE Freeze(b)!CellsAgree
    BY DEF Freeze!CellsAgree
  <2>1. PICK p \in v14 :
          /\ p \in Freeze(b)!Prepares /\ v12[p].pc = "done" /\ FreezeOwn(b, p)
               /\ Freeze(b)!Begun(p) /\ Freeze(b)!Written(p) = Freeze(b)!Cells
          /\ v14 = {p}
    BY <1>3
  <2>2. \A c \in Freeze(b)!Cells : /\ v10[c].source = v12[p].source
                                   /\ \A d \in Freeze(b)!Cells : c[1] = d[1] =>
                                        v10[c].task = v10[d].task
                                   /\ v3 => v10[c].task = v9[c[1]]
    BY <2>1 DEF FreezeOwn, Freeze!CellsInv
  <2>3. /\ v11["campaign"].source = v12[p].source
        /\ ~v3 /\ ~v12[p].drift => \A c \in Freeze(b)!Cells : v10[c].task = v11["campaign"].edge
    BY <2>1 DEF FreezeOwn, Freeze!FilesInv
  <2> QED BY <1>5, <2>1, <2>2, <2>3 DEF Freeze!CellsAgree
<1>7. Freeze(b)!LaunchedAsPrepared
  <2> SUFFICES ASSUME NEW l \in Freeze(b)!Launches, Freeze(b)!Running(l)
               PROVE  /\ Freeze(b)!HasGoalPlus => v13[l].source = v11["campaign"].source
                      /\ Freeze(b)!HasContract =>
                           /\ v13[l].contract = v11["campaign"].contract
                           /\ ~v13[l].late => v13[l].registry = v11["campaign"].contract
    BY DEF Freeze!LaunchedAsPrepared
  <2>1. Freeze(b)!LaunchInv(l) /\ Freeze(b)!Prepared /\ v13[l].pc = "running"
    BY DEF FreezeInv, Freeze!LaunchesInv, Freeze!LaunchInv, Freeze!Running
  <2> QED BY <1>5, <2>1 DEF Freeze!LaunchInv
<1> QED BY <1>2, <1>4, <1>6, <1>7 DEF FreezeInv, Freeze!EdgePreparationIsSound

-----------------------------------------------------------------------------
(* From the parts to Spec: a step keeps the part, and is one of its module.  *)

LEMMA PartKept == ASSUME [Next]_vars PROVE part' = part
  BY DEF Next, vars

LEMMA BootstrapStays ==
  ASSUME [Next]_vars
  PROVE  /\ (part = "bootstrap")' =>
              /\ part = "bootstrap"
              /\ Bootstrap(CheckoutAlone)!Next \/ UNCHANGED Bootstrap(CheckoutAlone)!vars
         /\ (part = "bootstraps")' =>
              /\ part = "bootstraps"
              /\ Bootstrap(CheckoutRival)!Next \/ UNCHANGED Bootstrap(CheckoutRival)!vars
  BY PartKept DEF Next, vars, Bootstrap!vars

LEMMA ImagesStays ==
  ASSUME [Next]_vars, (part = "images")'
  PROVE  part = "images" /\ (Images!Next \/ UNCHANGED Images!vars)
  BY PartKept DEF Next, vars, Images!vars

LEMMA PrepareStays ==
  ASSUME [Next]_vars
  PROVE  /\ (part = "prepare")' =>
              /\ part = "prepare"
              /\ Prepare(RunAlone)!Next \/ UNCHANGED Prepare(RunAlone)!vars
         /\ (part = "prepares")' =>
              /\ part = "prepares"
              /\ Prepare(RunRival)!Next \/ UNCHANGED Prepare(RunRival)!vars
  BY PartKept DEF Next, vars, Prepare!vars

LEMMA FreezeStays ==
  ASSUME [Next]_vars
  PROVE  /\ (part = "freeze")' =>
              /\ part = "freeze"
              /\ Freeze(CampaignFrozen)!Next \/ UNCHANGED Freeze(CampaignFrozen)!vars
         /\ (part = "launches")' =>
              /\ part = "launches"
              /\ Freeze(CampaignLaunched)!Next \/ UNCHANGED Freeze(CampaignLaunched)!vars
  BY PartKept DEF Next, vars, Freeze!vars

ProvisionInv ==
  /\ part = "bootstrap" => BootstrapInv(CheckoutAlone)
  /\ part = "bootstraps" => BootstrapInv(CheckoutRival)
  /\ part = "images" => ImagesInv
  /\ part = "prepare" => PrepareInv(RunAlone)
  /\ part = "prepares" => PrepareInv(RunRival)
  /\ part = "freeze" => FreezeInv(CampaignFrozen)
  /\ part = "launches" => FreezeInv(CampaignLaunched)

LEMMA ProvisionInvariant == Spec => []ProvisionInv
<1>1. ASSUME Init PROVE ProvisionInv
  <2>1. part = "bootstrap" => BootstrapInv(CheckoutAlone)
    BY <1>1, BootstrapInitInv, BootstrapBounds DEF Init
  <2>2. part = "bootstraps" => BootstrapInv(CheckoutRival)
    BY <1>1, BootstrapInitInv, BootstrapBounds DEF Init
  <2>3. part = "images" => ImagesInv
    BY <1>1, ImagesInitInv DEF Init
  <2>4. part = "prepare" => PrepareInv(RunAlone)
    BY <1>1, PrepareInitInv, PreparedBounds DEF Init
  <2>5. part = "prepares" => PrepareInv(RunRival)
    BY <1>1, PrepareInitInv, PreparedBounds DEF Init
  <2>6. part = "freeze" => FreezeInv(CampaignFrozen)
    BY <1>1, FreezeInitInv, FrozenBounds DEF Init
  <2>7. part = "launches" => FreezeInv(CampaignLaunched)
    BY <1>1, FreezeInitInv, FrozenBounds DEF Init
  <2> QED BY <2>1, <2>2, <2>3, <2>4, <2>5, <2>6, <2>7 DEF ProvisionInv
<1>2. ASSUME ProvisionInv, [Next]_vars PROVE ProvisionInv'
  <2>1. (part = "bootstrap")' => BootstrapInv(CheckoutAlone)'
    BY <1>2, BootstrapStays, BootstrapNextInv, BootstrapBounds DEF ProvisionInv
  <2>2. (part = "bootstraps")' => BootstrapInv(CheckoutRival)'
    BY <1>2, BootstrapStays, BootstrapNextInv, BootstrapBounds DEF ProvisionInv
  <2>3. (part = "images")' => ImagesInv'
    BY <1>2, ImagesStays, ImagesNextInv DEF ProvisionInv
  <2>4. (part = "prepare")' => PrepareInv(RunAlone)'
    BY <1>2, PrepareStays, PrepareNextInv, PreparedBounds DEF ProvisionInv
  <2>5. (part = "prepares")' => PrepareInv(RunRival)'
    BY <1>2, PrepareStays, PrepareNextInv, PreparedBounds DEF ProvisionInv
  <2>6. (part = "freeze")' => FreezeInv(CampaignFrozen)'
    BY <1>2, FreezeStays, FreezeNextInv, FrozenBounds DEF ProvisionInv
  <2>7. (part = "launches")' => FreezeInv(CampaignLaunched)'
    BY <1>2, FreezeStays, FreezeNextInv, FrozenBounds DEF ProvisionInv
  <2> QED BY <2>1, <2>2, <2>3, <2>4, <2>5, <2>6, <2>7 DEF ProvisionInv
<1> QED BY <1>1, <1>2, PTL DEF Spec

\* A bootstrap loses no local work and what it reports is what is there (repro_env); what an
\* image's labels say is so and nothing is replaced without a tag (skydiscover environment);
\* one prepare makes a directory, whole before its record says so, its copies agree with one
\* another and with the record, and a run or launch starts from what was prepared, but for
\* the moves and races that the properties name (the two prepare commands, load_manifest,
\* prepare_runtime_resources).
THEOREM ProvisionsAreSound == Spec => []ProvisionIsSound
<1>1. ProvisionInv => ProvisionIsSound
  BY BootstrapSound, ImagesSound, PrepareSound, FreezeSound, BootstrapBounds, PreparedBounds,
     FrozenBounds DEF ProvisionInv, ProvisionIsSound
<1> QED BY <1>1, ProvisionInvariant, PTL
==============================================================================
