------------------------- MODULE ControllersProofs ---------------------------
(***************************************************************************)
(* Theorems about the controllers of MCControllers, for every value of the *)
(* bounds: Frontier-Engineering, for one controller over its cells and for *)
(* controllers that race for a campaign, AIBench and ZSoft.  A section per *)
(* controller gives its inductive invariant (its conjuncts are in the      *)
(* controller's own module) and shows that its steps keep it; the last     *)
(* section carries them over to Spec.                                      *)
(***************************************************************************)
EXTENDS MCControllers, FiniteSetTheorems, TLAPS

-----------------------------------------------------------------------------
(* Frontier-Engineering: the controllers of a campaign, its stop and its   *)
(* finalization (FrontierCampaign), with M controllers and N cells. Here   *)
(* v1 is disk, v2 is exper, v3 is fin, v4 is ctl, v5 is leader, v6 is pc,  *)
(* v7 is mem, v8 is cur, v9 is flag, v10 is agent, v11 is ok, v12 is stop, *)
(* v13 is begun, v14 is after, v15 is audit.                               *)

FrontierInv(M, N) ==
  /\ Frontier(M, N)!TypeOK /\ Frontier(M, N)!CellsInv /\ Frontier(M, N)!ExecutionInv
  /\ Frontier(M, N)!VerdictInv /\ Frontier(M, N)!HeardInv /\ Frontier(M, N)!WakeInv

\* The steps of a controller between its cells, and in one; those around it; the stop;
\* finalize_campaign.
FrontierBetween(M, N, p) ==
  \/ Frontier(M, N)!Boot(p) \/ Frontier(M, N)!Announce(p) \/ Frontier(M, N)!Activate(p)
  \/ Frontier(M, N)!LoopTop(p) \/ Frontier(M, N)!TakeCell(p)
  \/ Frontier(M, N)!RecordCell(p) \/ Frontier(M, N)!Final(p)
FrontierWithin(M, N, p) ==
  \/ Frontier(M, N)!CheckPrepared(p) \/ Frontier(M, N)!CellRaises(p) \/ Frontier(M, N)!Begin(p)
  \/ Frontier(M, N)!StartAgent(p) \/ Frontier(M, N)!AgentOver(p)
  \/ Frontier(M, N)!Evaluate(p) \/ Frontier(M, N)!Judge(p)
FrontierAround(M, N, p) ==
  \/ Frontier(M, N)!Launch(p) \/ Frontier(M, N)!LauncherWrites(p) \/ Frontier(M, N)!Kill(p)
  \/ Frontier(M, N)!OrphanEnds(p)
FrontierStopping(M, N) ==
  \/ Frontier(M, N)!StopReads \/ Frontier(M, N)!StopLists \/ Frontier(M, N)!StopAgents
  \/ Frontier(M, N)!StopController
FrontierAuditing(M, N) ==
  \/ Frontier(M, N)!FinalizeReads \/ Frontier(M, N)!FinalizeWrites
  \/ Frontier(M, N)!FinalizeEnds
  \/ \E c \in Frontier(M, N)!Cells : Frontier(M, N)!Reaudit(c)

LEMMA FrontierGroups ==
  ASSUME NEW M, NEW N \in Nat,
         Frontier(M, N)!Next
  PROVE  \/ \E p \in Frontier(M, N)!Controllers : FrontierBetween(M, N, p)
              \/ FrontierWithin(M, N, p) \/ FrontierAround(M, N, p)
         \/ FrontierStopping(M, N) \/ FrontierAuditing(M, N)
  BY DEF Frontier!Next, Frontier!Controller, FrontierBetween, FrontierWithin, FrontierAround,
     FrontierStopping, FrontierAuditing

FrontierCellStates(M, N) == {"prepared", "running"} \cup Frontier(M, N)!Terminal

FrontierSetsCell(M, N, p, c, s) == v7' = [v7 EXCEPT ![p].cells[c] = s]

\* What a controller's document is after one of its cells, or its state, was set.
LEMMA FrontierCellSet ==
  ASSUME NEW M, NEW N \in Nat,
         v7 \in [Frontier(M, N)!Controllers -> Frontier(M, N)!Campaign],
         NEW p \in Frontier(M, N)!Controllers, NEW c \in Frontier(M, N)!Cells,
         NEW s \in FrontierCellStates(M, N), FrontierSetsCell(M, N, p, c, s)
  PROVE  /\ v7' \in [Frontier(M, N)!Controllers -> Frontier(M, N)!Campaign]
         /\ v7'[p].state = v7[p].state /\ v7'[p].cells[c] = s
         /\ \A d \in Frontier(M, N)!Cells \ {c} : v7'[p].cells[d] = v7[p].cells[d]
         /\ \A q \in Frontier(M, N)!Controllers \ {p} : v7'[q] = v7[q]
<1>1. v7[p] \in Frontier(M, N)!Campaign
        /\ v7[p].cells \in [Frontier(M, N)!Cells -> FrontierCellStates(M, N)]
  BY DEF Frontier!Campaign, FrontierCellStates
<1>2. /\ v7'[p] = [v7[p] EXCEPT !.cells = [v7[p].cells EXCEPT ![c] = s]]
      /\ v7' = [v7 EXCEPT ![p] = v7'[p]]
  BY DEF FrontierSetsCell
<1>3. [v7[p].cells EXCEPT ![c] = s] \in [Frontier(M, N)!Cells -> FrontierCellStates(M, N)]
  BY <1>1
<1>4. /\ v7'[p] \in Frontier(M, N)!Campaign /\ v7'[p].state = v7[p].state
      /\ v7'[p].cells = [v7[p].cells EXCEPT ![c] = s]
  BY <1>1, <1>2, <1>3 DEF Frontier!Campaign, FrontierCellStates
<1> QED BY <1>1, <1>2, <1>4

LEMMA FrontierStateSet ==
  ASSUME NEW M, NEW N \in Nat,
         v7 \in [Frontier(M, N)!Controllers -> Frontier(M, N)!Campaign],
         NEW p \in Frontier(M, N)!Controllers,
         NEW s \in FrontierCellStates(M, N), v7' = [v7 EXCEPT ![p].state = s]
  PROVE  /\ v7' \in [Frontier(M, N)!Controllers -> Frontier(M, N)!Campaign]
         /\ v7'[p].state = s /\ v7'[p].cells = v7[p].cells
         /\ \A q \in Frontier(M, N)!Controllers \ {p} : v7'[q] = v7[q]
<1>1. v7[p] \in Frontier(M, N)!Campaign /\ v7'[p] = [v7[p] EXCEPT !.state = s]
  OBVIOUS
<1>2. v7'[p] \in Frontier(M, N)!Campaign /\ v7'[p].state = s /\ v7'[p].cells = v7[p].cells
  BY <1>1 DEF Frontier!Campaign, FrontierCellStates
<1> QED BY <1>2

\* The controller's last document.
LEMMA FrontierEnded ==
  ASSUME NEW M, NEW N \in Nat,
         v7 \in [Frontier(M, N)!Controllers -> Frontier(M, N)!Campaign],
              v9 \in [Frontier(M, N)!Controllers -> BOOLEAN],
         NEW p \in Frontier(M, N)!Controllers, Frontier(M, N)!Final(p)
  PROVE  /\ v7' \in [Frontier(M, N)!Controllers -> Frontier(M, N)!Campaign]
         /\ v7'[p].state = Frontier(M, N)!Outcome(v7[p], v9[p])
         /\ \A c \in Frontier(M, N)!Cells : \/ v7'[p].cells[c] = v7[p].cells[c]
                                            \/ v7'[p].cells[c] = "interrupted"
         /\ ~v9[p] => \A c \in Frontier(M, N)!Cells : v7'[p].cells[c] = v7[p].cells[c]
         /\ \A q \in Frontier(M, N)!Controllers \ {p} : v7'[q] = v7[q]
<1> DEFINE cells == [c \in Frontier(M, N)!Cells |-> IF v9[p] /\ v7[p].cells[c] = "running"
                                     THEN "interrupted" ELSE v7[p].cells[c]]
<1>1. v7[p] \in Frontier(M, N)!Campaign
        /\ v7[p].cells \in [Frontier(M, N)!Cells -> FrontierCellStates(M, N)]
  BY DEF Frontier!Campaign, FrontierCellStates
<1>2. v7'[p] = [v7[p] EXCEPT !.state = Frontier(M, N)!Outcome(v7[p], v9[p]), !.cells = cells]
  BY DEF Frontier!Final
<1>3. cells \in [Frontier(M, N)!Cells -> FrontierCellStates(M, N)]
  BY <1>1 DEF FrontierCellStates, Frontier!Terminal
<1>4. Frontier(M, N)!Outcome(v7[p], v9[p]) \in FrontierCellStates(M, N)
  BY DEF Frontier!Outcome, FrontierCellStates, Frontier!Terminal
<1>5. /\ v7'[p] \in Frontier(M, N)!Campaign /\ v7'[p].state = Frontier(M, N)!Outcome(v7[p], v9[p])
      /\ v7'[p].cells = cells
  <2> HIDE DEF cells
  <2> QED BY <1>1, <1>2, <1>3, <1>4 DEF Frontier!Campaign, FrontierCellStates
<1>6. \A q \in Frontier(M, N)!Controllers \ {p} : v7'[q] = v7[q]
  BY DEF Frontier!Final
<1>7. v7' \in [Frontier(M, N)!Controllers -> Frontier(M, N)!Campaign]
  BY <1>5, <1>6 DEF Frontier!Final
<1> QED BY <1>5, <1>6, <1>7

\* What finalize_campaign has in hand while it is not called: the prepared campaign.
LEMMA FrontierNoAudit ==
  ASSUME NEW M, NEW N \in Nat
  PROVE  /\ Frontier(M, N)!NoAudit \in [pc : {"idle", "read", "repaired"},
                                         camp : Frontier(M, N)!Campaign]
         /\ Frontier(M, N)!NoAudit.camp.state = "prepared"
         /\ \A c \in Frontier(M, N)!Cells : Frontier(M, N)!NoAudit.camp.cells[c] = "prepared"
  BY DEF Frontier!NoAudit, Frontier!Prepared, Frontier!Campaign

\* An audit of a cell completes it if it is finished with a valid evaluation, or leaves it.
LEMMA FrontierReaudited ==
  ASSUME NEW M, NEW N \in Nat,
         Frontier(M, N)!TypeOK, NEW c \in Frontier(M, N)!Cells, Frontier(M, N)!Reaudit(c)
  PROVE  /\ v15' \in [pc : {"idle", "read", "repaired"}, camp : Frontier(M, N)!Campaign]
         /\ v15'.camp.state = v15.camp.state
         /\ v2' \in [Frontier(M, N)!Cells -> {"prepared", "running", "finished", "incomplete"}]
         /\ v2[c] = "incomplete" /\ v2'[c] \in {"finished", "incomplete"}
         /\ \/ v15'.camp.cells[c] = "partial"
            \/ v15'.camp.cells[c] = "completed" /\ v2'[c] = "finished" /\ v3[c] = "valid"
         /\ \A d \in Frontier(M, N)!Cells \ {c} :
              v15'.camp.cells[d] = v15.camp.cells[d] /\ v2'[d] = v2[d]
<1>1. PICK s \in {"finished", "incomplete"} :
        /\ v2' = [v2 EXCEPT ![c] = s]
        /\ v15' = [pc |-> "repaired", camp |->
             IF s = "finished" /\ v3[c] = "valid"
             THEN [v15.camp EXCEPT !.cells[c] = "completed"] ELSE v15.camp]
  BY DEF Frontier!Reaudit
<1>2. /\ v15.camp \in Frontier(M, N)!Campaign /\ v2[c] = "incomplete"
      /\ v15.camp.cells \in [Frontier(M, N)!Cells -> FrontierCellStates(M, N)]
      /\ v15.camp.cells[c] = "partial"
  BY DEF Frontier!TypeOK, Frontier!Reaudit, Frontier!Campaign, FrontierCellStates
<1> DEFINE cells == [v15.camp.cells EXCEPT ![c] = "completed"]
           camp == [v15.camp EXCEPT !.cells = cells]
<1>3. cells \in [Frontier(M, N)!Cells -> FrontierCellStates(M, N)] /\ cells[c] = "completed"
        /\ \A d \in Frontier(M, N)!Cells \ {c} : cells[d] = v15.camp.cells[d]
  BY <1>2 DEF FrontierCellStates, Frontier!Terminal
<1>4. /\ [v15.camp EXCEPT !.cells[c] = "completed"] = camp
      /\ camp.cells = cells /\ camp.state = v15.camp.state
  BY <1>2 DEF Frontier!Campaign
<1>5. camp \in Frontier(M, N)!Campaign
  <2> HIDE DEF cells
  <2> QED BY <1>2, <1>3 DEF Frontier!Campaign, FrontierCellStates
<1>6. /\ v2' \in [Frontier(M, N)!Cells -> {"prepared", "running", "finished", "incomplete"}]
      /\ v2'[c] = s /\ \A d \in Frontier(M, N)!Cells \ {c} : v2'[d] = v2[d]
  BY <1>1 DEF Frontier!TypeOK
<1> HIDE DEF cells, camp
<1>7. CASE s = "finished" /\ v3[c] = "valid"
  <2>1. v15' = [pc |-> "repaired", camp |-> camp]
    BY <1>1, <1>4, <1>7
  <2> QED BY <1>2, <1>3, <1>4, <1>5, <1>6, <1>7, <2>1
<1>8. CASE ~(s = "finished" /\ v3[c] = "valid")
  <2>1. v15' = [pc |-> "repaired", camp |-> v15.camp]
    BY <1>1, <1>8
  <2> QED BY <1>2, <1>6, <2>1
<1> QED BY <1>7, <1>8

\* What finalize_campaign makes of campaign.json: the document it worked on.
LEMMA FrontierFinalized ==
  ASSUME NEW M, NEW N \in Nat,
         Frontier(M, N)!TypeOK, Frontier(M, N)!FinalizeWrites
  PROVE  /\ v1' \in Frontier(M, N)!Campaign /\ v1'.cells = v15.camp.cells
         /\ \/ v1'.state = v15.camp.state
            \/ v1'.state = "completed" /\ \A c \in Frontier(M, N)!Cells :
                 v1'.cells[c] = "completed"
<1> DEFINE s == IF /\ v15.camp.state = "partial"
                   /\ \A c \in Frontier(M, N)!Cells : v15.camp.cells[c] = "completed"
                THEN "completed" ELSE v15.camp.state
<1>1. /\ v15.camp \in Frontier(M, N)!Campaign
      /\ v15.camp.state \in FrontierCellStates(M, N)
  BY DEF Frontier!TypeOK, Frontier!Campaign, FrontierCellStates
<1>2. v1' = [v15.camp EXCEPT !.state = s]
  BY DEF Frontier!FinalizeWrites
<1>3. /\ s \in FrontierCellStates(M, N)
      /\ \/ s = v15.camp.state
         \/ s = "completed" /\ \A c \in Frontier(M, N)!Cells : v15.camp.cells[c] = "completed"
  BY <1>1 DEF FrontierCellStates, Frontier!Terminal
<1> HIDE DEF s
<1>4. v1' \in Frontier(M, N)!Campaign /\ v1'.state = s /\ v1'.cells = v15.camp.cells
  BY <1>1, <1>2, <1>3 DEF Frontier!Campaign, FrontierCellStates
<1> QED BY <1>3, <1>4

-----------------------------------------------------------------------------

LEMMA FrontierInitInv ==
  ASSUME NEW M, NEW N \in Nat,
         Frontier(M, N)!Init
  PROVE  FrontierInv(M, N)
<1>1. Frontier(M, N)!Prepared \in Frontier(M, N)!Campaign
  BY DEF Frontier!Prepared, Frontier!Campaign
<1>2. {v9, v11} \subseteq [Frontier(M, N)!Controllers -> BOOLEAN] /\ v12.late \in BOOLEAN
  BY Zenon DEF Frontier!Init
<1>3. Frontier(M, N)!TypeOK
  BY <1>1, <1>2, FrontierNoAudit DEF Frontier!Init, Frontier!TypeOK, Frontier!Nobody
<1>4. Frontier(M, N)!CellsInv /\ Frontier(M, N)!ExecutionInv /\ Frontier(M, N)!VerdictInv
        /\ Frontier(M, N)!HeardInv
  BY FrontierNoAudit DEF Frontier!Init, Frontier!CellsInv, Frontier!ExecutionInv, Frontier!VerdictInv,
     Frontier!HeardInv, Frontier!Executing, Frontier!Armed, Frontier!Prepared
<1>5. Frontier(M, N)!WakeInv
  BY DEF Frontier!Init, Frontier!WakeInv
<1> QED BY <1>3, <1>4, <1>5 DEF FrontierInv

LEMMA FrontierBetweenTypes ==
  ASSUME NEW M, NEW N \in Nat,
         FrontierInv(M, N), NEW p \in Frontier(M, N)!Controllers, FrontierBetween(M, N, p)
  PROVE  Frontier(M, N)!TypeOK'
<1> USE DEF FrontierInv, Frontier!TypeOK, Frontier!Goto, Frontier!Aside, Frontier!files,
       Frontier!locals, FrontierCellStates, Frontier!Terminal, Frontier!Armed
<1>1. CASE Frontier(M, N)!Boot(p)
  BY <1>1 DEF Frontier!Boot
<1>2. CASE Frontier(M, N)!Announce(p)
  <2>1. v7' = [v7 EXCEPT ![p].state = "running"] /\ "running" \in FrontierCellStates(M, N)
    BY <1>2 DEF Frontier!Announce
  <2>2. v7' \in [Frontier(M, N)!Controllers -> Frontier(M, N)!Campaign]
    BY <2>1, FrontierStateSet
  <2>3. v7'[p] \in Frontier(M, N)!Campaign
    BY <2>2
  <2>4. v6' \in [Frontier(M, N)!Controllers -> {"new", "boot", "final", "gone"}
          \cup Frontier(M, N)!Armed]
    BY <1>2 DEF Frontier!Announce
  <2> QED BY <1>2, <2>2, <2>3, <2>4 DEF Frontier!Announce
<1>3. CASE Frontier(M, N)!Activate(p)
  <2>1. v6' \in [Frontier(M, N)!Controllers -> {"new", "boot", "final", "gone"}
          \cup Frontier(M, N)!Armed]
    BY <1>3 DEF Frontier!Activate
  <2>2. v4' \in Frontier(M, N)!Controllers \cup {Frontier(M, N)!Nobody}
          /\ v5' \subseteq Frontier(M, N)!Controllers
    BY <1>3 DEF Frontier!Activate
  <2> QED BY <1>3, <2>1, <2>2 DEF Frontier!Activate
<1>4. CASE Frontier(M, N)!LoopTop(p)
  <2>1. v8' = v8 \/ \E c \in Frontier(M, N)!Cells : v8' = [v8 EXCEPT ![p] = c]
    BY <1>4 DEF Frontier!LoopTop, Frontier!Waiting
  <2>4. \A c \in Frontier(M, N)!Cells : c \in 0..N
    BY DEF Frontier!Cells
  <2>2. v8' \in [Frontier(M, N)!Controllers -> 0..N]
    BY <2>1, <2>4
  <2>3. v6' \in [Frontier(M, N)!Controllers -> {"new", "boot", "final", "gone"}
          \cup Frontier(M, N)!Armed]
    BY <1>4 DEF Frontier!LoopTop
  <2> QED BY <1>4, <2>2, <2>3 DEF Frontier!LoopTop
<1>5. CASE Frontier(M, N)!TakeCell(p)
  <2>1. v8[p] \in Frontier(M, N)!Cells
    BY <1>5 DEF Frontier!TakeCell, Frontier!ExecutionInv
  <2>2. v7' \in [Frontier(M, N)!Controllers -> Frontier(M, N)!Campaign] /\ v1' = v7'[p]
    BY <1>5, <2>1, FrontierCellSet DEF Frontier!TakeCell, FrontierSetsCell
  <2>3. v14' \in [Frontier(M, N)!Controllers -> Nat]
    BY <1>5 DEF Frontier!TakeCell
  <2> QED BY <1>5, <2>2, <2>3 DEF Frontier!TakeCell
<1>6. CASE Frontier(M, N)!RecordCell(p)
  BY <1>6 DEF Frontier!RecordCell
<1>7. CASE Frontier(M, N)!Final(p)
  <2>1. v7' \in [Frontier(M, N)!Controllers -> Frontier(M, N)!Campaign]
    BY <1>7, FrontierEnded
  <2> QED BY <1>7, <2>1 DEF Frontier!Final
<1> QED BY <1>1, <1>2, <1>3, <1>4, <1>5, <1>6, <1>7 DEF FrontierBetween

LEMMA FrontierWithinTypes ==
  ASSUME NEW M, NEW N \in Nat,
         FrontierInv(M, N), NEW p \in Frontier(M, N)!Controllers, FrontierWithin(M, N, p)
  PROVE  Frontier(M, N)!TypeOK'
<1> USE DEF FrontierInv, Frontier!TypeOK, Frontier!Goto, Frontier!Aside, Frontier!files,
       Frontier!locals, FrontierCellStates, Frontier!Terminal, Frontier!Armed
<1>1. CASE Frontier(M, N)!CheckPrepared(p)
  BY <1>1 DEF Frontier!CheckPrepared
<1>2. CASE Frontier(M, N)!CellRaises(p)
  <2>1. v8[p] \in Frontier(M, N)!Cells
    BY <1>2 DEF Frontier!CellRaises, Frontier!ExecutionInv, Frontier!Executing
  <2>2. v7' \in [Frontier(M, N)!Controllers -> Frontier(M, N)!Campaign]
    BY <1>2, <2>1, FrontierCellSet DEF Frontier!CellRaises, FrontierSetsCell
  <2> QED BY <1>2, <2>2 DEF Frontier!CellRaises
<1>3. CASE Frontier(M, N)!Begin(p)
  <2>1. v13' \in [Frontier(M, N)!Cells -> Nat]
    BY <1>3 DEF Frontier!Begin, Frontier!ExecutionInv
  <2> QED BY <1>3, <2>1 DEF Frontier!Begin
<1>4. CASE Frontier(M, N)!StartAgent(p)
  <2>1. \E l \in BOOLEAN : v12' = [v12 EXCEPT !.late = l]
    BY <1>4, Zenon DEF Frontier!StartAgent
  <2> QED BY <1>4, <2>1 DEF Frontier!StartAgent
<1>5. CASE Frontier(M, N)!AgentOver(p)
  BY <1>5 DEF Frontier!AgentOver
<1>6. CASE Frontier(M, N)!Evaluate(p)
  <2>1. v11' \in [Frontier(M, N)!Controllers -> BOOLEAN]
    BY <1>6, Zenon DEF Frontier!Evaluate
  <2>2. /\ v2' \in [Frontier(M, N)!Cells -> {"prepared", "running", "finished", "incomplete"}]
        /\ v3' \in [Frontier(M, N)!Cells -> {"none", "invalid", "valid"}]
    BY <1>6 DEF Frontier!Evaluate, Frontier!ExecutionInv, Frontier!Executing
  <2> QED BY <1>6, <2>1, <2>2 DEF Frontier!Evaluate
<1>7. CASE Frontier(M, N)!Judge(p)
  <2>1. v8[p] \in Frontier(M, N)!Cells
    BY <1>7 DEF Frontier!Judge, Frontier!ExecutionInv, Frontier!Executing
  <2>2. v7' \in [Frontier(M, N)!Controllers -> Frontier(M, N)!Campaign]
    BY <1>7, <2>1, FrontierCellSet DEF Frontier!Judge, FrontierSetsCell
  <2> QED BY <1>7, <2>2 DEF Frontier!Judge
<1> QED BY <1>1, <1>2, <1>3, <1>4, <1>5, <1>6, <1>7 DEF FrontierWithin

LEMMA FrontierOtherTypes ==
  ASSUME NEW M, NEW N \in Nat,
         FrontierInv(M, N), FrontierStopping(M, N) \/ FrontierAuditing(M, N)
              \/ \E p \in Frontier(M, N)!Controllers : FrontierAround(M, N, p)
  PROVE  Frontier(M, N)!TypeOK'
<1> USE DEF FrontierInv, Frontier!TypeOK, Frontier!Goto, Frontier!Aside, Frontier!files,
       Frontier!locals, Frontier!Armed
<1>1. ASSUME NEW p \in Frontier(M, N)!Controllers, FrontierAround(M, N, p)
      PROVE Frontier(M, N)!TypeOK'
  BY <1>1 DEF FrontierAround, Frontier!Launch, Frontier!LauncherWrites, Frontier!Kill,
     Frontier!OrphanEnds
<1>2. CASE Frontier(M, N)!StopReads
  BY <1>2 DEF Frontier!StopReads
<1>3. CASE Frontier(M, N)!StopLists
  <2> DEFINE l == v6[v12.target] = "gone"
             n == IF v6[v12.target] = "agent" /\ v8[v12.target] \in FrontierGrouped
                  THEN v8[v12.target] ELSE 0
  <2>1. v12.target \in Frontier(M, N)!Controllers /\ v8[v12.target] \in 0..N
    BY <1>3 DEF Frontier!StopLists, Frontier!WakeInv
  <2>2. n \in 0..N /\ l \in BOOLEAN
    BY <2>1
  <2>3. v12' = [v12 EXCEPT !.pc = "listed", !.seen = n, !.late = l]
    BY <1>3 DEF Frontier!StopLists
  <2>4. UNCHANGED <<Frontier(M, N)!files, v5, Frontier(M, N)!locals, v13, v14, v15>>
    BY <1>3 DEF Frontier!StopLists
  <2> HIDE DEF l, n
  <2> QED BY <2>2, <2>3, <2>4
<1>4. CASE Frontier(M, N)!StopAgents
  BY <1>4 DEF Frontier!StopAgents, Frontier!Told, Frontier!WakeInv
<1>5. CASE Frontier(M, N)!StopController
  <2>1. \E l \in BOOLEAN : v12' = [v12 EXCEPT !.pc = "done", !.late = l]
    BY <1>5, Zenon DEF Frontier!StopController
  <2>2. v9' \in [Frontier(M, N)!Controllers -> BOOLEAN]
    BY <1>5 DEF Frontier!StopController
  <2> QED BY <1>5, <2>1, <2>2 DEF Frontier!StopController, Frontier!Told
<1>6. CASE FrontierAuditing(M, N)
  <2>1. CASE Frontier(M, N)!FinalizeReads
    BY <2>1 DEF Frontier!FinalizeReads
  <2>2. CASE Frontier(M, N)!FinalizeEnds
    BY <2>2, FrontierNoAudit DEF Frontier!FinalizeEnds
  <2>3. CASE Frontier(M, N)!FinalizeWrites
    BY <2>3, FrontierFinalized, FrontierNoAudit DEF Frontier!FinalizeWrites
  <2>4. ASSUME NEW c \in Frontier(M, N)!Cells, Frontier(M, N)!Reaudit(c)
        PROVE  Frontier(M, N)!TypeOK'
    BY <2>4, FrontierReaudited DEF Frontier!Reaudit
  <2> QED BY <1>6, <2>1, <2>2, <2>3, <2>4 DEF FrontierAuditing
<1> QED BY <1>1, <1>2, <1>3, <1>4, <1>5, <1>6 DEF FrontierStopping

-----------------------------------------------------------------------------

LEMMA FrontierBetweenCells ==
  ASSUME NEW M, NEW N \in Nat,
         FrontierInv(M, N), NEW p \in Frontier(M, N)!Controllers, FrontierBetween(M, N, p)
  PROVE  Frontier(M, N)!CellsInv' /\ Frontier(M, N)!ExecutionInv'
<1> USE DEF FrontierInv, Frontier!CellsInv, Frontier!ExecutionInv, Frontier!Goto, Frontier!Aside,
       Frontier!files, Frontier!locals, Frontier!Executing
<1>1. CASE Frontier(M, N)!Boot(p)
  BY <1>1 DEF Frontier!Boot, Frontier!TypeOK
<1>2. CASE Frontier(M, N)!Announce(p)
  <2>1. /\ \A q \in Frontier(M, N)!Controllers, c \in Frontier(M, N)!Cells :
             v7'[q].cells[c] = v7[q].cells[c]
        /\ \A c \in Frontier(M, N)!Cells : v1'.cells[c] = v7[p].cells[c]
    BY <1>2, FrontierStateSet DEF Frontier!Announce, Frontier!TypeOK, FrontierCellStates
  <2> QED BY <1>2, <2>1 DEF Frontier!Announce, Frontier!TypeOK
<1>3. CASE Frontier(M, N)!Activate(p)
  BY <1>3 DEF Frontier!Activate, Frontier!TypeOK
<1>4. CASE Frontier(M, N)!LoopTop(p)
  BY <1>4 DEF Frontier!LoopTop, Frontier!Waiting, Frontier!TypeOK
<1>5. CASE Frontier(M, N)!TakeCell(p)
  <2>1. v8[p] \in Frontier(M, N)!Cells /\ "running" \in FrontierCellStates(M, N)
    BY <1>5 DEF Frontier!TakeCell, FrontierCellStates
  <2>2. /\ v1' = v7'[p] /\ v7'[p].cells[v8[p]] = "running"
        /\ \A c \in Frontier(M, N)!Cells \ {v8[p]} : v7'[p].cells[c] = v7[p].cells[c]
        /\ \A q \in Frontier(M, N)!Controllers \ {p} : v7'[q] = v7[q]
    <3>1. FrontierSetsCell(M, N, p, v8[p], "running") /\ v1' = v7'[p]
      BY <1>5 DEF Frontier!TakeCell, FrontierSetsCell
    <3>2. v7 \in [Frontier(M, N)!Controllers -> Frontier(M, N)!Campaign]
      BY DEF Frontier!TypeOK
    <3>3. /\ v7'[p].state = v7[p].state /\ v7'[p].cells[v8[p]] = "running"
          /\ \A d \in Frontier(M, N)!Cells \ {v8[p]} : v7'[p].cells[d] = v7[p].cells[d]
          /\ \A q \in Frontier(M, N)!Controllers \ {p} : v7'[q] = v7[q]
      BY <2>1, <3>1, <3>2, FrontierCellSet
    <3> QED BY <3>1, <3>3
  <2>3. \A c \in Frontier(M, N)!Cells : v1'.cells[c] = "completed"
          \/ (\E q \in Frontier(M, N)!Controllers : v7'[q].cells[c] = "completed")
                           => \E q \in Frontier(M, N)!Controllers : v7[q].cells[c] = "completed"
    BY <2>2
  <2> QED BY <1>5, <2>3 DEF Frontier!TakeCell, Frontier!TypeOK
<1>6. CASE Frontier(M, N)!RecordCell(p)
  BY <1>6 DEF Frontier!RecordCell, Frontier!TypeOK
<1>7. CASE Frontier(M, N)!Final(p)
  <2>1. \A q \in Frontier(M, N)!Controllers, c \in Frontier(M, N)!Cells :
          v7'[q].cells[c] = v7[q].cells[c] \/ v7'[q].cells[c] = "interrupted"
    BY <1>7, FrontierEnded DEF Frontier!TypeOK
  <2>2. \A c \in Frontier(M, N)!Cells : v1'.cells[c] = "completed"
          \/ (\E q \in Frontier(M, N)!Controllers : v7'[q].cells[c] = "completed")
                           => \E q \in Frontier(M, N)!Controllers : v7[q].cells[c] = "completed"
    BY <1>7, <2>1 DEF Frontier!Final
  <2> QED BY <1>7, <2>2 DEF Frontier!Final, Frontier!TypeOK
<1> QED BY <1>1, <1>2, <1>3, <1>4, <1>5, <1>6, <1>7 DEF FrontierBetween

LEMMA FrontierWithinCells ==
  ASSUME NEW M, NEW N \in Nat,
         FrontierInv(M, N), NEW p \in Frontier(M, N)!Controllers, FrontierWithin(M, N, p)
  PROVE  Frontier(M, N)!CellsInv' /\ Frontier(M, N)!ExecutionInv'
<1> USE DEF FrontierInv, Frontier!CellsInv, Frontier!ExecutionInv, Frontier!Goto, Frontier!Aside,
       Frontier!files, Frontier!locals, Frontier!Executing
<1>1. CASE Frontier(M, N)!CheckPrepared(p)
  BY <1>1 DEF Frontier!CheckPrepared, Frontier!TypeOK
<1>2. CASE Frontier(M, N)!CellRaises(p)
  <2>1. v8[p] \in Frontier(M, N)!Cells /\ "interrupted" \in FrontierCellStates(M, N)
          /\ "failed" \in FrontierCellStates(M, N)
    BY <1>2 DEF Frontier!CellRaises, FrontierCellStates, Frontier!Terminal
  <2>2. /\ v7'[p].cells[v8[p]] \in {"interrupted", "failed"}
        /\ \A c \in Frontier(M, N)!Cells \ {v8[p]} : v7'[p].cells[c] = v7[p].cells[c]
        /\ \A q \in Frontier(M, N)!Controllers \ {p} : v7'[q] = v7[q]
    <3>1. PICK s \in {"interrupted", "failed"} : FrontierSetsCell(M, N, p, v8[p], s)
      BY <1>2, <2>1 DEF Frontier!CellRaises, FrontierSetsCell
    <3>2. v7 \in [Frontier(M, N)!Controllers -> Frontier(M, N)!Campaign]
      BY DEF Frontier!TypeOK
    <3>3. /\ v7'[p].state = v7[p].state /\ v7'[p].cells[v8[p]] = s
          /\ \A d \in Frontier(M, N)!Cells \ {v8[p]} : v7'[p].cells[d] = v7[p].cells[d]
          /\ \A q \in Frontier(M, N)!Controllers \ {p} : v7'[q] = v7[q]
      BY <2>1, <3>1, <3>2, FrontierCellSet
    <3> QED BY <3>1, <3>3
  <2>3. \A c \in Frontier(M, N)!Cells :
          (\E q \in Frontier(M, N)!Controllers : v7'[q].cells[c] = "completed")
                           => \E q \in Frontier(M, N)!Controllers : v7[q].cells[c] = "completed"
    BY <2>2
  <2> QED BY <1>2, <2>3 DEF Frontier!CellRaises, Frontier!TypeOK
<1>3. CASE Frontier(M, N)!Begin(p)
  BY <1>3 DEF Frontier!Begin, Frontier!TypeOK
<1>4. CASE Frontier(M, N)!StartAgent(p)
  BY <1>4 DEF Frontier!StartAgent, Frontier!TypeOK
<1>5. CASE Frontier(M, N)!AgentOver(p)
  BY <1>5 DEF Frontier!AgentOver, Frontier!TypeOK
<1>6. CASE Frontier(M, N)!Evaluate(p)
  <2>1. v8[p] \in Frontier(M, N)!Cells /\ v13[v8[p]] >= 1
    BY <1>6 DEF Frontier!Evaluate
  <2>2. /\ \A c \in Frontier(M, N)!Cells \ {v8[p]} : v2'[c] = v2[c] /\ v3'[c] = v3[c]
        /\ UNCHANGED <<v1, v7, v13, v8, v15>>
    BY <1>6, <2>1 DEF Frontier!Evaluate, Frontier!TypeOK
  <2>3. v13[v8[p]] <= 1 => v2[v8[p]] = "running"
    BY <1>6 DEF Frontier!Evaluate
  <2>4. Frontier(M, N)!CellsInv'
    BY <2>1, <2>2, <2>3 DEF Frontier!TypeOK
  <2>5. Frontier(M, N)!ExecutionInv'
    BY <1>6, <2>1, <2>2 DEF Frontier!Evaluate, Frontier!TypeOK
  <2> QED BY <2>4, <2>5
<1>7. CASE Frontier(M, N)!Judge(p)
  <2>1. v8[p] \in Frontier(M, N)!Cells /\ "completed" \in FrontierCellStates(M, N)
          /\ "partial" \in FrontierCellStates(M, N)
    BY <1>7 DEF Frontier!Judge, FrontierCellStates, Frontier!Terminal
  <2>2. /\ \/ v7'[p].cells[v8[p]] = "partial"
           \/ v2[v8[p]] = "finished" /\ v3[v8[p]] = "valid"
        /\ \A c \in Frontier(M, N)!Cells \ {v8[p]} : v7'[p].cells[c] = v7[p].cells[c]
        /\ \A q \in Frontier(M, N)!Controllers \ {p} : v7'[q] = v7[q]
    <3>1. PICK s \in {"completed", "partial"} :
            /\ FrontierSetsCell(M, N, p, v8[p], s)
            /\ s = "completed" => v2[v8[p]] = "finished" /\ v3[v8[p]] = "valid"
      BY <1>7, <2>1 DEF Frontier!Judge, FrontierSetsCell
    <3>2. v7 \in [Frontier(M, N)!Controllers -> Frontier(M, N)!Campaign]
      BY DEF Frontier!TypeOK
    <3>3. /\ v7'[p].state = v7[p].state /\ v7'[p].cells[v8[p]] = s
          /\ \A d \in Frontier(M, N)!Cells \ {v8[p]} : v7'[p].cells[d] = v7[p].cells[d]
          /\ \A q \in Frontier(M, N)!Controllers \ {p} : v7'[q] = v7[q]
      BY <2>1, <3>1, <3>2, FrontierCellSet
    <3> QED BY <3>1, <3>3
  <2>3. \A c \in Frontier(M, N)!Cells :
          (\E q \in Frontier(M, N)!Controllers : v7'[q].cells[c] = "completed")
                           => \/ \E q \in Frontier(M, N)!Controllers :
                                v7[q].cells[c] = "completed"
                              \/ c = v8[p] /\ v2[c] = "finished" /\ v3[c] = "valid"
    BY <2>2
  <2>4. v13[v8[p]] >= 1
    BY <1>7 DEF Frontier!Judge
  <2> QED BY <1>7, <2>3, <2>4 DEF Frontier!Judge, Frontier!TypeOK
<1> QED BY <1>1, <1>2, <1>3, <1>4, <1>5, <1>6, <1>7 DEF FrontierWithin

LEMMA FrontierOtherCells ==
  ASSUME NEW M, NEW N \in Nat,
         FrontierInv(M, N), FrontierStopping(M, N) \/ FrontierAuditing(M, N)
              \/ \E p \in Frontier(M, N)!Controllers : FrontierAround(M, N, p)
  PROVE  Frontier(M, N)!CellsInv' /\ Frontier(M, N)!ExecutionInv'
<1> USE DEF FrontierInv, Frontier!CellsInv, Frontier!ExecutionInv, Frontier!Goto, Frontier!Aside,
       Frontier!files, Frontier!locals, Frontier!Executing
<1>1. ASSUME NEW p \in Frontier(M, N)!Controllers, FrontierAround(M, N, p)
      PROVE Frontier(M, N)!CellsInv' /\ Frontier(M, N)!ExecutionInv'
  BY <1>1 DEF FrontierAround, Frontier!Launch, Frontier!LauncherWrites, Frontier!Kill,
     Frontier!OrphanEnds, Frontier!TypeOK
<1>2. CASE Frontier(M, N)!StopReads \/ Frontier(M, N)!StopLists \/ Frontier(M, N)!StopAgents
  BY <1>2 DEF Frontier!StopReads, Frontier!StopLists, Frontier!StopAgents
<1>3. CASE Frontier(M, N)!StopController
  BY <1>3 DEF Frontier!StopController, Frontier!TypeOK
<1>4. CASE FrontierAuditing(M, N)
  <2>1. CASE Frontier(M, N)!FinalizeReads
    BY <2>1 DEF Frontier!FinalizeReads
  <2>2. CASE Frontier(M, N)!FinalizeEnds
    BY <2>2, FrontierNoAudit DEF Frontier!FinalizeEnds
  <2>3. CASE Frontier(M, N)!FinalizeWrites
    <3>1. UNCHANGED <<v2, v3, v7, v13, v8, v6>> /\ v15' = Frontier(M, N)!NoAudit
      BY <2>3 DEF Frontier!FinalizeWrites
    <3> QED BY <2>3, <3>1, FrontierFinalized, FrontierNoAudit
  <2>4. ASSUME NEW c \in Frontier(M, N)!Cells, Frontier(M, N)!Reaudit(c)
        PROVE  Frontier(M, N)!CellsInv' /\ Frontier(M, N)!ExecutionInv'
    <3>1. UNCHANGED <<v1, v3, v7, v13, v8, v6>>
      BY <2>4 DEF Frontier!Reaudit
    <3>2. v13 \in [Frontier(M, N)!Cells -> Nat] /\ v13[c] # 0
      BY <2>4, FrontierReaudited DEF Frontier!TypeOK
    <3>3. Frontier(M, N)!CellsInv'
      BY <2>4, <3>1, <3>2, FrontierReaudited
    <3>4. Frontier(M, N)!ExecutionInv'
      BY <2>4, <3>1, FrontierReaudited DEF Frontier!TypeOK
    <3> QED BY <3>3, <3>4
  <2> QED BY <1>4, <2>1, <2>2, <2>3, <2>4 DEF FrontierAuditing
<1> QED BY <1>1, <1>2, <1>3, <1>4 DEF FrontierStopping

-----------------------------------------------------------------------------

LEMMA FrontierBetweenVerdict ==
  ASSUME NEW M, NEW N \in Nat,
         FrontierInv(M, N), NEW p \in Frontier(M, N)!Controllers, FrontierBetween(M, N, p)
  PROVE  Frontier(M, N)!VerdictInv' /\ Frontier(M, N)!HeardInv'
<1> USE DEF FrontierInv, Frontier!VerdictInv, Frontier!HeardInv, Frontier!Goto, Frontier!Aside,
       Frontier!files, Frontier!locals, Frontier!Armed
<1>1. CASE Frontier(M, N)!Boot(p)
  BY <1>1 DEF Frontier!Boot, Frontier!TypeOK
<1>2. CASE Frontier(M, N)!Announce(p)
  <2>1. "running" \in FrontierCellStates(M, N)
    BY DEF FrontierCellStates
  <2>2. v7'[p].state = "running" /\ \A q \in Frontier(M, N)!Controllers \ {p} : v7'[q] = v7[q]
    BY <1>2, <2>1, FrontierStateSet DEF Frontier!Announce, Frontier!TypeOK
  <2> QED BY <1>2, <2>2 DEF Frontier!Announce, Frontier!TypeOK
<1>3. CASE Frontier(M, N)!Activate(p)
  BY <1>3 DEF Frontier!Activate, Frontier!TypeOK
<1>4. CASE Frontier(M, N)!LoopTop(p)
  BY <1>4 DEF Frontier!LoopTop, Frontier!TypeOK
<1>5. CASE Frontier(M, N)!TakeCell(p)
  <2>1. v8[p] \in Frontier(M, N)!Cells /\ "running" \in FrontierCellStates(M, N)
    BY <1>5 DEF Frontier!TakeCell, FrontierCellStates, Frontier!ExecutionInv
  <2>2. /\ v7'[p].state = "running" /\ v1' = v7'[p]
        /\ \A q \in Frontier(M, N)!Controllers \ {p} : v7'[q] = v7[q]
    BY <1>5, <2>1, FrontierCellSet DEF Frontier!TakeCell, FrontierSetsCell, Frontier!TypeOK
  <2>3. Frontier(M, N)!VerdictInv'
    BY <1>5, <2>2 DEF Frontier!TakeCell, Frontier!TypeOK
  <2>4. Frontier(M, N)!HeardInv'
    BY <1>5 DEF Frontier!TakeCell, Frontier!TypeOK
  <2> QED BY <2>3, <2>4
<1>6. CASE Frontier(M, N)!RecordCell(p)
  BY <1>6 DEF Frontier!RecordCell, Frontier!TypeOK
<1>7. CASE Frontier(M, N)!Final(p)
  <2>1. v7'[p].state = "completed" => \A c \in Frontier(M, N)!Cells :
          v7'[p].cells[c] = "completed"
    BY <1>7, FrontierEnded DEF Frontier!TypeOK, Frontier!Outcome
  <2>2. \A q \in Frontier(M, N)!Controllers \ {p} : v7'[q] = v7[q]
    BY <1>7, FrontierEnded DEF Frontier!TypeOK
  <2> QED BY <1>7, <2>1, <2>2 DEF Frontier!Final, Frontier!TypeOK
<1> QED BY <1>1, <1>2, <1>3, <1>4, <1>5, <1>6, <1>7 DEF FrontierBetween

LEMMA FrontierWithinVerdict ==
  ASSUME NEW M, NEW N \in Nat,
         FrontierInv(M, N), NEW p \in Frontier(M, N)!Controllers, FrontierWithin(M, N, p)
  PROVE  Frontier(M, N)!VerdictInv' /\ Frontier(M, N)!HeardInv'
<1> USE DEF FrontierInv, Frontier!VerdictInv, Frontier!HeardInv, Frontier!Goto, Frontier!Aside,
       Frontier!files, Frontier!locals, Frontier!Armed
<1>1. CASE Frontier(M, N)!CheckPrepared(p) \/ Frontier(M, N)!Begin(p)
        \/ Frontier(M, N)!StartAgent(p) \/ Frontier(M, N)!AgentOver(p)
  BY <1>1 DEF Frontier!CheckPrepared, Frontier!Begin, Frontier!StartAgent, Frontier!AgentOver,
     Frontier!TypeOK
<1>2. CASE Frontier(M, N)!Evaluate(p)
  BY <1>2 DEF Frontier!Evaluate, Frontier!TypeOK
<1>3. CASE Frontier(M, N)!CellRaises(p)
  <2>1. v8[p] \in Frontier(M, N)!Cells /\ "interrupted" \in FrontierCellStates(M, N)
          /\ "failed" \in FrontierCellStates(M, N)
    BY <1>3 DEF Frontier!CellRaises, FrontierCellStates, Frontier!Terminal, Frontier!ExecutionInv,
       Frontier!Executing
  <2>2. v7'[p].state = "running" /\ \A q \in Frontier(M, N)!Controllers \ {p} : v7'[q] = v7[q]
    BY <1>3, <2>1, FrontierCellSet DEF Frontier!CellRaises, FrontierSetsCell, Frontier!TypeOK
  <2> QED BY <1>3, <2>2 DEF Frontier!CellRaises, Frontier!TypeOK
<1>4. CASE Frontier(M, N)!Judge(p)
  <2>1. v8[p] \in Frontier(M, N)!Cells /\ "completed" \in FrontierCellStates(M, N)
          /\ "partial" \in FrontierCellStates(M, N)
    BY <1>4 DEF Frontier!Judge, FrontierCellStates, Frontier!Terminal, Frontier!ExecutionInv,
       Frontier!Executing
  <2>2. v7'[p].state = "running" /\ \A q \in Frontier(M, N)!Controllers \ {p} : v7'[q] = v7[q]
    BY <1>4, <2>1, FrontierCellSet DEF Frontier!Judge, FrontierSetsCell, Frontier!TypeOK
  <2> QED BY <1>4, <2>2 DEF Frontier!Judge, Frontier!TypeOK
<1> QED BY <1>1, <1>2, <1>3, <1>4 DEF FrontierWithin

LEMMA FrontierOtherVerdict ==
  ASSUME NEW M, NEW N \in Nat,
         FrontierInv(M, N), FrontierStopping(M, N) \/ FrontierAuditing(M, N)
              \/ \E p \in Frontier(M, N)!Controllers : FrontierAround(M, N, p)
  PROVE  Frontier(M, N)!VerdictInv' /\ Frontier(M, N)!HeardInv'
<1> USE DEF FrontierInv, Frontier!VerdictInv, Frontier!HeardInv, Frontier!Goto, Frontier!Aside,
       Frontier!files, Frontier!locals, Frontier!Armed
<1>1. ASSUME NEW p \in Frontier(M, N)!Controllers, FrontierAround(M, N, p)
      PROVE Frontier(M, N)!VerdictInv' /\ Frontier(M, N)!HeardInv'
  BY <1>1 DEF FrontierAround, Frontier!Launch, Frontier!LauncherWrites, Frontier!Kill,
     Frontier!OrphanEnds, Frontier!TypeOK
<1>2. CASE Frontier(M, N)!StopReads \/ Frontier(M, N)!StopLists \/ Frontier(M, N)!StopAgents
  BY <1>2 DEF Frontier!StopReads, Frontier!StopLists, Frontier!StopAgents
<1>3. CASE Frontier(M, N)!StopController
  BY <1>3 DEF Frontier!StopController, Frontier!TypeOK
<1>4. CASE FrontierAuditing(M, N)
  <2>1. UNCHANGED <<v7, v6, v14, v9>>
    BY <1>4 DEF FrontierAuditing, Frontier!FinalizeReads, Frontier!FinalizeEnds,
       Frontier!FinalizeWrites, Frontier!Reaudit
  <2>2. CASE Frontier(M, N)!FinalizeReads
    BY <2>1, <2>2 DEF Frontier!FinalizeReads
  <2>3. CASE Frontier(M, N)!FinalizeEnds
    BY <2>1, <2>3, FrontierNoAudit DEF Frontier!FinalizeEnds
  <2>4. CASE Frontier(M, N)!FinalizeWrites
    <3>1. v15' = Frontier(M, N)!NoAudit
      BY <2>4 DEF Frontier!FinalizeWrites
    <3> QED BY <2>1, <2>4, <3>1, FrontierFinalized, FrontierNoAudit
  <2>5. ASSUME NEW c \in Frontier(M, N)!Cells, Frontier(M, N)!Reaudit(c)
        PROVE  Frontier(M, N)!VerdictInv' /\ Frontier(M, N)!HeardInv'
    <3>1. v15'.camp.state = "completed" =>
            \A d \in Frontier(M, N)!Cells : v15'.camp.cells[d] = "completed"
      BY <2>5, FrontierReaudited DEF Frontier!Reaudit
    <3>2. UNCHANGED v1
      BY <2>5 DEF Frontier!Reaudit
    <3> QED BY <2>1, <3>1, <3>2
  <2> QED BY <1>4, <2>2, <2>3, <2>4, <2>5 DEF FrontierAuditing
<1> QED BY <1>1, <1>2, <1>3, <1>4 DEF FrontierStopping

-----------------------------------------------------------------------------

LEMMA FrontierControllerWakes ==
  ASSUME NEW M, NEW N \in Nat,
         FrontierInv(M, N), NEW p \in Frontier(M, N)!Controllers, FrontierBetween(M, N, p)
              \/ FrontierWithin(M, N, p) \/ FrontierAround(M, N, p)
  PROVE  Frontier(M, N)!WakeInv'
<1> USE DEF FrontierInv, Frontier!WakeInv, Frontier!Goto, Frontier!Aside, Frontier!files,
       Frontier!locals
<1>1. CASE FrontierBetween(M, N, p)
  <2>1. CASE Frontier(M, N)!Boot(p) \/ Frontier(M, N)!Announce(p) \/ Frontier(M, N)!Activate(p)
          \/ Frontier(M, N)!RecordCell(p) \/ Frontier(M, N)!Final(p)
    BY <2>1 DEF Frontier!Boot, Frontier!Announce, Frontier!Activate, Frontier!RecordCell,
       Frontier!Final, Frontier!TypeOK
  <2>2. CASE Frontier(M, N)!LoopTop(p)
    BY <2>2 DEF Frontier!LoopTop, Frontier!TypeOK
  <2>3. CASE Frontier(M, N)!TakeCell(p)
    BY <2>3 DEF Frontier!TakeCell, Frontier!TypeOK
  <2> QED BY <1>1, <2>1, <2>2, <2>3 DEF FrontierBetween
<1>2. CASE FrontierWithin(M, N, p)
  <2>1. CASE Frontier(M, N)!CheckPrepared(p) \/ Frontier(M, N)!CellRaises(p)
          \/ Frontier(M, N)!Begin(p) \/ Frontier(M, N)!Judge(p)
    BY <2>1 DEF Frontier!CheckPrepared, Frontier!CellRaises, Frontier!Begin, Frontier!Judge,
       Frontier!TypeOK
  <2>2. CASE Frontier(M, N)!StartAgent(p)
    <3>1. /\ v12'.pc = v12.pc /\ v12'.target = v12.target /\ v12'.seen = v12.seen
          /\ v12'.late <=> v12.late \/ (p = v12.target /\ v12.pc # "read")
      BY <2>2 DEF Frontier!StartAgent, Frontier!TypeOK
    <3> QED BY <2>2, <3>1 DEF Frontier!StartAgent, Frontier!TypeOK
  <2>3. CASE Frontier(M, N)!AgentOver(p)
    BY <2>3 DEF Frontier!AgentOver, Frontier!TypeOK
  <2>4. CASE Frontier(M, N)!Evaluate(p)
    BY <2>4 DEF Frontier!Evaluate, Frontier!TypeOK
  <2> QED BY <1>2, <2>1, <2>2, <2>3, <2>4 DEF FrontierWithin
<1>3. CASE FrontierAround(M, N, p)
  <2>1. CASE Frontier(M, N)!Launch(p)
    BY <2>1 DEF Frontier!Launch, Frontier!TypeOK
  <2>2. CASE Frontier(M, N)!LauncherWrites(p)
    BY <2>2 DEF Frontier!LauncherWrites, Frontier!TypeOK
  <2>3. CASE Frontier(M, N)!Kill(p)
    BY <2>3 DEF Frontier!Kill, Frontier!TypeOK
  <2>4. CASE Frontier(M, N)!OrphanEnds(p)
    BY <2>4 DEF Frontier!OrphanEnds, Frontier!TypeOK
  <2> QED BY <1>3, <2>1, <2>2, <2>3, <2>4 DEF FrontierAround
<1> QED BY <1>1, <1>2, <1>3

LEMMA FrontierStopWakens ==
  ASSUME NEW M, NEW N \in Nat,
         FrontierInv(M, N), FrontierStopping(M, N) \/ FrontierAuditing(M, N)
  PROVE  Frontier(M, N)!WakeInv'
<1> USE DEF FrontierInv, Frontier!WakeInv, Frontier!Goto, Frontier!Aside, Frontier!files,
       Frontier!locals
<1>1. CASE Frontier(M, N)!StopReads
  <2>1. /\ v12'.pc = "read" /\ v12'.target = v4 /\ v4 \in Frontier(M, N)!Controllers
    BY <1>1 DEF Frontier!StopReads, Frontier!TypeOK
  <2> QED BY <1>1, <2>1 DEF Frontier!StopReads, Frontier!TypeOK
<1>2. CASE Frontier(M, N)!StopLists
  <2>1. /\ v12'.pc = "listed" /\ v12'.target = v12.target
        /\ v12'.late <=> v6[v12.target] = "gone"
        /\ v6[v12.target] = "agent" /\ v8[v12.target] \in FrontierGrouped =>
             v12'.seen = v8[v12.target]
    BY <1>2 DEF Frontier!StopLists, Frontier!TypeOK
  <2>2. v6[v12.target] = "agent" => v8[v12.target] \in Frontier(M, N)!Cells
    BY <1>2 DEF Frontier!StopLists, Frontier!ExecutionInv, Frontier!Executing
  <2> QED BY <1>2, <2>1, <2>2 DEF Frontier!StopLists, Frontier!TypeOK, Frontier!Cells
<1>3. CASE Frontier(M, N)!StopAgents
  <2>1. /\ v12'.pc = "signal" /\ v12'.target = v12.target /\ v12'.late = v12.late
        /\ v12'.seen = v12.seen
    BY <1>3 DEF Frontier!StopAgents, Frontier!TypeOK
  <2>2. \A q \in Frontier(M, N)!Controllers : v10'[q] = v10[q]
          \/ (v10[q] = "alive" /\ v10'[q] = "told")
    BY <1>3 DEF Frontier!StopAgents, Frontier!TypeOK, Frontier!Told
  <2>3. v12.seen # 0 /\ v8[v12.target] = v12.seen => v10'[v12.target] # "alive"
    BY <1>3 DEF Frontier!StopAgents, Frontier!TypeOK, Frontier!Told
  <2> QED BY <1>3, <2>1, <2>2, <2>3 DEF Frontier!StopAgents, Frontier!TypeOK
<1>4. CASE Frontier(M, N)!StopController
  <2>1. /\ v12'.pc = "done" /\ v12'.target = v12.target /\ v12'.seen = v12.seen
        /\ v12'.late <=> v12.late \/ v6[v12.target] = "gone"
    BY <1>4 DEF Frontier!StopController, Frontier!TypeOK
  <2>2. \A q \in Frontier(M, N)!Controllers : v10'[q] = v10[q]
          \/ (v10[q] = "alive" /\ v10'[q] = "told")
    BY <1>4 DEF Frontier!StopController, Frontier!TypeOK, Frontier!Told
  <2>3. v12.target \in v5 /\ v8[v12.target] \notin FrontierGrouped /\ v6[v12.target] # "gone" =>
          v10'[v12.target] # "alive"
    BY <1>4 DEF Frontier!StopController, Frontier!TypeOK, Frontier!Told
  <2>4. \A q \in Frontier(M, N)!Controllers : v6'[q] = v6[q] \/ v6'[q] = "gone"
    BY <1>4 DEF Frontier!StopController, Frontier!TypeOK
  <2>5. UNCHANGED <<v8, v5>> /\ v12.pc = "signal"
    BY <1>4 DEF Frontier!StopController
  <2> QED BY <2>1, <2>2, <2>3, <2>4, <2>5 DEF Frontier!TypeOK
<1>5. CASE FrontierAuditing(M, N)
  BY <1>5 DEF FrontierAuditing, Frontier!FinalizeReads, Frontier!FinalizeEnds,
     Frontier!FinalizeWrites, Frontier!Reaudit
<1> QED BY <1>1, <1>2, <1>3, <1>4, <1>5 DEF FrontierStopping

LEMMA FrontierUnchanged ==
  ASSUME NEW M, NEW N \in Nat,
         FrontierInv(M, N), UNCHANGED Frontier(M, N)!vars
  PROVE  FrontierInv(M, N)'
  BY DEF FrontierInv, Frontier!TypeOK, Frontier!CellsInv, Frontier!ExecutionInv,
     Frontier!VerdictInv, Frontier!HeardInv, Frontier!WakeInv, Frontier!vars, Frontier!files,
     Frontier!locals

LEMMA FrontierNextInv ==
  ASSUME NEW M, NEW N \in Nat,
         FrontierInv(M, N), Frontier(M, N)!Next \/ UNCHANGED Frontier(M, N)!vars
  PROVE  FrontierInv(M, N)'
<1>1. ASSUME NEW p \in Frontier(M, N)!Controllers, FrontierBetween(M, N, p)
             \/ FrontierWithin(M, N, p) \/ FrontierAround(M, N, p) PROVE FrontierInv(M, N)'
  BY <1>1, FrontierBetweenTypes, FrontierWithinTypes, FrontierOtherTypes, FrontierBetweenCells,
     FrontierWithinCells, FrontierOtherCells, FrontierBetweenVerdict, FrontierWithinVerdict,
     FrontierOtherVerdict, FrontierControllerWakes DEF FrontierInv
<1>2. ASSUME FrontierStopping(M, N) \/ FrontierAuditing(M, N) PROVE FrontierInv(M, N)'
  BY <1>2, FrontierOtherTypes, FrontierOtherCells, FrontierOtherVerdict, FrontierStopWakens
     DEF FrontierInv
<1> QED BY <1>1, <1>2, FrontierGroups, FrontierUnchanged

LEMMA FrontierSound ==
  ASSUME NEW M, NEW N \in Nat
  PROVE  FrontierInv(M, N) => Frontier(M, N)!TypeOK /\ Frontier(M, N)!FrontierIsSound
<1> SUFFICES ASSUME FrontierInv(M, N)
      PROVE Frontier(M, N)!TypeOK /\ Frontier(M, N)!FrontierIsSound
  OBVIOUS
<1>1. Frontier(M, N)!CompletedIsReal
  BY DEF FrontierInv, Frontier!CellsInv, Frontier!VerdictInv, Frontier!CompletedIsReal
<1>2. Frontier(M, N)!StopIsHeard /\ Frontier(M, N)!StopWakes
  BY DEF FrontierInv, Frontier!HeardInv, Frontier!WakeInv, Frontier!StopIsHeard,
     Frontier!StopWakes
<1> QED BY <1>1, <1>2 DEF FrontierInv, Frontier!FrontierIsSound

-----------------------------------------------------------------------------
(* AIBench: the pool of children and the main thread (AIBenchPool). Here   *)
(* v1 is camp, v2 is cells, v3 is mem, v4 is exper, v5 is future, v6 is    *)
(* result, v7 is pc, v8 is taken, v9 is ran.                               *)

AIBenchInv == AIBench!TypeOK /\ AIBench!ResultInv /\ AIBench!CollectInv /\ AIBench!BusyInv

\* The steps of the main thread.
AIBenchMain ==
  \/ AIBench!Execute \/ AIBench!Submit \/ AIBench!Collect \/ AIBench!Update \/ AIBench!Save
  \/ AIBench!Verdict \/ AIBench!Interrupt \/ AIBench!Leave

LEMMA AIBenchGroups ==
  ASSUME AIBench!Next
  PROVE  AIBenchMain \/ \E c \in AIBench!Cells : AIBench!Worker(c)
  BY DEF AIBench!Next, AIBenchMain

\* The cardinality of the instance is that of the library's theorems.
LEMMA AIBenchSameSize == \A S : AIBench!Cardinality(S) = Cardinality(S)
  BY DEF AIBench!Cardinality, Cardinality

LEMMA AIBenchInitInv == ASSUME AIBench!Init PROVE AIBenchInv
<1>1. AIBench!TypeOK
  BY AIBenchBounds DEF AIBench!Init, AIBench!TypeOK, AIBench!States
<1>2. AIBench!ResultInv /\ AIBench!CollectInv
  BY DEF AIBench!Init, AIBench!ResultInv, AIBench!CollectInv, AIBench!Terminal
<1>3. AIBench!Busy = {}
  BY DEF AIBench!Init, AIBench!Busy
<1>4. AIBench!BusyInv
  BY <1>3, AIBenchSameSize, FS_EmptySet, AIBenchBounds DEF AIBench!BusyInv
<1> QED BY <1>1, <1>2, <1>4 DEF AIBenchInv

LEMMA AIBenchMainTypes == ASSUME AIBenchInv, AIBenchMain PROVE AIBench!TypeOK'
<1> USE DEF AIBenchInv, AIBench!TypeOK, AIBench!States, AIBench!Terminal
<1>1. CASE AIBench!Execute \/ AIBench!Save \/ AIBench!Verdict \/ AIBench!Interrupt
        \/ AIBench!Leave
  BY <1>1 DEF AIBench!Execute, AIBench!Save, AIBench!Verdict, AIBench!Interrupt, AIBench!Leave
<1>2. CASE AIBench!Submit
  BY <1>2 DEF AIBench!Submit
<1>3. CASE AIBench!Collect
  BY <1>3 DEF AIBench!Collect, AIBench!Cells
<1>4. CASE AIBench!Update
  <2>1. v8 \in AIBench!Cells /\ v6[v8] \in {"completed", "partial", "error"}
    BY <1>4 DEF AIBench!Update, AIBench!CollectInv, AIBench!ResultInv
  <2> QED BY <1>4, <2>1 DEF AIBench!Update
<1> QED BY <1>1, <1>2, <1>3, <1>4 DEF AIBenchMain

LEMMA AIBenchWorkerTypes ==
  ASSUME AIBench!TypeOK, NEW c \in AIBench!Cells, AIBench!Worker(c)
  PROVE  AIBench!TypeOK'
<1> USE DEF AIBench!TypeOK
<1>1. CASE AIBench!StartCell(c)
  BY <1>1 DEF AIBench!StartCell
<1>2. CASE AIBench!ChildEnds(c)
  BY <1>2 DEF AIBench!ChildEnds
<1>3. CASE AIBench!CellResult(c)
  BY <1>3 DEF AIBench!CellResult
<1> QED BY <1>1, <1>2, <1>3 DEF AIBench!Worker

LEMMA AIBenchMainResults == ASSUME AIBenchInv, AIBenchMain PROVE AIBench!ResultInv'
<1> USE DEF AIBenchInv, AIBench!TypeOK, AIBench!ResultInv
<1>1. CASE AIBench!Execute \/ AIBench!Interrupt \/ AIBench!Leave
  BY <1>1 DEF AIBench!Execute, AIBench!Interrupt, AIBench!Leave
<1>2. CASE AIBench!Save \/ AIBench!Verdict
  BY <1>2 DEF AIBench!Save, AIBench!Verdict
<1>3. CASE AIBench!Submit
  BY <1>3 DEF AIBench!Submit
<1>4. CASE AIBench!Collect
  BY <1>4 DEF AIBench!Collect
<1>5. CASE AIBench!Update
  BY <1>5 DEF AIBench!Update, AIBench!CollectInv
<1> QED BY <1>1, <1>2, <1>3, <1>4, <1>5 DEF AIBenchMain

LEMMA AIBenchWorkerResults ==
  ASSUME AIBenchInv, NEW c \in AIBench!Cells, AIBench!Worker(c)
  PROVE  AIBench!ResultInv'
<1> USE DEF AIBenchInv, AIBench!TypeOK, AIBench!ResultInv
<1>1. CASE AIBench!StartCell(c)
  BY <1>1 DEF AIBench!StartCell
<1>2. CASE AIBench!ChildEnds(c)
  BY <1>2 DEF AIBench!ChildEnds
<1>3. CASE AIBench!CellResult(c)
  BY <1>3 DEF AIBench!CellResult
<1> QED BY <1>1, <1>2, <1>3 DEF AIBench!Worker

LEMMA AIBenchMainCollects == ASSUME AIBenchInv, AIBenchMain PROVE AIBench!CollectInv'
<1> USE DEF AIBenchInv, AIBench!TypeOK, AIBench!CollectInv
<1>1. CASE AIBench!Execute \/ AIBench!Interrupt \/ AIBench!Leave
  BY <1>1 DEF AIBench!Execute, AIBench!Interrupt, AIBench!Leave
<1>2. CASE AIBench!Save
  BY <1>2 DEF AIBench!Save
<1>3. CASE AIBench!Verdict
  BY <1>3 DEF AIBench!Verdict
<1>4. CASE AIBench!Submit
  BY <1>4 DEF AIBench!Submit
<1>5. CASE AIBench!Collect
  BY <1>5 DEF AIBench!Collect
<1>6. CASE AIBench!Update
  BY <1>6 DEF AIBench!Update, AIBench!ResultInv, AIBench!Terminal
<1> QED BY <1>1, <1>2, <1>3, <1>4, <1>5, <1>6 DEF AIBenchMain

LEMMA AIBenchWorkerCollects ==
  ASSUME AIBenchInv, NEW c \in AIBench!Cells, AIBench!Worker(c)
  PROVE  AIBench!CollectInv'
<1> USE DEF AIBenchInv, AIBench!TypeOK, AIBench!CollectInv
<1>1. CASE AIBench!StartCell(c)
  BY <1>1 DEF AIBench!StartCell
<1>2. CASE AIBench!ChildEnds(c)
  BY <1>2 DEF AIBench!ChildEnds
<1>3. CASE AIBench!CellResult(c)
  BY <1>3 DEF AIBench!CellResult
<1> QED BY <1>1, <1>2, <1>3 DEF AIBench!Worker

\* A set of cells is finite; only a thread that is free takes a cell.
LEMMA AIBenchCellSets ==
  /\ \A S \in SUBSET AIBench!Cells : IsFiniteSet(S)
  /\ \A S \in SUBSET AIBench!Cells : \A T \in SUBSET S : Cardinality(T) <= Cardinality(S)
  /\ \A S \in SUBSET AIBench!Cells : Cardinality(S) \in Nat
<1>1. IsFiniteSet(AIBench!Cells)
  BY AIBenchBounds, FS_Interval DEF AIBench!Cells
<1>2. \A S \in SUBSET AIBench!Cells : IsFiniteSet(S)
  BY <1>1, FS_Subset
<1> QED BY <1>2, FS_Subset, FS_CardinalityType

LEMMA AIBenchBusyKept ==
  ASSUME AIBenchInv, AIBenchMain \/ \E c \in AIBench!Cells : AIBench!Worker(c)
  PROVE  AIBench!BusyInv'
<1> USE DEF AIBenchInv, AIBench!TypeOK, AIBench!BusyInv
<1>1. AIBench!Busy \in SUBSET AIBench!Cells /\ AIBench!Busy' \in SUBSET AIBench!Cells
  BY DEF AIBench!Busy
<1>2. ASSUME AIBench!Busy' \subseteq AIBench!Busy PROVE AIBench!BusyInv'
  BY <1>1, <1>2, AIBenchSameSize, AIBenchCellSets, AIBenchBounds
<1>3. CASE AIBenchMain
  <2>1. CASE AIBench!Submit
    BY <1>2, <2>1 DEF AIBench!Submit, AIBench!Busy
  <2>2. CASE AIBench!Collect
    BY <1>2, <2>2 DEF AIBench!Collect, AIBench!Busy
  <2>3. CASE AIBench!Execute \/ AIBench!Update \/ AIBench!Save \/ AIBench!Verdict
          \/ AIBench!Interrupt \/ AIBench!Leave
    BY <1>2, <2>3 DEF AIBench!Execute, AIBench!Update, AIBench!Save, AIBench!Verdict,
       AIBench!Interrupt, AIBench!Leave, AIBench!Busy
  <2> QED BY <1>3, <2>1, <2>2, <2>3 DEF AIBenchMain
<1>4. ASSUME NEW c \in AIBench!Cells, AIBench!StartCell(c) PROVE AIBench!BusyInv'
  <2>1. AIBench!Busy' \subseteq AIBench!Busy \cup {c}
    BY <1>4 DEF AIBench!StartCell, AIBench!Busy
  <2>2. Cardinality(AIBench!Busy) < AIBenchConcurrency
    BY <1>4, AIBenchSameSize DEF AIBench!StartCell
  <2>3. Cardinality(AIBench!Busy \cup {c}) <= Cardinality(AIBench!Busy) + 1
    <3>1. IsFiniteSet(AIBench!Busy) /\ Cardinality(AIBench!Busy) \in Nat
      BY <1>1, AIBenchCellSets
    <3>2. Cardinality(AIBench!Busy \cup {c}) =
            IF c \in AIBench!Busy THEN Cardinality(AIBench!Busy) ELSE Cardinality(AIBench!Busy) + 1
      BY <3>1, FS_AddElement
    <3> QED BY <3>1, <3>2
  <2>4. AIBench!Busy \cup {c} \in SUBSET AIBench!Cells
    BY <1>1
  <2> QED BY <1>1, <2>1, <2>2, <2>3, <2>4, AIBenchSameSize, AIBenchCellSets, AIBenchBounds
<1>5. ASSUME NEW c \in AIBench!Cells, AIBench!ChildEnds(c) \/ AIBench!CellResult(c)
      PROVE AIBench!BusyInv'
  BY <1>2, <1>5 DEF AIBench!ChildEnds, AIBench!CellResult, AIBench!Busy
<1> QED BY <1>3, <1>4, <1>5 DEF AIBench!Worker

LEMMA AIBenchUnchanged == ASSUME AIBenchInv, UNCHANGED AIBench!vars PROVE AIBenchInv'
  BY DEF AIBenchInv, AIBench!TypeOK, AIBench!ResultInv, AIBench!CollectInv, AIBench!BusyInv,
     AIBench!Busy, AIBench!vars

LEMMA AIBenchNextInv ==
  ASSUME AIBenchInv, AIBench!Next \/ UNCHANGED AIBench!vars
  PROVE  AIBenchInv'
<1>1. \/ AIBench!TypeOK' /\ AIBench!ResultInv' /\ AIBench!CollectInv' /\ AIBench!BusyInv'
      \/ UNCHANGED AIBench!vars
  BY AIBenchGroups, AIBenchMainTypes, AIBenchWorkerTypes, AIBenchMainResults,
     AIBenchWorkerResults, AIBenchMainCollects, AIBenchWorkerCollects, AIBenchBusyKept
     DEF AIBenchInv
<1> QED BY <1>1, AIBenchUnchanged DEF AIBenchInv

LEMMA AIBenchSound == AIBenchInv => AIBench!TypeOK /\ AIBench!PoolIsSound
<1> SUFFICES ASSUME AIBenchInv PROVE AIBench!TypeOK /\ AIBench!PoolIsSound
  OBVIOUS
<1>1. AIBench!CompletedIsReal /\ AIBench!AllRecorded
  BY DEF AIBenchInv, AIBench!ResultInv, AIBench!CollectInv, AIBench!CompletedIsReal,
     AIBench!AllRecorded
<1>2. AIBench!ChildrenBounded
  <2> DEFINE children == {c \in AIBench!Cells : v5[c] = "child"}
  <2>1. children \subseteq AIBench!Busy /\ AIBench!Busy \in SUBSET AIBench!Cells
    BY DEF AIBench!Busy
  <2>2. Cardinality(children) <= Cardinality(AIBench!Busy)
    BY <2>1, AIBenchCellSets
  <2>3. Cardinality(children) <= AIBenchConcurrency
    BY <2>1, <2>2, AIBenchSameSize, AIBenchCellSets, AIBenchBounds DEF AIBenchInv, AIBench!BusyInv
  <2>4. v7 = "over" => children = {}
    BY DEF AIBenchInv, AIBench!CollectInv
  <2> QED BY <2>3, <2>4, AIBenchSameSize DEF AIBench!ChildrenBounded
<1> QED BY <1>1, <1>2 DEF AIBenchInv, AIBench!PoolIsSound

-----------------------------------------------------------------------------
(* ZSoft: a launcher after the other (ZSoftCampaign). Here v1 is camp, v2  *)
(* is cells, v3 is mem, v4 is cur, v5 is active, v6 is native, v7 is       *)
(* child, v8 is code, v9 is scored, v10 is interrupted, v11 is pc, v12 is  *)
(* started.                                                                *)

ZSoftInv == ZSoft!TypeOK /\ ZSoft!EvidenceInv /\ ZSoft!SavedInv /\ ZSoft!EndInv

\* The steps around a cell, and those in one.
ZSoftAround ==
  \/ ZSoft!Execute \/ ZSoft!Activate \/ ZSoft!TakeCell \/ ZSoft!SaveCell \/ ZSoft!LeaveLoop
  \/ ZSoft!Final
ZSoftWithin ==
  ZSoft!StartChild \/ ZSoft!ChildEnds \/ ZSoft!ScoreSubmission \/ ZSoft!Judge \/ ZSoft!Interrupt

LEMMA ZSoftGroups == ASSUME ZSoft!Next PROVE ZSoftAround \/ ZSoftWithin
  BY DEF ZSoft!Next, ZSoftAround, ZSoftWithin

LEMMA ZSoftInitInv == ASSUME ZSoft!Init PROVE ZSoftInv
<1>1. {v5, v7, v9, v10} \subseteq BOOLEAN
  BY Zenon DEF ZSoft!Init
<1>2. \A c \in ZSoft!Cells : v6[c] = ZSoft!Nothing \/ v6[c] = [of |-> "earlier", whole |-> TRUE]
  BY DEF ZSoft!Init
<1>3. v6 \in [ZSoft!Cells -> ZSoft!Evidence]
  <2>1. ZSoft!Nothing \in ZSoft!Evidence /\ [of |-> "earlier", whole |-> TRUE] \in ZSoft!Evidence
    BY DEF ZSoft!Evidence, ZSoft!Nothing
  <2> QED BY <2>1 DEF ZSoft!Init
<1>5. ZSoft!TypeOK
  BY <1>1, <1>3, ZSoftBounds DEF ZSoft!Init, ZSoft!TypeOK, ZSoft!States, ZSoft!Terminal
<1>4. ZSoft!EvidenceInv /\ ZSoft!SavedInv /\ ZSoft!EndInv
  BY DEF ZSoft!Init, ZSoft!EvidenceInv, ZSoft!SavedInv, ZSoft!EndInv
<1> QED BY <1>4, <1>5 DEF ZSoftInv

\* What a launcher leaves is evidence of this attempt.
LEMMA ZSoftOwnEvidence ==
  /\ ZSoft!Nothing \in ZSoft!Evidence /\ ZSoft!Nothing.of # "this"
  /\ \A w \in BOOLEAN : [of |-> "this", whole |-> w] \in ZSoft!Evidence
<1>1. ZSoft!Nothing \in ZSoft!Evidence /\ ZSoft!Nothing.of # "this"
  BY DEF ZSoft!Evidence, ZSoft!Nothing
<1>2. \A w \in BOOLEAN : [of |-> "this", whole |-> w] \in ZSoft!Evidence
  BY DEF ZSoft!Evidence
<1> QED BY <1>1, <1>2

LEMMA ZSoftAroundTypes == ASSUME ZSoftInv, ZSoftAround PROVE ZSoft!TypeOK'
<1> USE DEF ZSoftInv, ZSoft!TypeOK, ZSoft!States, ZSoft!Terminal
<1>1. CASE ZSoft!Execute \/ ZSoft!Activate \/ ZSoft!SaveCell \/ ZSoft!LeaveLoop \/ ZSoft!Final
  BY <1>1 DEF ZSoft!Execute, ZSoft!Activate, ZSoft!SaveCell, ZSoft!LeaveLoop, ZSoft!Final
<1>2. CASE ZSoft!TakeCell
  <2>1. CASE v4 = ZSoftCells
    BY <1>2, <2>1 DEF ZSoft!TakeCell
  <2>2. CASE v4 # ZSoftCells
    <3>1. v4 + 1 \in ZSoft!Cells /\ v4' = v4 + 1
      BY <1>2, <2>2, ZSoftBounds DEF ZSoft!TakeCell, ZSoft!Cells
    <3>2. v6' \in [ZSoft!Cells -> ZSoft!Evidence]
      BY <1>2, <2>2, ZSoftOwnEvidence DEF ZSoft!TakeCell
    <3>3. v3' \in [ZSoft!Cells -> ZSoft!States] /\ v2' = v3' /\ v4' \in 0..ZSoftCells
      BY <1>2, <2>2, <3>1 DEF ZSoft!TakeCell, ZSoft!Cells
    <3> QED BY <1>2, <2>2, <3>2, <3>3 DEF ZSoft!TakeCell
  <2> QED BY <2>1, <2>2
<1> QED BY <1>1, <1>2 DEF ZSoftAround

LEMMA ZSoftWithinTypes == ASSUME ZSoftInv, ZSoftWithin PROVE ZSoft!TypeOK'
<1> USE DEF ZSoftInv, ZSoft!TypeOK, ZSoft!States, ZSoft!Terminal
<1>1. CASE ZSoft!StartChild
  <2>1. v7' \in BOOLEAN
    BY <1>1, Zenon DEF ZSoft!StartChild
  <2>3. v12' \in Nat
    BY <1>1 DEF ZSoft!StartChild
  <2>2. v3' \in [ZSoft!Cells -> ZSoft!States]
    BY <1>1 DEF ZSoft!StartChild, ZSoft!Settle
  <2> QED BY <1>1, <2>1, <2>2, <2>3 DEF ZSoft!StartChild, ZSoft!Settle
<1>2. CASE ZSoft!ChildEnds
  BY <1>2, ZSoftOwnEvidence DEF ZSoft!ChildEnds
<1>3. CASE ZSoft!ScoreSubmission
  <2>1. v9' \in BOOLEAN
    BY <1>3, Zenon DEF ZSoft!ScoreSubmission
  <2> QED BY <1>3, <2>1 DEF ZSoft!ScoreSubmission
<1>4. CASE ZSoft!Judge
  BY <1>4 DEF ZSoft!Judge, ZSoft!Settle
<1>5. CASE ZSoft!Interrupt
  BY <1>5 DEF ZSoft!Interrupt, ZSoft!Settle
<1> QED BY <1>1, <1>2, <1>3, <1>4, <1>5 DEF ZSoftWithin

LEMMA ZSoftAroundEvidence == ASSUME ZSoftInv, ZSoftAround PROVE ZSoft!EvidenceInv'
<1> USE DEF ZSoftInv, ZSoft!TypeOK, ZSoft!EvidenceInv
<1>1. CASE ZSoft!Execute \/ ZSoft!Activate \/ ZSoft!LeaveLoop \/ ZSoft!Final
  BY <1>1 DEF ZSoft!Execute, ZSoft!Activate, ZSoft!LeaveLoop, ZSoft!Final
<1>2. CASE ZSoft!SaveCell
  BY <1>2 DEF ZSoft!SaveCell
<1>3. CASE ZSoft!TakeCell
  <2>1. CASE v4 = ZSoftCells
    BY <1>3, <2>1 DEF ZSoft!TakeCell
  <2>2. CASE v4 # ZSoftCells
    <3>1. v4 + 1 \in ZSoft!Cells /\ v4' = v4 + 1 /\ v11 = "loop" /\ v11' = "cell"
      BY <1>3, <2>2, ZSoftBounds DEF ZSoft!TakeCell, ZSoft!Cells
    <3>2. /\ v3'[v4 + 1] = "running" /\ v6'[v4 + 1] = ZSoft!Nothing /\ v2' = v3'
          /\ \A c \in ZSoft!Cells \ {v4 + 1} : v3'[c] = v3[c] /\ v6'[c] = v6[c]
      BY <1>3, <2>2, <3>1 DEF ZSoft!TakeCell
    <3>3. v2 = v3
      BY <3>1 DEF ZSoft!SavedInv
    <3> HIDE DEF ZSoft!TypeOK
    <3>4. \A c \in ZSoft!Cells : c > v4' => v3'[c] = "prepared" /\ v2'[c] = "prepared"
      BY <3>1, <3>2, <3>3 DEF ZSoft!TypeOK, ZSoft!Cells
    <3> QED BY <3>1, <3>2, <3>3, <3>4
  <2> QED BY <2>1, <2>2
<1> QED BY <1>1, <1>2, <1>3 DEF ZSoftAround

LEMMA ZSoftWithinEvidence == ASSUME ZSoftInv, ZSoftWithin PROVE ZSoft!EvidenceInv'
<1> USE DEF ZSoftInv, ZSoft!TypeOK, ZSoft!EvidenceInv
<1>1. CASE ZSoft!StartChild
  BY <1>1 DEF ZSoft!StartChild, ZSoft!Settle
<1>2. CASE ZSoft!ChildEnds
  <2>1. v11 = "child" /\ v4 \in ZSoft!Cells /\ v3[v4] = "running" /\ v2[v4] = "running"
    BY <1>2 DEF ZSoft!ChildEnds, ZSoft!EndInv
  <2>2. /\ \A c \in ZSoft!Cells \ {v4} : v6'[c] = v6[c]
        /\ v6'[v4] = v6[v4] \/ v6'[v4].of = "this"
    BY <1>2, <2>1 DEF ZSoft!ChildEnds
  <2> QED BY <1>2, <2>1, <2>2 DEF ZSoft!ChildEnds
<1>3. CASE ZSoft!ScoreSubmission
  BY <1>3 DEF ZSoft!ScoreSubmission
<1>4. CASE ZSoft!Judge
  <2>1. v6[v4] \in ZSoft!Evidence /\ v4 \in ZSoft!Cells
    BY <1>4 DEF ZSoft!Judge
  <2>2. v6[v4].whole /\ v6[v4].of = "this" => v6[v4] = [of |-> "this", whole |-> TRUE]
    BY <2>1 DEF ZSoft!Evidence, ZSoft!Nothing
  <2>3. v6[v4] = ZSoft!Nothing => ~v6[v4].whole
    BY DEF ZSoft!Nothing
  <2> QED BY <1>4, <2>1, <2>2, <2>3 DEF ZSoft!Judge, ZSoft!Settle
<1>5. CASE ZSoft!Interrupt
  BY <1>5 DEF ZSoft!Interrupt, ZSoft!Settle
<1> QED BY <1>1, <1>2, <1>3, <1>4, <1>5 DEF ZSoftWithin

LEMMA ZSoftAroundEnds == ASSUME ZSoftInv, ZSoftAround PROVE ZSoft!SavedInv' /\ ZSoft!EndInv'
<1> USE DEF ZSoftInv, ZSoft!TypeOK, ZSoft!EvidenceInv, ZSoft!SavedInv, ZSoft!EndInv
<1>1. CASE ZSoft!Execute \/ ZSoft!Activate
  BY <1>1 DEF ZSoft!Execute, ZSoft!Activate
<1>2. CASE ZSoft!SaveCell
  BY <1>2 DEF ZSoft!SaveCell
<1>3. CASE ZSoft!TakeCell
  BY <1>3 DEF ZSoft!TakeCell
<1>4. CASE ZSoft!LeaveLoop
  BY <1>4 DEF ZSoft!LeaveLoop
<1>5. CASE ZSoft!Final
  BY <1>5 DEF ZSoft!Final
<1> QED BY <1>1, <1>2, <1>3, <1>4, <1>5 DEF ZSoftAround

LEMMA ZSoftWithinEnds == ASSUME ZSoftInv, ZSoftWithin PROVE ZSoft!SavedInv' /\ ZSoft!EndInv'
<1> USE DEF ZSoftInv, ZSoft!TypeOK, ZSoft!EvidenceInv, ZSoft!SavedInv, ZSoft!EndInv
<1>1. CASE ZSoft!StartChild
  BY <1>1 DEF ZSoft!StartChild, ZSoft!Settle
<1>2. CASE ZSoft!ChildEnds
  BY <1>2 DEF ZSoft!ChildEnds
<1>3. CASE ZSoft!ScoreSubmission
  BY <1>3 DEF ZSoft!ScoreSubmission
<1>4. CASE ZSoft!Judge
  BY <1>4 DEF ZSoft!Judge, ZSoft!Settle
<1>5. CASE ZSoft!Interrupt
  BY <1>5 DEF ZSoft!Interrupt, ZSoft!Settle
<1> QED BY <1>1, <1>2, <1>3, <1>4, <1>5 DEF ZSoftWithin

LEMMA ZSoftUnchanged == ASSUME ZSoftInv, UNCHANGED ZSoft!vars PROVE ZSoftInv'
  BY DEF ZSoftInv, ZSoft!TypeOK, ZSoft!EvidenceInv, ZSoft!SavedInv, ZSoft!EndInv, ZSoft!vars

LEMMA ZSoftNextInv == ASSUME ZSoftInv, ZSoft!Next \/ UNCHANGED ZSoft!vars PROVE ZSoftInv'
  BY ZSoftGroups, ZSoftAroundTypes, ZSoftWithinTypes, ZSoftAroundEvidence, ZSoftWithinEvidence,
     ZSoftAroundEnds, ZSoftWithinEnds, ZSoftUnchanged DEF ZSoftInv

LEMMA ZSoftSound == ZSoftInv => ZSoft!TypeOK /\ ZSoft!ZSoftIsSound
  BY DEF ZSoftInv, ZSoft!EvidenceInv, ZSoft!EndInv, ZSoft!ZSoftIsSound, ZSoft!CompletedIsReal,
     ZSoft!InterruptEnds

-----------------------------------------------------------------------------
(* From the parts to Spec: a step keeps the part, and is one of its module.  *)

LEMMA PartKept == ASSUME [Next]_vars PROVE part' = part
  BY DEF Next, vars

FrontierMine == FrontierInv(FrontierControllers, FrontierCells)
FrontierRace == FrontierInv(RaceControllers, RaceCells)

LEMMA FrontierStays ==
  ASSUME [Next]_vars
  PROVE  /\ (part = "frontier")' =>
              /\ part = "frontier"
              /\ \/ Frontier(FrontierControllers, FrontierCells)!Next
                 \/ UNCHANGED Frontier(FrontierControllers, FrontierCells)!vars
         /\ (part = "race")' =>
              /\ part = "race"
              /\ \/ Frontier(RaceControllers, RaceCells)!Next
                 \/ UNCHANGED Frontier(RaceControllers, RaceCells)!vars
  BY PartKept DEF Next, vars, Frontier!vars, Frontier!files, Frontier!locals

LEMMA FrontierInvariant ==
  Spec => []((part = "frontier" => FrontierMine) /\ (part = "race" => FrontierRace))
<1> DEFINE I == (part = "frontier" => FrontierMine) /\ (part = "race" => FrontierRace)
<1>1. Init => I
  BY FrontierInitInv, FrontierBounds DEF Init, FrontierMine, FrontierRace
<1>2. I /\ [Next]_vars => I'
  BY FrontierStays, FrontierNextInv, FrontierBounds DEF FrontierMine, FrontierRace
<1> QED BY <1>1, <1>2, PTL DEF Spec

\* A completed cell of a Frontier-Engineering campaign is finished with a valid final
\* evaluation over races, kills and audits, after a stop one cell at most is taken, and a
\* stop wakes the agent it finds (execute_campaign, stop_campaign, finalize_campaign).
THEOREM FrontierCampaignsAreSound == Spec => []FrontierIsSound
<1>1. (part = "frontier" => FrontierMine) /\ (part = "race" => FrontierRace) => FrontierIsSound
  BY FrontierSound, FrontierBounds DEF FrontierIsSound, FrontierMine, FrontierRace
<1> QED BY <1>1, FrontierInvariant, PTL

LEMMA AIBenchStays ==
  ASSUME [Next]_vars, (part = "aibench")'
  PROVE  part = "aibench" /\ (AIBench!Next \/ UNCHANGED AIBench!vars)
  BY PartKept DEF Next, vars, AIBench!vars

LEMMA ZSoftStays ==
  ASSUME [Next]_vars, (part = "zsoft")'
  PROVE  part = "zsoft" /\ (ZSoft!Next \/ UNCHANGED ZSoft!vars)
  BY PartKept DEF Next, vars, ZSoft!vars

LEMMA CellsInvariant == Spec => []((part = "aibench" => AIBenchInv) /\ (part = "zsoft" => ZSoftInv))
<1> DEFINE I == (part = "aibench" => AIBenchInv) /\ (part = "zsoft" => ZSoftInv)
<1>1. Init => I
  BY AIBenchInitInv, ZSoftInitInv DEF Init
<1>2. I /\ [Next]_vars => I'
  BY AIBenchStays, ZSoftStays, AIBenchNextInv, ZSoftNextInv
<1> QED BY <1>1, <1>2, PTL DEF Spec

\* AIBench: children are bounded and waited for, and a completed cell is one whose child ran
\* once and finished (execute_campaign, _run_cell).  ZSoft: a completed cell is complete by
\* what this attempt left, and nothing is begun after an interrupt (execute_campaign).
THEOREM CellsAreReal == Spec => []CellsAreSound
<1>1. (part = "aibench" => AIBenchInv) /\ (part = "zsoft" => ZSoftInv) => CellsAreSound
  BY AIBenchSound, ZSoftSound DEF CellsAreSound
<1> QED BY <1>1, CellsInvariant, PTL
==============================================================================
