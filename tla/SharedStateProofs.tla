------------------------- MODULE SharedStateProofs ---------------------------
(***************************************************************************)
(* Theorems about the shared records of MCSharedState, for every value of  *)
(* the bounds: controller.json, the judge and the bridges, agent-run.json, *)
(* the worker's private directory, trajectories and the audit of workers,  *)
(* the time curves and the watcher of game cells.  A section per part      *)
(* gives its inductive invariant (its conjuncts are in the part's own      *)
(* module) and shows that the part's steps keep it; the last section       *)
(* carries them over to Spec.                                              *)
(***************************************************************************)
EXTENDS MCSharedState, Sequences, FiniteSetTheorems, WellFoundedInduction, TLAPS

-----------------------------------------------------------------------------
(* controller.json: the controller, its launches and its stops             *)
(* (ControllerRecord). Here v1 is file, v2 is pc, v3 is pid, v4 is mem, v5 *)
(* is text, v6 is inHandler, v7 is signal, v8 is launcher, v9 is           *)
(* launchCopy, v10 is stopper, v11 is stopCopy, v12 is stopSaid, v13 is    *)
(* stops, v14 is late, v15 is undone.                                      *)

RecInv == Rec!TypeOK /\ Rec!NamesInv /\ Rec!LastInv /\ Rec!NamesTheLiving

\* The steps of each writer.
RecLaunching == Rec!StartController \/ Rec!LauncherReads \/ Rec!LauncherOpens \/ Rec!LauncherFills
RecOpening == Rec!BootOpen \/ Rec!WorkOpen \/ Rec!LastOpen \/ Rec!AgainOpen
RecFilling == Rec!BootFill \/ Rec!WorkFill \/ Rec!LastFill \/ Rec!AgainFill
RecRunning == Rec!BootRead \/ Rec!Arm \/ Rec!QueueEnds \/ Rec!Kill
RecHandling == Rec!Handle \/ Rec!HandlerOpens \/ Rec!HandlerFills
RecStopping ==
  Rec!StopReads \/ Rec!StopSignals \/ Rec!StopOpens \/ Rec!StopFills \/ Rec!StopReturns

LEMMA RecGroups ==
  ASSUME Rec!Next
  PROVE  RecLaunching \/ RecOpening \/ RecFilling \/ RecRunning \/ RecHandling \/ RecStopping
  BY DEF Rec!Next, RecLaunching, RecOpening, RecFilling, RecRunning, RecHandling, RecStopping

\* A record is none of the texts that cannot be parsed; the fields the writers set.
LEMMA RecRecordFields ==
  /\ Rec!Nobody \in Rec!Records /\ Rec!Empty \notin Rec!Records /\ Rec!Garbled \notin Rec!Records
  /\ Rec!Empty # Rec!Garbled
  /\ \A r \in Rec!Records, s \in Rec!States : [r EXCEPT !.state = s] \in Rec!Records
  /\ \A r \in Rec!Records : [r EXCEPT !.stop = TRUE] \in Rec!Records
  /\ \A r \in Rec!Records, s \in Rec!States, p \in 0..RecordLaunches :
       [r EXCEPT !.pid = p, !.state = s] \in Rec!Records
<1>1. Rec!Nobody \in Rec!Records
  BY RecordBounds DEF Rec!Records, Rec!States, Rec!Nobody
<1>2. Rec!Empty \notin Rec!Records /\ Rec!Garbled \notin Rec!Records /\ Rec!Empty # Rec!Garbled
  BY DEF Rec!Records, Rec!States, Rec!Nobody, Rec!Empty, Rec!Garbled
<1>3. \A r \in Rec!Records, s \in Rec!States : [r EXCEPT !.state = s] \in Rec!Records
  BY DEF Rec!Records
<1>4. \A r \in Rec!Records : [r EXCEPT !.stop = TRUE] \in Rec!Records
  BY DEF Rec!Records
<1>5. \A r \in Rec!Records, s \in Rec!States, p \in 0..RecordLaunches :
        [r EXCEPT !.pid = p, !.state = s] \in Rec!Records
  BY DEF Rec!Records
<1> QED BY <1>1, <1>2, <1>3, <1>4, <1>5

LEMMA RecInitInv == ASSUME Rec!Init PROVE RecInv
<1>1. {v7, v14, v15} \subseteq BOOLEAN
  BY Zenon DEF Rec!Init
<1>2. {v4, v5, v9, v11} \subseteq Rec!Records /\ v1 \in Rec!Records
  BY RecRecordFields DEF Rec!Init
<1>3. Rec!TypeOK
  BY <1>1, <1>2, RecordBounds DEF Rec!Init, Rec!TypeOK
<1>4. Rec!NamesInv /\ Rec!LastInv /\ Rec!NamesTheLiving
  BY DEF Rec!Init, Rec!NamesInv, Rec!LastInv, Rec!NamesTheLiving, Rec!Alive, Rec!Armed
<1> QED BY <1>3, <1>4 DEF RecInv

\* A counter below its bound has room for one more.
LEMMA RecLaunchRoom ==
  ASSUME NEW n \in 0..RecordLaunches, n < RecordLaunches PROVE n + 1 \in 0..RecordLaunches
  BY RecordBounds
LEMMA RecStopRoom ==
  ASSUME NEW n \in 0..RecordStops, n < RecordStops PROVE n + 1 \in 0..RecordStops
  BY RecordBounds

LEMMA RecLaunchingTypes == ASSUME Rec!TypeOK, RecLaunching PROVE Rec!TypeOK'
<1> USE DEF Rec!TypeOK, Rec!Controller, Rec!Launcher, Rec!Stopper
<1>1. CASE Rec!StartController
  <2>1. {v7', v14', v15'} \subseteq BOOLEAN
    BY <1>1, Zenon DEF Rec!StartController
  <2>2. v3' \in 0..RecordLaunches
    BY <1>1, RecLaunchRoom, Zenon DEF Rec!StartController
  <2>3. v4' \in Rec!Records
    BY <1>1, RecRecordFields DEF Rec!StartController
  <2> QED BY <1>1, <2>1, <2>2, <2>3 DEF Rec!StartController, Rec!Alive
<1>2. CASE Rec!LauncherReads
  <2>1. Rec!Readable => v1 \in Rec!Records /\ v1.state \in Rec!States
    BY RecRecordFields DEF Rec!Readable, Rec!Records
  <2>2. Rec!Readable =>
          [v1 EXCEPT !.pid = v3,
             !.state = IF @ \in {"prepared", "launching"} THEN "launching" ELSE @] \in Rec!Records
    BY <2>1 DEF Rec!Records, Rec!States
  <2> QED BY <1>2, <2>2 DEF Rec!LauncherReads
<1>3. CASE Rec!LauncherOpens
  BY <1>3 DEF Rec!LauncherOpens
<1>4. CASE Rec!LauncherFills
  <2>1. v14' \in BOOLEAN
    BY <1>4, Zenon DEF Rec!LauncherFills, Rec!PastLast
  <2> QED BY <1>4, <2>1 DEF Rec!LauncherFills, Rec!Filled
<1> QED BY <1>1, <1>2, <1>3, <1>4 DEF RecLaunching

LEMMA RecWritingTypes == ASSUME Rec!TypeOK, RecOpening \/ RecFilling PROVE Rec!TypeOK'
<1> USE DEF Rec!TypeOK, Rec!Launcher, Rec!Stopper, Rec!Alive
<1>1. CASE RecOpening
  BY <1>1 DEF RecOpening, Rec!BootOpen, Rec!WorkOpen, Rec!LastOpen, Rec!AgainOpen, Rec!Truncate
<1>2. CASE RecFilling
  BY <1>2 DEF RecFilling, Rec!BootFill, Rec!WorkFill, Rec!LastFill, Rec!AgainFill, Rec!Fill,
     Rec!Filled
<1> QED BY <1>1, <1>2

LEMMA RecRunningTypes == ASSUME Rec!TypeOK, RecRunning PROVE Rec!TypeOK'
<1> USE DEF Rec!TypeOK, Rec!Launcher, Rec!Stopper, Rec!Alive
<1>1. CASE Rec!BootRead
  <2>1. Rec!Readable => v1 \in Rec!Records
    BY RecRecordFields DEF Rec!Readable
  <2>2. Rec!Readable => [v1 EXCEPT !.pid = v3, !.state = "running"] \in Rec!Records
    BY <2>1, RecRecordFields DEF Rec!States
  <2> QED BY <1>1, <2>2 DEF Rec!BootRead
<1>2. CASE Rec!Arm
  BY <1>2 DEF Rec!Arm
<1>3. CASE Rec!QueueEnds
  <2>1. [v4 EXCEPT !.state = "final"] \in Rec!Records
    BY RecRecordFields DEF Rec!States
  <2> QED BY <1>3, <2>1 DEF Rec!QueueEnds
<1>4. CASE Rec!Kill
  BY <1>4 DEF Rec!Kill
<1> QED BY <1>1, <1>2, <1>3, <1>4 DEF RecRunning

LEMMA RecHandlingTypes == ASSUME Rec!TypeOK, RecHandling PROVE Rec!TypeOK'
<1> USE DEF Rec!TypeOK, Rec!Launcher, Rec!Stopper, Rec!Alive
<1>1. CASE Rec!Handle
  <2>1. v4' \in Rec!Records
    BY <1>1, RecRecordFields DEF Rec!Handle
  <2>2. v7' \in BOOLEAN
    BY <1>1, Zenon DEF Rec!Handle
  <2> QED BY <1>1, <2>1, <2>2 DEF Rec!Handle
<1>2. CASE Rec!HandlerOpens
  BY <1>2 DEF Rec!HandlerOpens
<1>3. CASE Rec!HandlerFills
  <2>1. v14' \in BOOLEAN
    BY <1>3, Zenon DEF Rec!HandlerFills
  <2> QED BY <1>3, <2>1 DEF Rec!HandlerFills, Rec!Filled
<1> QED BY <1>1, <1>2, <1>3 DEF RecHandling

LEMMA RecStoppingTypes == ASSUME Rec!TypeOK, RecStopping PROVE Rec!TypeOK'
<1> USE DEF Rec!TypeOK, Rec!Controller, Rec!Launcher
<1>1. CASE Rec!StopReads
  <2>1. Rec!Readable => v1 \in Rec!Records
    BY RecRecordFields DEF Rec!Readable
  <2>2. v13' \in 0..RecordStops
    BY <1>1, RecStopRoom, Zenon DEF Rec!StopReads
  <2>3. v11' \in Rec!Records
    BY <1>1, <2>1 DEF Rec!StopReads
  <2> QED BY <1>1, <2>2, <2>3 DEF Rec!StopReads
<1>2. CASE Rec!StopSignals
  <2>1. [v11 EXCEPT !.state = "stopping", !.stop = TRUE] \in Rec!Records
    BY DEF Rec!Records, Rec!States
  <2> QED BY <1>2, <2>1 DEF Rec!StopSignals
<1>3. CASE Rec!StopOpens
  BY <1>3 DEF Rec!StopOpens
<1>4. CASE Rec!StopFills
  <2>1. v14' \in BOOLEAN
    BY <1>4, Zenon DEF Rec!StopFills, Rec!PastLast
  <2>2. v15' \in BOOLEAN
    BY <1>4, Zenon DEF Rec!StopFills
  <2> QED BY <1>4, <2>1, <2>2 DEF Rec!StopFills, Rec!Filled
<1>5. CASE Rec!StopReturns
  BY <1>5 DEF Rec!StopReturns
<1> QED BY <1>1, <1>2, <1>3, <1>4, <1>5 DEF RecStopping

-----------------------------------------------------------------------------

LEMMA RecNamesKept == ASSUME RecInv, Rec!Next PROVE Rec!NamesInv'
<1> USE DEF RecInv, Rec!TypeOK, Rec!NamesInv, Rec!LastInv, Rec!Controller, Rec!Launcher,
       Rec!Stopper, Rec!Alive, Rec!Armed
<1>1. CASE RecLaunching
  <2>1. Rec!Readable => v1 \in Rec!Records
    BY RecRecordFields DEF Rec!Readable
  <2> QED BY <1>1, <2>1 DEF RecLaunching, Rec!StartController, Rec!LauncherReads,
             Rec!LauncherOpens, Rec!LauncherFills, Rec!Records
<1>2. CASE RecOpening
  BY <1>2 DEF RecOpening, Rec!BootOpen, Rec!WorkOpen, Rec!LastOpen, Rec!AgainOpen, Rec!Truncate
<1>3. CASE RecFilling
  BY <1>3 DEF RecFilling, Rec!BootFill, Rec!WorkFill, Rec!LastFill, Rec!AgainFill, Rec!Fill
<1>4. CASE RecRunning
  <2>1. Rec!Readable => v1 \in Rec!Records
    BY RecRecordFields DEF Rec!Readable
  <2> QED BY <1>4, <2>1 DEF RecRunning, Rec!BootRead, Rec!Arm, Rec!QueueEnds, Rec!Kill,
             Rec!Records
<1>5. CASE RecHandling
  BY <1>5 DEF RecHandling, Rec!Handle, Rec!HandlerOpens, Rec!HandlerFills, Rec!Records
<1>6. CASE RecStopping
  BY <1>6 DEF RecStopping, Rec!StopReads, Rec!StopSignals, Rec!StopOpens, Rec!StopFills,
     Rec!StopReturns
<1> QED BY <1>1, <1>2, <1>3, <1>4, <1>5, <1>6, RecGroups

LEMMA RecLastKept == ASSUME RecInv, Rec!Next PROVE Rec!LastInv'
<1> USE DEF RecInv, Rec!TypeOK, Rec!LastInv, Rec!Controller, Rec!Launcher, Rec!Stopper, Rec!Alive,
       Rec!Armed, Rec!Thread
<1>1. CASE RecLaunching
  BY <1>1, RecRecordFields DEF RecLaunching, Rec!StartController, Rec!LauncherReads,
     Rec!LauncherOpens, Rec!LauncherFills, Rec!PastLast
<1>2. CASE RecOpening
  BY <1>2 DEF RecOpening, Rec!BootOpen, Rec!WorkOpen, Rec!LastOpen, Rec!AgainOpen, Rec!Truncate
<1>3. CASE RecFilling
  BY <1>3 DEF RecFilling, Rec!BootFill, Rec!WorkFill, Rec!LastFill, Rec!AgainFill, Rec!Fill,
     Rec!Filled
<1>4. CASE RecRunning
  BY <1>4 DEF RecRunning, Rec!BootRead, Rec!Arm, Rec!QueueEnds, Rec!Kill
<1>5. CASE RecHandling
  BY <1>5 DEF RecHandling, Rec!Handle, Rec!HandlerOpens, Rec!HandlerFills, Rec!Filled
<1>6. CASE RecStopping
  BY <1>6 DEF RecStopping, Rec!StopReads, Rec!StopSignals, Rec!StopOpens, Rec!StopFills,
     Rec!StopReturns, Rec!PastLast
<1> QED BY <1>1, <1>2, <1>3, <1>4, <1>5, <1>6, RecGroups

LEMMA RecLivingKept == ASSUME RecInv, Rec!Next PROVE Rec!NamesTheLiving'
<1> USE DEF RecInv, Rec!TypeOK, Rec!NamesInv, Rec!LastInv, Rec!NamesTheLiving, Rec!Readable,
       Rec!Controller, Rec!Launcher, Rec!Stopper, Rec!Alive, Rec!Armed
<1>1. CASE RecLaunching
  BY <1>1, RecRecordFields DEF RecLaunching, Rec!StartController, Rec!LauncherReads,
     Rec!LauncherOpens, Rec!LauncherFills, Rec!Filled
<1>2. CASE RecOpening
  BY <1>2 DEF RecOpening, Rec!BootOpen, Rec!WorkOpen, Rec!LastOpen, Rec!AgainOpen, Rec!Truncate
<1>3. CASE RecFilling
  BY <1>3 DEF RecFilling, Rec!BootFill, Rec!WorkFill, Rec!LastFill, Rec!AgainFill, Rec!Fill,
     Rec!Filled
<1>4. CASE RecRunning
  BY <1>4 DEF RecRunning, Rec!BootRead, Rec!Arm, Rec!QueueEnds, Rec!Kill
<1>5. CASE RecHandling
  BY <1>5 DEF RecHandling, Rec!Handle, Rec!HandlerOpens, Rec!HandlerFills, Rec!Filled
<1>6. CASE RecStopping
  BY <1>6 DEF RecStopping, Rec!StopReads, Rec!StopSignals, Rec!StopOpens, Rec!StopFills,
     Rec!StopReturns, Rec!Filled
<1> QED BY <1>1, <1>2, <1>3, <1>4, <1>5, <1>6, RecGroups

LEMMA RecUnchanged == ASSUME RecInv, UNCHANGED Rec!vars PROVE RecInv'
<1>1. Rec!TypeOK'
  BY DEF RecInv, Rec!TypeOK, Rec!vars
<1>2. Rec!NamesInv' /\ Rec!LastInv' /\ Rec!NamesTheLiving'
  BY DEF RecInv, Rec!NamesInv, Rec!LastInv, Rec!NamesTheLiving, Rec!Readable, Rec!vars
<1> QED BY <1>1, <1>2 DEF RecInv

LEMMA RecNextInv == ASSUME RecInv, Rec!Next \/ UNCHANGED Rec!vars PROVE RecInv'
  BY RecGroups, RecLaunchingTypes, RecWritingTypes, RecRunningTypes, RecHandlingTypes,
     RecStoppingTypes, RecNamesKept, RecLastKept, RecLivingKept, RecUnchanged DEF RecInv

LEMMA RecSound == RecInv => Rec!TypeOK /\ Rec!RecordIsSound
  BY DEF RecInv, Rec!LastInv, Rec!RecordIsSound, Rec!LastWordStands

-----------------------------------------------------------------------------
(* The judge and the bridges of the controllers on a host (EdgeResources). *)
(* Here v1 is pc, v2 is bridge, v3 is judge, v4 is crashed, v5 is host, v6 *)
(* is registered, v7 is noted, v8 is incomplete, v9 is alive, v10 is       *)
(* unwritten, v11 is failed.                                               *)

JudgeInv == Judge!TypeOK /\ Judge!CloseoutInv /\ Judge!ServedInv

\* The steps of one controller, and those of its judge process.
JudgeOpening(c) ==
  Judge!Execute(c) \/ Judge!ApiBridge(c) \/ Judge!ReuseJudge(c) \/ Judge!StartJudge(c)
  \/ Judge!JudgeReady(c) \/ Judge!JudgeNotReady(c) \/ Judge!JudgeBridge(c) \/ Judge!Prepare(c)
JudgeEnding(c) ==
  Judge!QueueEnds(c) \/ Judge!GiveUpJudge(c) \/ Judge!Close(c) \/ Judge!CloseBridges(c)
  \/ Judge!Record(c) \/ Judge!Exit(c)
JudgeBreaking(c) == Judge!Raises(c) \/ Judge!HandleStop(c) \/ Judge!Kill(c)
JudgeProcess(c) == Judge!JudgeBinds(c) \/ Judge!JudgeCrashes(c)

LEMMA JudgeGroups ==
  ASSUME Judge!Next
  PROVE  \E c \in Judge!Controllers :
           JudgeOpening(c) \/ JudgeEnding(c) \/ JudgeBreaking(c) \/ JudgeProcess(c)
  BY DEF Judge!Next, JudgeOpening, JudgeEnding, JudgeBreaking, JudgeProcess

\* Setting one flag keeps the type.
LEMMA JudgeFlagSet ==
  ASSUME NEW f \in [Judge!Controllers -> BOOLEAN], NEW c \in Judge!Controllers, NEW v \in BOOLEAN
  PROVE  [f EXCEPT ![c] = v] \in [Judge!Controllers -> BOOLEAN]
  BY Zenon

LEMMA JudgeInitInv == ASSUME Judge!Init PROVE JudgeInv
<1>1. {v4, v6, v7, v8, v9, v10, v11} \subseteq [Judge!Controllers -> BOOLEAN]
  BY Zenon DEF Judge!Init
<1>2. Judge!TypeOK
  BY <1>1, JudgeBounds DEF Judge!Init, Judge!TypeOK, Judge!Running, Judge!Steps
<1>3. \A c \in Judge!Controllers : v1[c] = "idle" /\ v3[c] = "none" /\ ~v7[c] /\ ~v9[c]
  BY DEF Judge!Init
<1> QED BY <1>2, <1>3 DEF JudgeInv, Judge!CloseoutInv, Judge!ServedInv, Judge!Running

\* An exception leads to one of four places, and not far from where the judge is handed over.
LEMMA JudgeRaised ==
  ASSUME Judge!TypeOK, NEW c \in Judge!Controllers, Judge!Raise(c)
  PROVE  /\ v1' \in [Judge!Controllers -> Judge!Steps]
         /\ v11' \in [Judge!Controllers -> BOOLEAN]
         /\ v1' = [v1 EXCEPT ![c] = Judge!WayOut(c)] /\ v11' = [v11 EXCEPT ![c] = TRUE]
         /\ Judge!WayOut(c) \in {"bridges", "close", "record", "exit"}
         /\ Judge!WayOut(c) = "close" => v1[c] \in {"judge", "prepared"}
<1>1. /\ Judge!WayOut(c) \in {"bridges", "close", "record", "exit"}
      /\ Judge!WayOut(c) = "close" => v1[c] \in {"judge", "prepared"}
  BY DEF Judge!WayOut
<1>2. v1' = [v1 EXCEPT ![c] = Judge!WayOut(c)] /\ v11' = [v11 EXCEPT ![c] = TRUE]
  BY DEF Judge!Raise, Judge!Go
<1>3. v1' \in [Judge!Controllers -> Judge!Steps]
  BY <1>1, <1>2 DEF Judge!TypeOK, Judge!Steps
<1>4. v11' \in [Judge!Controllers -> BOOLEAN]
  BY <1>2, JudgeFlagSet DEF Judge!TypeOK
<1> QED BY <1>1, <1>2, <1>3, <1>4

\* A write of controller.json, whether it fails or not, leaves what is noted said, and what
\* others have said alone.
LEMMA JudgeWritten ==
  ASSUME Judge!TypeOK, NEW c \in Judge!Controllers, Judge!Wrote(c) \/ Judge!WriteFails(c),
         v7' \in [Judge!Controllers -> BOOLEAN], v7' \in {v7, [v7 EXCEPT ![c] = TRUE]}
  PROVE  /\ v8' \in [Judge!Controllers -> BOOLEAN] /\ v10' \in [Judge!Controllers -> BOOLEAN]
         /\ v7'[c] => Judge!Said(c)'
         /\ \A d \in Judge!Controllers : d # c =>
              v7'[d] = v7[d] /\ v8'[d] = v8[d] /\ v10'[d] = v10[d]
<1>1. v7'[c] \in BOOLEAN
  OBVIOUS
<1>2. v8' \in [Judge!Controllers -> BOOLEAN]
  BY <1>1, JudgeFlagSet DEF Judge!TypeOK, Judge!Wrote, Judge!WriteFails
<1>3. v10' \in [Judge!Controllers -> BOOLEAN]
  BY JudgeFlagSet DEF Judge!TypeOK, Judge!Wrote, Judge!WriteFails
<1>4. v7'[c] => Judge!Said(c)'
  BY DEF Judge!TypeOK, Judge!Wrote, Judge!WriteFails, Judge!Said
<1>5. \A d \in Judge!Controllers : d # c =>
        v7'[d] = v7[d] /\ v8'[d] = v8[d] /\ v10'[d] = v10[d]
  BY DEF Judge!TypeOK, Judge!Wrote, Judge!WriteFails
<1> QED BY <1>2, <1>3, <1>4, <1>5

LEMMA JudgeBridgesStarted ==
  ASSUME Judge!TypeOK, NEW c \in Judge!Controllers, NEW b \in Judge!Bridges,
         NEW next \in {"port", "prepared"}, Judge!StartBridge(c, b, next)
  PROVE  /\ v1' \in [Judge!Controllers -> Judge!Steps]
         /\ v2' \in [Judge!Controllers -> [Judge!Bridges -> {"none", "up", "down"}]]
         /\ v11' \in [Judge!Controllers -> BOOLEAN]
<1>1. CASE Judge!Raise(c)
  <2>1. v2' \in [Judge!Controllers -> [Judge!Bridges -> {"none", "up", "down"}]]
    <3>1. PICK x \in {"up", "down"} : v2' = [v2 EXCEPT ![c] = [v2[c] EXCEPT ![b] = x]]
      BY DEF Judge!StartBridge
    <3> DEFINE after == [v2[c] EXCEPT ![b] = x]
    <3>2. v2 \in [Judge!Controllers -> [Judge!Bridges -> {"none", "up", "down"}]]
      BY DEF Judge!TypeOK
    <3>3. after \in [Judge!Bridges -> {"none", "up", "down"}]
      BY <3>2
    <3> HIDE DEF after
    <3> QED BY <3>1, <3>2, <3>3
  <2> QED BY <1>1, <2>1, JudgeRaised
<1>2. CASE ~Judge!Raise(c)
  <2>1. /\ v2' = [v2 EXCEPT ![c] = [v2[c] EXCEPT ![b] = "up"]]
        /\ v1' = [v1 EXCEPT ![c] = next] /\ v11' = v11
    BY <1>2 DEF Judge!StartBridge, Judge!Go
  <2> DEFINE after == [v2[c] EXCEPT ![b] = "up"]
  <2>2. v2 \in [Judge!Controllers -> [Judge!Bridges -> {"none", "up", "down"}]]
    BY DEF Judge!TypeOK
  <2>3. after \in [Judge!Bridges -> {"none", "up", "down"}]
    BY <2>2
  <2>4. v1' \in [Judge!Controllers -> Judge!Steps]
    BY <2>1 DEF Judge!TypeOK, Judge!Steps
  <2>5. v11' \in [Judge!Controllers -> BOOLEAN]
    BY <2>1 DEF Judge!TypeOK
  <2> HIDE DEF after
  <2> QED BY <2>1, <2>2, <2>3, <2>4, <2>5
<1> QED BY <1>1, <1>2

LEMMA JudgeBridgesClosed ==
  ASSUME Judge!TypeOK, NEW c \in Judge!Controllers,
         v2' = [v2 EXCEPT ![c] = Judge!Closed(v2[c])]
  PROVE  /\ v2' \in [Judge!Controllers -> [Judge!Bridges -> {"none", "up", "down"}]]
         /\ \A b \in Judge!Bridges : v2'[c][b] # "up"
         /\ \A d \in Judge!Controllers : d # c => v2'[d] = v2[d]
<1> DEFINE after == Judge!Closed(v2[c])
<1>1. v2 \in [Judge!Controllers -> [Judge!Bridges -> {"none", "up", "down"}]]
  BY DEF Judge!TypeOK
<1>2. after \in [Judge!Bridges -> {"none", "up", "down"}]
  BY <1>1 DEF Judge!Closed
<1>3. \A b \in Judge!Bridges : after[b] # "up"
  BY DEF Judge!Closed
<1>4. v2' = [v2 EXCEPT ![c] = after]
  OBVIOUS
<1> HIDE DEF after
<1> QED BY <1>1, <1>2, <1>3, <1>4

\* close_judge: what is left of a registered judge is noted, unless it raised.
LEMMA JudgeJudgesClosed ==
  ASSUME Judge!TypeOK, NEW c \in Judge!Controllers, NEW next \in Judge!Steps,
         NEW raised \in Judge!Steps, Judge!CloseJudge(c, next, raised)
  PROVE  /\ v1' \in [Judge!Controllers -> Judge!Steps]
         /\ v3' \in [Judge!Controllers -> {"none", "dead"} \cup Judge!Running]
         /\ v7' \in [Judge!Controllers -> BOOLEAN] /\ v8' \in [Judge!Controllers -> BOOLEAN]
         /\ v10' \in [Judge!Controllers -> BOOLEAN]
         /\ v7[c] => v7'[c]
         /\ (v7[c] => Judge!Said(c)) => (v7'[c] => Judge!Said(c)')
         /\ v6[c] /\ v3'[c] \in Judge!Running => Judge!Said(c)'
         /\ \/ v1' = [v1 EXCEPT ![c] = next] /\ (v6[c] /\ v3'[c] \in Judge!Running => v7'[c])
            \/ v1' = [v1 EXCEPT ![c] = raised]
         /\ v3' = v3 \/ (v3' = [v3 EXCEPT ![c] = "dead"] /\ v3[c] \in Judge!Running)
         /\ \A d \in Judge!Controllers : d # c =>
              v7'[d] = v7[d] /\ v8'[d] = v8[d] /\ v10'[d] = v10[d]
<1> DEFINE closing == v6[c] /\ v3[c] \in Judge!Running
           said == [v7 EXCEPT ![c] = TRUE]
<1>1. CASE /\ v3' = IF closing THEN [v3 EXCEPT ![c] = "dead"] ELSE v3
           /\ Judge!Go(c, next) /\ UNCHANGED Judge!Note
  <2>1. v7' = v7 /\ v8' = v8 /\ v10' = v10 /\ v1' = [v1 EXCEPT ![c] = next]
    BY <1>1 DEF Judge!Note, Judge!Go
  <2>2. v1' \in [Judge!Controllers -> Judge!Steps]
    BY <2>1 DEF Judge!TypeOK
  <2>3. v3' \in [Judge!Controllers -> {"none", "dead"} \cup Judge!Running]
    BY <1>1 DEF Judge!TypeOK
  <2>4. ~(v6[c] /\ v3'[c] \in Judge!Running)
    BY <1>1 DEF Judge!TypeOK, Judge!Running
  <2> QED BY <1>1, <2>1, <2>2, <2>3, <2>4 DEF Judge!TypeOK, Judge!Said
<1>2. CASE closing /\ v7' \in {v7, said} /\ v3' = v3 /\
           \/ v7' = said /\ Judge!Wrote(c) /\ Judge!Go(c, next)
           \/ Judge!WriteFails(c) /\ Judge!Go(c, raised)
  <2>1. v7' \in [Judge!Controllers -> BOOLEAN] /\ v7' \in {v7, said} /\ (v7[c] => v7'[c])
    BY <1>2, JudgeFlagSet DEF Judge!TypeOK
  <2>2. /\ v8' \in [Judge!Controllers -> BOOLEAN] /\ v10' \in [Judge!Controllers -> BOOLEAN]
        /\ v7'[c] => Judge!Said(c)'
        /\ \A d \in Judge!Controllers : d # c =>
             v7'[d] = v7[d] /\ v8'[d] = v8[d] /\ v10'[d] = v10[d]
    BY <1>2, <2>1, JudgeWritten
  <2>3. v1' \in [Judge!Controllers -> Judge!Steps] /\ v3' = v3
    BY <1>2 DEF Judge!TypeOK, Judge!Go
  <2>4. Judge!Said(c)'
    <3>1. v7' = said => v7'[c]
      BY DEF Judge!TypeOK
    <3>2. Judge!WriteFails(c) => v10'[c]
      BY DEF Judge!TypeOK, Judge!WriteFails
    <3> QED BY <1>2, <2>2, <3>1, <3>2 DEF Judge!Said
  <2>5. \/ v1' = [v1 EXCEPT ![c] = next] /\ v7'[c]
        \/ v1' = [v1 EXCEPT ![c] = raised]
    BY <1>2 DEF Judge!TypeOK, Judge!Go
  <2> QED BY <2>1, <2>2, <2>3, <2>4, <2>5 DEF Judge!TypeOK
<1> QED BY <1>1, <1>2, Zenon DEF Judge!CloseJudge

LEMMA JudgeOpeningTypes ==
  ASSUME Judge!TypeOK, NEW c \in Judge!Controllers, JudgeOpening(c)
  PROVE  Judge!TypeOK'
<1> USE DEF Judge!TypeOK, Judge!At, Judge!Go, Judge!Steps, Judge!Note
<1>1. Judge!Listening \subseteq 0..JudgeControllers
  BY DEF Judge!Listening, Judge!Controllers
<1>2. CASE Judge!Execute(c)
  BY <1>2 DEF Judge!Execute
<1>3. CASE Judge!ApiBridge(c) \/ Judge!JudgeBridge(c)
  BY <1>3, JudgeBridgesStarted DEF Judge!ApiBridge, Judge!JudgeBridge, Judge!Bridges
<1>4. CASE Judge!ReuseJudge(c)
  <2>1. PICK h \in Judge!Listening : v5' = [v5 EXCEPT ![c] = h]
    BY <1>4 DEF Judge!ReuseJudge
  <2>2. v5' \in [Judge!Controllers -> 0..JudgeControllers]
    BY <1>1, <2>1
  <2>3. v8' \in [Judge!Controllers -> BOOLEAN] /\ v10' \in [Judge!Controllers -> BOOLEAN]
    BY <1>4, JudgeWritten DEF Judge!ReuseJudge
  <2>4. v1' \in [Judge!Controllers -> Judge!Steps] /\ v11' \in [Judge!Controllers -> BOOLEAN]
    BY <1>4, JudgeRaised DEF Judge!ReuseJudge
  <2> QED BY <1>4, <2>2, <2>3, <2>4 DEF Judge!ReuseJudge
<1>5. CASE Judge!StartJudge(c)
  <2>1. v8' \in [Judge!Controllers -> BOOLEAN] /\ v10' \in [Judge!Controllers -> BOOLEAN]
    BY <1>5, JudgeWritten DEF Judge!StartJudge
  <2>2. v1' \in [Judge!Controllers -> Judge!Steps] /\ v11' \in [Judge!Controllers -> BOOLEAN]
    BY <1>5, JudgeRaised DEF Judge!StartJudge
  <2>3. v6' \in [Judge!Controllers -> BOOLEAN]
    BY <1>5, JudgeFlagSet DEF Judge!StartJudge
  <2>4. v3' \in [Judge!Controllers -> {"none", "dead"} \cup Judge!Running]
    BY <1>5 DEF Judge!StartJudge, Judge!Running
  <2> QED BY <1>5, <2>1, <2>2, <2>3, <2>4 DEF Judge!StartJudge
<1>6. CASE Judge!JudgeReady(c)
  BY <1>1, <1>6 DEF Judge!JudgeReady
<1>7. CASE Judge!JudgeNotReady(c)
  <2>1. v11' \in [Judge!Controllers -> BOOLEAN]
    BY <1>7, JudgeFlagSet DEF Judge!JudgeNotReady
  <2> QED BY <1>7, <2>1 DEF Judge!JudgeNotReady
<1>8. CASE Judge!Prepare(c)
  <2>1. v8' \in [Judge!Controllers -> BOOLEAN] /\ v10' \in [Judge!Controllers -> BOOLEAN]
    BY <1>8, JudgeWritten DEF Judge!Prepare
  <2>2. v1' \in [Judge!Controllers -> Judge!Steps] /\ v11' \in [Judge!Controllers -> BOOLEAN]
    BY <1>8, JudgeRaised DEF Judge!Prepare
  <2> QED BY <1>8, <2>1, <2>2 DEF Judge!Prepare
<1> QED BY <1>2, <1>3, <1>4, <1>5, <1>6, <1>7, <1>8 DEF JudgeOpening

\* What a controller forgets at its end is its own.
LEMMA JudgeForgets ==
  ASSUME Judge!TypeOK, NEW c \in Judge!Controllers, Judge!Forget(c)
  PROVE  /\ v5' \in [Judge!Controllers -> 0..JudgeControllers]
         /\ v11' \in [Judge!Controllers -> BOOLEAN]
         /\ \A d \in Judge!Controllers : d # c => v5'[d] = v5[d] /\ v11'[d] = v11[d]
<1>1. v5' = [v5 EXCEPT ![c] = 0] /\ v11' = [v11 EXCEPT ![c] = FALSE]
  BY DEF Judge!Forget
<1>2. v5 \in [Judge!Controllers -> 0..JudgeControllers]
  BY DEF Judge!TypeOK
<1>3. v11 \in [Judge!Controllers -> BOOLEAN]
  BY DEF Judge!TypeOK
<1>4. 0 \in 0..JudgeControllers
  BY JudgeBounds
<1>5. v11' \in [Judge!Controllers -> BOOLEAN]
  BY <1>1, <1>3, JudgeFlagSet
<1> QED BY <1>1, <1>2, <1>3, <1>4, <1>5

LEMMA JudgeEndingTypes ==
  ASSUME Judge!TypeOK, NEW c \in Judge!Controllers, JudgeEnding(c)
  PROVE  Judge!TypeOK'
<1> USE DEF Judge!TypeOK, Judge!Go, Judge!Steps, Judge!Note
<1>1. CASE Judge!QueueEnds(c)
  BY <1>1 DEF Judge!QueueEnds
<1>2. CASE Judge!GiveUpJudge(c)
  BY <1>2, JudgeJudgesClosed DEF Judge!GiveUpJudge
<1>3. CASE Judge!Close(c)
  <2>1. Judge!WayOut(c) \in Judge!Steps
    BY DEF Judge!WayOut
  <2> QED BY <1>3, <2>1, JudgeJudgesClosed DEF Judge!Close
<1>4. CASE Judge!CloseBridges(c)
  BY <1>4, JudgeBridgesClosed DEF Judge!CloseBridges
<1>5. CASE Judge!Record(c)
  <2>1. v8' \in [Judge!Controllers -> BOOLEAN] /\ v10' \in [Judge!Controllers -> BOOLEAN]
    BY <1>5, JudgeWritten DEF Judge!Record
  <2>2. (v3[c] \in Judge!Running) \in BOOLEAN /\ v9[c] \in BOOLEAN
    OBVIOUS
  <2>3. v9' \in [Judge!Controllers -> BOOLEAN]
    BY <1>5, <2>2, JudgeFlagSet DEF Judge!Record
  <2> QED BY <1>5, <2>1, <2>3 DEF Judge!Record
<1>6. CASE Judge!Exit(c)
  <2>1. v2' \in [Judge!Controllers -> [Judge!Bridges -> {"none", "up", "down"}]]
    BY <1>6, JudgeBridgesClosed DEF Judge!Exit
  <2>2. /\ v1' \in [Judge!Controllers -> Judge!Steps]
        /\ v3' \in [Judge!Controllers -> {"none", "dead"} \cup Judge!Running]
        /\ {v7', v8', v10'} \subseteq [Judge!Controllers -> BOOLEAN]
    BY <1>6, JudgeJudgesClosed DEF Judge!Exit
  <2>3. /\ v5' \in [Judge!Controllers -> 0..JudgeControllers]
        /\ v11' \in [Judge!Controllers -> BOOLEAN]
    BY <1>6, JudgeForgets DEF Judge!Exit
  <2> QED BY <1>6, <2>1, <2>2, <2>3 DEF Judge!Exit
<1> QED BY <1>1, <1>2, <1>3, <1>4, <1>5, <1>6 DEF JudgeEnding

LEMMA JudgeOtherTypes ==
  ASSUME Judge!TypeOK, NEW c \in Judge!Controllers, JudgeBreaking(c) \/ JudgeProcess(c)
  PROVE  Judge!TypeOK'
<1> USE DEF Judge!TypeOK, Judge!Go, Judge!Steps, Judge!Note
<1>1. CASE Judge!Raises(c)
  BY <1>1, JudgeRaised DEF Judge!Raises
<1>2. CASE Judge!HandleStop(c)
  <2>1. v8' \in [Judge!Controllers -> BOOLEAN] /\ v10' \in [Judge!Controllers -> BOOLEAN]
    BY <1>2, JudgeWritten DEF Judge!HandleStop
  <2>2. v1' \in [Judge!Controllers -> Judge!Steps] /\ v11' \in [Judge!Controllers -> BOOLEAN]
    BY <1>2, JudgeRaised DEF Judge!HandleStop
  <2> QED BY <1>2, <2>1, <2>2 DEF Judge!HandleStop
<1>3. CASE Judge!Kill(c)
  <2>1. {v6', v7'} \subseteq [Judge!Controllers -> BOOLEAN]
    BY <1>3, JudgeFlagSet DEF Judge!Kill
  <2>2. /\ v5' \in [Judge!Controllers -> 0..JudgeControllers]
        /\ v11' \in [Judge!Controllers -> BOOLEAN]
    BY <1>3, JudgeForgets DEF Judge!Kill
  <2> QED BY <1>3, <2>1, <2>2 DEF Judge!Kill
<1>4. CASE Judge!JudgeBinds(c)
  BY <1>4 DEF Judge!JudgeBinds, Judge!Running
<1>5. CASE Judge!JudgeCrashes(c)
  <2>1. v4' \in [Judge!Controllers -> BOOLEAN]
    BY <1>5, JudgeFlagSet DEF Judge!JudgeCrashes
  <2> QED BY <1>5, <2>1 DEF Judge!JudgeCrashes
<1> QED BY <1>1, <1>2, <1>3, <1>4, <1>5 DEF JudgeBreaking, JudgeProcess

-----------------------------------------------------------------------------

\* A step of one controller keeps the conjuncts of CloseoutInv that speak of the others.
JudgeClosesOut(c) ==
  /\ v7[c] => Judge!Said(c)
  /\ v9[c] /\ v1[c] # "killed" => v7[c]
  /\ v1[c] \in {"idle", "api", "port"} => v3[c] = "none"
  /\ v1[c] \in {"wait", "judge", "prepared", "work", "close"} /\ v3[c] \in Judge!Running => v6[c]
  /\ v1[c] = "giveup" => v11[c]
  /\ v1[c] \in {"bridges", "record"} /\ ~v11[c] /\ v3[c] \in Judge!Running => v7[c]
  /\ v1[c] = "gone" => \A b \in Judge!Bridges : v2[c][b] # "up"
  /\ v1[c] = "gone" /\ v6[c] /\ v3[c] \in Judge!Running => Judge!Said(c)

LEMMA JudgeOthersKept ==
  ASSUME JudgeInv, NEW c \in Judge!Controllers, JudgeClosesOut(c)',
         \A d \in Judge!Controllers : d # c =>
           /\ v1'[d] = v1[d] /\ v2'[d] = v2[d] /\ v3'[d] = v3[d] /\ v6'[d] = v6[d]
           /\ v7'[d] = v7[d] /\ v8'[d] = v8[d] /\ v9'[d] = v9[d] /\ v10'[d] = v10[d]
           /\ v11'[d] = v11[d]
  PROVE  Judge!CloseoutInv'
  BY DEF JudgeInv, Judge!CloseoutInv, JudgeClosesOut, Judge!Said

LEMMA JudgeOpeningCloseout ==
  ASSUME JudgeInv, NEW c \in Judge!Controllers, JudgeOpening(c)
  PROVE  Judge!CloseoutInv'
<1> USE DEF JudgeInv, Judge!At, Judge!Go, Judge!Note, Judge!Running
<1>0. JudgeClosesOut(c) /\ Judge!TypeOK
  BY DEF Judge!CloseoutInv, JudgeClosesOut
<1>1. CASE Judge!Execute(c)
  <2>1. JudgeClosesOut(c)'
    BY <1>0, <1>1 DEF Judge!Execute, JudgeClosesOut, Judge!Said, Judge!TypeOK
  <2> QED BY <1>1, <2>1, JudgeOthersKept DEF Judge!Execute, Judge!TypeOK
<1>2. CASE Judge!ApiBridge(c) \/ Judge!JudgeBridge(c)
  <2>1. PICK b \in Judge!Bridges, next \in {"port", "prepared"} :
          /\ Judge!StartBridge(c, b, next)
          /\ v1[c] = (IF next = "port" THEN "api" ELSE "judge")
    BY <1>2 DEF Judge!ApiBridge, Judge!JudgeBridge, Judge!Bridges
  <2>2. UNCHANGED <<v3, v6, v7, v8, v9, v10>>
    BY <1>2 DEF Judge!ApiBridge, Judge!JudgeBridge
  <2>3. CASE Judge!Raise(c)
    <3>1. JudgeClosesOut(c)'
      BY <1>0, <2>1, <2>2, <2>3, JudgeRaised DEF JudgeClosesOut, Judge!Said, Judge!TypeOK
    <3> QED BY <2>1, <2>2, <2>3, <3>1, JudgeRaised, JudgeOthersKept
               DEF Judge!StartBridge, Judge!TypeOK
  <2>4. CASE v1' = [v1 EXCEPT ![c] = next] /\ v11' = v11
    <3>1. JudgeClosesOut(c)'
      BY <1>0, <2>1, <2>2, <2>4 DEF JudgeClosesOut, Judge!Said, Judge!TypeOK
    <3> QED BY <2>1, <2>2, <2>4, <3>1, JudgeOthersKept DEF Judge!StartBridge, Judge!TypeOK
  <2> QED BY <2>1, <2>3, <2>4 DEF Judge!StartBridge
<1>3. CASE Judge!ReuseJudge(c) \/ Judge!Prepare(c)
  <2>1. /\ v1[c] \in {"port", "prepared"} /\ UNCHANGED <<v2, v3, v6, v7, v9>>
        /\ Judge!Wrote(c) \/ Judge!WriteFails(c)
    BY <1>3 DEF Judge!ReuseJudge, Judge!Prepare
  <2>2. /\ v7'[c] => Judge!Said(c)'
        /\ \A d \in Judge!Controllers : d # c =>
             v7'[d] = v7[d] /\ v8'[d] = v8[d] /\ v10'[d] = v10[d]
    BY <1>0, <2>1, JudgeWritten DEF Judge!TypeOK
  <2>3. CASE Judge!Raise(c)
    <3>1. JudgeClosesOut(c)'
      BY <1>0, <2>1, <2>2, <2>3, JudgeRaised DEF JudgeClosesOut, Judge!TypeOK
    <3> QED BY <2>1, <2>2, <2>3, <3>1, JudgeRaised, JudgeOthersKept DEF Judge!TypeOK
  <2>4. CASE /\ v1' = [v1 EXCEPT ![c] = IF v1[c] = "port" THEN "judge" ELSE "work"]
             /\ v11' = v11
    <3>1. JudgeClosesOut(c)'
      BY <1>0, <2>1, <2>2, <2>4 DEF JudgeClosesOut, Judge!TypeOK
    <3> QED BY <2>1, <2>2, <2>4, <3>1, JudgeOthersKept DEF Judge!TypeOK
  <2> QED BY <1>3, <2>3, <2>4 DEF Judge!ReuseJudge, Judge!Prepare
<1>4. CASE Judge!StartJudge(c)
  <2>1. /\ v7'[c] => Judge!Said(c)'
        /\ \A d \in Judge!Controllers : d # c =>
             v7'[d] = v7[d] /\ v8'[d] = v8[d] /\ v10'[d] = v10[d]
    BY <1>0, <1>4, JudgeWritten DEF Judge!StartJudge, Judge!TypeOK
  <2>2. CASE Judge!Raise(c)
    <3>1. JudgeClosesOut(c)'
      <4>1. /\ v1[c] = "port" /\ v3'[c] = "starting" /\ v7' = v7 /\ v9' = v9 /\ v2' = v2
            /\ v9[c] => v7[c]
        BY <1>0, <1>4 DEF Judge!StartJudge, JudgeClosesOut, Judge!TypeOK
      <4>2. v1'[c] = "bridges" /\ v11'[c]
        BY <1>0, <2>2, <4>1 DEF Judge!Raise, Judge!WayOut, Judge!TypeOK
      <4> QED BY <2>1, <4>1, <4>2 DEF JudgeClosesOut
    <3> QED BY <1>4, <2>1, <2>2, <3>1, JudgeRaised, JudgeOthersKept
               DEF Judge!StartJudge, Judge!TypeOK
  <2>3. CASE /\ v6' = [v6 EXCEPT ![c] = TRUE]
             /\ v1' = [v1 EXCEPT ![c] = "wait"] /\ v11' = v11
    <3>1. JudgeClosesOut(c)'
      BY <1>0, <1>4, <2>1, <2>3 DEF Judge!StartJudge, JudgeClosesOut, Judge!TypeOK
    <3> QED BY <1>4, <2>1, <2>3, <3>1, JudgeOthersKept DEF Judge!StartJudge, Judge!TypeOK
  <2> QED BY <1>4, <2>2, <2>3 DEF Judge!StartJudge
<1>5. CASE Judge!JudgeReady(c)
  <2>1. JudgeClosesOut(c)'
    BY <1>0, <1>5 DEF Judge!JudgeReady, JudgeClosesOut, Judge!Said, Judge!TypeOK
  <2> QED BY <1>5, <2>1, JudgeOthersKept DEF Judge!JudgeReady, Judge!TypeOK
<1>6. CASE Judge!JudgeNotReady(c)
  <2>1. JudgeClosesOut(c)'
    BY <1>0, <1>6 DEF Judge!JudgeNotReady, JudgeClosesOut, Judge!Said, Judge!TypeOK
  <2> QED BY <1>6, <2>1, JudgeOthersKept DEF Judge!JudgeNotReady, Judge!TypeOK
<1> QED BY <1>1, <1>2, <1>3, <1>4, <1>5, <1>6 DEF JudgeOpening

LEMMA JudgeEndingCloseout ==
  ASSUME JudgeInv, NEW c \in Judge!Controllers, JudgeEnding(c)
  PROVE  Judge!CloseoutInv'
<1> USE DEF JudgeInv, Judge!At, Judge!Go, Judge!Note, Judge!Running
<1>0. JudgeClosesOut(c) /\ Judge!TypeOK
  BY DEF Judge!CloseoutInv, JudgeClosesOut
<1>1. CASE Judge!QueueEnds(c)
  <2>1. JudgeClosesOut(c)'
    BY <1>0, <1>1 DEF Judge!QueueEnds, JudgeClosesOut, Judge!Said, Judge!TypeOK
  <2> QED BY <1>1, <2>1, JudgeOthersKept DEF Judge!QueueEnds, Judge!TypeOK
<1>2. CASE Judge!GiveUpJudge(c) \/ Judge!Close(c)
  <2>1. PICK raised \in {"bridges", "record", "exit"} :
          /\ Judge!CloseJudge(c, "bridges", raised)
          /\ raised = "exit" \/ v11[c] \/ v1[c] = "giveup"
    BY <1>2 DEF Judge!GiveUpJudge, Judge!Close, Judge!WayOut
  <2>2. UNCHANGED <<v2, v6, v9, v11>> /\ v1[c] \in {"giveup", "close"}
    BY <1>2 DEF Judge!GiveUpJudge, Judge!Close
  <2>3. JudgeClosesOut(c)'
    <3>1. v1'[c] \in {"bridges", "record", "exit"}
      BY <2>1, JudgeJudgesClosed DEF Judge!Steps, Judge!TypeOK
    <3>2. (v7[c] => v7'[c]) /\ (v7'[c] => Judge!Said(c)') /\ (v9'[c] => v7'[c])
      BY <1>0, <2>1, <2>2, JudgeJudgesClosed DEF Judge!Steps, JudgeClosesOut
    <3>3. v1'[c] \in {"bridges", "record"} /\ ~v11'[c] /\ v3'[c] \in Judge!Running => v7'[c]
      <4>1. v6[c] \/ v11[c] \/ v3[c] \notin Judge!Running
        BY <1>0, <2>2 DEF JudgeClosesOut
      <4>2. v3'[c] \in Judge!Running => v3[c] \in Judge!Running
        BY <2>1, JudgeJudgesClosed DEF Judge!Steps, Judge!TypeOK
      <4>3. v1' = [v1 EXCEPT ![c] = raised] => v11[c] \/ v1'[c] = "exit"
        BY <1>0, <2>1, <2>2 DEF JudgeClosesOut, Judge!TypeOK
      <4>4. \/ v6[c] /\ v3'[c] \in Judge!Running => v7'[c]
            \/ v1' = [v1 EXCEPT ![c] = raised]
        BY <2>1, JudgeJudgesClosed DEF Judge!Steps
      <4> QED BY <2>2, <4>1, <4>2, <4>3, <4>4
    <3> QED BY <2>2, <3>1, <3>2, <3>3 DEF JudgeClosesOut
  <2>4. \A d \in Judge!Controllers : d # c =>
          /\ v1'[d] = v1[d] /\ v3'[d] = v3[d]
          /\ v7'[d] = v7[d] /\ v8'[d] = v8[d] /\ v10'[d] = v10[d]
    <3>1. /\ v1' = [v1 EXCEPT ![c] = "bridges"] \/ v1' = [v1 EXCEPT ![c] = raised]
          /\ v3' = v3 \/ v3' = [v3 EXCEPT ![c] = "dead"]
      BY <1>0, <2>1, JudgeJudgesClosed DEF Judge!Steps
    <3>2. \A d \in Judge!Controllers : d # c =>
            v7'[d] = v7[d] /\ v8'[d] = v8[d] /\ v10'[d] = v10[d]
      BY <1>0, <2>1, JudgeJudgesClosed DEF Judge!Steps
    <3> QED BY <1>0, <3>1, <3>2 DEF Judge!TypeOK
  <2> QED BY <2>2, <2>3, <2>4, JudgeOthersKept
<1>3. CASE Judge!CloseBridges(c)
  <2>1. JudgeClosesOut(c)'
    BY <1>0, <1>3 DEF Judge!CloseBridges, JudgeClosesOut, Judge!Said, Judge!TypeOK
  <2> QED BY <1>3, <2>1, JudgeOthersKept DEF Judge!CloseBridges, Judge!TypeOK
<1>4. CASE Judge!Record(c)
  <2>1. /\ v1[c] = "record" /\ v1' = [v1 EXCEPT ![c] = "exit"]
        /\ UNCHANGED <<v2, v3, v6, v7, v11>>
    BY <1>4 DEF Judge!Record
  <2>2. /\ v7'[c] => Judge!Said(c)'
        /\ \A d \in Judge!Controllers : d # c => v8'[d] = v8[d] /\ v10'[d] = v10[d]
    <3>1. CASE Judge!Wrote(c) \/ Judge!WriteFails(c)
      BY <1>0, <2>1, <3>1, JudgeWritten DEF Judge!TypeOK
    <3>2. CASE UNCHANGED <<v8, v10>>
      BY <1>0, <2>1, <3>2 DEF JudgeClosesOut, Judge!Said
    <3> QED BY <1>4, <3>1, <3>2 DEF Judge!Record
  <2>3. v9'[c] => v7[c]
    BY <1>0, <1>4 DEF Judge!Record, JudgeClosesOut, Judge!TypeOK
  <2>4. \A d \in Judge!Controllers : d # c => v9'[d] = v9[d]
    BY <1>0, <1>4 DEF Judge!Record, Judge!TypeOK
  <2>5. JudgeClosesOut(c)'
    BY <1>0, <2>1, <2>2, <2>3 DEF JudgeClosesOut, Judge!TypeOK
  <2> QED BY <1>0, <2>1, <2>2, <2>4, <2>5, JudgeOthersKept DEF Judge!TypeOK
<1>5. CASE Judge!Exit(c)
  <2>1. /\ Judge!CloseJudge(c, "gone", "gone") /\ UNCHANGED <<v6, v9>> /\ Judge!Forget(c)
        /\ v2' = [v2 EXCEPT ![c] = Judge!Closed(v2[c])]
    BY <1>5 DEF Judge!Exit
  <2>2. JudgeClosesOut(c)'
    <3>1. v1'[c] = "gone"
      BY <2>1, JudgeJudgesClosed DEF Judge!Steps, Judge!TypeOK
    <3>2. (v7[c] => v7'[c]) /\ (v7'[c] => Judge!Said(c)') /\ (v9'[c] => v7'[c])
      <4>1. v1[c] # "killed"
        BY <1>5 DEF Judge!Exit
      <4> QED BY <1>0, <2>1, <4>1, JudgeJudgesClosed DEF Judge!Steps, JudgeClosesOut
    <3>3. v6'[c] /\ v3'[c] \in Judge!Running => Judge!Said(c)'
      BY <1>0, <2>1, JudgeJudgesClosed DEF Judge!Steps
    <3>4. \A b \in Judge!Bridges : v2'[c][b] # "up"
      BY <1>0, <2>1, JudgeBridgesClosed
    <3> QED BY <3>1, <3>2, <3>3, <3>4 DEF JudgeClosesOut
  <2>3. \A d \in Judge!Controllers : d # c =>
          /\ v1'[d] = v1[d] /\ v2'[d] = v2[d] /\ v3'[d] = v3[d]
          /\ v7'[d] = v7[d] /\ v8'[d] = v8[d] /\ v10'[d] = v10[d]
    <3>1. /\ v1' = [v1 EXCEPT ![c] = "gone"]
          /\ v3' = v3 \/ v3' = [v3 EXCEPT ![c] = "dead"]
      BY <1>0, <2>1, JudgeJudgesClosed DEF Judge!Steps
    <3>2. \A d \in Judge!Controllers : d # c =>
            v7'[d] = v7[d] /\ v8'[d] = v8[d] /\ v10'[d] = v10[d]
      BY <1>0, <2>1, JudgeJudgesClosed DEF Judge!Steps
    <3>3. \A d \in Judge!Controllers : d # c => v2'[d] = v2[d]
      BY <1>0, <2>1, JudgeBridgesClosed
    <3> QED BY <1>0, <3>1, <3>2, <3>3 DEF Judge!TypeOK
  <2> QED BY <1>0, <2>1, <2>2, <2>3, JudgeForgets, JudgeOthersKept
<1> QED BY <1>1, <1>2, <1>3, <1>4, <1>5 DEF JudgeEnding

LEMMA JudgeOtherCloseout ==
  ASSUME JudgeInv, NEW c \in Judge!Controllers, JudgeBreaking(c) \/ JudgeProcess(c)
  PROVE  Judge!CloseoutInv'
<1> USE DEF JudgeInv, Judge!Go, Judge!Note, Judge!Running
<1>0. JudgeClosesOut(c) /\ Judge!TypeOK
  BY DEF Judge!CloseoutInv, JudgeClosesOut
<1>1. CASE Judge!Raises(c)
  <2>1. JudgeClosesOut(c)'
    BY <1>0, <1>1, JudgeRaised DEF Judge!Raises, JudgeClosesOut, Judge!Said, Judge!TypeOK
  <2> QED BY <1>0, <1>1, <2>1, JudgeRaised, JudgeOthersKept DEF Judge!Raises, Judge!TypeOK
<1>2. CASE Judge!HandleStop(c)
  <2>1. /\ UNCHANGED <<v2, v3, v6, v7, v9>> /\ v1[c] \notin {"gone", "killed"}
        /\ Judge!Wrote(c) \/ Judge!WriteFails(c)
    BY <1>2 DEF Judge!HandleStop
  <2>2. /\ v7'[c] => Judge!Said(c)'
        /\ \A d \in Judge!Controllers : d # c =>
             v7'[d] = v7[d] /\ v8'[d] = v8[d] /\ v10'[d] = v10[d]
    BY <1>0, <2>1, JudgeWritten DEF Judge!TypeOK
  <2>3. CASE Judge!Raise(c)
    <3>1. JudgeClosesOut(c)'
      BY <1>0, <2>1, <2>2, <2>3, JudgeRaised DEF JudgeClosesOut, Judge!TypeOK
    <3> QED BY <1>0, <2>1, <2>2, <2>3, <3>1, JudgeRaised, JudgeOthersKept DEF Judge!TypeOK
  <2>4. CASE UNCHANGED <<v1, v11>>
    <3>1. JudgeClosesOut(c)'
      BY <1>0, <2>1, <2>2, <2>4 DEF JudgeClosesOut
    <3> QED BY <2>1, <2>2, <2>4, <3>1, JudgeOthersKept
  <2> QED BY <1>2, <2>3, <2>4 DEF Judge!HandleStop
<1>3. CASE Judge!Kill(c)
  <2>1. JudgeClosesOut(c)'
    <3>1. v1'[c] = "killed" /\ ~v7'[c]
      BY <1>0, <1>3 DEF Judge!Kill, Judge!TypeOK
    <3> QED BY <3>1 DEF JudgeClosesOut
  <2>2. \A d \in Judge!Controllers : d # c =>
          v1'[d] = v1[d] /\ v6'[d] = v6[d] /\ v7'[d] = v7[d] /\ v11'[d] = v11[d]
    BY <1>0, <1>3, JudgeForgets DEF Judge!Kill, Judge!TypeOK
  <2> QED BY <1>3, <2>1, <2>2, JudgeOthersKept DEF Judge!Kill
<1>4. CASE JudgeProcess(c)
  <2>1. /\ v3[c] \in Judge!Running /\ UNCHANGED <<v1, v2, v6, v7, v8, v9, v10, v11>>
        /\ \A d \in Judge!Controllers : d # c => v3'[d] = v3[d]
    BY <1>0, <1>4 DEF JudgeProcess, Judge!JudgeBinds, Judge!JudgeCrashes, Judge!TypeOK
  <2>2. JudgeClosesOut(c)'
    BY <1>0, <2>1 DEF JudgeClosesOut, Judge!Said
  <2> QED BY <2>1, <2>2, JudgeOthersKept
<1> QED BY <1>1, <1>2, <1>3, <1>4 DEF JudgeBreaking

-----------------------------------------------------------------------------

\* What was found ready stays accounted for while no judge starts, the hosts stay the same
\* and only the process of c changes, to dead.
JudgeFound(d, h) ==
  /\ h \in Judge!Controllers /\ v3[h] \in {"listening", "dead"}
  /\ v3[h] = "dead" => v4[h] \/ (h # d /\ Judge!HasClosed(h))

\* The controllers that have closed go no further back.
JudgeGoesOn(c) ==
  /\ \A d \in Judge!Controllers : d # c => v1'[d] = v1[d]
  /\ Judge!HasClosed(c) => Judge!HasClosed(c)'

LEMMA JudgeGoing ==
  ASSUME Judge!TypeOK, NEW c \in Judge!Controllers,
         JudgeOpening(c) \/ JudgeEnding(c) \/ JudgeBreaking(c)
  PROVE  JudgeGoesOn(c)
<1> USE DEF Judge!Go, Judge!At, JudgeGoesOn, Judge!HasClosed
<1>1. CASE Judge!Raise(c)
  <2>1. v1[c] \in {"bridges", "record", "exit", "gone", "killed"} =>
          Judge!WayOut(c) \in {"record", "exit"}
    BY DEF Judge!WayOut
  <2> QED BY <1>1, <2>1, JudgeRaised DEF Judge!TypeOK
<1>2. CASE \E next, raised \in {"bridges", "record", "exit", "gone"} :
             Judge!CloseJudge(c, next, raised)
  BY <1>2, JudgeJudgesClosed DEF Judge!TypeOK, Judge!Steps
<1>3. CASE \E to \in Judge!Steps : v1' = [v1 EXCEPT ![c] = to] /\ ~Judge!HasClosed(c)
  BY <1>3 DEF Judge!TypeOK
<1>4. CASE v1' = v1 \/ (\E to \in {"record", "exit", "killed"} : v1' = [v1 EXCEPT ![c] = to])
  BY <1>4 DEF Judge!TypeOK
<1>5. CASE JudgeOpening(c)
  BY <1>1, <1>3, <1>5
     DEF JudgeOpening, Judge!Execute, Judge!ApiBridge, Judge!ReuseJudge, Judge!StartJudge,
         Judge!JudgeReady, Judge!JudgeNotReady, Judge!JudgeBridge, Judge!Prepare,
         Judge!StartBridge, Judge!Steps
<1>6. CASE JudgeEnding(c)
  <2>1. Judge!WayOut(c) \in {"bridges", "close", "record", "exit"}
    BY DEF Judge!WayOut
  <2>2. CASE Judge!Close(c)
    <3>1. Judge!WayOut(c) \in {"record", "exit"}
      BY <2>2 DEF Judge!Close, Judge!WayOut
    <3> QED BY <1>2, <2>2, <3>1 DEF Judge!Close
  <2>3. CASE Judge!GiveUpJudge(c) \/ Judge!Exit(c)
    BY <1>2, <2>3 DEF Judge!GiveUpJudge, Judge!Exit
  <2>4. CASE Judge!QueueEnds(c) \/ Judge!CloseBridges(c) \/ Judge!Record(c)
    BY <1>3, <1>4, <2>4 DEF Judge!QueueEnds, Judge!CloseBridges, Judge!Record, Judge!Steps
  <2> QED BY <1>6, <2>2, <2>3, <2>4 DEF JudgeEnding
<1>7. CASE JudgeBreaking(c)
  BY <1>1, <1>4, <1>7 DEF JudgeBreaking, Judge!Raises, Judge!HandleStop, Judge!Kill
<1> QED BY <1>5, <1>6, <1>7

\* A step that neither finds a judge nor starts one: what it ends, its controller has closed.
LEMMA JudgeServedKept ==
  ASSUME JudgeInv, NEW c \in Judge!Controllers, JudgeGoesOn(c), v4' = v4,
         \A d \in Judge!Controllers : d # c => v5'[d] = v5[d],
         v1'[c] \in {"judge", "prepared", "work"} => v5' = v5,
         \/ v3' = v3
         \/ v3' = [v3 EXCEPT ![c] = "dead"] /\ Judge!HasClosed(c)',
         v1'[c] \in {"judge", "prepared", "work"} => v1[c] \in {"judge", "prepared", "work"}
  PROVE  Judge!ServedInv'
<1>1. SUFFICES ASSUME NEW d \in Judge!Controllers, v1'[d] \in {"judge", "prepared", "work"}
               PROVE  JudgeFound(d, v5[d])'
  BY DEF Judge!ServedInv, JudgeFound
<1>2. v1[d] \in {"judge", "prepared", "work"}
  BY <1>1 DEF JudgeGoesOn
<1>3. JudgeFound(d, v5[d]) /\ v5'[d] = v5[d]
  BY <1>1, <1>2 DEF JudgeInv, Judge!ServedInv, JudgeFound
<1>4. Judge!HasClosed(v5[d]) => Judge!HasClosed(v5[d])'
  BY <1>3 DEF JudgeFound, JudgeGoesOn, Judge!HasClosed
<1>5. CASE v3' = v3
  BY <1>3, <1>4, <1>5 DEF JudgeFound
<1>6. CASE v3' = [v3 EXCEPT ![c] = "dead"] /\ Judge!HasClosed(c)'
  <2>1. d # c
    BY <1>1, <1>6 DEF Judge!HasClosed
  <2> QED BY <1>3, <1>4, <1>6, <2>1 DEF JudgeFound, JudgeInv, Judge!TypeOK
<1> QED BY <1>5, <1>6

\* A judge found ready is listening, and only a controller at the port starts one.
LEMMA JudgeOpeningServed ==
  ASSUME JudgeInv, NEW c \in Judge!Controllers, JudgeOpening(c)
  PROVE  Judge!ServedInv'
<1> USE DEF JudgeInv, Judge!At, Judge!Go
<1>0. JudgeGoesOn(c) /\ Judge!TypeOK
  BY JudgeGoing
<1>1. CASE Judge!Execute(c) \/ Judge!JudgeNotReady(c)
  BY <1>0, <1>1, JudgeServedKept DEF Judge!Execute, Judge!JudgeNotReady, Judge!TypeOK
<1>2. CASE Judge!ApiBridge(c) \/ Judge!JudgeBridge(c) \/ Judge!Prepare(c)
  <2>1. UNCHANGED <<v3, v4, v5>>
    BY <1>2 DEF Judge!ApiBridge, Judge!JudgeBridge, Judge!Prepare
  <2>2. v1'[c] \in {"judge", "prepared", "work"} => v1[c] \in {"judge", "prepared", "work"}
    <3>1. CASE Judge!Raise(c)
      BY <1>0, <3>1, JudgeRaised DEF Judge!TypeOK
    <3>2. CASE ~Judge!Raise(c)
      BY <1>0, <1>2, <3>2 DEF Judge!ApiBridge, Judge!JudgeBridge, Judge!Prepare,
         Judge!StartBridge, Judge!TypeOK
    <3> QED BY <3>1, <3>2
  <2> QED BY <1>0, <2>1, <2>2, JudgeServedKept
<1>3. CASE Judge!ReuseJudge(c) \/ Judge!JudgeReady(c)
  <2>1. PICK h \in Judge!Controllers : v3[h] = "listening" /\ v5' = [v5 EXCEPT ![c] = h]
    BY <1>3 DEF Judge!ReuseJudge, Judge!JudgeReady, Judge!Listening
  <2>2. UNCHANGED <<v3, v4>>
    BY <1>3 DEF Judge!ReuseJudge, Judge!JudgeReady
  <2>3. SUFFICES ASSUME NEW d \in Judge!Controllers, v1'[d] \in {"judge", "prepared", "work"}
                 PROVE  JudgeFound(d, v5[d])'
    BY DEF Judge!ServedInv, JudgeFound
  <2>4. CASE d = c
    BY <1>0, <2>1, <2>2, <2>4 DEF JudgeFound, Judge!TypeOK
  <2>5. CASE d # c
    <3>1. v1'[d] = v1[d] /\ v5'[d] = v5[d]
      BY <1>0, <2>1, <2>5 DEF JudgeGoesOn, Judge!TypeOK
    <3>2. JudgeFound(d, v5[d])
      BY <2>3, <3>1 DEF Judge!ServedInv, JudgeFound
    <3>3. Judge!HasClosed(v5[d]) => Judge!HasClosed(v5[d])'
      BY <1>0, <3>1, <3>2 DEF JudgeFound, JudgeGoesOn, Judge!HasClosed
    <3> QED BY <2>2, <3>1, <3>2, <3>3 DEF JudgeFound
  <2> QED BY <2>4, <2>5
<1>4. CASE Judge!StartJudge(c)
  <2>1. /\ v3[c] = "none" /\ v3' = [v3 EXCEPT ![c] = "starting"] /\ UNCHANGED <<v4, v5>>
        /\ v1[c] = "port"
    BY <1>4 DEF Judge!StartJudge, Judge!CloseoutInv
  <2>2. v1'[c] \notin {"judge", "prepared", "work"}
    <3>1. CASE Judge!Raise(c)
      BY <1>0, <3>1, JudgeRaised DEF Judge!TypeOK
    <3>2. CASE ~Judge!Raise(c)
      BY <1>0, <1>4, <3>2 DEF Judge!StartJudge, Judge!TypeOK
    <3> QED BY <3>1, <3>2
  <2>3. SUFFICES ASSUME NEW d \in Judge!Controllers, v1'[d] \in {"judge", "prepared", "work"}
                 PROVE  JudgeFound(d, v5[d])'
    BY DEF Judge!ServedInv, JudgeFound
  <2>4. d # c /\ v1[d] \in {"judge", "prepared", "work"}
    BY <1>0, <2>2, <2>3 DEF JudgeGoesOn
  <2>5. JudgeFound(d, v5[d])
    BY <2>4 DEF Judge!ServedInv, JudgeFound
  <2>6. v5[d] # c
    BY <2>1, <2>5 DEF JudgeFound
  <2>7. Judge!HasClosed(v5[d]) => Judge!HasClosed(v5[d])'
    BY <1>0, <2>1, <2>5, <2>6 DEF JudgeFound, JudgeGoesOn, Judge!HasClosed
  <2> QED BY <1>0, <2>1, <2>5, <2>6, <2>7 DEF JudgeFound, Judge!TypeOK
<1> QED BY <1>1, <1>2, <1>3, <1>4 DEF JudgeOpening

LEMMA JudgeEndingServed ==
  ASSUME JudgeInv, NEW c \in Judge!Controllers, JudgeEnding(c) \/ JudgeBreaking(c)
  PROVE  Judge!ServedInv'
<1> USE DEF JudgeInv, Judge!At, Judge!Go
<1>0. JudgeGoesOn(c) /\ Judge!TypeOK
  BY JudgeGoing
<1>1. CASE \E next, raised \in {"bridges", "record", "exit", "gone"} :
             Judge!CloseJudge(c, next, raised)
  <2>1. PICK next \in {"bridges", "record", "exit", "gone"},
             raised \in {"bridges", "record", "exit", "gone"} :
               Judge!CloseJudge(c, next, raised)
    BY <1>1
  <2>2. v3' = v3 \/ v3' = [v3 EXCEPT ![c] = "dead"]
    BY <1>0, <2>1, JudgeJudgesClosed DEF Judge!Steps
  <2>3. v1'[c] \in {"bridges", "record", "exit", "gone"}
    BY <1>0, <2>1, JudgeJudgesClosed DEF Judge!Steps, Judge!TypeOK
  <2>4. v4' = v4 /\ \A d \in Judge!Controllers : d # c => v5'[d] = v5[d]
    <3>1. v4' = v4 /\ (v5' = v5 \/ Judge!Forget(c))
      BY DEF JudgeEnding, JudgeBreaking, Judge!QueueEnds, Judge!GiveUpJudge, Judge!Close,
         Judge!CloseBridges, Judge!Record, Judge!Exit, Judge!Raises, Judge!HandleStop, Judge!Kill
    <3> QED BY <1>0, <3>1, JudgeForgets
  <2> QED BY <1>0, <2>2, <2>3, <2>4, JudgeServedKept DEF Judge!HasClosed
<1>2. CASE Judge!Close(c)
  <2>1. Judge!WayOut(c) \in {"record", "exit"}
    BY <1>2 DEF Judge!Close, Judge!WayOut
  <2> QED BY <1>1, <1>2, <2>1 DEF Judge!Close
<1>3. CASE Judge!GiveUpJudge(c) \/ Judge!Exit(c)
  BY <1>1, <1>3 DEF Judge!GiveUpJudge, Judge!Exit
<1>4. CASE Judge!QueueEnds(c) \/ Judge!CloseBridges(c) \/ Judge!Record(c)
  BY <1>0, <1>4, JudgeServedKept
     DEF Judge!QueueEnds, Judge!CloseBridges, Judge!Record, Judge!TypeOK
<1>5. CASE Judge!Raises(c) \/ Judge!HandleStop(c)
  <2>1. UNCHANGED <<v3, v4, v5>> /\ (v1' = v1 \/ Judge!Raise(c))
    BY <1>5 DEF Judge!Raises, Judge!HandleStop
  <2>2. v1'[c] \in {"judge", "prepared", "work"} => v1[c] \in {"judge", "prepared", "work"}
    BY <1>0, <2>1, JudgeRaised DEF Judge!TypeOK
  <2> QED BY <1>0, <2>1, <2>2, JudgeServedKept
<1>6. CASE Judge!Kill(c)
  <2>1. /\ UNCHANGED <<v3, v4>> /\ v1'[c] = "killed"
        /\ \A d \in Judge!Controllers : d # c => v5'[d] = v5[d]
    BY <1>0, <1>6, JudgeForgets DEF Judge!Kill, Judge!TypeOK
  <2> QED BY <1>0, <2>1, JudgeServedKept
<1> QED BY <1>2, <1>3, <1>4, <1>5, <1>6 DEF JudgeEnding, JudgeBreaking

LEMMA JudgeProcessServed ==
  ASSUME JudgeInv, NEW c \in Judge!Controllers, JudgeProcess(c)
  PROVE  Judge!ServedInv'
  BY DEF JudgeInv, JudgeProcess, Judge!JudgeBinds, Judge!JudgeCrashes, Judge!TypeOK,
     Judge!ServedInv, Judge!HasClosed, Judge!Running

LEMMA JudgeUnchanged == ASSUME JudgeInv, UNCHANGED Judge!vars PROVE JudgeInv'
<1>1. Judge!TypeOK'
  BY DEF JudgeInv, Judge!TypeOK, Judge!vars, Judge!Note
<1>2. Judge!CloseoutInv' /\ Judge!ServedInv'
  BY DEF JudgeInv, Judge!CloseoutInv, Judge!ServedInv, Judge!Said, Judge!HasClosed, Judge!vars,
     Judge!Note
<1> QED BY <1>1, <1>2 DEF JudgeInv

LEMMA JudgeNextInv == ASSUME JudgeInv, Judge!Next \/ UNCHANGED Judge!vars PROVE JudgeInv'
<1>1. CASE Judge!Next
  <2>1. PICK c \in Judge!Controllers :
          JudgeOpening(c) \/ JudgeEnding(c) \/ JudgeBreaking(c) \/ JudgeProcess(c)
    BY <1>1, JudgeGroups
  <2>2. Judge!TypeOK'
    BY <2>1, JudgeOpeningTypes, JudgeEndingTypes, JudgeOtherTypes DEF JudgeInv
  <2>3. Judge!CloseoutInv'
    BY <2>1, JudgeOpeningCloseout, JudgeEndingCloseout, JudgeOtherCloseout
  <2>4. Judge!ServedInv'
    BY <2>1, JudgeOpeningServed, JudgeEndingServed, JudgeProcessServed
  <2> QED BY <2>2, <2>3, <2>4 DEF JudgeInv
<1> QED BY <1>1, JudgeUnchanged

LEMMA JudgeSound == JudgeInv => Judge!TypeOK /\ Judge!JudgeIsSound
  BY DEF JudgeInv, Judge!CloseoutInv, Judge!ServedInv, Judge!JudgeIsSound,
     Judge!NothingLeftUnsaid, Judge!JudgeServes

-----------------------------------------------------------------------------
(* agent-run.json and the commands that read and replace it (AgentRun).    *)
(* Here v1 is file, v2 is tmp, v3 is kind, v4 is pc, v5 is after, v6 is    *)
(* copy, v7 is fd, v8 is camp, v9 is commands, v10 is over, v11 is         *)
(* finalized, v12 is reported, v13 is overlapped, v14 is killed.           *)

AgentInv ==
  Agent!TypeOK /\ Agent!HonestInv /\ Agent!OverInv /\ Agent!AloneInv /\ Agent!ReportedInv

\* The steps of one command: it comes up, it works, it writes.
AgentLoading(w) == Agent!Start(w) \/ \E k \in Agent!Kinds : Agent!Load(w, k)
AgentWorking(w) ==
  Agent!Run(w) \/ Agent!RunReturns(w) \/ Agent!Stop(w) \/ Agent!Observe(w)
  \/ Agent!Check(w) \/ Agent!Finalize(w) \/ Agent!Report(w) \/ Agent!Fails(w)
AgentStoring(w) == Agent!Open(w) \/ Agent!Fill(w) \/ Agent!Replace(w) \/ Agent!Kill(w)

LEMMA AgentGroups ==
  ASSUME Agent!Next
  PROVE  \/ \E w \in Agent!Slots : AgentLoading(w) \/ AgentWorking(w) \/ AgentStoring(w)
         \/ Agent!CampaignEnds
  BY DEF Agent!Next, AgentLoading, AgentWorking, AgentStoring

LEMMA AgentInitInv == ASSUME Agent!Init PROVE AgentInv
<1>1. {v10, v11, v12, v13, v14} \subseteq BOOLEAN
  BY Zenon DEF Agent!Init
<1>2. Agent!TypeOK
  BY <1>1, AgentBounds DEF Agent!Init, Agent!TypeOK, Agent!Kinds, Agent!Phases, Agent!States,
     Agent!Prepared, Agent!Absent
<1>3. Agent!HonestInv /\ Agent!OverInv /\ Agent!AloneInv /\ Agent!ReportedInv
  BY DEF Agent!Init, Agent!HonestInv, Agent!OverInv, Agent!AloneInv, Agent!ReportedInv,
     Agent!Honest, Agent!Writing, Agent!Absent, Agent!Torn, Agent!Prepared
<1> QED BY <1>2, <1>3 DEF AgentInv

\* What a command puts into its copy is a state.
LEMMA AgentStates4 ==
  /\ Agent!Prepared \in Agent!States
  /\ \A s \in Agent!States, p \in Agent!Phases : [s EXCEPT !.phase = p] \in Agent!States
  /\ [phase |-> "reported", artifacts |-> TRUE] \in Agent!States
  /\ Agent!Absent \notin Agent!States /\ Agent!Torn \notin Agent!States
  BY DEF Agent!States, Agent!Prepared, Agent!Phases, Agent!Absent, Agent!Torn

LEMMA AgentLoadingTypes ==
  ASSUME Agent!TypeOK, NEW w \in Agent!Slots, AgentLoading(w)
  PROVE  Agent!TypeOK'
<1> USE DEF Agent!TypeOK, Agent!Files, Agent!Told, Agent!Go, Agent!Write
<1>1. CASE Agent!Start(w)
  BY <1>1, AgentStates4 DEF Agent!Start, Agent!Kinds
<1>2. CASE \E k \in Agent!Kinds : Agent!Load(w, k)
  <2>1. PICK k \in Agent!Kinds : Agent!Load(w, k)
    BY <1>2
  <2>2. v13' \in BOOLEAN
    BY <2>1, Zenon DEF Agent!Load, Agent!Busy
  <2>3. /\ v3' \in [Agent!Slots -> Agent!Kinds] /\ v6' \in [Agent!Slots -> Agent!States]
        /\ v9' \in 0..AgentCommands
    BY <2>1, AgentBounds DEF Agent!Load
  <2>4. v4' \in [Agent!Slots -> {"idle", "exec", "wait", "observe", "check", "finalize", "report",
                       "open", "fill", "replace"}]
    BY <2>1 DEF Agent!Load
  <2> QED BY <2>1, <2>2, <2>3, <2>4 DEF Agent!Load
<1> QED BY <1>1, <1>2 DEF AgentLoading

LEMMA AgentWorkingTypes ==
  ASSUME Agent!TypeOK, NEW w \in Agent!Slots, AgentWorking(w)
  PROVE  Agent!TypeOK'
<1> USE DEF Agent!TypeOK, Agent!Files, Agent!Told, Agent!Go, Agent!Write
<1>1. CASE Agent!Run(w)
  <2>1. [v6[w] EXCEPT !.phase = "running"] \in Agent!States
    BY AgentStates4 DEF Agent!Phases
  <2> QED BY <1>1, <2>1 DEF Agent!Run
<1>2. CASE Agent!RunReturns(w) \/ Agent!Stop(w) \/ Agent!Check(w) \/ Agent!Fails(w)
  BY <1>2 DEF Agent!RunReturns, Agent!Stop, Agent!Check, Agent!Fails
<1>3. CASE Agent!Observe(w)
  <2>1. v6[w] \in Agent!States /\ v6[w].phase \in Agent!Phases
    BY DEF Agent!States
  <2> QED BY <1>3, <2>1, AgentStates4 DEF Agent!Observe, Agent!Phases
<1>4. CASE Agent!Finalize(w)
  <2>1. [v6[w] EXCEPT !.phase = "finalized"] \in Agent!States
    BY AgentStates4 DEF Agent!Phases
  <2> QED BY <1>4, <2>1 DEF Agent!Finalize
<1>5. CASE Agent!Report(w)
  BY <1>5, AgentStates4 DEF Agent!Report
<1> QED BY <1>1, <1>2, <1>3, <1>4, <1>5 DEF AgentWorking

LEMMA AgentStoringTypes ==
  ASSUME Agent!TypeOK, NEW w \in Agent!Slots, AgentStoring(w)
  PROVE  Agent!TypeOK'
<1> USE DEF Agent!TypeOK, Agent!Files, Agent!Told, Agent!Go
<1>1. CASE Agent!Open(w)
  BY <1>1 DEF Agent!Open
<1>2. CASE Agent!Fill(w)
  BY <1>2 DEF Agent!Fill, Agent!Filled
<1>3. CASE Agent!Replace(w)
  BY <1>3 DEF Agent!Replace
<1>4. CASE Agent!Kill(w)
  BY <1>4 DEF Agent!Kill
<1> QED BY <1>1, <1>2, <1>3, <1>4 DEF AgentStoring

LEMMA AgentEndsTypes ==
  ASSUME Agent!TypeOK, Agent!CampaignEnds
  PROVE  Agent!TypeOK'
  BY DEF Agent!TypeOK, Agent!Files, Agent!CampaignEnds

-----------------------------------------------------------------------------

LEMMA AgentHonestKept ==
  ASSUME AgentInv, NEW w \in Agent!Slots, AgentLoading(w) \/ AgentWorking(w) \/ AgentStoring(w)
  PROVE  Agent!HonestInv'
<1> USE DEF AgentInv, Agent!TypeOK, Agent!HonestInv, Agent!Honest, Agent!Files, Agent!Told,
       Agent!Go, Agent!Write
<1>1. CASE AgentLoading(w)
  BY <1>1 DEF AgentLoading, Agent!Start, Agent!Load, Agent!Prepared
<1>2. CASE Agent!Run(w)
  <2>1. [v6[w] EXCEPT !.phase = "running"].phase = "running"
    BY DEF Agent!States
  <2>2. /\ UNCHANGED <<v1, v2, v10, v11, v12>> /\ (v8' = "over" => v8 = "over")
        /\ \/ UNCHANGED v6
           \/ v6' = [v6 EXCEPT ![w] = [v6[w] EXCEPT !.phase = "running"]]
    BY <1>2 DEF Agent!Run
  <2>3. \A v \in Agent!Slots : v6'[v] = v6[v] \/ v6'[v].phase = "running"
    BY <2>1, <2>2
  <2> QED BY <2>2, <2>3
<1>3. CASE Agent!Observe(w)
  BY <1>3 DEF Agent!Observe, Agent!States
<1>4. CASE Agent!RunReturns(w) \/ Agent!Stop(w) \/ Agent!Check(w) \/ Agent!Fails(w)
  BY <1>4 DEF Agent!RunReturns, Agent!Stop, Agent!Check, Agent!Fails
<1>5. CASE Agent!Finalize(w) \/ Agent!Report(w)
  BY <1>5 DEF Agent!Finalize, Agent!Report, Agent!States
<1>6. CASE Agent!Open(w) \/ Agent!Fill(w)
  BY <1>6 DEF Agent!Open, Agent!Fill, Agent!Filled, Agent!Torn, Agent!Prepared
<1>7. CASE Agent!Replace(w) \/ Agent!Kill(w)
  BY <1>7 DEF Agent!Replace, Agent!Kill, Agent!Absent, Agent!Prepared
<1> QED BY <1>1, <1>2, <1>3, <1>4, <1>5, <1>6, <1>7 DEF AgentWorking, AgentStoring

LEMMA AgentOverKept ==
  ASSUME AgentInv, NEW w \in Agent!Slots, AgentLoading(w) \/ AgentWorking(w) \/ AgentStoring(w)
  PROVE  Agent!OverInv'
<1> USE DEF AgentInv, Agent!TypeOK, Agent!OverInv, Agent!Writing, Agent!Files, Agent!Told,
       Agent!Go, Agent!Write
<1>1. CASE Agent!Start(w)
  BY <1>1 DEF Agent!Start
<1>2. CASE \E k \in Agent!Kinds : Agent!Load(w, k)
  BY <1>2, AgentStates4 DEF Agent!Load
<1>3. CASE Agent!Run(w)
  BY <1>3 DEF Agent!Run
<1>4. CASE Agent!RunReturns(w) \/ Agent!Stop(w) \/ Agent!Observe(w) \/ Agent!Check(w)
  BY <1>4 DEF Agent!RunReturns, Agent!Stop, Agent!Observe, Agent!Check
<1>5. CASE Agent!Finalize(w) \/ Agent!Report(w) \/ Agent!Fails(w)
  BY <1>5 DEF Agent!Finalize, Agent!Report, Agent!Fails
<1>6. CASE Agent!Open(w) \/ Agent!Fill(w)
  BY <1>6 DEF Agent!Open, Agent!Fill
<1>7. CASE Agent!Replace(w) \/ Agent!Kill(w)
  BY <1>7 DEF Agent!Replace, Agent!Kill
<1> QED BY <1>1, <1>2, <1>3, <1>4, <1>5, <1>6, <1>7 DEF AgentLoading, AgentWorking, AgentStoring

LEMMA AgentAloneKept ==
  ASSUME AgentInv, NEW w \in Agent!Slots, AgentLoading(w) \/ AgentWorking(w) \/ AgentStoring(w)
  PROVE  Agent!AloneInv'
<1> USE DEF AgentInv, Agent!TypeOK, Agent!OverInv, Agent!AloneInv, Agent!Files, Agent!Told,
       Agent!Go, Agent!Write
<1>1. CASE Agent!Start(w)
  BY <1>1 DEF Agent!Start, Agent!Absent, Agent!Torn, Agent!Prepared
<1>2. CASE \E k \in Agent!Kinds : Agent!Load(w, k)
  <2>1. ~v13' => ~v13 /\ \A v \in Agent!Slots : v # w => v4[v] = "idle"
    BY <1>2, Zenon DEF Agent!Load, Agent!Busy
  <2> QED BY <1>2, <2>1 DEF Agent!Load
<1>3. CASE Agent!Run(w)
  BY <1>3 DEF Agent!Run
<1>4. CASE Agent!RunReturns(w) \/ Agent!Stop(w) \/ Agent!Observe(w) \/ Agent!Check(w)
  BY <1>4 DEF Agent!RunReturns, Agent!Stop, Agent!Observe, Agent!Check
<1>5. CASE Agent!Finalize(w) \/ Agent!Report(w) \/ Agent!Fails(w)
  BY <1>5 DEF Agent!Finalize, Agent!Report, Agent!Fails
<1>6. CASE Agent!Open(w)
  BY <1>6 DEF Agent!Open
<1>7. CASE Agent!Fill(w)
  BY <1>7 DEF Agent!Fill, Agent!Filled
<1>8. CASE Agent!Replace(w)
  BY <1>8, AgentStates4 DEF Agent!Replace
<1>9. CASE Agent!Kill(w)
  BY <1>9 DEF Agent!Kill
<1> QED BY <1>1, <1>2, <1>3, <1>4, <1>5, <1>6, <1>7, <1>8, <1>9 DEF AgentLoading, AgentWorking,
           AgentStoring

LEMMA AgentReportedKept ==
  ASSUME AgentInv, NEW w \in Agent!Slots, AgentLoading(w) \/ AgentWorking(w) \/ AgentStoring(w)
  PROVE  Agent!ReportedInv'
<1> USE DEF AgentInv, Agent!TypeOK, Agent!OverInv, Agent!AloneInv, Agent!ReportedInv,
       Agent!Writing, Agent!Files, Agent!Told, Agent!Go, Agent!Write
<1>1. CASE Agent!Start(w)
  BY <1>1 DEF Agent!Start
<1>2. CASE \E k \in Agent!Kinds : Agent!Load(w, k)
  <2>1. ~v13' => ~v13 /\ \A v \in Agent!Slots : v # w => v4[v] = "idle"
    BY <1>2, Zenon DEF Agent!Load, Agent!Busy
  <2> QED BY <1>2, <2>1 DEF Agent!Load
<1>3. CASE Agent!Run(w)
  BY <1>3 DEF Agent!Run
<1>4. CASE Agent!RunReturns(w)
  BY <1>4 DEF Agent!RunReturns
<1>14. CASE Agent!Stop(w)
  BY <1>14 DEF Agent!Stop
<1>11. CASE Agent!Check(w)
  BY <1>11 DEF Agent!Check
<1>5. CASE Agent!Observe(w)
  BY <1>5 DEF Agent!Observe, Agent!States
<1>6. CASE Agent!Finalize(w)
  BY <1>6 DEF Agent!Finalize
<1>12. CASE Agent!Report(w)
  BY <1>12 DEF Agent!Report
<1>13. CASE Agent!Fails(w)
  BY <1>13 DEF Agent!Fails
<1>7. CASE Agent!Open(w)
  BY <1>7 DEF Agent!Open
<1>8. CASE Agent!Fill(w)
  BY <1>8 DEF Agent!Fill, Agent!Filled
<1>9. CASE Agent!Replace(w)
  BY <1>9, AgentStates4 DEF Agent!Replace
<1>10. CASE Agent!Kill(w)
  BY <1>10 DEF Agent!Kill
<1> QED BY <1>1, <1>2, <1>3, <1>4, <1>5, <1>6, <1>7, <1>8, <1>9, <1>10, <1>11, <1>12,
           <1>13, <1>14 DEF AgentLoading, AgentWorking, AgentStoring

LEMMA AgentEndsKept ==
  ASSUME AgentInv, Agent!CampaignEnds
  PROVE  Agent!HonestInv' /\ Agent!OverInv' /\ Agent!AloneInv' /\ Agent!ReportedInv'
  BY DEF AgentInv, Agent!TypeOK, Agent!HonestInv, Agent!OverInv, Agent!AloneInv,
     Agent!ReportedInv, Agent!Honest, Agent!Writing, Agent!CampaignEnds, Agent!Files

LEMMA AgentUnchanged == ASSUME AgentInv, UNCHANGED Agent!vars PROVE AgentInv'
  BY DEF AgentInv, Agent!TypeOK, Agent!HonestInv, Agent!OverInv, Agent!AloneInv,
     Agent!ReportedInv, Agent!Honest, Agent!Writing, Agent!vars

LEMMA AgentNextInv == ASSUME AgentInv, Agent!Next \/ UNCHANGED Agent!vars PROVE AgentInv'
  BY AgentGroups, AgentLoadingTypes, AgentWorkingTypes, AgentStoringTypes, AgentEndsTypes,
     AgentHonestKept, AgentOverKept, AgentAloneKept, AgentReportedKept, AgentEndsKept,
     AgentUnchanged DEF AgentInv

LEMMA AgentSound == AgentInv => Agent!TypeOK /\ Agent!PhasesAreSound
  BY DEF AgentInv, Agent!HonestInv, Agent!Honest, Agent!AloneInv, Agent!ReportedInv,
     Agent!PhasesAreSound, Agent!NeverAhead, Agent!NeverBehind

-----------------------------------------------------------------------------
(* The worker, its requests and its private directory (WorkerSandbox).     *)
(* Here v1 is pc, v2 is child, v3 is dir, v4 is serving, v5 is relay, v6   *)
(* is projection, v7 is source, v8 is ticket, v9 is req, v10 is gen, v11   *)
(* is answered, v12 is kicks, v13 is raced, v14 is cut.                    *)

WorkerInv ==
  /\ Worker!TypeOK /\ Worker!CloseInv /\ Worker!ProjectionInv /\ Worker!CapabilityInv
  /\ Worker!OneCallback

\* The steps of the launcher, and those of one request.
WorkerOpening ==
  \/ Worker!StartProxy \/ Worker!BuildCommand \/ Worker!Popen \/ Worker!Arm \/ Worker!ChildEnds
  \/ Worker!Waited \/ Worker!EarlyInterrupt
WorkerClosing ==
  Worker!CloseRelays \/ Worker!CloseProxy \/ Worker!RemoveTree \/ Worker!Leave \/ Worker!Killed
WorkerProjecting(r) ==
  \/ Worker!Accept(r) \/ Worker!HostAnswers(r) \/ Worker!Agree(r) \/ Worker!FindNone(r)
  \/ Worker!WriteProjection(r) \/ Worker!FillProjection(r)
WorkerCalling(r) ==
  \/ Worker!OpenCapability(r) \/ Worker!Unlink(r) \/ Worker!CreateTicket(r) \/ Worker!Kick(r)
  \/ Worker!Clean(r)

LEMMA WorkerGroups ==
  ASSUME Worker!Next
  PROVE  WorkerOpening \/ WorkerClosing \/ Worker!Issue \/ \E r \in Worker!Requests :
           WorkerProjecting(r) \/ WorkerCalling(r)
  BY DEF Worker!Next, WorkerOpening, WorkerClosing, WorkerProjecting, WorkerCalling

LEMMA WorkerInitInv == ASSUME Worker!Init PROVE WorkerInv
<1>1. {v3, v4, v5, v13, v14} \subseteq BOOLEAN /\ v8 \in BOOLEAN
  BY Zenon DEF Worker!Init
<1>2. Worker!TypeOK
  BY <1>1, WorkerBounds DEF Worker!Init, Worker!TypeOK, Worker!Partial
<1>3. Worker!CloseInv /\ Worker!ProjectionInv /\ Worker!CapabilityInv /\ Worker!OneCallback
  BY DEF Worker!Init, Worker!CloseInv, Worker!ProjectionInv, Worker!CapabilityInv,
     Worker!OneCallback, Worker!Closed, Worker!UnderWay
<1> QED BY <1>2, <1>3 DEF WorkerInv

LEMMA WorkerLauncherTypes ==
  ASSUME Worker!TypeOK, WorkerOpening \/ WorkerClosing \/ Worker!Issue
  PROVE  Worker!TypeOK'
<1> USE DEF Worker!TypeOK, Worker!Files, Worker!Threads, Worker!Launcher
<1>1. CASE Worker!StartProxy \/ Worker!BuildCommand
  BY <1>1 DEF Worker!StartProxy, Worker!BuildCommand
<1>2. CASE Worker!Popen \/ Worker!Arm \/ Worker!ChildEnds \/ Worker!Waited
        \/ Worker!EarlyInterrupt
  BY <1>2 DEF Worker!Popen, Worker!Arm, Worker!ChildEnds, Worker!Waited, Worker!EarlyInterrupt
<1>3. CASE Worker!CloseRelays
  BY <1>3 DEF Worker!CloseRelays
<1>4. CASE Worker!CloseProxy
  <2>1. v14' \in BOOLEAN
    BY <1>4, Zenon DEF Worker!CloseProxy
  <2> QED BY <1>4, <2>1 DEF Worker!CloseProxy
<1>5. CASE Worker!RemoveTree
  <2>1. v6' \in 0..Worker!Partial
    BY <1>5, WorkerBounds DEF Worker!RemoveTree, Worker!Partial
  <2>2. v7' \in {"unissued", "there", "taken"} /\ v3' \in BOOLEAN
    BY <1>5 DEF Worker!RemoveTree
  <2> QED BY <1>5, <2>1, <2>2 DEF Worker!RemoveTree
<1>6. CASE Worker!Leave \/ Worker!Killed
  BY <1>6 DEF Worker!Leave, Worker!Killed
<1>7. CASE Worker!Issue
  BY <1>7 DEF Worker!Issue
<1> QED BY <1>1, <1>2, <1>3, <1>4, <1>5, <1>6, <1>7 DEF WorkerOpening, WorkerClosing

LEMMA WorkerProjectingTypes ==
  ASSUME WorkerInv, NEW r \in Worker!Requests, WorkerProjecting(r)
  PROVE  Worker!TypeOK'
<1> USE DEF WorkerInv, Worker!TypeOK, Worker!Files, Worker!Launcher, Worker!Step, Worker!UnderWay
<1>1. CASE Worker!Accept(r)
  BY <1>1 DEF Worker!Accept
<1>6. CASE Worker!HostAnswers(r)
  <2>1. Worker!Generations \subseteq 0..WorkerGenerations
    BY DEF Worker!Generations
  <2> QED BY <1>6, <2>1 DEF Worker!HostAnswers
<1>2. CASE Worker!Agree(r)
  <2>1. v10[r] \in Worker!Generations
    BY <1>2 DEF Worker!Agree, Worker!ProjectionInv
  <2> QED BY <1>2, <2>1 DEF Worker!Agree
<1>3. CASE Worker!FindNone(r)
  <2>1. v13' \in BOOLEAN
    BY <1>3, Zenon DEF Worker!FindNone
  <2> QED BY <1>3, <2>1 DEF Worker!FindNone
<1>4. CASE Worker!WriteProjection(r)
  BY <1>4, WorkerBounds DEF Worker!WriteProjection, Worker!Partial
<1>5. CASE Worker!FillProjection(r)
  <2>1. v10[r] \in Worker!Generations
    BY <1>5 DEF Worker!FillProjection, Worker!ProjectionInv
  <2>2. v6' \in 0..Worker!Partial
    BY <1>5, <2>1, WorkerBounds DEF Worker!FillProjection, Worker!Generations, Worker!Partial
  <2> QED BY <1>5, <2>1, <2>2 DEF Worker!FillProjection
<1> QED BY <1>1, <1>2, <1>3, <1>4, <1>5, <1>6 DEF WorkerProjecting

LEMMA WorkerCallingTypes ==
  ASSUME WorkerInv, NEW r \in Worker!Requests, WorkerCalling(r)
  PROVE  Worker!TypeOK'
<1> USE DEF WorkerInv, Worker!TypeOK, Worker!Files, Worker!Launcher, Worker!Step, Worker!UnderWay
<1>1. CASE Worker!OpenCapability(r) \/ Worker!Unlink(r) \/ Worker!CreateTicket(r)
        \/ Worker!Clean(r)
  BY <1>1 DEF Worker!OpenCapability, Worker!Unlink, Worker!CreateTicket, Worker!Clean
<1>2. CASE Worker!Kick(r)
  <2>1. v12 = 0
    BY <1>2 DEF Worker!Kick, Worker!CapabilityInv
  <2>2. v12' \in 0..WorkerRequests
    BY <1>2, <2>1, WorkerBounds DEF Worker!Kick, Worker!Requests
  <2> QED BY <1>2, <2>2 DEF Worker!Kick
<1> QED BY <1>1, <1>2 DEF WorkerCalling

-----------------------------------------------------------------------------

LEMMA WorkerLauncherCloses ==
  ASSUME WorkerInv, WorkerOpening \/ WorkerClosing \/ Worker!Issue
  PROVE  Worker!CloseInv'
<1> USE DEF WorkerInv, Worker!TypeOK, Worker!CloseInv, Worker!Closed, Worker!UnderWay,
       Worker!Files, Worker!Threads, Worker!Launcher
<1>1. CASE Worker!StartProxy \/ Worker!BuildCommand
  BY <1>1 DEF Worker!StartProxy, Worker!BuildCommand
<1>2. CASE Worker!Popen \/ Worker!Arm \/ Worker!ChildEnds \/ Worker!Waited
        \/ Worker!EarlyInterrupt
  BY <1>2 DEF Worker!Popen, Worker!Arm, Worker!ChildEnds, Worker!Waited, Worker!EarlyInterrupt
<1>3. CASE Worker!CloseRelays
  BY <1>3 DEF Worker!CloseRelays
<1>4. CASE Worker!CloseProxy
  <2>1. v14' <=> \E r \in Worker!Requests : v9[r] \in Worker!UnderWay
    BY <1>4, Zenon DEF Worker!CloseProxy
  <2> QED BY <1>4, <2>1 DEF Worker!CloseProxy
<1>5. CASE Worker!RemoveTree
  BY <1>5 DEF Worker!RemoveTree
<1>6. CASE Worker!Leave \/ Worker!Killed
  BY <1>6 DEF Worker!Leave, Worker!Killed
<1>7. CASE Worker!Issue
  BY <1>7 DEF Worker!Issue
<1> QED BY <1>1, <1>2, <1>3, <1>4, <1>5, <1>6, <1>7 DEF WorkerOpening, WorkerClosing

LEMMA WorkerRequestCloses ==
  ASSUME WorkerInv, NEW r \in Worker!Requests, WorkerProjecting(r) \/ WorkerCalling(r)
  PROVE  Worker!CloseInv'
<1> USE DEF WorkerInv, Worker!TypeOK, Worker!CloseInv, Worker!Closed, Worker!UnderWay,
       Worker!Files, Worker!Launcher, Worker!Step
<1>1. CASE Worker!Accept(r)
  BY <1>1 DEF Worker!Accept
<1>2. CASE Worker!HostAnswers(r) \/ Worker!Agree(r) \/ Worker!FindNone(r)
  BY <1>2 DEF Worker!HostAnswers, Worker!Agree, Worker!FindNone
<1>3. CASE Worker!WriteProjection(r) \/ Worker!FillProjection(r)
  BY <1>3 DEF Worker!WriteProjection, Worker!FillProjection
<1>4. CASE Worker!OpenCapability(r) \/ Worker!Unlink(r) \/ Worker!CreateTicket(r)
        \/ Worker!Kick(r) \/ Worker!Clean(r)
  BY <1>4 DEF Worker!OpenCapability, Worker!Unlink, Worker!CreateTicket, Worker!Kick, Worker!Clean
<1> QED BY <1>1, <1>2, <1>3, <1>4 DEF WorkerProjecting, WorkerCalling

LEMMA WorkerLauncherProjects ==
  ASSUME WorkerInv, WorkerOpening \/ WorkerClosing \/ Worker!Issue
  PROVE  Worker!ProjectionInv'
<1> USE DEF WorkerInv, Worker!TypeOK, Worker!CloseInv, Worker!ProjectionInv, Worker!Closed,
       Worker!UnderWay, Worker!Files, Worker!Threads, Worker!Launcher
<1>1. CASE WorkerOpening
  BY <1>1 DEF WorkerOpening, Worker!StartProxy, Worker!BuildCommand, Worker!Popen, Worker!Arm,
     Worker!ChildEnds, Worker!Waited, Worker!EarlyInterrupt
<1>2. CASE Worker!CloseRelays
  BY <1>2 DEF Worker!CloseRelays
<1>6. CASE Worker!CloseProxy
  <2>1. v14' <=> \E r \in Worker!Requests : v9[r] \in Worker!UnderWay
    BY <1>6, Zenon DEF Worker!CloseProxy
  <2> QED BY <1>6, <2>1 DEF Worker!CloseProxy
<1>3. CASE Worker!RemoveTree
  BY <1>3 DEF Worker!RemoveTree
<1>4. CASE Worker!Leave \/ Worker!Killed
  BY <1>4 DEF Worker!Leave, Worker!Killed
<1>5. CASE Worker!Issue
  BY <1>5 DEF Worker!Issue
<1> QED BY <1>1, <1>2, <1>3, <1>4, <1>5, <1>6 DEF WorkerClosing

LEMMA WorkerRequestProjects ==
  ASSUME WorkerInv, NEW r \in Worker!Requests, WorkerProjecting(r) \/ WorkerCalling(r)
  PROVE  Worker!ProjectionInv'
<1> USE DEF WorkerInv, Worker!TypeOK, Worker!CloseInv, Worker!ProjectionInv, Worker!Closed,
       Worker!UnderWay, Worker!Files, Worker!Launcher, Worker!Step
<1>1. CASE Worker!Accept(r) \/ Worker!HostAnswers(r)
  BY <1>1 DEF Worker!Accept, Worker!HostAnswers
<1>2. CASE Worker!Agree(r)
  <2>1. v10[r] \in Worker!Generations /\ Worker!Partial \notin Worker!Generations
    BY <1>2, WorkerBounds DEF Worker!Agree, Worker!Generations, Worker!Partial
  <2>2. v11' = v11 \/ (v11' = v11 \cup {v10[r]} /\ v6 = v10[r])
    BY <1>2 DEF Worker!Agree
  <2>3. /\ v9[r] = "check" /\ v6 # 0 /\ v9' = [v9 EXCEPT ![r] = "over"]
        /\ UNCHANGED <<v1, v6, v10, v13, v14>>
    BY <1>2 DEF Worker!Agree
  <2> QED BY <2>1, <2>2, <2>3
<1>3. CASE Worker!FindNone(r)
  <2>1. ~v13' => ~v13 /\ \A q \in Worker!Requests \ {r} : v9[q] # "write"
    BY <1>3, Zenon DEF Worker!FindNone
  <2>2. 0 \notin Worker!Generations /\ Worker!Partial # 0
    BY WorkerBounds DEF Worker!Generations, Worker!Partial
  <2>3. ~v13 /\ ~v14 => ~Worker!Closed
    BY <1>3 DEF Worker!FindNone
  <2>4. ~v13 /\ ~v14 => v11 = {}
    BY <1>3, <2>2, <2>3 DEF Worker!FindNone
  <2> QED BY <1>3, <2>1, <2>2, <2>4 DEF Worker!FindNone
<1>4. CASE Worker!WriteProjection(r)
  BY <1>4 DEF Worker!WriteProjection
<1>5. CASE Worker!FillProjection(r)
  BY <1>5 DEF Worker!FillProjection
<1>6. CASE Worker!OpenCapability(r) \/ Worker!Unlink(r) \/ Worker!CreateTicket(r)
        \/ Worker!Kick(r) \/ Worker!Clean(r)
  BY <1>6 DEF Worker!OpenCapability, Worker!Unlink, Worker!CreateTicket, Worker!Kick, Worker!Clean
<1> QED BY <1>1, <1>2, <1>3, <1>4, <1>5, <1>6 DEF WorkerProjecting, WorkerCalling

LEMMA WorkerLauncherCalls ==
  ASSUME WorkerInv, WorkerOpening \/ WorkerClosing \/ Worker!Issue
  PROVE  Worker!CapabilityInv' /\ Worker!OneCallback'
<1> USE DEF WorkerInv, Worker!TypeOK, Worker!CloseInv, Worker!CapabilityInv, Worker!OneCallback,
       Worker!Closed, Worker!UnderWay, Worker!Files, Worker!Threads, Worker!Launcher
<1>1. CASE WorkerOpening
  BY <1>1 DEF WorkerOpening, Worker!StartProxy, Worker!BuildCommand, Worker!Popen, Worker!Arm,
     Worker!ChildEnds, Worker!Waited, Worker!EarlyInterrupt
<1>2. CASE Worker!CloseRelays
  BY <1>2 DEF Worker!CloseRelays
<1>6. CASE Worker!CloseProxy
  <2>1. v14' <=> \E r \in Worker!Requests : v9[r] \in Worker!UnderWay
    BY <1>6, Zenon DEF Worker!CloseProxy
  <2> QED BY <1>6, <2>1 DEF Worker!CloseProxy
<1>3. CASE Worker!RemoveTree
  BY <1>3 DEF Worker!RemoveTree
<1>4. CASE Worker!Leave \/ Worker!Killed
  BY <1>4 DEF Worker!Leave, Worker!Killed
<1>5. CASE Worker!Issue
  BY <1>5 DEF Worker!Issue
<1> QED BY <1>1, <1>2, <1>3, <1>4, <1>5, <1>6 DEF WorkerClosing

LEMMA WorkerRequestCalls ==
  ASSUME WorkerInv, NEW r \in Worker!Requests, WorkerProjecting(r) \/ WorkerCalling(r)
  PROVE  Worker!CapabilityInv' /\ Worker!OneCallback'
<1> USE DEF WorkerInv, Worker!TypeOK, Worker!CapabilityInv, Worker!OneCallback, Worker!UnderWay,
       Worker!Files, Worker!Launcher, Worker!Step
<1>1. CASE Worker!Accept(r) \/ Worker!HostAnswers(r) \/ Worker!Agree(r) \/ Worker!FindNone(r)
  BY <1>1 DEF Worker!Accept, Worker!HostAnswers, Worker!Agree, Worker!FindNone
<1>2. CASE Worker!WriteProjection(r) \/ Worker!FillProjection(r)
  BY <1>2 DEF Worker!WriteProjection, Worker!FillProjection
<1>3. CASE Worker!OpenCapability(r)
  BY <1>3 DEF Worker!OpenCapability
<1>4. CASE Worker!Unlink(r)
  BY <1>4 DEF Worker!Unlink
<1>5. CASE Worker!CreateTicket(r)
  BY <1>5 DEF Worker!CreateTicket
<1>6. CASE Worker!Kick(r)
  BY <1>6 DEF Worker!Kick
<1>7. CASE Worker!Clean(r)
  BY <1>7 DEF Worker!Clean
<1> QED BY <1>1, <1>2, <1>3, <1>4, <1>5, <1>6, <1>7 DEF WorkerProjecting, WorkerCalling

LEMMA WorkerUnchanged == ASSUME WorkerInv, UNCHANGED Worker!vars PROVE WorkerInv'
<1>1. Worker!TypeOK'
  BY DEF WorkerInv, Worker!TypeOK, Worker!vars
<1>2. Worker!CloseInv' /\ Worker!ProjectionInv'
  BY DEF WorkerInv, Worker!CloseInv, Worker!ProjectionInv, Worker!Closed, Worker!vars
<1>3. Worker!CapabilityInv' /\ Worker!OneCallback'
  BY DEF WorkerInv, Worker!CapabilityInv, Worker!OneCallback, Worker!vars
<1> QED BY <1>1, <1>2, <1>3 DEF WorkerInv

LEMMA WorkerNextInv == ASSUME WorkerInv, Worker!Next \/ UNCHANGED Worker!vars PROVE WorkerInv'
  BY WorkerGroups, WorkerLauncherTypes, WorkerProjectingTypes, WorkerCallingTypes,
     WorkerLauncherCloses, WorkerRequestCloses, WorkerLauncherProjects, WorkerRequestProjects,
     WorkerLauncherCalls, WorkerRequestCalls, WorkerUnchanged DEF WorkerInv

LEMMA WorkerSound == WorkerInv => Worker!TypeOK /\ Worker!SandboxIsSound
  BY DEF WorkerInv, Worker!ProjectionInv, Worker!CloseInv, Worker!SandboxIsSound,
     Worker!OneGeneration, Worker!CleanLeave

-----------------------------------------------------------------------------
(* A trajectory and its searches within the bounds b, and the verdict on   *)
(* it (TrajectoryEvidence). Here v1 is method, v2 is runs, v3 is chosen,   *)
(* v4 is cands, v5 is sess, v6 is verified, v7 is ledger, v8 is helpers,   *)
(* v9 is goal, v10 is scored, v11 is peak, v12 is cover, v13 is archive.   *)

LEMMA TrajectoryBounded ==
  ASSUME NEW b \in SearchBounds
  PROVE  b.workers \in Nat /\ b.runs \in Nat /\ b.cands \in Nat /\ b.sessions \in Nat
           /\ b.gens \in Nat
  BY DEF SearchBounds

TrajectoryInv(b) ==
  /\ Trajectory(b)!TypeOK /\ Trajectory(b)!RecordsInv /\ Trajectory(b)!VerifiedInv
  /\ Trajectory(b)!CountInv /\ Trajectory(b)!ArchiveInv /\ IsFiniteSet(Trajectory(b)!Made)

\* The cardinality of the instance is that of the library's theorems.
LEMMA TrajectorySameSize ==
  ASSUME NEW b \in SearchBounds
  PROVE  \A S : Trajectory(b)!Cardinality(S) = Cardinality(S)
  BY DEF Trajectory!Cardinality, Cardinality

TrajectoryStates(b) == {"none", "allocated", "live", "closed", "cut"}

-----------------------------------------------------------------------------
LEMMA TrajectoryOfSession ==
  ASSUME NEW b \in SearchBounds,
         NEW s \in Trajectory(b)!Sessions
  PROVE  s[1] \in Trajectory(b)!Runs /\ s[2] \in Trajectory(b)!Cands /\ s[3] \in 0..b.gens
           /\ s = <<s[1], s[2], s[3]>>
  BY DEF Trajectory!Sessions

LEMMA TrajectoryInitInv ==
  ASSUME NEW b \in SearchBounds
  PROVE  Trajectory(b)!Init => TrajectoryInv(b)
<1> SUFFICES ASSUME Trajectory(b)!Init PROVE TrajectoryInv(b)
  OBVIOUS
<1>1. Trajectory(b)!Made = {}
  BY DEF Trajectory!Init, Trajectory!Made
<1>2. Cardinality(Trajectory(b)!Made) = 0 /\ IsFiniteSet(Trajectory(b)!Made)
  BY <1>1, FS_EmptySet, TrajectorySameSize
<1>3. Trajectory(b)!TypeOK
  <2>1. v2 \in [Trajectory(b)!Runs -> {"none", "active", "selected", "aborted"}]
    BY DEF Trajectory!Init
  <2>2. v3 \in [Trajectory(b)!Runs -> Trajectory(b)!Cands \cup {0}]
    BY DEF Trajectory!Init
  <2>3. v5 \in [Trajectory(b)!Sessions -> {"none", "allocated", "live", "closed", "cut"}]
    BY DEF Trajectory!Init
  <2>4. v8 \in 0..b.workers /\ v11 \in 0..b.sessions /\ v12 \in 0..b.sessions
    BY TrajectoryBounded DEF Trajectory!Init
  <2>5. /\ v1 \in {"codex", "pi"} /\ v4 \subseteq Trajectory(b)!Runs \X Trajectory(b)!Cands
        /\ v6 \subseteq Trajectory(b)!Sessions
        /\ v7 \subseteq Trajectory(b)!Runs \X Trajectory(b)!Cands /\ v9 \in {"open", "reported"}
        /\ v13 \in {"none", "taken", "unended"}
    BY DEF Trajectory!Init
  <2>6. v10 \in BOOLEAN
    BY DEF Trajectory!Init
  <2> QED BY <2>1, <2>2, <2>3, <2>4, <2>5, <2>6 DEF Trajectory!TypeOK
<1>4. Trajectory(b)!RecordsInv /\ Trajectory(b)!VerifiedInv /\ Trajectory(b)!ArchiveInv
  BY <1>1 DEF Trajectory!Init, Trajectory!RecordsInv, Trajectory!VerifiedInv,
     Trajectory!ArchiveInv
<1>5. Trajectory(b)!CountInv
  BY <1>2, TrajectoryBounded, TrajectorySameSize DEF Trajectory!Init, Trajectory!CountInv
<1> QED BY <1>2, <1>3, <1>4, <1>5 DEF TrajectoryInv

-----------------------------------------------------------------------------
\* A step that makes no session and closes none of the others.
LEMMA TrajectorySameSessions ==
  ASSUME NEW b \in SearchBounds,
         TrajectoryInv(b), Trajectory(b)!Made' = Trajectory(b)!Made, UNCHANGED <<v11, v12>>
  PROVE  Trajectory(b)!CountInv' /\ IsFiniteSet(Trajectory(b)!Made)'
  BY TrajectorySameSize DEF TrajectoryInv, Trajectory!CountInv

LEMMA TrajectoryRunsKeep ==
  ASSUME NEW b \in SearchBounds,
         TrajectoryInv(b), NEW r \in Trajectory(b)!Runs, Trajectory(b)!OpenRun(r)
              \/ Trajectory(b)!Invalidate(r)
  PROVE  TrajectoryInv(b)'
<1>1. PICK x \in {"active", "aborted"} : v2' = [v2 EXCEPT ![r] = x]
  BY DEF Trajectory!OpenRun, Trajectory!Invalidate
<1>2. /\ UNCHANGED <<v1, v3, v4, v5, v6, v11, v12, v7, v8, v9,
                     v10, v13>>
      /\ v13 = "none"
  BY DEF Trajectory!OpenRun, Trajectory!Invalidate, Trajectory!workers, Trajectory!outcome
<1>3. v2' \in [Trajectory(b)!Runs -> {"none", "active", "selected", "aborted"}]
        /\ Trajectory(b)!Opened \subseteq Trajectory(b)!Opened'
  BY <1>1 DEF TrajectoryInv, Trajectory!TypeOK, Trajectory!Opened
<1>4. Trajectory(b)!TypeOK'
  BY <1>2, <1>3 DEF TrajectoryInv, Trajectory!TypeOK
<1>5. Trajectory(b)!Made' = Trajectory(b)!Made
  BY <1>2 DEF Trajectory!Made
<1>6. Trajectory(b)!RecordsInv' /\ Trajectory(b)!VerifiedInv' /\ Trajectory(b)!ArchiveInv'
  BY <1>2, <1>3, <1>5 DEF TrajectoryInv, Trajectory!RecordsInv, Trajectory!VerifiedInv,
     Trajectory!ArchiveInv
<1> QED BY <1>2, <1>4, <1>5, <1>6, TrajectorySameSessions DEF TrajectoryInv

LEMMA TrajectorySelectKeeps ==
  ASSUME NEW b \in SearchBounds,
         TrajectoryInv(b), NEW r \in Trajectory(b)!Runs, NEW c \in Trajectory(b)!Cands,
              Trajectory(b)!Select(r, c)
  PROVE  TrajectoryInv(b)'
<1>1. /\ v2' = [v2 EXCEPT ![r] = "selected"] /\ v3' = [v3 EXCEPT ![r] = c]
      /\ UNCHANGED <<v1, v4, v5, v6, v11, v12, v7, v8, v9, v10,
                     v13>>
      /\ v13 = "none"
  BY DEF Trajectory!Select, Trajectory!workers, Trajectory!outcome
<1>2. v2' \in [Trajectory(b)!Runs -> {"none", "active", "selected", "aborted"}]
  BY <1>1 DEF TrajectoryInv, Trajectory!TypeOK
<1>3. Trajectory(b)!Opened' = Trajectory(b)!Opened \cup {r}
  BY <1>1 DEF TrajectoryInv, Trajectory!TypeOK, Trajectory!Opened
<1>4. v3' \in [Trajectory(b)!Runs -> Trajectory(b)!Cands \cup {0}]
  BY <1>1 DEF TrajectoryInv, Trajectory!TypeOK
<1>5. \A q \in Trajectory(b)!Runs : v3'[q] # 0 => q \in Trajectory(b)!Opened'
  BY <1>1, <1>3 DEF TrajectoryInv, Trajectory!TypeOK, Trajectory!RecordsInv
<1>6. Trajectory(b)!TypeOK'
  BY <1>1, <1>2, <1>4 DEF TrajectoryInv, Trajectory!TypeOK
<1>7. Trajectory(b)!Made' = Trajectory(b)!Made
  BY <1>1 DEF Trajectory!Made
<1>8. Trajectory(b)!RecordsInv' /\ Trajectory(b)!VerifiedInv' /\ Trajectory(b)!ArchiveInv'
  BY <1>1, <1>3, <1>5, <1>7 DEF TrajectoryInv, Trajectory!RecordsInv, Trajectory!VerifiedInv,
     Trajectory!ArchiveInv
<1> QED BY <1>1, <1>6, <1>7, <1>8, TrajectorySameSessions DEF TrajectoryInv

\* A session is made.
LEMMA TrajectoryMakeSession ==
  ASSUME NEW b \in SearchBounds,
         TrajectoryInv(b), NEW s \in Trajectory(b)!Sessions, v5' = [v5 EXCEPT ![s] = "allocated"],
         Cardinality(Trajectory(b)!Made) < b.sessions, UNCHANGED <<v11, v12>>, v5[s] = "none"
  PROVE  /\ v5' \in [Trajectory(b)!Sessions -> TrajectoryStates(b)]
              /\ Trajectory(b)!Made' = Trajectory(b)!Made \cup {s}
         /\ Trajectory(b)!CountInv' /\ IsFiniteSet(Trajectory(b)!Made)'
         /\ \A t \in Trajectory(b)!Sessions : v5[t] # "none" => v5'[t] = v5[t]
<1>1. v5' \in [Trajectory(b)!Sessions -> TrajectoryStates(b)]
        /\ Trajectory(b)!Made' = Trajectory(b)!Made \cup {s}
  BY DEF TrajectoryInv, Trajectory!TypeOK, Trajectory!Made, TrajectoryStates
<1>2. IsFiniteSet(Trajectory(b)!Made \cup {s})
        /\ Cardinality(Trajectory(b)!Made \cup {s}) <= Cardinality(Trajectory(b)!Made) + 1
      /\ Cardinality(Trajectory(b)!Made) \in Nat
      /\ Cardinality(Trajectory(b)!Made \cup {s}) \in Nat
  <2>1. IsFiniteSet(Trajectory(b)!Made)
    BY DEF TrajectoryInv
  <2>2. Cardinality(Trajectory(b)!Made) \in Nat
    BY <2>1, FS_CardinalityType
  <2> QED BY <2>1, <2>2, FS_AddElement, TrajectoryBounded
<1>3. Cardinality(Trajectory(b)!Made \cup {s}) <= b.sessions
  BY <1>2, TrajectoryBounded
<1>4. Trajectory(b)!CountInv' /\ IsFiniteSet(Trajectory(b)!Made)'
  BY <1>1, <1>2, <1>3, TrajectorySameSize DEF Trajectory!CountInv, TrajectoryInv
<1>5. \A t \in Trajectory(b)!Sessions : v5[t] # "none" => v5'[t] = v5[t]
  BY DEF TrajectoryInv, Trajectory!TypeOK
<1> QED BY <1>1, <1>4, <1>5

LEMMA TrajectoryAllocateKeeps ==
  ASSUME NEW b \in SearchBounds,
         TrajectoryInv(b), NEW r \in Trajectory(b)!Runs, NEW c \in Trajectory(b)!Cands,
              Trajectory(b)!Allocate(r, c)
  PROVE  TrajectoryInv(b)'
<1> DEFINE s == <<r, c, 0>>
<1>1. s \in Trajectory(b)!Sessions /\ s[1] = r /\ s[2] = c
  BY TrajectoryBounded DEF Trajectory!Sessions
<1>2. v5[s] = "none"
  <2>1. s \notin Trajectory(b)!Made
    BY <1>1 DEF Trajectory!Allocate, TrajectoryInv, Trajectory!RecordsInv
  <2> QED BY <1>1, <2>1 DEF Trajectory!Made
<1>3. /\ v5' = [v5 EXCEPT ![s] = "allocated"] /\ v4' = v4 \cup {<<r, c>>}
      /\ v2[r] = "active" /\ v13 = "none" /\ Cardinality(Trajectory(b)!Made) < b.sessions
      /\ UNCHANGED <<v1, v2, v3, v6, v11, v12, v7, v8, v9, v10,
                     v13>>
  BY TrajectorySameSize DEF Trajectory!Allocate, Trajectory!outcome
<1> HIDE DEF s
<1>4. /\ v5' \in [Trajectory(b)!Sessions -> TrajectoryStates(b)]
      /\ Trajectory(b)!Made' = Trajectory(b)!Made \cup {s}
      /\ Trajectory(b)!CountInv' /\ IsFiniteSet(Trajectory(b)!Made)'
      /\ \A t \in Trajectory(b)!Sessions : v5[t] # "none" => v5'[t] = v5[t]
  BY <1>1, <1>2, <1>3, TrajectoryMakeSession
<1>5. Trajectory(b)!TypeOK'
  <2>1. v4' \subseteq Trajectory(b)!Runs \X Trajectory(b)!Cands
    BY <1>3 DEF TrajectoryInv, Trajectory!TypeOK
  <2> QED BY <1>3, <1>4, <2>1 DEF TrajectoryInv, Trajectory!TypeOK, TrajectoryStates
<1>6. Trajectory(b)!Opened' = Trajectory(b)!Opened /\ r \in Trajectory(b)!Opened
  BY <1>3 DEF Trajectory!Opened
<1>7. Trajectory(b)!RecordsInv'
  <2>1. ASSUME NEW p \in v4'
        PROVE p[1] \in Trajectory(b)!Opened' /\ v5'[<<p[1], p[2], 0>>] # "none"
    <3>1. CASE p \in v4
      <4>1. p[1] \in Trajectory(b)!Opened /\ v5[<<p[1], p[2], 0>>] # "none"
              /\ p[1] \in Trajectory(b)!Runs /\ p[2] \in Trajectory(b)!Cands
        BY <3>1 DEF TrajectoryInv, Trajectory!TypeOK, Trajectory!RecordsInv
      <4>2. <<p[1], p[2], 0>> \in Trajectory(b)!Sessions
        BY <4>1, TrajectoryBounded DEF Trajectory!Sessions
      <4> QED BY <1>4, <1>6, <4>1, <4>2
    <3>2. CASE p = <<r, c>>
      <4>1. v5'[s] = "allocated"
        BY <1>1, <1>3 DEF TrajectoryInv, Trajectory!TypeOK
      <4> QED BY <1>6, <3>2, <4>1 DEF s
    <3> QED BY <1>3, <3>1, <3>2
  <2>2. ASSUME NEW t \in Trajectory(b)!Made' PROVE <<t[1], t[2]>> \in v4'
    BY <1>1, <1>3, <1>4 DEF TrajectoryInv, Trajectory!RecordsInv
  <2> QED BY <1>3, <1>6, <2>1, <2>2 DEF TrajectoryInv, Trajectory!RecordsInv
<1>8. Trajectory(b)!VerifiedInv'
  <2>1. \A t \in v6 : v5[t] \in {"live", "closed", "cut"} /\ t \in Trajectory(b)!Sessions
    BY DEF TrajectoryInv, Trajectory!TypeOK, Trajectory!VerifiedInv
  <2>2. \A t \in v6 : v5'[t] = v5[t]
    BY <1>4, <2>1
  <2> QED BY <1>3, <2>1, <2>2 DEF TrajectoryInv, Trajectory!VerifiedInv
<1>9. Trajectory(b)!ArchiveInv'
  BY <1>3 DEF Trajectory!ArchiveInv
<1> QED BY <1>4, <1>5, <1>7, <1>8, <1>9 DEF TrajectoryInv

LEMMA TrajectoryRecoverKeeps ==
  ASSUME NEW b \in SearchBounds,
         TrajectoryInv(b), NEW s \in Trajectory(b)!Sessions, Trajectory(b)!Recover(s)
  PROVE  TrajectoryInv(b)'
<1> DEFINE n == <<s[1], s[2], s[3] + 1>>
<1>1. n \in Trajectory(b)!Sessions /\ n[1] = s[1] /\ n[2] = s[2]
  BY TrajectoryOfSession, TrajectoryBounded DEF Trajectory!Sessions, Trajectory!Recover
<1>2. /\ v5' = [v5 EXCEPT ![n] = "allocated"] /\ v5[n] = "none" /\ v13 = "none"
      /\ Cardinality(Trajectory(b)!Made) < b.sessions /\ v5[s] # "none"
      /\ UNCHANGED <<v1, v2, v3, v4, v6, v11, v12, v7, v8, v9,
                     v10, v13>>
  BY TrajectorySameSize DEF Trajectory!Recover, Trajectory!search, Trajectory!outcome
<1> HIDE DEF n
<1>3. /\ v5' \in [Trajectory(b)!Sessions -> TrajectoryStates(b)]
      /\ Trajectory(b)!Made' = Trajectory(b)!Made \cup {n}
      /\ Trajectory(b)!CountInv' /\ IsFiniteSet(Trajectory(b)!Made)'
      /\ \A t \in Trajectory(b)!Sessions : v5[t] # "none" => v5'[t] = v5[t]
  BY <1>1, <1>2, TrajectoryMakeSession
<1>4. Trajectory(b)!TypeOK'
  BY <1>2, <1>3 DEF TrajectoryInv, Trajectory!TypeOK, TrajectoryStates
<1>5. Trajectory(b)!Opened' = Trajectory(b)!Opened /\ s \in Trajectory(b)!Made
  BY <1>2 DEF Trajectory!Opened, Trajectory!Made
<1>6. Trajectory(b)!RecordsInv'
  <2>1. ASSUME NEW p \in v4
        PROVE p[1] \in Trajectory(b)!Opened' /\ v5'[<<p[1], p[2], 0>>] # "none"
    <3>1. p[1] \in Trajectory(b)!Opened /\ v5[<<p[1], p[2], 0>>] # "none"
            /\ p[1] \in Trajectory(b)!Runs /\ p[2] \in Trajectory(b)!Cands
      BY DEF TrajectoryInv, Trajectory!TypeOK, Trajectory!RecordsInv
    <3>2. <<p[1], p[2], 0>> \in Trajectory(b)!Sessions
      BY <3>1, TrajectoryBounded DEF Trajectory!Sessions
    <3> QED BY <1>3, <1>5, <3>1, <3>2
  <2>2. ASSUME NEW t \in Trajectory(b)!Made' PROVE <<t[1], t[2]>> \in v4
    BY <1>1, <1>3, <1>5 DEF TrajectoryInv, Trajectory!RecordsInv
  <2> QED BY <1>2, <1>5, <2>1, <2>2 DEF TrajectoryInv, Trajectory!RecordsInv
<1>7. Trajectory(b)!VerifiedInv'
  <2>1. \A t \in v6 : v5[t] \in {"live", "closed", "cut"} /\ t \in Trajectory(b)!Sessions
    BY DEF TrajectoryInv, Trajectory!TypeOK, Trajectory!VerifiedInv
  <2>2. \A t \in v6 : v5'[t] = v5[t]
    BY <1>3, <2>1
  <2> QED BY <1>2, <2>1, <2>2 DEF TrajectoryInv, Trajectory!VerifiedInv
<1>8. Trajectory(b)!ArchiveInv'
  BY <1>2 DEF Trajectory!ArchiveInv
<1> QED BY <1>3, <1>4, <1>6, <1>7, <1>8 DEF TrajectoryInv

\* A session that was made goes on.
LEMMA TrajectoryMoveSession ==
  ASSUME NEW b \in SearchBounds,
         TrajectoryInv(b), NEW s \in Trajectory(b)!Made, NEW x \in {"live", "closed", "cut"},
         v5' = [v5 EXCEPT ![s] = x]
  PROVE  /\ v5' \in [Trajectory(b)!Sessions -> TrajectoryStates(b)]
              /\ Trajectory(b)!Made' = Trajectory(b)!Made
         /\ \A t \in Trajectory(b)!Sessions : v5[t] \in {"live", "closed", "cut"} =>
              v5'[t] \in {"live", "closed", "cut"}
         /\ \A t \in Trajectory(b)!Sessions : v5[t] # "none" => v5'[t] # "none"
<1>1. v5 \in [Trajectory(b)!Sessions -> TrajectoryStates(b)] /\ s \in Trajectory(b)!Sessions
        /\ v5[s] # "none"
  BY DEF TrajectoryInv, Trajectory!TypeOK, Trajectory!Made, TrajectoryStates
<1>2. v5' \in [Trajectory(b)!Sessions -> TrajectoryStates(b)] /\ \A t \in Trajectory(b)!Sessions :
        t # s => v5'[t] = v5[t]
  BY <1>1 DEF TrajectoryStates
<1>3. v5'[s] = x
  BY <1>1
<1>4. Trajectory(b)!Made' = Trajectory(b)!Made
  BY <1>1, <1>2, <1>3 DEF Trajectory!Made
<1> QED BY <1>2, <1>3, <1>4

\* Such a step keeps what does not count the workers.
LEMMA TrajectoryMoveKeeps ==
  ASSUME NEW b \in SearchBounds,
         TrajectoryInv(b), NEW s \in Trajectory(b)!Made, NEW x \in {"live", "closed", "cut"},
         v5' = [v5 EXCEPT ![s] = x],
         v13 = "none",
         UNCHANGED <<v1, v2, v3, v4, v6, v7, v8, v9, v10, v13>>
  PROVE  Trajectory(b)!RecordsInv' /\ Trajectory(b)!VerifiedInv' /\ Trajectory(b)!ArchiveInv'
           /\ IsFiniteSet(Trajectory(b)!Made)' /\ Trajectory(b)!Made' = Trajectory(b)!Made
         /\ v5' \in [Trajectory(b)!Sessions -> TrajectoryStates(b)]
<1>1. /\ v5' \in [Trajectory(b)!Sessions -> TrajectoryStates(b)]
      /\ Trajectory(b)!Made' = Trajectory(b)!Made
      /\ \A t \in Trajectory(b)!Sessions : v5[t] \in {"live", "closed", "cut"} =>
           v5'[t] \in {"live", "closed", "cut"}
      /\ \A t \in Trajectory(b)!Sessions : v5[t] # "none" => v5'[t] # "none"
  BY TrajectoryMoveSession
<1>2. Trajectory(b)!Opened' = Trajectory(b)!Opened
  BY DEF Trajectory!Opened
<1>3. \A p \in v4 : p[1] \in Trajectory(b)!Opened' /\ v5'[<<p[1], p[2], 0>>] # "none"
  <2>1. ASSUME NEW p \in v4
        PROVE p[1] \in Trajectory(b)!Opened' /\ v5'[<<p[1], p[2], 0>>] # "none"
    <3>1. p[1] \in Trajectory(b)!Opened /\ v5[<<p[1], p[2], 0>>] # "none"
            /\ p[1] \in Trajectory(b)!Runs /\ p[2] \in Trajectory(b)!Cands
      BY DEF TrajectoryInv, Trajectory!TypeOK, Trajectory!RecordsInv
    <3>2. <<p[1], p[2], 0>> \in Trajectory(b)!Sessions
      BY <3>1, TrajectoryBounded DEF Trajectory!Sessions
    <3> QED BY <1>1, <1>2, <3>1, <3>2
  <2> QED BY <2>1
<1>4. Trajectory(b)!RecordsInv'
  BY <1>1, <1>2, <1>3 DEF TrajectoryInv, Trajectory!RecordsInv
<1>5. Trajectory(b)!VerifiedInv'
  BY <1>1 DEF TrajectoryInv, Trajectory!TypeOK, Trajectory!VerifiedInv
<1> QED BY <1>1, <1>4, <1>5 DEF TrajectoryInv, Trajectory!ArchiveInv

LEMMA TrajectoryLaunchKeeps ==
  ASSUME NEW b \in SearchBounds,
         TrajectoryInv(b), NEW s \in Trajectory(b)!Sessions, Trajectory(b)!Launch(s)
  PROVE  TrajectoryInv(b)'
<1>1. /\ v5[s] = "allocated" /\ s \in Trajectory(b)!Made /\ v5' = [v5 EXCEPT ![s] = "live"]
      /\ v13 = "none"
      /\ UNCHANGED <<v1, v2, v3, v4, v6, v7, v8, v9, v10, v13>>
  BY DEF Trajectory!Launch, Trajectory!search, Trajectory!outcome, Trajectory!Made
<1>2. /\ Trajectory(b)!RecordsInv' /\ Trajectory(b)!VerifiedInv' /\ Trajectory(b)!ArchiveInv'
      /\ IsFiniteSet(Trajectory(b)!Made)' /\ Trajectory(b)!Made' = Trajectory(b)!Made
      /\ v5' \in [Trajectory(b)!Sessions -> TrajectoryStates(b)]
  BY <1>1, TrajectoryMoveKeeps
<1>3. /\ v11' = Trajectory(b)!Larger(v11, Cardinality(Trajectory(b)!Live) + 1)
      /\ v12' = Trajectory(b)!Larger(v12, Cardinality(Trajectory(b)!Holding) + 1)
  BY TrajectorySameSize DEF Trajectory!Launch
<1>4. IsFiniteSet(Trajectory(b)!Made) /\ Trajectory(b)!Live \subseteq Trajectory(b)!Holding
        /\ Trajectory(b)!Holding \subseteq Trajectory(b)!Made /\ s \notin Trajectory(b)!Holding
  BY <1>1 DEF TrajectoryInv, Trajectory!Live, Trajectory!Holding, Trajectory!Made
<1>5. /\ IsFiniteSet(Trajectory(b)!Holding) /\ Cardinality(Trajectory(b)!Holding) \in Nat
      /\ Cardinality(Trajectory(b)!Live) \in Nat
      /\ Cardinality(Trajectory(b)!Live) <= Cardinality(Trajectory(b)!Holding)
  <2>1. IsFiniteSet(Trajectory(b)!Holding)
    BY <1>4, FS_Subset
  <2>2. IsFiniteSet(Trajectory(b)!Live)
          /\ Cardinality(Trajectory(b)!Live) <= Cardinality(Trajectory(b)!Holding)
    BY <1>4, <2>1, FS_Subset
  <2> QED BY <2>1, <2>2, FS_CardinalityType
<1>6. Cardinality(Trajectory(b)!Holding) + 1 <= b.sessions
  <2>1. Cardinality(Trajectory(b)!Holding \cup {s}) = Cardinality(Trajectory(b)!Holding) + 1
    BY <1>4, <1>5, FS_AddElement
  <2>2. Trajectory(b)!Holding \cup {s} \subseteq Trajectory(b)!Made
    BY <1>1, <1>4
  <2>3. Cardinality(Trajectory(b)!Holding \cup {s}) <= Cardinality(Trajectory(b)!Made)
          /\ Cardinality(Trajectory(b)!Made) \in Nat
    BY <1>4, <2>2, FS_Subset, FS_CardinalityType
  <2>4. Cardinality(Trajectory(b)!Made) <= b.sessions
    BY TrajectorySameSize DEF TrajectoryInv, Trajectory!CountInv
  <2> QED BY <1>5, <2>1, <2>3, <2>4, TrajectoryBounded
<1>7. v11 \in 0..b.sessions /\ v12 \in 0..b.sessions /\ v11 <= v12
  BY DEF TrajectoryInv, Trajectory!TypeOK, Trajectory!CountInv
<1>8. v11' \in 0..b.sessions /\ v12' \in 0..b.sessions /\ v11' <= v12'
  <2>1. \A l \in Nat, h \in Nat :
          l <= h /\ h + 1 <= b.sessions =>
            /\ Trajectory(b)!Larger(v11, l + 1) \in 0..b.sessions
            /\ Trajectory(b)!Larger(v12, h + 1) \in 0..b.sessions
            /\ Trajectory(b)!Larger(v11, l + 1) <= Trajectory(b)!Larger(v12, h + 1)
    BY <1>7, TrajectoryBounded DEF Trajectory!Larger
  <2> QED BY <1>3, <1>5, <1>6, <2>1
<1>9. Trajectory(b)!TypeOK'
  BY <1>1, <1>2, <1>8 DEF TrajectoryInv, Trajectory!TypeOK, TrajectoryStates
<1>10. Trajectory(b)!CountInv'
  BY <1>2, <1>8, TrajectorySameSize DEF TrajectoryInv, Trajectory!CountInv
<1> QED BY <1>2, <1>9, <1>10 DEF TrajectoryInv

LEMMA TrajectoryWorkerEndsKeeps ==
  ASSUME NEW b \in SearchBounds,
         TrajectoryInv(b), NEW s \in Trajectory(b)!Sessions, Trajectory(b)!WorkerEnds(s)
  PROVE  TrajectoryInv(b)'
<1>1. PICK x \in {"closed", "cut"} : v5' = [v5 EXCEPT ![s] = x]
  BY DEF Trajectory!WorkerEnds
<1>2. /\ s \in Trajectory(b)!Made /\ v13 = "none"
      /\ UNCHANGED <<v1, v2, v3, v4, v6, v7, v8, v9, v10, v13,
                     v11, v12>>
  BY DEF Trajectory!WorkerEnds, Trajectory!search, Trajectory!outcome, Trajectory!Made
<1>3. /\ Trajectory(b)!RecordsInv' /\ Trajectory(b)!VerifiedInv' /\ Trajectory(b)!ArchiveInv'
      /\ Trajectory(b)!Made' = Trajectory(b)!Made
      /\ v5' \in [Trajectory(b)!Sessions -> TrajectoryStates(b)]
  BY <1>1, <1>2, TrajectoryMoveKeeps
<1>4. Trajectory(b)!TypeOK'
  BY <1>2, <1>3 DEF TrajectoryInv, Trajectory!TypeOK, TrajectoryStates
<1> QED BY <1>2, <1>3, <1>4, TrajectorySameSessions DEF TrajectoryInv

LEMMA TrajectoryVerifyKeeps ==
  ASSUME NEW b \in SearchBounds,
         TrajectoryInv(b), NEW s \in Trajectory(b)!Sessions, Trajectory(b)!Verify(s)
  PROVE  TrajectoryInv(b)'
<1>1. /\ v5[s] = "live" /\ v6' = v6 \cup {s} /\ v13 = "none"
      /\ UNCHANGED <<v1, v2, v3, v4, v5, v11, v12, v7, v8, v9, v10,
                     v13>>
  BY DEF Trajectory!Verify, Trajectory!search, Trajectory!outcome
<1>2. Trajectory(b)!TypeOK'
  BY <1>1 DEF TrajectoryInv, Trajectory!TypeOK
<1>3. Trajectory(b)!Made' = Trajectory(b)!Made /\ Trajectory(b)!Opened' = Trajectory(b)!Opened
  BY <1>1 DEF Trajectory!Made, Trajectory!Opened
<1>4. Trajectory(b)!RecordsInv' /\ Trajectory(b)!ArchiveInv'
  BY <1>1, <1>3 DEF TrajectoryInv, Trajectory!RecordsInv, Trajectory!ArchiveInv
<1>5. Trajectory(b)!VerifiedInv'
  BY <1>1 DEF TrajectoryInv, Trajectory!VerifiedInv
<1> QED BY <1>1, <1>2, <1>3, <1>4, <1>5, TrajectorySameSessions DEF TrajectoryInv

LEMMA TrajectoryArchiveKeeps ==
  ASSUME NEW b \in SearchBounds,
         TrajectoryInv(b), Trajectory(b)!Archive
  PROVE  TrajectoryInv(b)'
<1>1. /\ Trajectory(b)!Opened # {} /\ v13' \in {"taken", "unended"} /\ v10' \in BOOLEAN
      /\ v9' \in {"open", "reported"}
      /\ UNCHANGED <<v1, v2, v3, v4, v5, v6, v11, v12>>
  BY DEF Trajectory!Archive, Trajectory!search, Trajectory!workers
<1>2. v8' \in 0..b.workers /\ v7' \subseteq v4
  BY DEF Trajectory!Archive, TrajectoryInv, Trajectory!TypeOK, Trajectory!VerifiedInv
<1>3. Trajectory(b)!TypeOK'
  <2>1. v7' \subseteq Trajectory(b)!Runs \X Trajectory(b)!Cands
    BY <1>2 DEF TrajectoryInv, Trajectory!TypeOK
  <2> QED BY <1>1, <1>2, <2>1 DEF TrajectoryInv, Trajectory!TypeOK
<1>4. Trajectory(b)!Made' = Trajectory(b)!Made /\ Trajectory(b)!Opened' = Trajectory(b)!Opened
  BY <1>1 DEF Trajectory!Made, Trajectory!Opened
<1>5. Trajectory(b)!RecordsInv' /\ Trajectory(b)!ArchiveInv'
  BY <1>1, <1>4 DEF TrajectoryInv, Trajectory!RecordsInv, Trajectory!ArchiveInv
<1>6. Trajectory(b)!VerifiedInv'
  BY <1>1, <1>2 DEF TrajectoryInv, Trajectory!VerifiedInv
<1> QED BY <1>1, <1>3, <1>4, <1>5, <1>6, TrajectorySameSessions DEF TrajectoryInv

LEMMA TrajectoryUnchanged ==
  ASSUME NEW b \in SearchBounds,
         TrajectoryInv(b), UNCHANGED Trajectory(b)!vars
  PROVE  TrajectoryInv(b)'
<1>1. UNCHANGED <<v1, v2, v3, v4, v5, v6, v7, v8, v9, v10, v11,
                  v12, v13>>
  BY DEF Trajectory!vars
<1>2. Trajectory(b)!Made' = Trajectory(b)!Made /\ Trajectory(b)!Opened' = Trajectory(b)!Opened
  BY <1>1 DEF Trajectory!Made, Trajectory!Opened
<1>3. Trajectory(b)!TypeOK' /\ Trajectory(b)!RecordsInv' /\ Trajectory(b)!VerifiedInv'
        /\ Trajectory(b)!ArchiveInv'
  BY <1>1, <1>2 DEF TrajectoryInv, Trajectory!TypeOK, Trajectory!RecordsInv,
     Trajectory!VerifiedInv, Trajectory!ArchiveInv
<1> QED BY <1>1, <1>2, <1>3, TrajectorySameSessions DEF TrajectoryInv

LEMMA TrajectoryNextInv ==
  ASSUME NEW b \in SearchBounds,
         TrajectoryInv(b), Trajectory(b)!Next \/ UNCHANGED Trajectory(b)!vars
  PROVE  TrajectoryInv(b)'
  BY TrajectoryRunsKeep, TrajectorySelectKeeps, TrajectoryAllocateKeeps, TrajectoryRecoverKeeps,
     TrajectoryLaunchKeeps, TrajectoryWorkerEndsKeeps, TrajectoryVerifyKeeps,
     TrajectoryArchiveKeeps, TrajectoryUnchanged DEF Trajectory!Next

-----------------------------------------------------------------------------
(* The two properties.                                                     *)

LEMMA TrajectoryFiniteRecords ==
  ASSUME NEW b \in SearchBounds,
         TrajectoryInv(b)
  PROVE  IsFiniteSet(v4) /\ IsFiniteSet(Trajectory(b)!Opened)
<1>1. IsFiniteSet(Trajectory(b)!Runs) /\ IsFiniteSet(Trajectory(b)!Cands)
  BY FS_Interval, TrajectoryBounded DEF Trajectory!Runs, Trajectory!Cands
<1>2. IsFiniteSet(Trajectory(b)!Runs \X Trajectory(b)!Cands)
  BY <1>1, FS_Product
<1>3. v4 \subseteq Trajectory(b)!Runs \X Trajectory(b)!Cands
        /\ Trajectory(b)!Opened \subseteq Trajectory(b)!Runs
  BY DEF TrajectoryInv, Trajectory!TypeOK, Trajectory!Opened
<1> QED BY <1>1, <1>2, <1>3, FS_Subset

\* The only run, if there is one, is the current one.
LEMMA TrajectoryOneRun ==
  ASSUME NEW b \in SearchBounds,
         TrajectoryInv(b), ~(Cardinality(Trajectory(b)!Opened) > 1)
  PROVE  \A r \in Trajectory(b)!Opened : Trajectory(b)!Opened = {r} /\ Trajectory(b)!Current = {r}
<1>1. IsFiniteSet(Trajectory(b)!Opened) /\ Cardinality(Trajectory(b)!Opened) \in Nat
  BY TrajectoryFiniteRecords, FS_CardinalityType
<1>2. ASSUME NEW r \in Trajectory(b)!Opened PROVE Trajectory(b)!Opened = {r}
  <2>1. Cardinality(Trajectory(b)!Opened) # 0
    BY <1>1, FS_EmptySet
  <2>2. Cardinality(Trajectory(b)!Opened) = 1
    BY <1>1, <2>1
  <2> QED BY <1>1, <2>2, FS_Singleton
<1>3. ASSUME NEW r \in Trajectory(b)!Opened PROVE Trajectory(b)!Current = {r}
  <2>1. r \in Nat
    BY TrajectoryBounded DEF Trajectory!Opened, Trajectory!Runs
  <2> QED BY <1>2, <2>1 DEF Trajectory!Current
<1> QED BY <1>2, <1>3

\* As many verified candidates as candidates: each of them.
LEMMA TrajectoryAllVerified ==
  ASSUME NEW b \in SearchBounds,
         NEW P, IsFiniteSet(P), NEW V, V \subseteq P, Cardinality(P) = b.workers,
              Cardinality(V) >= b.workers
  PROVE  V = P
<1>1. Cardinality(V) <= Cardinality(P) /\ IsFiniteSet(V)
        /\ (Cardinality(P) = Cardinality(V) => P = V)
  BY FS_Subset
<1>2. Cardinality(V) \in Nat
  BY <1>1, FS_CardinalityType
<1> QED BY <1>1, <1>2, TrajectoryBounded

\* What is verified is verified of a candidate.
LEMMA TrajectoryVerifierIs ==
  ASSUME NEW b \in SearchBounds,
         TrajectoryInv(b), NEW S, S \subseteq Trajectory(b)!Made
  PROVE  \A p \in Trajectory(b)!VerifierCandidates(S) :
           /\ p \in v4
           /\ \E s \in S : p = <<s[1], s[2]>> /\ \E g \in 0..b.gens : <<p[1], p[2], g>> \in v6
<1> SUFFICES ASSUME NEW p \in Trajectory(b)!VerifierCandidates(S)
             PROVE  /\ p \in v4
                    /\ \E s \in S :
                         p = <<s[1], s[2]>> /\ \E g \in 0..b.gens : <<p[1], p[2], g>> \in v6
  OBVIOUS
<1>1. PICK s \in v6 \cap Trajectory(b)!Bound(S) : p = <<s[1], s[2]>>
  BY DEF Trajectory!VerifierCandidates
<1>2. s \in S /\ s \in v6 /\ s \in Trajectory(b)!Sessions
  BY <1>1 DEF Trajectory!Bound, Trajectory!Made
<1>3. s[3] \in 0..b.gens /\ s = <<s[1], s[2], s[3]>>
  BY <1>2, TrajectoryOfSession
<1>4. p[1] = s[1] /\ p[2] = s[2] /\ p \in v4
  BY <1>1, <1>2 DEF TrajectoryInv, Trajectory!RecordsInv
<1>5. <<p[1], p[2], s[3]>> \in v6
  BY <1>2, <1>3, <1>4
<1> QED BY <1>1, <1>2, <1>3, <1>4, <1>5

\* What completion evidence of a set of sessions says of the candidates they are of.
LEMMA TrajectoryEvidenceIs ==
  ASSUME NEW b \in SearchBounds,
         TrajectoryInv(b), NEW S, S \subseteq Trajectory(b)!Made, NEW P, P \subseteq v4,
         \A p \in P : <<p[1], p[2], 0>> \in Trajectory(b)!Made => <<p[1], p[2], 0>> \in S,
         \A s \in S : <<s[1], s[2]>> \in P,
         S = Trajectory(b)!Bound(S), Cardinality(P) = b.workers,
         NEW L, L \subseteq P,
         Cardinality(Trajectory(b)!VerifierCandidates(S) \cup L) >= b.workers
  PROVE  \A p \in P :
           /\ v5[<<p[1], p[2], 0>>] \in {"live", "closed", "cut"}
           /\ (\E g \in 0..b.gens : <<p[1], p[2], g>> \in v6) \/ p \in L
<1>1. Trajectory(b)!VerifierCandidates(S) \cup L = P
  <2>1. Trajectory(b)!VerifierCandidates(S) \subseteq P
    BY TrajectoryVerifierIs
  <2>2. IsFiniteSet(P)
    BY TrajectoryFiniteRecords, FS_Subset
  <2> QED BY <2>1, <2>2, TrajectoryAllVerified
<1>2. ASSUME NEW p \in P PROVE v5[<<p[1], p[2], 0>>] \in {"live", "closed", "cut"}
  <2>1. p[1] \in Trajectory(b)!Runs /\ p[2] \in Trajectory(b)!Cands
          /\ v5[<<p[1], p[2], 0>>] # "none"
    BY DEF TrajectoryInv, Trajectory!TypeOK, Trajectory!RecordsInv
  <2>2. <<p[1], p[2], 0>> \in Trajectory(b)!Sessions
    BY <2>1, TrajectoryBounded DEF Trajectory!Sessions
  <2>3. <<p[1], p[2], 0>> \in S
    BY <2>1, <2>2 DEF Trajectory!Made
  <2> QED BY <2>3 DEF Trajectory!Bound
<1>3. \A p \in P : (\E g \in 0..b.gens : <<p[1], p[2], g>> \in v6) \/ p \in L
  BY <1>1, TrajectoryVerifierIs
<1> QED BY <1>2, <1>3

LEMMA TrajectoryRealSuccessor ==
  ASSUME NEW b \in SearchBounds,
         TrajectoryInv(b), Trajectory(b)!Passed, Cardinality(Trajectory(b)!Opened) > 1
  PROVE  Trajectory(b)!PassedIsReal
<1>1. Trajectory(b)!Successor
  BY TrajectorySameSize DEF Trajectory!Passed
<1>2. Cardinality(Trajectory(b)!Current) = 1
  BY <1>1, TrajectorySameSize DEF Trajectory!Successor, Trajectory!History
<1>3. PICK r : Trajectory(b)!Current = {r}
  <2>1. Trajectory(b)!Current \subseteq Trajectory(b)!Opened
    BY DEF Trajectory!Current
  <2>2. IsFiniteSet(Trajectory(b)!Current)
    BY <2>1, TrajectoryFiniteRecords, FS_Subset
  <2> QED BY <1>2, <2>2, FS_Singleton
<1>4. r \in Trajectory(b)!Current /\ r \in Trajectory(b)!Runs
  BY <1>3 DEF Trajectory!Current, Trajectory!Opened
<1> DEFINE S == {s \in Trajectory(b)!Made : s[1] = r}
           P == {p \in v4 : p[1] = r}
<1>5. Trajectory(b)!CompletionEvidence(Trajectory(b)!RunEvidence(r))
  BY <1>1, <1>4 DEF Trajectory!Successor
<1>6. /\ Trajectory(b)!RunEvidence(r).sessions = S
      /\ Trajectory(b)!RunEvidence(r).cands = Cardinality(Trajectory(b)!CandidatesOf({r}))
      /\ Trajectory(b)!RunEvidence(r).ledger = {}
      /\ Trajectory(b)!RunEvidence(r).chosen = Trajectory(b)!Promoted({r})
  BY TrajectorySameSize DEF Trajectory!RunEvidence
<1>7. /\ S = Trajectory(b)!Bound(S) /\ Cardinality(Trajectory(b)!CandidatesOf({r})) = b.workers
      /\ v10 /\ v9 = "reported"
      /\ Cardinality(Trajectory(b)!VerifierCandidates(S) \cup {}) >= b.workers
      /\ Trajectory(b)!Promoted({r}) # {}
  BY <1>5, <1>6, TrajectorySameSize DEF Trajectory!CompletionEvidence, Trajectory!ContractHolds,
     Trajectory!Valid, Trajectory!TerminalReady
<1>8. Trajectory(b)!CandidatesOf({r}) = P
  BY DEF Trajectory!CandidatesOf
<1>9. v3[r] # 0
  BY <1>7 DEF Trajectory!Promoted
<1>10. /\ S \subseteq Trajectory(b)!Made /\ P \subseteq v4
       /\ \A p \in P : <<p[1], p[2], 0>> \in Trajectory(b)!Made => <<p[1], p[2], 0>> \in S
       /\ \A s \in S : <<s[1], s[2]>> \in P
  BY DEF TrajectoryInv, Trajectory!RecordsInv
<1>11. \A p \in P :
         /\ v5[<<p[1], p[2], 0>>] \in {"live", "closed", "cut"}
         /\ (\E g \in 0..b.gens : <<p[1], p[2], g>> \in v6) \/ p \in {}
  <2> DEFINE L == {}
  <2>1. L \subseteq P /\ Cardinality(P) = b.workers
          /\ Cardinality(Trajectory(b)!VerifierCandidates(S) \cup L) >= b.workers
    BY <1>7, <1>8
  <2> HIDE DEF S, P, L
  <2>2. \A p \in P :
          /\ v5[<<p[1], p[2], 0>>] \in {"live", "closed", "cut"}
          /\ (\E g \in 0..b.gens : <<p[1], p[2], g>> \in v6) \/ p \in L
    BY <1>7, <1>10, <2>1, TrajectoryEvidenceIs
  <2> QED BY <2>2 DEF L
<1>12. Cardinality(P) = b.workers
  BY <1>7, <1>8
<1> QED BY <1>4, <1>7, <1>9, <1>11, <1>12, TrajectorySameSize DEF Trajectory!PassedIsReal

LEMMA TrajectoryRealAlone ==
  ASSUME NEW b \in SearchBounds,
         TrajectoryInv(b), Trajectory(b)!Passed, ~(Cardinality(Trajectory(b)!Opened) > 1)
  PROVE  Trajectory(b)!PassedIsReal
<1>1. Trajectory(b)!CompletionEvidence(Trajectory(b)!WholeTrajectory) /\ v13 # "none"
  BY TrajectorySameSize DEF Trajectory!Passed
<1>2. PICK r \in Trajectory(b)!Opened : Trajectory(b)!Opened = {r} /\ Trajectory(b)!Current = {r}
  BY <1>1, TrajectoryOneRun DEF TrajectoryInv, Trajectory!ArchiveInv
<1>3. /\ Trajectory(b)!WholeTrajectory.sessions = Trajectory(b)!Made
      /\ Trajectory(b)!WholeTrajectory.ledger = Trajectory(b)!EventLedger
      /\ Trajectory(b)!WholeTrajectory.cands
           = Cardinality(Trajectory(b)!CandidatesOf(Trajectory(b)!Runs)
                \cup Trajectory(b)!EventCandidates)
      /\ Trajectory(b)!WholeTrajectory.chosen = Trajectory(b)!Promoted(Trajectory(b)!Runs)
  BY TrajectorySameSize DEF Trajectory!WholeTrajectory
<1>4. /\ Trajectory(b)!Made = Trajectory(b)!Bound(Trajectory(b)!Made)
      /\ Cardinality(Trajectory(b)!CandidatesOf(Trajectory(b)!Runs)
           \cup Trajectory(b)!EventCandidates) = b.workers
      /\ v10 /\ v9 = "reported" /\ Trajectory(b)!Promoted(Trajectory(b)!Runs) # {}
      /\ Cardinality(Trajectory(b)!VerifierCandidates(Trajectory(b)!Made)
           \cup Trajectory(b)!EventLedger) >= b.workers
  BY <1>1, <1>3, TrajectorySameSize DEF Trajectory!CompletionEvidence, Trajectory!ContractHolds,
     Trajectory!Valid, Trajectory!TerminalReady
<1>5. Trajectory(b)!CandidatesOf(Trajectory(b)!Runs) \cup Trajectory(b)!EventCandidates = v4
  BY DEF Trajectory!CandidatesOf, Trajectory!EventCandidates, TrajectoryInv, Trajectory!TypeOK
<1>6. Trajectory(b)!EventLedger \subseteq v4 /\ Trajectory(b)!EventLedger \subseteq v7
  BY DEF Trajectory!EventLedger, TrajectoryInv, Trajectory!VerifiedInv
<1>7. \A s \in Trajectory(b)!Made : <<s[1], s[2]>> \in v4
  BY DEF TrajectoryInv, Trajectory!RecordsInv
<1>8. \A p \in v4 :
        /\ v5[<<p[1], p[2], 0>>] \in {"live", "closed", "cut"}
        /\ (\E g \in 0..b.gens : <<p[1], p[2], g>> \in v6) \/ p \in Trajectory(b)!EventLedger
  <2> DEFINE S == Trajectory(b)!Made
             P == v4
             L == Trajectory(b)!EventLedger
  <2>1. /\ S \subseteq Trajectory(b)!Made /\ P \subseteq v4 /\ S = Trajectory(b)!Bound(S)
        /\ L \subseteq P
        /\ Cardinality(P) = b.workers
        /\ Cardinality(Trajectory(b)!VerifierCandidates(S) \cup L) >= b.workers
        /\ \A p \in P : <<p[1], p[2], 0>> \in Trajectory(b)!Made => <<p[1], p[2], 0>> \in S
        /\ \A s \in S : <<s[1], s[2]>> \in P
    BY <1>4, <1>5, <1>6, <1>7
  <2> HIDE DEF S, P, L
  <2>2. \A p \in P :
          /\ v5[<<p[1], p[2], 0>>] \in {"live", "closed", "cut"}
          /\ (\E g \in 0..b.gens : <<p[1], p[2], g>> \in v6) \/ p \in L
    BY <2>1, TrajectoryEvidenceIs
  <2> QED BY <2>2 DEF P, L
<1>9. {p \in v4 : p[1] = r} = v4
  BY <1>2 DEF TrajectoryInv, Trajectory!RecordsInv
<1>10. v3[r] # 0
  BY <1>2, <1>4 DEF Trajectory!Promoted, TrajectoryInv, Trajectory!RecordsInv
<1>11. r \in Trajectory(b)!Current /\ Cardinality({p \in v4 : p[1] = r}) = b.workers
  BY <1>2, <1>4, <1>5, <1>9
<1>12. \A p \in v4 : p[1] = r =>
         /\ v5[<<r, p[2], 0>>] \in {"live", "closed", "cut"}
         /\ (\E g \in 0..b.gens : <<r, p[2], g>> \in v6) \/ p \in v7
  BY <1>6, <1>8
<1> QED BY <1>4, <1>10, <1>11, <1>12, TrajectorySameSize DEF Trajectory!PassedIsReal

LEMMA TrajectoryBoundedWhenPassed ==
  ASSUME NEW b \in SearchBounds
  PROVE  TrajectoryInv(b) => Trajectory(b)!PassedIsBounded
<1>1. SUFFICES ASSUME TrajectoryInv(b), Trajectory(b)!Passed,
                 Trajectory(b)!Recovered(Trajectory(b)!Made) # {}
                      \/ Cardinality(Trajectory(b)!Opened) > 1
               PROVE  v11 <= b.workers /\ \A r \in Trajectory(b)!Opened \ Trajectory(b)!Current :
                        v2[r] = "aborted"
  BY TrajectorySameSize DEF Trajectory!PassedIsBounded
<1>2. v11 \in Nat /\ v12 \in Nat /\ v11 <= v12
  BY <1>1, TrajectoryBounded DEF TrajectoryInv, Trajectory!TypeOK, Trajectory!CountInv
<1>3. CASE Cardinality(Trajectory(b)!Opened) > 1
  <2>1. Trajectory(b)!History
    BY <1>1, <1>3, TrajectorySameSize DEF Trajectory!Passed, Trajectory!Successor
  <2>2. v12 <= b.workers /\ \A r \in Trajectory(b)!Opened \ Trajectory(b)!Current :
          v2[r] = "aborted"
    BY <2>1 DEF Trajectory!History
  <2> QED BY <1>2, <2>2, TrajectoryBounded
<1>4. CASE ~(Cardinality(Trajectory(b)!Opened) > 1)
  <2>1. Trajectory(b)!CompletionEvidence(Trajectory(b)!WholeTrajectory)
    BY <1>1, <1>4, TrajectorySameSize DEF Trajectory!Passed
  <2>2. Trajectory(b)!WholeTrajectory.sessions = Trajectory(b)!Made
    BY DEF Trajectory!WholeTrajectory
  <2>3. v12 <= b.workers
    BY <1>1, <1>4, <2>1, <2>2 DEF Trajectory!CompletionEvidence, Trajectory!RecoveryParallel
  <2>4. Trajectory(b)!Opened \ Trajectory(b)!Current = {}
    BY <1>1, <1>4, TrajectoryOneRun
  <2> QED BY <1>2, <2>3, <2>4, TrajectoryBounded
<1> QED BY <1>3, <1>4

LEMMA TrajectorySound ==
  ASSUME NEW b \in SearchBounds
  PROVE  TrajectoryInv(b) => Trajectory(b)!TypeOK /\ Trajectory(b)!EvidenceIsSound
<1> SUFFICES ASSUME TrajectoryInv(b) PROVE Trajectory(b)!TypeOK /\ Trajectory(b)!EvidenceIsSound
  OBVIOUS
<1>1. Trajectory(b)!Passed => Trajectory(b)!PassedIsReal
  BY TrajectoryRealSuccessor, TrajectoryRealAlone
<1> QED BY <1>1, TrajectoryBoundedWhenPassed DEF TrajectoryInv, Trajectory!EvidenceIsSound,
           Trajectory!PassedIsReal

-----------------------------------------------------------------------------
(* The workers of a campaign and the audit of their invocations            *)
(* (ParallelAudit). Here v1 is now, v2 is calls, v3 is dispatches, v4 is   *)
(* over.                                                                   *)

AuditInv == Audit!TypeOK /\ Audit!LanesInv

\* What a step of a lane leaves as it was.
AuditOthersKept(l) == \A m \in Audit!Lanes \ {l} : v2'[m] = v2[m]
\* An invocation of the lane is now c; the others are as they were.
AuditReplaced(l, i, c) ==
  /\ AuditOthersKept(l) /\ Len(v2'[l]) = Len(v2[l]) /\ DOMAIN v2'[l] = DOMAIN v2[l]
  /\ v2'[l][i] = c /\ \A j \in Audit!Of(l) \ {i} : v2'[l][j] = v2[l][j]

\* The cardinality of the instance is that of the library's theorems.
LEMMA AuditSameSize == \A S : Audit!Cardinality(S) = Cardinality(S)
  BY DEF Audit!Cardinality, Cardinality

-----------------------------------------------------------------------------
LEMMA AuditInitInv == Audit!Init => AuditInv
<1> SUFFICES ASSUME Audit!Init PROVE AuditInv
  OBVIOUS
<1>1. \A l \in Audit!Lanes : v2[l] = <<>>
  BY DEF Audit!Init
<1>2. v2 \in [Audit!Lanes -> Seq(Audit!Calls)]
  BY DEF Audit!Init
<1>3. \A l \in Audit!Lanes : Len(v2[l]) <= AuditCalls[l]
  BY <1>1, AuditBounds DEF Audit!Lanes
<1>4. v1 \in Audit!Times /\ v4 \in BOOLEAN /\ v3 \in [Audit!Lanes -> {"all", "none", "some"}]
  <2>1. v1 \in Audit!Times
    BY AuditBounds DEF Audit!Init, Audit!Times
  <2>2. v3 \in [Audit!Lanes -> {"all", "none", "some"}] /\ v4 \in BOOLEAN
    BY DEF Audit!Init
  <2> QED BY <2>1, <2>2
<1>5. \A l \in Audit!Lanes : Audit!Of(l) = {}
  BY <1>1 DEF Audit!Of
<1> QED BY <1>2, <1>3, <1>4, <1>5 DEF AuditInv, Audit!TypeOK, Audit!LanesInv, Audit!OrderInv

LEMMA AuditCallTypes ==
  ASSUME Audit!TypeOK, NEW l \in Audit!Lanes
  PROVE  /\ v2[l] \in Seq(Audit!Calls) /\ Audit!Of(l) = 1..Len(v2[l]) /\ Len(v2[l]) \in Nat
         /\ \A i \in Audit!Of(l) :
              /\ v2[l][i] \in Audit!Calls /\ i \in Nat
              /\ v2[l][i].start \in Audit!Times /\ v2[l][i].end \in Audit!Times
              /\ v2[l][i].read \in Audit!Times /\ v2[l][i].requested \in Audit!Times
              /\ v2[l][i].observed \in BOOLEAN
<1>1. v2[l] \in Seq(Audit!Calls) /\ Audit!Of(l) = 1..Len(v2[l]) /\ Len(v2[l]) \in Nat
  BY DEF Audit!TypeOK, Audit!Of
<1>2. \A i \in Audit!Of(l) : v2[l][i] \in Audit!Calls /\ i \in Nat
  BY <1>1
<1> QED BY <1>1, <1>2 DEF Audit!Calls

LEMMA AuditReplaceCall ==
  ASSUME Audit!TypeOK, NEW l \in Audit!Lanes, NEW i \in Audit!Of(l), NEW c \in Audit!Calls,
         v2' = [v2 EXCEPT ![l] = [v2[l] EXCEPT ![i] = c]]
  PROVE  /\ v2' \in [Audit!Lanes -> Seq(Audit!Calls)] /\ AuditReplaced(l, i, c)
         /\ \A m \in Audit!Lanes : Len(v2'[m]) <= AuditCalls[m]
<1> DEFINE s == [v2[l] EXCEPT ![i] = c]
<1>1. v2[l] \in Seq(Audit!Calls) /\ i \in 1..Len(v2[l])
  BY AuditCallTypes
<1>2. /\ s \in Seq(Audit!Calls) /\ Len(s) = Len(v2[l]) /\ DOMAIN s = DOMAIN v2[l]
      /\ s[i] = c /\ \A j \in (1..Len(v2[l])) \ {i} : s[j] = v2[l][j]
  BY <1>1
<1>3. v2' = [v2 EXCEPT ![l] = s]
  OBVIOUS
<1> HIDE DEF s
<1>4. v2' \in [Audit!Lanes -> Seq(Audit!Calls)] /\ v2'[l] = s /\ AuditOthersKept(l)
  BY <1>2, <1>3 DEF Audit!TypeOK, AuditOthersKept
<1>5. Audit!Of(l) = 1..Len(v2[l])
  BY AuditCallTypes
<1>6. AuditReplaced(l, i, c)
  BY <1>2, <1>4, <1>5 DEF AuditReplaced
<1>7. \A m \in Audit!Lanes : Len(v2'[m]) <= AuditCalls[m]
  BY <1>2, <1>4 DEF Audit!TypeOK, AuditOthersKept
<1> QED BY <1>4, <1>6, <1>7

\* A lane that a step leaves alone keeps its invariant, time moves on or not.
LEMMA AuditLaneKept ==
  ASSUME AuditInv, NEW l \in Audit!Lanes, v2'[l] = v2[l], v1' \in Audit!Times, v1 <= v1'
  PROVE  Audit!OrderInv(l)' /\ \A i \in Audit!Of(l)' : Audit!CallInv(l, i)'
<1>1. Audit!Of(l)' = Audit!Of(l)
  BY DEF Audit!Of
<1>2. Audit!OrderInv(l)'
  BY <1>1 DEF AuditInv, Audit!LanesInv, Audit!OrderInv
<1>3. ASSUME NEW i \in Audit!Of(l) PROVE Audit!CallInv(l, i)'
  <2>1. v2[l][i].start \in Audit!Times /\ v2[l][i].end \in Audit!Times /\ v1 \in Audit!Times
    BY AuditCallTypes DEF AuditInv, Audit!TypeOK
  <2>2. Audit!CallInv(l, i)
    BY DEF AuditInv, Audit!LanesInv
  <2> QED BY <2>1, <2>2 DEF Audit!CallInv, Audit!Times
<1> QED BY <1>1, <1>2, <1>3

LEMMA AuditLaunchKeeps == ASSUME AuditInv, NEW l \in Audit!Lanes, Audit!Launch(l) PROVE AuditInv'
<1> DEFINE c == [requested |-> v1, start |-> 0, end |-> 0, read |-> 0, observed |-> FALSE]
<1>1. c \in Audit!Calls /\ c.start = 0 /\ c.end = 0 /\ c.observed = FALSE
  BY AuditBounds DEF AuditInv, Audit!TypeOK, Audit!Calls, Audit!Times
<1>2. v2' = [v2 EXCEPT ![l] = Append(v2[l], c)] /\ UNCHANGED <<v1, v3, v4>>
  BY DEF Audit!Launch
<1> HIDE DEF c
<1>3. /\ v2[l] \in Seq(Audit!Calls) /\ Audit!Of(l) = 1..Len(v2[l]) /\ Len(v2[l]) \in Nat
      /\ v2 \in [Audit!Lanes -> Seq(Audit!Calls)]
  BY AuditCallTypes DEF AuditInv, Audit!TypeOK
<1>4. /\ Append(v2[l], c) \in Seq(Audit!Calls) /\ Len(Append(v2[l], c)) = Len(v2[l]) + 1
      /\ \A i \in 1..Len(v2[l]) : Append(v2[l], c)[i] = v2[l][i]
      /\ Append(v2[l], c)[Len(v2[l]) + 1] = c
  BY <1>1, <1>3
<1>5. /\ v2' \in [Audit!Lanes -> Seq(Audit!Calls)] /\ v2'[l] = Append(v2[l], c)
      /\ \A m \in Audit!Lanes \ {l} : v2'[m] = v2[m]
  BY <1>2, <1>3, <1>4
<1>6. Audit!TypeOK'
  <2>1. Len(v2'[l]) <= AuditCalls[l]
    <3>1. Len(v2[l]) < AuditCalls[l] /\ AuditCalls[l] \in Nat
      BY AuditBounds DEF Audit!Launch, Audit!Lanes
    <3> QED BY <1>3, <1>4, <1>5, <3>1
  <2>2. \A m \in Audit!Lanes : Len(v2'[m]) <= AuditCalls[m]
    BY <1>5, <2>1 DEF AuditInv, Audit!TypeOK
  <2>3. v1' \in Audit!Times /\ v4' \in BOOLEAN /\ v3' \in [Audit!Lanes -> {"all", "none", "some"}]
    BY <1>2 DEF AuditInv, Audit!TypeOK
  <2> QED BY ONLY <1>5, <2>2, <2>3 DEF Audit!TypeOK
<1>7. ASSUME NEW m \in Audit!Lanes
      PROVE Audit!OrderInv(m)' /\ \A i \in Audit!Of(m)' : Audit!CallInv(m, i)'
  <2>1. CASE m # l
    <3>1. v1 <= v1' /\ v1' \in Audit!Times
      BY <1>2, <1>6 DEF Audit!TypeOK, Audit!Times
    <3> QED BY <1>5, <2>1, <3>1, AuditLaneKept
  <2>2. CASE m = l
    <3>1. Audit!Of(l)' = 1..(Len(v2[l]) + 1)
      BY <1>3, <1>4, <1>5 DEF Audit!Of
    <3>2. \A i \in Audit!Of(l) : v2'[l][i] = v2[l][i]
      BY <1>3, <1>4, <1>5
    <3>3. v2'[l][Len(v2[l]) + 1] = c
      BY <1>4, <1>5
    <3>4. Audit!OrderInv(l) /\ \A i \in Audit!Of(l) : Audit!CallInv(l, i)
      BY DEF AuditInv, Audit!LanesInv
    <3>5. ASSUME NEW i \in Audit!Of(l)' PROVE Audit!CallInv(l, i)'
      <4>1. CASE i = Len(v2[l]) + 1
        <5>1. 0 <= v1
          BY DEF AuditInv, Audit!TypeOK, Audit!Times
        <5> QED BY <1>1, <1>2, <3>3, <4>1, <5>1 DEF Audit!CallInv
      <4>2. CASE i # Len(v2[l]) + 1
        <5>1. i \in Audit!Of(l)
          BY <1>3, <3>1, <4>2
        <5> QED BY <1>2, <3>2, <3>4, <5>1 DEF Audit!CallInv
      <4> QED BY <4>1, <4>2
    <3>6. Audit!OrderInv(l)'
      <4>1. SUFFICES ASSUME NEW i \in Audit!Of(l)', NEW j \in Audit!Of(l)', i < j,
                       v2'[l][j].start # 0
                     PROVE  v2'[l][i].end # 0 /\ v2'[l][i].end <= v2'[l][j].start
        BY DEF Audit!OrderInv
      <4>2. j # Len(v2[l]) + 1
        BY <1>1, <3>3, <4>1
      <4>3. i \in Audit!Of(l) /\ j \in Audit!Of(l)
        BY <1>3, <3>1, <4>1, <4>2
      <4> QED BY <3>2, <3>4, <4>1, <4>3 DEF Audit!OrderInv
    <3> QED BY <2>2, <3>5, <3>6
  <2> QED BY <2>1, <2>2
<1> QED BY <1>6, <1>7 DEF AuditInv, Audit!LanesInv

LEMMA AuditWorkerStartsKeeps ==
  ASSUME AuditInv, NEW l \in Audit!Lanes, Audit!WorkerStarts(l)
  PROVE  AuditInv'
<1>1. PICK i \in Audit!Waiting(l) : /\ \A j \in Audit!Waiting(l) : i <= j
                                    /\ v2' = [v2 EXCEPT ![l][i].start = v1]
  BY DEF Audit!WorkerStarts
<1>2. i \in Audit!Of(l) /\ v2[l][i].start = 0 /\ Audit!Running(l) = {} /\ UNCHANGED <<v1, v3, v4>>
  BY DEF Audit!Waiting, Audit!WorkerStarts
<1>3. v2[l][i] \in Audit!Calls /\ v1 \in Audit!Times
  BY <1>2, AuditCallTypes DEF AuditInv, Audit!TypeOK
<1> DEFINE c == [v2[l][i] EXCEPT !.start = v1]
<1>4. /\ c \in Audit!Calls /\ c.start = v1 /\ c.end = v2[l][i].end /\ c.observed = v2[l][i].observed
  BY <1>3 DEF Audit!Calls
<1>5. v2' = [v2 EXCEPT ![l] = [v2[l] EXCEPT ![i] = c]]
  BY <1>1
<1> HIDE DEF c
<1>6. /\ v2' \in [Audit!Lanes -> Seq(Audit!Calls)] /\ AuditReplaced(l, i, c)
      /\ \A m \in Audit!Lanes : Len(v2'[m]) <= AuditCalls[m]
  BY <1>2, <1>4, <1>5, AuditReplaceCall DEF AuditInv
<1>7. Audit!TypeOK'
  <2>1. v1' \in Audit!Times /\ v4' \in BOOLEAN /\ v3' \in [Audit!Lanes -> {"all", "none", "some"}]
    BY <1>2 DEF AuditInv, Audit!TypeOK
  <2> QED BY ONLY <1>6, <2>1 DEF Audit!TypeOK
<1>8. ASSUME NEW m \in Audit!Lanes
      PROVE Audit!OrderInv(m)' /\ \A j \in Audit!Of(m)' : Audit!CallInv(m, j)'
  <2>1. CASE m # l
    <3>1. v2'[m] = v2[m] /\ v1' \in Audit!Times /\ v1 <= v1'
      BY <1>2, <1>3, <1>6, <2>1 DEF AuditReplaced, AuditOthersKept, Audit!Times
    <3> QED BY <3>1, AuditLaneKept
  <2>2. CASE m = l
    <3>1. Audit!Of(l)' = Audit!Of(l)
      BY <1>6 DEF AuditReplaced, Audit!Of
    <3>2. v2'[l][i] = c /\ \A j \in Audit!Of(l) \ {i} : v2'[l][j] = v2[l][j]
      BY <1>6 DEF AuditReplaced
    <3>3. Audit!OrderInv(l) /\ \A j \in Audit!Of(l) : Audit!CallInv(l, j)
      BY DEF AuditInv, Audit!LanesInv
    <3>4. \A j \in Audit!Of(l) :
            /\ v2[l][j].start \in Audit!Times /\ v2[l][j].end \in Audit!Times /\ j \in Nat
      BY AuditCallTypes DEF AuditInv
    <3>5. \A j \in Audit!Of(l) : j < i => v2[l][j].start # 0 /\ v2[l][j].end # 0
      <4>1. \A j \in Audit!Of(l) : j < i => j \notin Audit!Waiting(l)
        BY <1>1, <1>2, <3>4
      <4> QED BY <1>2, <4>1 DEF Audit!Waiting, Audit!Running
    <3>6. v2[l][i].end = 0
      BY <1>2, <3>3 DEF Audit!CallInv
    <3>7. ASSUME NEW j \in Audit!Of(l) PROVE Audit!CallInv(l, j)'
      <4>1. CASE j = i
        <5>1. v1 <= v1'
          BY <1>2, <1>3 DEF Audit!Times
        <5> QED BY <1>2, <1>4, <3>2, <3>3, <3>6, <4>1, <5>1 DEF Audit!CallInv
      <4>2. CASE j # i
        BY <1>2, <3>2, <3>3, <4>2 DEF Audit!CallInv
      <4> QED BY <4>1, <4>2
    <3>8. Audit!OrderInv(l)'
      <4>1. SUFFICES ASSUME NEW j \in Audit!Of(l), NEW k \in Audit!Of(l), j < k,
                       v2'[l][k].start # 0
                     PROVE  v2'[l][j].end # 0 /\ v2'[l][j].end <= v2'[l][k].start
        BY <3>1 DEF Audit!OrderInv
      <4>2. CASE k = i
        <5>1. v2'[l][j] = v2[l][j] /\ v2[l][j].end # 0 /\ v2'[l][k].start = v1
          BY <1>4, <3>2, <3>4, <3>5, <4>1, <4>2
        <5>2. v2[l][j].end <= v1
          BY <3>3, <5>1 DEF Audit!CallInv
        <5> QED BY <5>1, <5>2
      <4>3. CASE k # i
        <5>1. v2'[l][k] = v2[l][k]
          BY <3>2, <4>3
        <5>2. v2[l][j].end # 0 /\ v2[l][j].end <= v2[l][k].start
          BY <3>3, <4>1, <5>1 DEF Audit!OrderInv
        <5>3. j # i
          BY <3>6, <5>2
        <5> QED BY <3>2, <5>1, <5>2, <5>3
      <4> QED BY <4>2, <4>3
    <3> QED BY <2>2, <3>1, <3>7, <3>8
  <2> QED BY <2>1, <2>2
<1> QED BY <1>7, <1>8 DEF AuditInv, Audit!LanesInv

LEMMA AuditWorkerEndsKeeps ==
  ASSUME AuditInv, NEW l \in Audit!Lanes, Audit!WorkerEnds(l)
  PROVE  AuditInv'
<1>1. PICK i \in Audit!Running(l) : v2' = [v2 EXCEPT ![l][i].end = v1]
  BY DEF Audit!WorkerEnds
<1>2. /\ i \in Audit!Of(l) /\ v2[l][i].start # 0 /\ v2[l][i].end = 0
      /\ UNCHANGED <<v1, v3, v4>>
  BY DEF Audit!Running, Audit!WorkerEnds
<1>3. v2[l][i] \in Audit!Calls /\ v1 \in Audit!Times /\ v2[l][i].start \in Audit!Times
  BY <1>2, AuditCallTypes DEF AuditInv, Audit!TypeOK
<1> DEFINE c == [v2[l][i] EXCEPT !.end = v1]
<1>4. /\ c \in Audit!Calls /\ c.start = v2[l][i].start /\ c.end = v1 /\ c.observed = v2[l][i].observed
  BY <1>3 DEF Audit!Calls
<1>5. v2' = [v2 EXCEPT ![l] = [v2[l] EXCEPT ![i] = c]]
  BY <1>1
<1> HIDE DEF c
<1>6. /\ v2' \in [Audit!Lanes -> Seq(Audit!Calls)] /\ AuditReplaced(l, i, c)
      /\ \A m \in Audit!Lanes : Len(v2'[m]) <= AuditCalls[m]
  BY <1>2, <1>4, <1>5, AuditReplaceCall DEF AuditInv
<1>7. Audit!TypeOK'
  <2>1. v1' \in Audit!Times /\ v4' \in BOOLEAN /\ v3' \in [Audit!Lanes -> {"all", "none", "some"}]
    BY <1>2 DEF AuditInv, Audit!TypeOK
  <2> QED BY ONLY <1>6, <2>1 DEF Audit!TypeOK
<1>8. ASSUME NEW m \in Audit!Lanes
      PROVE Audit!OrderInv(m)' /\ \A j \in Audit!Of(m)' : Audit!CallInv(m, j)'
  <2>1. CASE m # l
    <3>1. v2'[m] = v2[m] /\ v1' \in Audit!Times /\ v1 <= v1'
      BY <1>2, <1>3, <1>6, <2>1 DEF AuditReplaced, AuditOthersKept, Audit!Times
    <3> QED BY <3>1, AuditLaneKept
  <2>2. CASE m = l
    <3>1. Audit!Of(l)' = Audit!Of(l)
      BY <1>6 DEF AuditReplaced, Audit!Of
    <3>2. v2'[l][i] = c /\ \A j \in Audit!Of(l) \ {i} : v2'[l][j] = v2[l][j]
      BY <1>6 DEF AuditReplaced
    <3>3. Audit!OrderInv(l) /\ \A j \in Audit!Of(l) : Audit!CallInv(l, j)
      BY DEF AuditInv, Audit!LanesInv
    <3>4. v2[l][i].start <= v1 /\ ~v2[l][i].observed /\ v1 <= v1'
      BY <1>2, <1>3, <3>3 DEF Audit!CallInv, Audit!Times
    <3>5. ASSUME NEW j \in Audit!Of(l) PROVE Audit!CallInv(l, j)'
      <4>1. CASE j = i
        BY <1>2, <1>4, <3>2, <3>4, <4>1 DEF Audit!CallInv
      <4>2. CASE j # i
        BY <1>2, <3>2, <3>3, <4>2 DEF Audit!CallInv
      <4> QED BY <4>1, <4>2
    <3>6. Audit!OrderInv(l)'
      <4>1. SUFFICES ASSUME NEW j \in Audit!Of(l), NEW k \in Audit!Of(l), j < k,
                       v2'[l][k].start # 0
                     PROVE  v2'[l][j].end # 0 /\ v2'[l][j].end <= v2'[l][k].start
        BY <3>1 DEF Audit!OrderInv
      <4>2. v2'[l][k].start = v2[l][k].start
        BY <1>4, <3>2
      <4>3. v2[l][j].end # 0 /\ v2[l][j].end <= v2[l][k].start
        BY <3>3, <4>1, <4>2 DEF Audit!OrderInv
      <4>4. j # i
        BY <1>2, <4>3
      <4> QED BY <3>2, <4>2, <4>3, <4>4
    <3> QED BY <2>2, <3>1, <3>5, <3>6
  <2> QED BY <2>1, <2>2
<1> QED BY <1>7, <1>8 DEF AuditInv, Audit!LanesInv

LEMMA AuditWaitReadsKeeps ==
  ASSUME AuditInv, NEW l \in Audit!Lanes, NEW i \in Audit!Of(l), Audit!WaitReads(l, i)
  PROVE  AuditInv'
<1>1. v2[l][i] \in Audit!Calls /\ v1 \in Audit!Times /\ v2[l][i].end \in Audit!Times
  BY AuditCallTypes DEF AuditInv, Audit!TypeOK
<1>2. PICK c \in Audit!Calls : /\ c.start = v2[l][i].start /\ c.end = v2[l][i].end
                               /\ v2' = [v2 EXCEPT ![l] = [v2[l] EXCEPT ![i] = c]]
  <2>1. CASE v2' = [v2 EXCEPT ![l][i].read = v1]
    <3> DEFINE c == [v2[l][i] EXCEPT !.read = v1]
    <3>1. c \in Audit!Calls /\ c.start = v2[l][i].start /\ c.end = v2[l][i].end
      BY <1>1 DEF Audit!Calls
    <3> QED BY <2>1, <3>1
  <2>2. CASE v2' = [v2 EXCEPT ![l][i].read = v2[l][i].end, ![l][i].observed = TRUE]
    <3> DEFINE c == [v2[l][i] EXCEPT !.read = v2[l][i].end, !.observed = TRUE]
    <3>1. c \in Audit!Calls /\ c.start = v2[l][i].start /\ c.end = v2[l][i].end
      BY <1>1 DEF Audit!Calls
    <3>2. v2' = [v2 EXCEPT ![l] = [v2[l] EXCEPT ![i] = c]]
      BY <2>2, AuditCallTypes DEF AuditInv, Audit!TypeOK
    <3> QED BY <3>1, <3>2
  <2> QED BY <2>1, <2>2 DEF Audit!WaitReads
<1>3. v2[l][i].end # 0 /\ UNCHANGED <<v1, v3, v4>>
  BY DEF Audit!WaitReads
<1>4. /\ v2' \in [Audit!Lanes -> Seq(Audit!Calls)] /\ AuditReplaced(l, i, c)
      /\ \A m \in Audit!Lanes : Len(v2'[m]) <= AuditCalls[m]
  BY <1>2, AuditReplaceCall DEF AuditInv
<1>5. Audit!TypeOK'
  <2>1. v1' \in Audit!Times /\ v4' \in BOOLEAN /\ v3' \in [Audit!Lanes -> {"all", "none", "some"}]
    BY <1>3 DEF AuditInv, Audit!TypeOK
  <2> QED BY ONLY <1>4, <2>1 DEF Audit!TypeOK
<1>6. ASSUME NEW m \in Audit!Lanes
      PROVE Audit!OrderInv(m)' /\ \A j \in Audit!Of(m)' : Audit!CallInv(m, j)'
  <2>1. CASE m # l
    <3>1. v2'[m] = v2[m] /\ v1' \in Audit!Times /\ v1 <= v1'
      BY <1>1, <1>3, <1>4, <2>1 DEF AuditReplaced, AuditOthersKept, Audit!Times
    <3> QED BY <3>1, AuditLaneKept
  <2>2. CASE m = l
    <3>1. Audit!Of(l)' = Audit!Of(l)
      BY <1>4 DEF AuditReplaced, Audit!Of
    <3>2. \A j \in Audit!Of(l) : /\ v2'[l][j].start = v2[l][j].start
                                 /\ v2'[l][j].end = v2[l][j].end
                                 /\ v2'[l][j].observed => v2[l][j].end # 0
      BY <1>2, <1>3, <1>4 DEF AuditReplaced, AuditInv, Audit!LanesInv, Audit!CallInv
    <3>3. Audit!OrderInv(l) /\ \A j \in Audit!Of(l) : Audit!CallInv(l, j)
      BY DEF AuditInv, Audit!LanesInv
    <3>4. Audit!OrderInv(l)'
      BY <3>1, <3>2, <3>3 DEF Audit!OrderInv
    <3>5. ASSUME NEW j \in Audit!Of(l) PROVE Audit!CallInv(l, j)'
      BY <1>3, <3>2, <3>3 DEF Audit!CallInv
    <3> QED BY <2>2, <3>1, <3>4, <3>5
  <2> QED BY <2>1, <2>2
<1> QED BY <1>5, <1>6 DEF AuditInv, Audit!LanesInv

LEMMA AuditStopReadsKeeps ==
  ASSUME AuditInv, NEW l \in Audit!Lanes, Audit!StopReads(l)
  PROVE  AuditInv'
<1> DEFINE c(i) == IF v2[l][i].read = 0 THEN [v2[l][i] EXCEPT !.read = v1] ELSE v2[l][i]
           s == [i \in Audit!Of(l) |-> c(i)]
<1>1. /\ v2[l] \in Seq(Audit!Calls) /\ Audit!Of(l) = 1..Len(v2[l]) /\ Len(v2[l]) \in Nat
      /\ v2 \in [Audit!Lanes -> Seq(Audit!Calls)] /\ v1 \in Audit!Times
  BY AuditCallTypes DEF AuditInv, Audit!TypeOK
<1>2. ASSUME NEW i \in Audit!Of(l)
      PROVE  /\ c(i) \in Audit!Calls /\ c(i).start = v2[l][i].start /\ c(i).end = v2[l][i].end
             /\ c(i).observed = v2[l][i].observed
  <2>1. v2[l][i] \in Audit!Calls
    BY AuditCallTypes DEF AuditInv
  <2> QED BY <1>1, <2>1 DEF Audit!Calls
<1>3. v2' = [v2 EXCEPT ![l] = s] /\ UNCHANGED <<v1, v3, v4>>
  BY DEF Audit!StopReads
<1> HIDE DEF c
<1>4. s \in Seq(Audit!Calls) /\ Len(s) = Len(v2[l]) /\ DOMAIN s = Audit!Of(l)
  <2>1. s \in [1..Len(v2[l]) -> Audit!Calls]
    BY <1>1, <1>2
  <2> QED BY <1>1, <2>1
<1>5. \A i \in Audit!Of(l) : s[i] = c(i)
  OBVIOUS
<1> HIDE DEF s
<1>6. /\ v2' \in [Audit!Lanes -> Seq(Audit!Calls)] /\ v2'[l] = s
      /\ \A m \in Audit!Lanes \ {l} : v2'[m] = v2[m]
  BY <1>1, <1>3, <1>4
<1>7. Audit!TypeOK'
  <2>1. \A m \in Audit!Lanes : Len(v2'[m]) <= AuditCalls[m]
    BY <1>4, <1>6 DEF AuditInv, Audit!TypeOK
  <2>2. v1' \in Audit!Times /\ v4' \in BOOLEAN /\ v3' \in [Audit!Lanes -> {"all", "none", "some"}]
    BY <1>3 DEF AuditInv, Audit!TypeOK
  <2> QED BY ONLY <1>6, <2>1, <2>2 DEF Audit!TypeOK
<1>8. ASSUME NEW m \in Audit!Lanes
      PROVE Audit!OrderInv(m)' /\ \A j \in Audit!Of(m)' : Audit!CallInv(m, j)'
  <2>1. CASE m # l
    <3>1. v2'[m] = v2[m] /\ v1' \in Audit!Times /\ v1 <= v1'
      BY <1>1, <1>3, <1>6, <2>1 DEF Audit!Times
    <3> QED BY <3>1, AuditLaneKept
  <2>2. CASE m = l
    <3>1. Audit!Of(l)' = Audit!Of(l)
      BY <1>4, <1>6 DEF Audit!Of
    <3>2. \A j \in Audit!Of(l) : /\ v2'[l][j].start = v2[l][j].start
                                 /\ v2'[l][j].end = v2[l][j].end
                                 /\ v2'[l][j].observed = v2[l][j].observed
      BY <1>2, <1>5, <1>6
    <3>3. Audit!OrderInv(l) /\ \A j \in Audit!Of(l) : Audit!CallInv(l, j)
      BY DEF AuditInv, Audit!LanesInv
    <3>4. Audit!OrderInv(l)'
      BY <3>1, <3>2, <3>3 DEF Audit!OrderInv
    <3>5. ASSUME NEW j \in Audit!Of(l) PROVE Audit!CallInv(l, j)'
      BY <1>3, <3>2, <3>3 DEF Audit!CallInv
    <3> QED BY <2>2, <3>1, <3>4, <3>5
  <2> QED BY <2>1, <2>2
<1> QED BY <1>7, <1>8 DEF AuditInv, Audit!LanesInv

LEMMA AuditQuietKeeps ==
  ASSUME AuditInv, Audit!Tick \/ Audit!EndOfCampaign \/ UNCHANGED Audit!vars
  PROVE  AuditInv'
<1>1. v2' = v2 /\ v1' \in Audit!Times /\ v1 <= v1'
  BY AuditBounds DEF AuditInv, Audit!TypeOK, Audit!Times, Audit!Tick, Audit!EndOfCampaign,
     Audit!vars
<1>2. Audit!TypeOK'
  <2>1. v3' \in [Audit!Lanes -> {"all", "none", "some"}] /\ v4' \in BOOLEAN
    BY DEF AuditInv, Audit!TypeOK, Audit!Tick, Audit!EndOfCampaign, Audit!vars
  <2> QED BY <1>1, <2>1 DEF AuditInv, Audit!TypeOK
<1>3. \A l \in Audit!Lanes : Audit!OrderInv(l)' /\ \A i \in Audit!Of(l)' : Audit!CallInv(l, i)'
  BY <1>1, AuditLaneKept
<1> QED BY <1>2, <1>3 DEF AuditInv, Audit!LanesInv

LEMMA AuditNextInv == ASSUME AuditInv, Audit!Next \/ UNCHANGED Audit!vars PROVE AuditInv'
  BY AuditLaunchKeeps, AuditWorkerStartsKeeps, AuditWorkerEndsKeeps, AuditWaitReadsKeeps,
     AuditStopReadsKeeps, AuditQuietKeeps DEF Audit!Next

-----------------------------------------------------------------------------
(* What the audit reads off a lane.                                        *)

\* A set of natural numbers has a least element, and a largest one when there is a bound.
LEMMA AuditSmallestOf ==
  ASSUME NEW S, S \subseteq Nat, S # {}
  PROVE  Audit!LeastOf(S) \in S /\ \A u \in S : Audit!LeastOf(S) <= u
<1> DEFINE Less == {ss \in Nat \X Nat : ss[1] < ss[2]}
<1>1. IsWellFoundedOn(Less, Nat)
  BY NatLessThanWellFounded DEF OpToRel
<1>2. PICK x \in S : \A y \in S : ~(<<y, x>> \in Less)
  BY <1>1, WFMin
<1>3. ASSUME NEW y \in S PROVE x <= y
  <2>1. x \in Nat /\ y \in Nat /\ <<y, x>> \notin Less
    BY <1>2
  <2>2. ~(y < x)
    BY <2>1
  <2> QED BY <2>1, <2>2
<1> QED BY <1>3 DEF Audit!LeastOf

LEMMA AuditLargestOf ==
  ASSUME NEW N \in Nat, NEW S, S \subseteq 0..N, S # {}
  PROVE  Audit!MostOf(S) \in S /\ Audit!MostOf(S) \in 0..N /\ \A u \in S : u <= Audit!MostOf(S)
<1> DEFINE D == {n \in Nat : N - n \in S}
<1>1. D \subseteq Nat /\ D # {}
  <2>1. PICK s \in S : TRUE
    OBVIOUS
  <2>2. s \in 0..N /\ N - s \in Nat /\ N - (N - s) = s
    OBVIOUS
  <2> QED BY <2>1, <2>2
<1>2. Audit!LeastOf(D) \in D /\ \A u \in D : Audit!LeastOf(D) <= u
  BY <1>1, AuditSmallestOf
<1> DEFINE m == N - Audit!LeastOf(D)
<1>3. m \in S /\ m \in 0..N
  BY <1>2
<1>4. ASSUME NEW u \in S PROVE u <= m
  <2>1. u \in 0..N /\ N - u \in Nat /\ N - (N - u) = u
    OBVIOUS
  <2>2. N - u \in D
    BY <2>1
  <2>3. Audit!LeastOf(D) <= N - u /\ Audit!LeastOf(D) \in Nat
    BY <1>2, <2>2
  <2> QED BY <2>1, <2>3
<1> QED BY <1>3, <1>4 DEF Audit!MostOf

\* The times on record are times.
LEMMA AuditOnRecord ==
  ASSUME Audit!TypeOK, NEW l \in Audit!Lanes
  PROVE  /\ \A i \in Audit!Of(l) : Audit!Started(l, i) \in Audit!Times
              /\ Audit!Ended(l, i) \in Audit!Times
         /\ Audit!Settled(l) \subseteq Audit!Of(l) /\ \A i \in Audit!Of(l) : i \in Nat
  BY AuditCallTypes DEF Audit!Started, Audit!Ended, Audit!Settled

LEMMA AuditSteadyPhase == ASSUME Audit!TypeOK PROVE Audit!StableStart \in Audit!Times
<1>1. CASE Audit!Observed = {}
  BY <1>1, AuditBounds DEF Audit!StableStart, Audit!Times
<1>2. CASE Audit!Observed # {}
  <2> DEFINE S == {Audit!First(l) : l \in Audit!Observed}
  <2>1. ASSUME NEW l \in Audit!Observed PROVE Audit!First(l) \in Audit!Times
    <3> DEFINE T == {Audit!Started(l, i) : i \in Audit!Settled(l)}
    <3>1. T \subseteq Audit!Times /\ T # {}
      BY AuditOnRecord DEF Audit!Observed
    <3>2. T \subseteq Nat
      BY <3>1, AuditBounds DEF Audit!Times
    <3>3. Audit!LeastOf(T) \in T
      BY <3>1, <3>2, AuditSmallestOf
    <3> QED BY <3>1, <3>3 DEF Audit!First
  <2>2. S \subseteq 0..AuditDeadline /\ S # {}
    BY <1>2, <2>1 DEF Audit!Times
  <2>3. Audit!MostOf(S) \in 0..AuditDeadline
    BY <2>2, AuditBounds, AuditLargestOf
  <2> QED BY <1>2, <2>3 DEF Audit!StableStart, Audit!Times
<1> QED BY <1>1, <1>2

LEMMA AuditCursorIs ==
  ASSUME Audit!TypeOK, NEW l \in Audit!Lanes, NEW S, S \subseteq Audit!Settled(l)
  PROVE  /\ Audit!Cursor(l, S) \in Audit!Times /\ Audit!StableStart <= Audit!Cursor(l, S)
         /\ \A i \in S : Audit!Ended(l, i) <= Audit!Cursor(l, S)
         /\ \A t \in Audit!Times :
              Audit!StableStart <= t /\ (\A i \in S : Audit!Ended(l, i) <= t) =>
                   Audit!Cursor(l, S) <= t
<1> DEFINE T == {Audit!StableStart} \cup {Audit!Least(Audit!Ended(l, j), AuditDeadline) : j \in S}
<1>1. \A j \in S : Audit!Ended(l, j) \in Audit!Times
        /\ Audit!Least(Audit!Ended(l, j), AuditDeadline) = Audit!Ended(l, j)
  BY AuditOnRecord, AuditBounds DEF Audit!Least, Audit!Times
<1>2. T \subseteq 0..AuditDeadline /\ T # {}
  BY <1>1, AuditSteadyPhase DEF Audit!Times
<1>3. Audit!MostOf(T) \in T /\ Audit!MostOf(T) \in 0..AuditDeadline /\ \A u \in T :
        u <= Audit!MostOf(T)
  BY <1>2, AuditBounds, AuditLargestOf
<1>4. Audit!Cursor(l, S) = Audit!MostOf(T)
  BY DEF Audit!Cursor
<1>5. \A i \in S : Audit!Ended(l, i) <= Audit!Cursor(l, S)
  BY <1>1, <1>3, <1>4
<1>6. \A t \in Audit!Times :
        Audit!StableStart <= t /\ (\A i \in S : Audit!Ended(l, i) <= t) => Audit!Cursor(l, S) <= t
  BY <1>1, <1>3, <1>4
<1> QED BY <1>3, <1>4, <1>5, <1>6 DEF Audit!Times

LEMMA AuditGapIs ==
  ASSUME Audit!TypeOK, NEW l \in Audit!Lanes, NEW i \in Audit!Settled(l)
  PROVE  /\ Audit!Earlier(l, i) \subseteq Audit!Settled(l)
              /\ Audit!Cursor(l, Audit!Earlier(l, i)) \in Audit!Times
         /\ Audit!Gap(l, i) \in Audit!Times
         /\ Audit!Started(l, i) - Audit!Cursor(l, Audit!Earlier(l, i)) <= Audit!Gap(l, i)
         /\ Audit!Gap(l, i) # 0 =>
              Audit!Gap(l, i) = Audit!Started(l, i) - Audit!Cursor(l, Audit!Earlier(l, i))
<1>1. Audit!Earlier(l, i) \subseteq Audit!Settled(l)
  BY DEF Audit!Earlier
<1>2. Audit!Cursor(l, Audit!Earlier(l, i)) \in Audit!Times /\ Audit!Started(l, i) \in Audit!Times
  BY <1>1, AuditCursorIs, AuditOnRecord
<1>3. Audit!Least(Audit!Started(l, i), AuditDeadline) = Audit!Started(l, i)
  BY <1>2, AuditBounds DEF Audit!Least, Audit!Times
<1>4. \A s \in Audit!Times, c \in Audit!Times :
        /\ Audit!Most(0, s - c) \in Audit!Times /\ s - c <= Audit!Most(0, s - c)
        /\ Audit!Most(0, s - c) # 0 => Audit!Most(0, s - c) = s - c
  BY AuditBounds DEF Audit!Most, Audit!Times
<1> QED BY <1>1, <1>2, <1>3, <1>4 DEF Audit!Gap

\* What the lane was idle for: the last stretch, or one of the gaps.
LEMMA AuditIdleIs ==
  ASSUME Audit!TypeOK, NEW l \in Audit!Lanes
  PROVE  /\ Audit!Idle(l) \in Audit!Times
         /\ AuditDeadline - Audit!Cursor(l, Audit!Settled(l)) <= Audit!Idle(l)
              /\ \A i \in Audit!Settled(l) : Audit!Gap(l, i) <= Audit!Idle(l)
         /\ Audit!Idle(l) = 0 \/ Audit!Idle(l) = AuditDeadline - Audit!Cursor(l, Audit!Settled(l))
            \/ \E i \in Audit!Settled(l) : Audit!Idle(l) = Audit!Gap(l, i)
<1> DEFINE last == Audit!Most(0, AuditDeadline - Audit!Cursor(l, Audit!Settled(l)))
           T == {last} \cup Audit!Gaps(l)
<1>1. Audit!Cursor(l, Audit!Settled(l)) \in Audit!Times
  BY AuditCursorIs
<1>2. \A c \in Audit!Times :
        /\ Audit!Most(0, AuditDeadline - c) \in Audit!Times
        /\ AuditDeadline - c <= Audit!Most(0, AuditDeadline - c)
        /\ Audit!Most(0, AuditDeadline - c) = 0
             \/ Audit!Most(0, AuditDeadline - c) = AuditDeadline - c
  BY AuditBounds DEF Audit!Most, Audit!Times
<1>3. last \in Audit!Times /\ AuditDeadline - Audit!Cursor(l, Audit!Settled(l)) <= last
      /\ (last = 0 \/ last = AuditDeadline - Audit!Cursor(l, Audit!Settled(l)))
  BY <1>1, <1>2
<1> HIDE DEF last
<1>4. T \subseteq 0..AuditDeadline /\ T # {}
  BY <1>3, AuditGapIs DEF Audit!Gaps, Audit!Times
<1>5. Audit!MostOf(T) \in T /\ Audit!MostOf(T) \in 0..AuditDeadline /\ \A u \in T :
        u <= Audit!MostOf(T)
  BY <1>4, AuditBounds, AuditLargestOf
<1>6. Audit!Idle(l) = Audit!MostOf(T)
  BY DEF Audit!Idle, last
<1>7. \A i \in Audit!Settled(l) : Audit!Gap(l, i) <= Audit!Idle(l)
  BY <1>5, <1>6 DEF Audit!Gaps
<1>8. AuditDeadline - Audit!Cursor(l, Audit!Settled(l)) <= Audit!Idle(l)
  <2>1. last <= Audit!Idle(l) /\ Audit!Idle(l) \in Audit!Times
    BY <1>5, <1>6 DEF Audit!Times
  <2> QED BY <1>1, <1>3, <2>1, AuditBounds DEF Audit!Times
<1>9. Audit!Idle(l) = last \/ \E i \in Audit!Settled(l) : Audit!Idle(l) = Audit!Gap(l, i)
  BY <1>5, <1>6 DEF Audit!Gaps
<1> QED BY <1>3, <1>5, <1>6, <1>7, <1>8, <1>9 DEF Audit!Times

-----------------------------------------------------------------------------
(* The four properties.                                                    *)

LEMMA AuditExactTimes ==
  ASSUME AuditInv, Audit!AllExact, NEW l \in Audit!Lanes
  PROVE  /\ \A i \in Audit!Of(l) : Audit!Started(l, i) = v2[l][i].start
              /\ Audit!Ended(l, i) = v2[l][i].end
         /\ Audit!Settled(l) = {i \in Audit!Of(l) : v2[l][i].end # 0}
  BY DEF Audit!AllExact, Audit!Started, Audit!Ended, Audit!Settled

\* With the worker's own times, a lane has at most one invocation at work at a time.
LEMMA AuditAtWorkIs ==
  ASSUME AuditInv, Audit!AllExact, NEW t \in Audit!Times
  PROVE  /\ Cardinality(Audit!AtWork(t)) \in 0..AuditWorkers
         /\ Cardinality(Audit!AtWork(t)) = AuditWorkers <=> \A l \in Audit!Lanes :
              Audit!Busy(l, t)
<1>1. ASSUME NEW c \in Audit!AtWork(t)
      PROVE  /\ c[1] \in Audit!Lanes /\ c[2] \in Audit!Of(c[1]) /\ c = <<c[1], c[2]>>
             /\ v2[c[1]][c[2]].start # 0 /\ v2[c[1]][c[2]].start <= t
             /\ t < v2[c[1]][c[2]].end
  <2>1. PICK l \in Audit!Lanes : c \in {l} \X Audit!Settled(l)
    BY DEF Audit!AtWork
  <2>2. c = <<c[1], c[2]>> /\ c[1] = l /\ c[2] \in Audit!Settled(l)
          /\ Audit!Settled(l) \subseteq Audit!Of(l)
    BY <2>1 DEF Audit!Settled
  <2>3. v2[l][c[2]].start <= t /\ t < v2[l][c[2]].end
    BY <2>2, AuditExactTimes DEF Audit!AtWork
  <2>4. Audit!CallInv(l, c[2]) /\ v2[l][c[2]].end # 0
    BY <2>2, AuditExactTimes DEF AuditInv, Audit!LanesInv
  <2>5. v2[l][c[2]].start # 0
    BY <2>4 DEF Audit!CallInv
  <2> QED BY <2>2, <2>3, <2>5
<1> DEFINE f == [c \in Audit!AtWork(t) |-> c[1]]
<1>2. ASSUME NEW c \in Audit!AtWork(t), NEW d \in Audit!AtWork(t), c[1] = d[1] PROVE c = d
  <2> DEFINE l == c[1]
  <2>1. l \in Audit!Lanes /\ c[2] \in Audit!Of(l) /\ d[2] \in Audit!Of(l) /\ c = <<l, c[2]>>
          /\ d = <<l, d[2]>>
    BY <1>1, <1>2
  <2>2. Audit!OrderInv(l) /\ c[2] \in Nat /\ d[2] \in Nat
    BY <2>1, AuditOnRecord DEF AuditInv, Audit!LanesInv
  <2>3. \A i, j \in Audit!Of(l) :
          i < j /\ v2[l][i].start <= t /\ t < v2[l][i].end /\ v2[l][j].start # 0 =>
            ~(v2[l][j].start <= t)
    <3>1. SUFFICES ASSUME NEW i \in Audit!Of(l), NEW j \in Audit!Of(l), i < j, t < v2[l][i].end,
                          v2[l][j].start # 0
                   PROVE  ~(v2[l][j].start <= t)
      OBVIOUS
    <3>2. v2[l][i].end <= v2[l][j].start
      BY <2>2, <3>1 DEF Audit!OrderInv
    <3>3. v2[l][i].end \in Nat /\ v2[l][j].start \in Nat /\ t \in Nat
      BY <2>1, AuditCallTypes, AuditBounds DEF AuditInv, Audit!Times
    <3> QED BY <3>1, <3>2, <3>3
  <2>4. /\ v2[l][c[2]].start # 0 /\ v2[l][c[2]].start <= t /\ t < v2[l][c[2]].end
        /\ v2[l][d[2]].start # 0 /\ v2[l][d[2]].start <= t /\ t < v2[l][d[2]].end
    BY <1>1, <1>2
  <2>5. ~(c[2] < d[2]) /\ ~(d[2] < c[2])
    BY <2>1, <2>3, <2>4
  <2>6. c[2] = d[2]
    BY <2>2, <2>5
  <2> QED BY <2>1, <2>6
<1>3. f \in Injection(Audit!AtWork(t), Audit!Lanes)
  <2>1. f \in [Audit!AtWork(t) -> Audit!Lanes]
    BY <1>1
  <2>2. \A c, d \in Audit!AtWork(t) : f[c] = f[d] => c = d
    BY <1>2
  <2> HIDE DEF f
  <2> QED BY <2>1, <2>2 DEF Injection, IsInjective
<1>4. IsFiniteSet(Audit!Lanes) /\ Cardinality(Audit!Lanes) = AuditWorkers
  BY FS_Interval, AuditBounds DEF Audit!Lanes
<1>5. /\ IsFiniteSet(Audit!AtWork(t)) /\ Cardinality(Audit!AtWork(t)) <= AuditWorkers
      /\ Cardinality(Audit!AtWork(t)) = AuditWorkers <=> f \in Surjection(Audit!AtWork(t),
           Audit!Lanes)
  BY <1>3, <1>4, FS_Injection
<1>6. Cardinality(Audit!AtWork(t)) \in Nat
  BY <1>5, FS_CardinalityType
<1>7. f \in Surjection(Audit!AtWork(t), Audit!Lanes) <=> \A l \in Audit!Lanes :
        \E c \in Audit!AtWork(t) : c[1] = l
  BY <1>1 DEF Surjection
<1>8. ASSUME NEW l \in Audit!Lanes
      PROVE (\E c \in Audit!AtWork(t) : c[1] = l) <=> Audit!Busy(l, t)
  <2>1. ASSUME NEW c \in Audit!AtWork(t), c[1] = l PROVE Audit!Busy(l, t)
    BY <1>1, <2>1 DEF Audit!Busy
  <2>2. ASSUME Audit!Busy(l, t) PROVE \E c \in Audit!AtWork(t) : c[1] = l
    <3>1. PICK i \in Audit!Of(l) : /\ v2[l][i].start # 0 /\ v2[l][i].start <= t
                                   /\ t < v2[l][i].end
      BY <2>2 DEF Audit!Busy
    <3>2. v2[l][i].end # 0
      <4>1. v2[l][i].end \in Nat /\ t \in Nat
        BY AuditCallTypes, AuditBounds DEF AuditInv, Audit!Times
      <4> QED BY <3>1, <4>1
    <3>3. i \in Audit!Settled(l) /\ Audit!Started(l, i) <= t /\ t < Audit!Ended(l, i)
      BY <3>1, <3>2, AuditExactTimes
    <3>4. <<l, i>> \in Audit!AtWork(t) /\ <<l, i>>[1] = l
      BY <3>3 DEF Audit!AtWork
    <3> QED BY <3>4
  <2> QED BY <2>1, <2>2
<1> QED BY <1>5, <1>6, <1>7, <1>8, AuditBounds

LEMMA AuditPeakIs ==
  ASSUME AuditInv, Audit!AllExact
  PROVE  Audit!Peak = AuditWorkers <=> \E t \in Audit!Times : \A l \in Audit!Lanes :
           Audit!Busy(l, t)
<1> DEFINE T == {Cardinality(Audit!AtWork(t)) : t \in Audit!Times}
<1>1. T \subseteq 0..AuditWorkers /\ T # {}
  BY AuditAtWorkIs, AuditBounds DEF Audit!Times
<1>2. Audit!MostOf(T) \in T /\ \A u \in T : u <= Audit!MostOf(T)
  BY <1>1, AuditBounds, AuditLargestOf
<1>3. Audit!Peak = Audit!MostOf(T)
  BY AuditSameSize DEF Audit!Peak
<1>4. AuditWorkers \in T => Audit!MostOf(T) = AuditWorkers
  <2>1. Audit!MostOf(T) \in 0..AuditWorkers
          /\ (AuditWorkers \in T => AuditWorkers <= Audit!MostOf(T))
    BY <1>1, <1>2
  <2> HIDE DEF T
  <2> QED BY <2>1, AuditBounds
<1>5. AuditWorkers \in T <=> \E t \in Audit!Times : \A l \in Audit!Lanes : Audit!Busy(l, t)
  BY AuditAtWorkIs
<1> QED BY <1>2, <1>3, <1>4, <1>5

LEMMA AuditNoLaneStandsStill == AuditInv => Audit!NoLaneStoodStill
<1>1. SUFFICES ASSUME AuditInv, Audit!AllExact, Audit!AuditPasses, NEW l \in Audit!Lanes,
                      NEW t \in Audit!StableStart..(AuditDeadline - AuditIdle - 1),
                      ~Audit!Touched(l, t, t + AuditIdle + 1)
               PROVE  FALSE
  BY DEF Audit!NoLaneStoodStill, Audit!NeverStill
<1> DEFINE b == t + AuditIdle + 1
<1>2. Audit!StableStart \in Audit!Times /\ t \in Audit!Times /\ b \in Audit!Times
        /\ Audit!StableStart <= t /\ b <= AuditDeadline
  BY <1>1, AuditSteadyPhase, AuditBounds DEF AuditInv, Audit!Times
<1>3. Audit!Settled(l) = Audit!Of(l) /\ Audit!Of(l) \subseteq Nat
  <2>1. \A i \in Audit!Of(l) : Audit!Ended(l, i) # 0
    BY <1>1 DEF Audit!AuditPasses
  <2> QED BY <1>1, <2>1, AuditOnRecord DEF Audit!Settled, AuditInv
<1>4. \A i \in Audit!Of(l) :
        /\ Audit!Started(l, i) \in Audit!Times
        /\ Audit!Ended(l, i) \in Audit!Times
        /\ ~(Audit!Started(l, i) < b) \/ ~(Audit!Ended(l, i) > t)
  <2>1. ASSUME NEW i \in Audit!Of(l) PROVE ~(Audit!Started(l, i) < b) \/ ~(Audit!Ended(l, i) > t)
    <3>1. /\ Audit!Started(l, i) = v2[l][i].start /\ Audit!Ended(l, i) = v2[l][i].end
          /\ v2[l][i].end # 0 /\ Audit!CallInv(l, i)
      BY <1>1, <1>3, AuditExactTimes DEF AuditInv, Audit!LanesInv
    <3>2. v2[l][i].start # 0
      BY <3>1 DEF Audit!CallInv
    <3> QED BY <1>1, <3>1, <3>2 DEF Audit!Touched
  <2> QED BY <1>1, <2>1, AuditOnRecord DEF AuditInv
<1>5. Audit!Idle(l) <= AuditIdle /\ Audit!Idle(l) \in Audit!Times
  BY <1>1, AuditIdleIs DEF Audit!AuditPasses, AuditInv
<1> DEFINE Late == {i \in Audit!Of(l) : b <= Audit!Started(l, i)}
<1>6. CASE Late = {}
  <2>1. \A i \in Audit!Settled(l) : Audit!Ended(l, i) <= t
    <3>1. ASSUME NEW i \in Audit!Of(l) PROVE Audit!Ended(l, i) <= t
      <4>1. ~(b <= Audit!Started(l, i)) /\ Audit!Started(l, i) \in Audit!Times
              /\ Audit!Ended(l, i) \in Audit!Times
        BY <1>4, <1>6
      <4> QED BY <1>2, <1>4, <4>1, AuditBounds DEF Audit!Times
    <3> QED BY <1>3, <3>1
  <2>2. Audit!Cursor(l, Audit!Settled(l)) <= t
          /\ Audit!Cursor(l, Audit!Settled(l)) \in Audit!Times
    BY <1>1, <1>2, <2>1, AuditCursorIs DEF AuditInv
  <2>3. AuditDeadline - Audit!Cursor(l, Audit!Settled(l)) <= Audit!Idle(l)
    BY <1>1, AuditIdleIs DEF AuditInv
  <2> HIDE DEF b
  <2>4. b = t + AuditIdle + 1
    BY DEF b
  <2> QED BY <1>2, <1>5, <2>2, <2>3, <2>4, AuditBounds DEF Audit!Times
<1>7. CASE Late # {}
  <2> DEFINE i == Audit!LeastOf(Late)
  <2>1. i \in Late /\ \A u \in Late : i <= u
    BY <1>3, <1>7, AuditSmallestOf
  <2>2. i \in Audit!Of(l) /\ i \in Audit!Settled(l) /\ b <= Audit!Started(l, i) /\ i \in Nat
    BY <1>3, <2>1
  <2>3. ASSUME NEW j \in Audit!Earlier(l, i) PROVE Audit!Ended(l, j) <= t
    <3>1. j \in Audit!Of(l) /\ j \in Nat /\ (Audit!Started(l, j) < Audit!Started(l, i) \/ j < i)
      BY <1>3 DEF Audit!Earlier
    <3>2. CASE j < i
      <4>1. j \notin Late
        BY <2>1, <2>2, <3>1, <3>2
      <4>2. ~(b <= Audit!Started(l, j)) /\ Audit!Started(l, j) \in Audit!Times
              /\ Audit!Ended(l, j) \in Audit!Times
        BY <1>4, <3>1, <4>1
      <4> QED BY <1>2, <1>4, <3>1, <4>2, AuditBounds DEF Audit!Times
    <3>3. CASE ~(j < i)
      <4>1. Audit!Started(l, j) < Audit!Started(l, i) /\ j # i /\ i < j
        <5>1. Audit!Started(l, j) < Audit!Started(l, i) /\ Audit!Started(l, i) \in Nat
          BY <1>4, <2>2, <3>1, <3>3, AuditBounds DEF Audit!Times
        <5> QED BY <2>2, <3>1, <3>3, <5>1
      <4>2. /\ v2[l][i].end <= v2[l][j].start /\ Audit!Started(l, j) = v2[l][j].start
            /\ Audit!Started(l, i) = v2[l][i].start /\ v2[l][i].start <= v2[l][i].end
        <5>1. /\ Audit!Started(l, j) = v2[l][j].start /\ Audit!Ended(l, j) = v2[l][j].end
              /\ Audit!Started(l, i) = v2[l][i].start /\ Audit!Ended(l, i) = v2[l][i].end
              /\ Audit!Ended(l, i) # 0 /\ Audit!Ended(l, j) # 0
          BY <1>1, <1>3, <2>2, <3>1, AuditExactTimes DEF Audit!Settled
        <5>2. Audit!CallInv(l, i) /\ Audit!CallInv(l, j) /\ Audit!OrderInv(l)
          BY <1>1, <2>2, <3>1 DEF AuditInv, Audit!LanesInv
        <5>3. v2[l][i].start <= v2[l][i].end /\ v2[l][j].start # 0
          BY <5>1, <5>2 DEF Audit!CallInv
        <5> QED BY <2>2, <3>1, <4>1, <5>1, <5>2, <5>3 DEF Audit!OrderInv
      <4>3. /\ v2[l][i].start \in Nat /\ v2[l][i].end \in Nat /\ v2[l][j].start \in Nat
        BY <1>1, <2>2, <3>1, AuditCallTypes, AuditBounds DEF AuditInv, Audit!Times
      <4> QED BY <4>1, <4>2, <4>3
    <3> QED BY <3>2, <3>3
  <2>4. Audit!Cursor(l, Audit!Earlier(l, i)) <= t
          /\ Audit!Cursor(l, Audit!Earlier(l, i)) \in Audit!Times
    <3>1. Audit!Earlier(l, i) \subseteq Audit!Settled(l)
      BY DEF Audit!Earlier
    <3> QED BY <1>1, <1>2, <2>3, <3>1, AuditCursorIs DEF AuditInv
  <2>5. /\ Audit!Started(l, i) - Audit!Cursor(l, Audit!Earlier(l, i)) <= Audit!Gap(l, i)
        /\ Audit!Gap(l, i) \in Audit!Times
        /\ Audit!Started(l, i) \in Audit!Times /\ Audit!Gap(l, i) <= Audit!Idle(l)
    BY <1>1, <1>4, <2>2, AuditGapIs, AuditIdleIs DEF AuditInv
  <2> HIDE DEF b, i
  <2>6. b = t + AuditIdle + 1
    BY DEF b
  <2> QED BY <1>2, <1>5, <2>2, <2>4, <2>5, <2>6, AuditBounds DEF Audit!Times
<1> QED BY <1>6, <1>7

LEMMA AuditAllWereAtWork == AuditInv => Audit!AllAtWork
  BY AuditPeakIs DEF Audit!AllAtWork, Audit!AuditPasses

LEMMA AuditOrderlyAudit == AuditInv => Audit!OrderlyPasses
<1>1. SUFFICES ASSUME AuditInv, Audit!Orderly PROVE Audit!AuditPasses
  BY DEF Audit!OrderlyPasses
<1>2. ASSUME NEW l \in Audit!Lanes
      PROVE  Audit!Joined(l) /\ ~Audit!JoinFails(l) /\ Audit!Of(l) # {} /\ \A i \in Audit!Of(l) :
               Audit!InWindow(l, i)
  <2>1. v3[l] = "all" /\ Audit!Of(l) # {} /\ \A i \in Audit!Of(l) : Audit!InWindow(l, i)
    BY <1>1 DEF Audit!Orderly
  <2> QED BY <2>1 DEF Audit!Joined, Audit!JoinFails
<1>3. Audit!AllExact
  BY <1>2 DEF Audit!AllExact, Audit!Exact
<1>4. ASSUME NEW l \in Audit!Lanes, NEW i \in Audit!Of(l)
      PROVE  /\ Audit!Started(l, i) = v2[l][i].start /\ Audit!Ended(l, i) = v2[l][i].end
             /\ Audit!Started(l, i) \in Audit!Times /\ Audit!Ended(l, i) \in Audit!Times
             /\ Audit!Ended(l, i) # 0 /\ Audit!Started(l, i) <= Audit!Ended(l, i)
  <2>1. /\ Audit!Started(l, i) = v2[l][i].start /\ Audit!Ended(l, i) = v2[l][i].end
        /\ Audit!Started(l, i) \in Audit!Times /\ Audit!Ended(l, i) \in Audit!Times
    BY <1>1, <1>3, AuditExactTimes, AuditOnRecord DEF AuditInv
  <2>2. v2[l][i].start < v2[l][i].end
    BY <1>2 DEF Audit!InWindow
  <2> QED BY <2>1, <2>2, AuditBounds DEF Audit!Times
<1>5. \A l \in Audit!Lanes : Audit!Settled(l) = Audit!Of(l)
  BY <1>4 DEF Audit!Settled
<1>6. Audit!Observed = Audit!Lanes
  BY <1>2, <1>5 DEF Audit!Observed
<1>7. Audit!Peak = AuditWorkers
  BY <1>1, <1>3, AuditPeakIs DEF Audit!Orderly
<1>8. ASSUME NEW l \in Audit!Lanes, NEW c \in Audit!Times, NEW s \in Audit!Times,
             Audit!StableStart <= c,
             \A i \in Audit!Of(l) : Audit!Started(l, i) < s => Audit!Ended(l, i) <= c
      PROVE  s - c <= AuditIdle
  <2>1. SUFFICES ASSUME ~(s - c <= AuditIdle) PROVE FALSE
    OBVIOUS
  <2>2. Audit!StableStart \in Audit!Times
    BY <1>1, AuditSteadyPhase DEF AuditInv
  <2>3. c \in Audit!StableStart..(AuditDeadline - AuditIdle - 1) /\ c + AuditIdle + 1 <= s
    BY <1>8, <2>1, <2>2, AuditBounds DEF Audit!Times
  <2>4. Audit!Touched(l, c, c + AuditIdle + 1)
    BY <1>1, <2>3 DEF Audit!Orderly, Audit!NeverStill
  <2>5. PICK i \in Audit!Of(l) : v2[l][i].start < c + AuditIdle + 1 /\ v2[l][i].end > c
    BY <2>4 DEF Audit!Touched
  <2>6. Audit!Started(l, i) \in Audit!Times /\ Audit!Ended(l, i) \in Audit!Times
        /\ Audit!Started(l, i) < c + AuditIdle + 1 /\ Audit!Ended(l, i) > c
    BY <1>4, <2>5
  <2>7. Audit!Started(l, i) < s
    BY <2>3, <2>6, AuditBounds DEF Audit!Times
  <2>8. Audit!Ended(l, i) <= c
    BY <1>8, <2>7
  <2> QED BY <2>6, <2>8, AuditBounds DEF Audit!Times
<1>9. ASSUME NEW l \in Audit!Lanes PROVE Audit!Idle(l) <= AuditIdle
  <2>1. AuditDeadline - Audit!Cursor(l, Audit!Settled(l)) <= AuditIdle
    <3>1. /\ Audit!Cursor(l, Audit!Settled(l)) \in Audit!Times
          /\ Audit!StableStart <= Audit!Cursor(l, Audit!Settled(l))
          /\ \A i \in Audit!Of(l) : Audit!Ended(l, i) <= Audit!Cursor(l, Audit!Settled(l))
      BY <1>1, <1>5, AuditCursorIs DEF AuditInv
    <3>2. AuditDeadline \in Audit!Times
      BY AuditBounds DEF Audit!Times
    <3> QED BY <1>8, <3>1, <3>2
  <2>2. ASSUME NEW i \in Audit!Settled(l) PROVE Audit!Gap(l, i) <= AuditIdle
    <3>1. /\ Audit!Earlier(l, i) \subseteq Audit!Settled(l)
          /\ Audit!Cursor(l, Audit!Earlier(l, i)) \in Audit!Times
          /\ Audit!Gap(l, i) # 0 =>
               Audit!Gap(l, i) = Audit!Started(l, i) - Audit!Cursor(l, Audit!Earlier(l, i))
      BY <1>1, AuditGapIs DEF AuditInv
    <3>2. /\ Audit!StableStart <= Audit!Cursor(l, Audit!Earlier(l, i))
          /\ \A j \in Audit!Earlier(l, i) :
               Audit!Ended(l, j) <= Audit!Cursor(l, Audit!Earlier(l, i))
      BY <1>1, <3>1, AuditCursorIs DEF AuditInv
    <3>3. \A j \in Audit!Of(l) : Audit!Started(l, j) < Audit!Started(l, i) =>
            j \in Audit!Earlier(l, i)
      BY <1>5 DEF Audit!Earlier
    <3>4. Audit!Started(l, i) \in Audit!Times
      BY <1>4, <1>5
    <3>5. Audit!Started(l, i) - Audit!Cursor(l, Audit!Earlier(l, i)) <= AuditIdle
      BY <1>8, <3>1, <3>2, <3>3, <3>4
    <3> QED BY <3>1, <3>5, AuditBounds
  <2>3. Audit!Idle(l) = 0 \/ Audit!Idle(l) = AuditDeadline - Audit!Cursor(l, Audit!Settled(l))
        \/ \E i \in Audit!Settled(l) : Audit!Idle(l) = Audit!Gap(l, i)
    BY <1>1, AuditIdleIs DEF AuditInv
  <2> QED BY <2>1, <2>2, <2>3, AuditBounds
<1>10. v4
  BY <1>1 DEF Audit!Orderly
<1> QED BY <1>2, <1>4, <1>6, <1>7, <1>9, <1>10 DEF Audit!AuditPasses

LEMMA AuditUnsettledAudit == AuditInv => Audit!UnsettledFails
<1>1. SUFFICES ASSUME AuditInv, Audit!AuditPasses, NEW l \in Audit!Lanes,
                      NEW i \in Audit!Of(l), v2[l][i].end = 0
               PROVE  v2[l][i].read # 0 /\ v3[l] = "none"
  BY DEF Audit!UnsettledFails
<1>2. Audit!Ended(l, i) # 0 /\ ~Audit!JoinFails(l)
  BY <1>1 DEF Audit!AuditPasses
<1>3. v2[l][i].read # 0
  BY <1>1, <1>2 DEF Audit!Ended
<1>4. v3[l] # "some" /\ (v3[l] = "all" => Audit!InWindow(l, i))
  BY <1>2 DEF Audit!JoinFails
<1>5. ~Audit!InWindow(l, i)
  <2>1. v2[l][i].start \in Audit!Times
    BY <1>1, AuditCallTypes DEF AuditInv
  <2> QED BY <1>1, <2>1 DEF Audit!InWindow, Audit!Times
<1>6. v3[l] \in {"all", "none", "some"}
  BY <1>1 DEF AuditInv, Audit!TypeOK
<1> QED BY <1>3, <1>4, <1>5, <1>6

LEMMA AuditSound == AuditInv => Audit!TypeOK /\ Audit!AuditIsSound
  BY AuditNoLaneStandsStill, AuditAllWereAtWork, AuditOrderlyAudit, AuditUnsettledAudit
     DEF AuditInv, Audit!AuditIsSound

-----------------------------------------------------------------------------
(* A cell of EdgeBench, its time curve and the reference of a collection   *)
(* (TimeCurve). Here v1 is cell, v2 is full, v3 is history, v4 is report,  *)
(* v5 is ticks, v6 is issue, v7 is pc, v8 is extracts, v9 is sawCell, v10  *)
(* is k, v11 is sawHistory, v12 is sawReport, v13 is rows, v14 is curve,   *)
(* v15 is collecting, v16 is reference.                                    *)

CurveInv ==
  Curve!TypeOK /\ Curve!HistoryInv /\ Curve!RowsInv /\ Curve!ReadInv /\ Curve!ReferenceInv

\* What is known of an entry: the report of the judge, or none.
CurveSaid == {Curve!None} \cup Curve!Reports

LEMMA CurveNumbers == CurveAnchors \in Nat /\ CurveEntries \in Nat /\ CurveExtracts \in Nat
  BY CurveBounds

\* The cardinality of the instance is that of the library's theorems.
LEMMA CurveSameSize == \A S : Curve!Cardinality(S) = Cardinality(S)
  BY DEF Curve!Cardinality, Cardinality

\* The least element of a set of naturals, and the greatest of one that is bounded.
LEMMA CurveLeastOf ==
  ASSUME NEW S, S \subseteq Nat, S # {}
  PROVE  Curve!Min(S) \in S /\ \A y \in S : Curve!Min(S) <= y
<1> DEFINE Less == {ss \in Nat \X Nat : ss[1] < ss[2]}
<1>1. IsWellFoundedOn(Less, Nat)
  BY NatLessThanWellFounded DEF OpToRel
<1>3. PICK x \in S : \A y \in S : ~(<<y, x>> \in Less)
  BY <1>1, WFMin
<1>4. ASSUME NEW y \in S PROVE x <= y
  <2>1. x \in Nat /\ y \in Nat /\ <<y, x>> \notin Less
    BY <1>3
  <2>2. ~(y < x)
    BY <2>1
  <2> QED BY <2>1, <2>2
<1> QED BY <1>4 DEF Curve!Min

LEMMA CurveBounded ==
  ASSUME NEW n \in Nat, NEW S, S \subseteq 0..n, S # {}
  PROVE  \E x \in S : \A y \in S : y <= x
<1> DEFINE T == {n - y : y \in S}
<1>1. T \subseteq Nat /\ T # {}
  <2>1. \A y \in S : n - y \in Nat
    OBVIOUS
  <2> QED BY <2>1
<1>2. PICK m \in T : \A y \in T : m <= y
  <2> HIDE DEF T
  <2> QED BY <1>1, CurveLeastOf
<1>3. PICK x \in S : m = n - x
  BY <1>2
<1>4. ASSUME NEW y \in S PROVE y <= x
  <2>1. n - y \in T /\ x \in 0..n /\ y \in 0..n
    OBVIOUS
  <2>2. m <= n - y
    BY <1>2, <2>1
  <2> QED BY <1>3, <2>1, <2>2
<1> QED BY <1>4

LEMMA CurveGreatestOf ==
  ASSUME NEW n \in Nat, NEW S, S \subseteq 0..n, S # {}
  PROVE  Curve!Max(S) \in S /\ \A y \in S : y <= Curve!Max(S)
  BY CurveBounded DEF Curve!Max

-----------------------------------------------------------------------------
\* The steps of the extraction and of a collection, and the others.
CurveReadStep ==
  Curve!ReadCell \/ Curve!ReadHistory \/ Curve!ReadReports \/ Curve!MakeRow \/ Curve!WriteCurve
CurveCollectStep == Curve!ReadCurve \/ Curve!Collect
CurveCellStep ==
  \/ Curve!StartCell \/ Curve!Submit \/ Curve!EndCell \/ Curve!FindIssue
  \/ \E a \in 1..CurveAnchors : Curve!LogTick(a)
  \/ \E i \in Curve!Entries : Curve!Judge(i)

LEMMA CurveGroups == ASSUME Curve!Next PROVE CurveReadStep \/ CurveCollectStep \/ CurveCellStep
  BY DEF Curve!Next, CurveReadStep, CurveCollectStep, CurveCellStep

LEMMA CurveTypes ==
  ASSUME Curve!TypeOK
  PROVE  /\ Len(v3) \in Nat /\ Len(v11) \in Nat /\ Len(v3) <= CurveEntries
         /\ \A i \in 1..Len(v3) : v3[i] \in 0..CurveAnchors /\ i \in Curve!Entries
         /\ \A i \in 1..Len(v11) : v11[i] \in 0..CurveAnchors
         /\ DOMAIN v3 = 1..Len(v3)
         /\ Curve!Rounds \subseteq 1..Len(v3)
         /\ \A i \in Curve!Entries : v4[i] \in CurveSaid /\ v12[i] \in CurveSaid
  BY CurveNumbers DEF Curve!TypeOK, Curve!Rounds, Curve!Entries, CurveSaid

\* What was submitted and reported stays.
CurveGrows ==
  /\ Len(v3') \in Nat /\ Len(v3) <= Len(v3')
  /\ \A i \in 1..Len(v3) : v3'[i] = v3[i]
  /\ \A i \in Curve!Entries : v4[i] # Curve!None => v4'[i] = v4[i]
  /\ \A a \in 1..CurveAnchors : v5[a] # Curve!None => v5'[a] = v5[a]
  /\ v1 = "completed" => v1' = "completed" /\ Len(v3') = Len(v3) /\ (v2 => v2')

LEMMA CurveUnreadRow == Curve!Unread \in Curve!Row /\ Curve!Unread.status = "unread"
  BY CurveBounds DEF Curve!Unread, Curve!Row, Curve!None

LEMMA CurveInitInv == Curve!Init => CurveInv
<1> SUFFICES ASSUME Curve!Init PROVE CurveInv
  OBVIOUS
<1> USE CurveNumbers DEF Curve!Init, Curve!NoFile, Curve!NoReport, Curve!None
<1>1. Curve!Unread \in Curve!Row
  BY CurveUnreadRow
<1>2. /\ v13 \in [Curve!Checkpoints -> Curve!Row] /\ v14 \in [Curve!Checkpoints -> Curve!Row]
      /\ v15 \in [Curve!Checkpoints -> Curve!Row]
      /\ \A c \in Curve!Checkpoints :
           /\ v13[c].status \notin Curve!Shown /\ v14[c].status \notin Curve!Shown
           /\ v15[c].status \notin Curve!Shown
  BY <1>1 DEF Curve!NoRows, Curve!Unread, Curve!Shown
<1>3. Curve!TypeOK
  <2>1. v3 \in Seq(0..CurveAnchors) /\ Len(v3) = 0
    OBVIOUS
  <2>2. v2 \in BOOLEAN /\ v6 \in BOOLEAN
    OBVIOUS
  <2>4. v8 \in 0..CurveExtracts /\ v11 \in Seq(0..CurveAnchors)
    OBVIOUS
  <2>3. /\ v16 \in [Curve!Checkpoints -> CurveSaid] /\ v4 \in [Curve!Entries -> CurveSaid]
        /\ v12 \in [Curve!Entries -> CurveSaid] /\ v10 \in Curve!Checkpoints
    BY DEF Curve!NoReference, CurveSaid, Curve!Checkpoints
  <2>5. v5 \in [1..CurveAnchors -> {Curve!None} \cup Curve!Entries]
    BY DEF Curve!NoTicks
  <2> QED BY <1>2, <2>1, <2>2, <2>3, <2>4, <2>5 DEF Curve!TypeOK, CurveSaid
<1>4. Curve!HistoryInv
  <2>1. Curve!Rounds = {} /\ \A i \in Curve!Entries : v4[i] = Curve!None
    BY DEF Curve!Rounds
  <2> QED BY <2>1 DEF Curve!HistoryInv
<1>5. Curve!RowsInv
  BY <1>2 DEF Curve!RowsInv, Curve!RowIsTrue, Curve!Rises
<1>6. Curve!ReadInv
  BY <1>2 DEF Curve!ReadInv
<1>7. Curve!ReferenceInv
  BY DEF Curve!ReferenceInv, Curve!NoReference
<1> QED BY <1>3, <1>4, <1>5, <1>6, <1>7 DEF CurveInv

-----------------------------------------------------------------------------
\* A row that was true stays true.
LEMMA CurveRowStays ==
  ASSUME CurveInv, CurveGrows, NEW c \in Curve!Checkpoints, NEW r \in Curve!Row,
         Curve!RowIsTrue(c, r)
  PROVE  Curve!RowIsTrue(c, r)'
<1> SUFFICES ASSUME r.status \in Curve!Shown
             PROVE  /\ r.count \in 1..Len(v3') /\ r.best \in 1..r.count
                    /\ v4'[r.best] = r.said /\ r.said # Curve!None
                    /\ r.status = "available" => r.said \in CurveScaled
                    /\ c = Curve!Budget => v1' = "completed" /\ r.count = Len(v3')
                         /\ (r.strict => v2')
                    /\ c # Curve!Budget => v3'[r.count] = c /\ (r.strict => v5'[c] = r.count)
  BY DEF Curve!RowIsTrue, Curve!Budget, Curve!None
<1>1. /\ r.count \in 1..Len(v3) /\ r.best \in 1..r.count
      /\ v4[r.best] = r.said /\ r.said # Curve!None
      /\ r.status = "available" => r.said \in CurveScaled
      /\ c = Curve!Budget => v1 = "completed" /\ r.count = Len(v3) /\ (r.strict => v2)
      /\ c # Curve!Budget => v3[r.count] = c /\ (r.strict => v5[c] = r.count)
  BY DEF Curve!RowIsTrue
<1>2. Len(v3) \in Nat /\ r.best \in Curve!Entries
  BY <1>1, CurveTypes, CurveBounds DEF CurveInv, Curve!Entries
<1>3. r.count \in 1..Len(v3')
  BY <1>1, <1>2 DEF CurveGrows
<1>4. v4'[r.best] = r.said
  BY <1>1, <1>2 DEF CurveGrows
<1>5. c = Curve!Budget => v1' = "completed" /\ r.count = Len(v3') /\ (r.strict => v2')
  BY <1>1 DEF CurveGrows
<1>6. c # Curve!Budget => v3'[r.count] = c /\ (r.strict => v5'[c] = r.count)
  <2>1. c # Curve!Budget => c \in 1..CurveAnchors
    BY CurveBounds DEF Curve!Checkpoints, Curve!Budget
  <2>2. r.count # Curve!None
    BY <1>1 DEF Curve!None
  <2> QED BY <1>1, <2>1, <2>2 DEF CurveGrows
<1> QED BY <1>1, <1>3, <1>4, <1>5, <1>6

LEMMA CurveReferenceStays ==
  ASSUME CurveInv, CurveGrows, v16' = v16
  PROVE  Curve!ReferenceInv'
<1> SUFFICES ASSUME NEW b \in Curve!Checkpoints, v16[b] # Curve!None
             PROVE  \E i \in 1..Len(v3') : v4'[i] = v16[b] /\ Curve!Within(b, i)'
  BY DEF CurveInv, Curve!ReferenceInv, Curve!Budget, Curve!None, Curve!Checkpoints
<1>2. PICK i \in 1..Len(v3) : v4[i] = v16[b] /\ Curve!Within(b, i)
  BY DEF Curve!ReferenceInv, CurveInv
<1>3. Len(v3) \in Nat /\ i \in Curve!Entries
  BY CurveTypes DEF CurveInv
<1>4. i \in 1..Len(v3') /\ v4'[i] = v16[b]
  BY <1>2, <1>3 DEF CurveGrows
<1>5. Curve!Within(b, i)'
  <2>1. CASE b = Curve!Budget /\ v1 = "completed" /\ v2
    BY <2>1 DEF Curve!Within, CurveGrows, Curve!Budget
  <2>2. CASE \E a \in 1..CurveAnchors :
               a <= b /\ v5[a] \in 1..Len(v3) /\ v3[v5[a]] = a /\ i <= v5[a]
    <3>1. PICK a \in 1..CurveAnchors :
            a <= b /\ v5[a] \in 1..Len(v3) /\ v3[v5[a]] = a /\ i <= v5[a]
      BY <2>2
    <3>2. v5'[a] = v5[a]
      BY <3>1 DEF CurveGrows, Curve!None
    <3>3. v5'[a] \in 1..Len(v3') /\ v3'[v5'[a]] = a
      BY <1>3, <3>1, <3>2 DEF CurveGrows
    <3> QED BY <3>1, <3>2, <3>3 DEF Curve!Within
  <2> QED BY <1>2, <2>1, <2>2 DEF Curve!Within
<1> QED BY <1>4, <1>5

\* The cell, the judge and the finalizer: the history grows under what was read of it.
LEMMA CurveCellGrows ==
  ASSUME CurveInv, CurveCellStep
  PROVE  Curve!TypeOK' /\ Curve!HistoryInv' /\ CurveGrows
<1> USE CurveNumbers
<1>0. Curve!TypeOK /\ Curve!HistoryInv /\ Len(v3) \in Nat
  BY CurveTypes DEF CurveInv
<1>1. UNCHANGED <<Curve!Extraction, Curve!Reference>>
  BY DEF CurveCellStep, Curve!StartCell, Curve!Submit, Curve!EndCell, Curve!FindIssue,
     Curve!LogTick, Curve!Judge
<1>2. CASE Curve!StartCell \/ Curve!EndCell \/ Curve!FindIssue
  <2>1. UNCHANGED <<v3, v4, v5>>
    BY <1>2 DEF Curve!StartCell, Curve!EndCell, Curve!FindIssue
  <2>2. v2' \in BOOLEAN /\ v6' \in BOOLEAN
    BY <1>0, <1>2 DEF Curve!StartCell, Curve!EndCell, Curve!FindIssue, Curve!TypeOK
  <2>3. Curve!TypeOK'
    BY <1>0, <1>1, <1>2, <2>1, <2>2 DEF Curve!StartCell, Curve!EndCell, Curve!FindIssue,
       Curve!TypeOK, Curve!Extraction, Curve!Reference
  <2>4. Curve!HistoryInv'
    BY <1>0, <2>1 DEF Curve!HistoryInv, Curve!Rounds
  <2>5. v1 = "completed" => v1' = "completed" /\ v2' = v2
    BY <1>2 DEF Curve!StartCell, Curve!EndCell, Curve!FindIssue
  <2> QED BY <1>0, <2>1, <2>3, <2>4, <2>5 DEF CurveGrows
<1>3. CASE Curve!Submit
  <2>1. PICK round \in {0} \cup ({1 + Cardinality(Curve!Rounds)} \cap (1..CurveAnchors)) :
          v3' = Append(v3, round)
    BY <1>0, <1>3, CurveTypes, CurveSameSize DEF Curve!Submit, Curve!Rounds
  <2>2. v1 = "running" /\ Len(v3) < CurveEntries /\ UNCHANGED <<v1, v2, v4, v5, v6>>
    BY <1>3 DEF Curve!Submit
  <2> DEFINE n == Len(v3)
             h == v3
  <2>3. h \in Seq(0..CurveAnchors) /\ n \in Nat /\ n = Len(h) /\ round \in 0..CurveAnchors
    BY <1>0 DEF Curve!TypeOK
  <2>4. v3' = Append(h, round)
    BY <2>1
  <2> HIDE DEF h, n
  <2>5. /\ Append(h, round) \in Seq(0..CurveAnchors) /\ Len(Append(h, round)) = n + 1
        /\ Append(h, round)[n + 1] = round
        /\ \A i \in 1..n : Append(h, round)[i] = h[i]
    BY <2>3
  <2>6. /\ v3' \in Seq(0..CurveAnchors) /\ Len(v3') = n + 1 /\ v3'[n + 1] = round
        /\ \A i \in 1..n : v3'[i] = v3[i]
    BY <2>4, <2>5 DEF h
  <2>7. n = Len(v3) /\ n < CurveEntries /\ n \in Nat
    BY <2>2, <2>3 DEF h
  <2>8. Curve!TypeOK'
    BY <1>0, <1>1, <2>2, <2>6, <2>7 DEF Curve!TypeOK, Curve!Extraction, Curve!Reference
  <2>9. CurveGrows
    BY <2>2, <2>6, <2>7 DEF CurveGrows
  <2>10. Curve!Rounds' = IF round = 0 THEN Curve!Rounds ELSE Curve!Rounds \cup {n + 1}
    <3>1. Curve!Rounds' = {i \in 1..(n + 1) : v3'[i] # 0}
            /\ Curve!Rounds = {i \in 1..n : v3[i] # 0}
      BY <2>6, <2>7 DEF Curve!Rounds
    <3> QED BY <2>6, <2>7, <3>1
  <2>11. /\ IsFiniteSet(Curve!Rounds) /\ Cardinality(Curve!Rounds) \in Nat
         /\ n + 1 \notin Curve!Rounds
    <3>1. Curve!Rounds \subseteq 1..n /\ IsFiniteSet(1..n)
      BY <2>7, FS_Interval DEF Curve!Rounds
    <3>2. IsFiniteSet(Curve!Rounds)
      BY <3>1, FS_Subset
    <3> QED BY <2>7, <3>1, <3>2, FS_CardinalityType, CurveSameSize
  <2>12. Curve!HistoryInv'
    <3>1. \A i \in Curve!Entries : v4'[i] # Curve!None => i <= Len(v3')
      <4>1. \A i \in Curve!Entries : (v4[i] # Curve!None => i <= n) /\ i \in Nat
        BY <1>0, <2>7 DEF Curve!HistoryInv, Curve!Entries
      <4> QED BY <2>2, <2>6, <2>7, <4>1
    <3>2. CASE round = 0
      <4>1. Curve!Rounds' = Curve!Rounds /\ \A i \in Curve!Rounds : v3'[i] = v3[i]
        BY <2>6, <2>7, <2>10, <3>2 DEF Curve!Rounds
      <4> QED BY <1>0, <3>1, <4>1 DEF Curve!HistoryInv
    <3>3. CASE round # 0
      <4>1. Curve!Rounds' = Curve!Rounds \cup {n + 1} /\ round = 1 + Cardinality(Curve!Rounds)
        BY <2>10, <3>3
      <4>2. Cardinality(Curve!Rounds') = 1 + Cardinality(Curve!Rounds)
        BY <2>11, <4>1, FS_AddElement, CurveSameSize
      <4>3. \A i \in Curve!Rounds : /\ i \in 1..n /\ v3'[i] = v3[i]
                                    /\ v3[i] <= Cardinality(Curve!Rounds) /\ v3[i] \in Nat
        BY <1>0, <2>6, <2>7, CurveTypes, CurveSameSize DEF Curve!HistoryInv, Curve!Rounds
      <4>4. \A i \in Curve!Rounds' : v3'[i] <= Cardinality(Curve!Rounds')
        BY <2>6, <2>11, <4>1, <4>2, <4>3
      <4>5. ASSUME NEW i \in Curve!Rounds', NEW j \in Curve!Rounds', i < j PROVE v3'[i] < v3'[j]
        <5>1. CASE j = n + 1
          <6>1. i \in Curve!Rounds
            BY <2>7, <4>1, <4>5, <5>1
          <6> QED BY <2>6, <2>11, <4>1, <4>3, <5>1, <6>1
        <5>2. CASE j # n + 1
          <6>1. j \in Curve!Rounds /\ i \in Curve!Rounds
            BY <2>7, <4>1, <4>3, <4>5, <5>2
          <6> QED BY <1>0, <4>3, <4>5, <6>1 DEF Curve!HistoryInv
        <5> QED BY <5>1, <5>2
      <4> QED BY <3>1, <4>4, <4>5, CurveSameSize DEF Curve!HistoryInv
    <3> QED BY <3>2, <3>3
  <2> QED BY <2>8, <2>9, <2>12
<1>4. ASSUME NEW a \in 1..CurveAnchors, Curve!LogTick(a)
      PROVE Curve!TypeOK' /\ Curve!HistoryInv' /\ CurveGrows
  <2>1. PICK i \in Curve!Entries : v5' = [v5 EXCEPT ![a] = i]
    BY <1>4 DEF Curve!LogTick
  <2>2. v5[a] = Curve!None /\ UNCHANGED <<v1, v2, v3, v4, v6>>
    BY <1>4 DEF Curve!LogTick
  <2>3. v5 \in [1..CurveAnchors -> {Curve!None} \cup Curve!Entries]
    BY <1>0 DEF Curve!TypeOK
  <2>4. /\ v5' \in [1..CurveAnchors -> {Curve!None} \cup Curve!Entries]
        /\ \A x \in 1..CurveAnchors : v5[x] # Curve!None => v5'[x] = v5[x]
    BY <2>1, <2>2, <2>3
  <2>5. Curve!TypeOK'
    BY <1>0, <1>1, <2>2, <2>4 DEF Curve!TypeOK, Curve!Extraction, Curve!Reference
  <2>6. Curve!HistoryInv'
    BY <1>0, <2>2 DEF Curve!HistoryInv, Curve!Rounds
  <2> QED BY <1>0, <2>2, <2>4, <2>5, <2>6 DEF CurveGrows
<1>5. ASSUME NEW i \in Curve!Entries, Curve!Judge(i)
      PROVE Curve!TypeOK' /\ Curve!HistoryInv' /\ CurveGrows
  <2>1. i <= Len(v3) /\ v4[i] = Curve!None /\ UNCHANGED <<v1, v2, v3, v5, v6>>
    BY <1>5 DEF Curve!Judge
  <2>2. PICK s \in Curve!Reports : v4' = [v4 EXCEPT ![i] = s]
    BY <1>5 DEF Curve!Judge
  <2>3. v4' \in [Curve!Entries -> CurveSaid] /\ \A j \in Curve!Entries \ {i} : v4'[j] = v4[j]
    BY <1>0, <2>2 DEF Curve!TypeOK, CurveSaid
  <2>4. Curve!TypeOK'
    BY <1>0, <1>1, <2>1, <2>3 DEF Curve!TypeOK, Curve!Extraction, Curve!Reference, CurveSaid
  <2>5. Curve!Rounds' = Curve!Rounds
    BY <2>1 DEF Curve!Rounds
  <2>6. Curve!HistoryInv'
    BY <1>0, <2>1, <2>3, <2>5 DEF Curve!HistoryInv
  <2>7. CurveGrows
    BY <1>0, <2>1, <2>3 DEF CurveGrows
  <2> QED BY <2>4, <2>6, <2>7
<1> QED BY <1>2, <1>3, <1>4, <1>5 DEF CurveCellStep

LEMMA CurveCellKeeps == ASSUME CurveInv, CurveCellStep PROVE CurveInv'
<1>1. Curve!TypeOK' /\ Curve!HistoryInv' /\ CurveGrows
  BY CurveCellGrows
<1>2. /\ v13' = v13 /\ v14' = v14 /\ v15' = v15 /\ v16' = v16
      /\ UNCHANGED <<v7, v8, v9, v10, v11, v12>>
  BY DEF CurveCellStep, Curve!StartCell, Curve!Submit, Curve!EndCell, Curve!FindIssue,
     Curve!LogTick, Curve!Judge, Curve!Extraction, Curve!Reference
<1>3. /\ v13 \in [Curve!Checkpoints -> Curve!Row] /\ v14 \in [Curve!Checkpoints -> Curve!Row]
      /\ v15 \in [Curve!Checkpoints -> Curve!Row]
  BY DEF CurveInv, Curve!TypeOK
<1>4. Curve!RowsInv'
  <2>1. ASSUME NEW c \in Curve!Checkpoints
        PROVE  Curve!RowIsTrue(c, v13[c])' /\ Curve!RowIsTrue(c, v14[c])'
                 /\ Curve!RowIsTrue(c, v15[c])'
    <3>1. Curve!RowIsTrue(c, v13[c]) /\ Curve!RowIsTrue(c, v14[c]) /\ Curve!RowIsTrue(c, v15[c])
      BY DEF CurveInv, Curve!RowsInv
    <3>2. v13[c] \in Curve!Row /\ v14[c] \in Curve!Row /\ v15[c] \in Curve!Row
      BY <1>3
    <3> QED BY <1>1, <1>2, <3>1, <3>2, CurveRowStays DEF Curve!RowIsTrue
  <2>2. Curve!Rises(v13)' /\ Curve!Rises(v14)' /\ Curve!Rises(v15)'
    BY <1>2 DEF CurveInv, Curve!RowsInv, Curve!Rises
  <2> QED BY <2>1, <2>2 DEF Curve!RowsInv
<1>5. Curve!ReadInv'
  BY <1>1, <1>2, CurveTypes DEF CurveInv, Curve!ReadInv, CurveGrows
<1>6. Curve!ReferenceInv'
  BY <1>1, <1>2, CurveReferenceStays
<1> QED BY <1>1, <1>4, <1>5, <1>6 DEF CurveInv

-----------------------------------------------------------------------------
\* What a row is that was chosen from the first n entries.
CurveChosenFrom(r, n, b) ==
  /\ r \in Curve!Row
  /\ r.status \in Curve!Shown =>
       /\ r.count = n /\ (r.strict <=> b) /\ r.best \in 1..n
       /\ v12[r.best] = r.said /\ r.said # Curve!None
       /\ r.status = "available" => r.said \in CurveScaled
       /\ \A i \in 1..n : v12[i] # Curve!None => CurveRank[v12[i]] <= CurveRank[r.said]

LEMMA CurveChosenRow ==
  ASSUME v12 \in [Curve!Entries -> CurveSaid], NEW n \in 1..CurveEntries, NEW b \in BOOLEAN,
         NEW r \in Curve!Chosen(n, b)
  PROVE  CurveChosenFrom(r, n, b)
<1> USE CurveNumbers DEF Curve!None
<1>1. \A i \in 1..n : i \in Curve!Entries /\ v12[i] \in CurveSaid
  BY DEF Curve!Entries
<1>2. CASE Curve!Scored(n) = {}
  <2> DEFINE q == [Curve!Unread EXCEPT !.status = "not scored"]
             q2 == [q EXCEPT !.strict = b]
  <2>1. q \in Curve!Row /\ q.status = "not scored"
    BY CurveUnreadRow DEF Curve!Row
  <2> HIDE DEF q
  <2>2. q2 \in Curve!Row /\ q2.status = "not scored"
    BY <2>1 DEF Curve!Row
  <2> HIDE DEF q2
  <2>3. r = [q2 EXCEPT !.count = n]
    BY <1>2 DEF Curve!Chosen, q, q2
  <2>4. n \in 0..CurveEntries
    OBVIOUS
  <2>5. r \in Curve!Row /\ r.status \notin Curve!Shown
    BY <2>2, <2>3, <2>4 DEF Curve!Row, Curve!Shown
  <2> QED BY <2>5 DEF CurveChosenFrom
<1>3. CASE Curve!Scored(n) # {}
  <2>1. PICK i \in Curve!Best(n) :
          r = [status |-> IF v12[i] \in CurveScaled THEN "available" ELSE "raw only",
               strict |-> b, count |-> n, best |-> i, said |-> v12[i]]
    BY <1>3 DEF Curve!Chosen
  <2>2. /\ i \in 1..n /\ v12[i] # Curve!None
        /\ \A j \in 1..n : v12[j] # Curve!None => CurveRank[v12[j]] <= CurveRank[v12[i]]
    BY DEF Curve!Best, Curve!Scored
  <2>3. r \in Curve!Row
    <3>1. i \in 0..CurveEntries /\ n \in 0..CurveEntries /\ v12[i] \in CurveSaid
      BY <1>1, <2>2
    <3> QED BY <2>1, <3>1 DEF Curve!Row, Curve!Shown, CurveSaid
  <2>4. /\ r.count = n /\ r.strict = b /\ r.best = i /\ r.said = v12[i]
        /\ r.status = "available" => v12[i] \in CurveScaled
    BY <2>1
  <2> QED BY <2>2, <2>3, <2>4 DEF CurveChosenFrom
<1> QED BY <1>2, <1>3

LEMMA CurveEmptyRow ==
  ASSUME NEW w \in {"not started", "pending", "missing"}, NEW r \in Curve!Without(w)
  PROVE  r \in Curve!Row /\ r.status \notin Curve!Shown
  BY CurveUnreadRow DEF Curve!Without, Curve!Row, Curve!Shown

\* Two entries of one round are one.
LEMMA CurveRoundsDiffer ==
  ASSUME CurveInv, NEW i \in 1..Len(v3), NEW j \in 1..Len(v3),
         v3[i] # 0, v3[j] # 0
  PROVE  /\ v3[i] = v3[j] => i = j
         /\ v3[i] < v3[j] => i < j
<1>1. i \in Curve!Rounds /\ j \in Curve!Rounds
  BY DEF Curve!Rounds
<1>2. (i < j => v3[i] < v3[j]) /\ (j < i => v3[j] < v3[i])
  BY <1>1 DEF CurveInv, Curve!HistoryInv
<1>3. i \in Nat /\ j \in Nat /\ v3[i] \in Nat /\ v3[j] \in Nat
  BY CurveTypes, CurveBounds DEF CurveInv
<1> QED BY <1>2, <1>3

\* The row that MakeRow adds.
CurveNewRow(r) ==
  /\ r \in Curve!Row /\ Curve!RowIsTrue(v10, r)
  /\ r.status \in Curve!Shown =>
       \A c \in 1..(v10 - 1) : v13[c].status \in Curve!Shown =>
         CurveRank[v13[c].said] <= CurveRank[r.said]

LEMMA CurveNewRowIsTrue ==
  ASSUME CurveInv, v7 = "row", NEW n \in 1..Len(v11), NEW b \in BOOLEAN,
         NEW r \in Curve!Chosen(n, b),
         v10 = Curve!Budget => /\ n = Len(v11) /\ (b => v2) /\ v9 = "completed",
         v10 # Curve!Budget => v11[n] = v10 /\ (b => v5[v10] = n)
  PROVE  CurveNewRow(r)
<1>1. /\ Len(v11) <= Len(v3) /\ Len(v3) <= CurveEntries
      /\ Len(v3) \in Nat /\ Len(v11) \in Nat
  BY CurveTypes DEF CurveInv, Curve!ReadInv
<1>2. n \in 1..CurveEntries /\ n \in 1..Len(v3) /\ v3[n] = v11[n]
  BY <1>1, CurveBounds DEF CurveInv, Curve!ReadInv
<1>3. CurveChosenFrom(r, n, b)
  BY <1>2, CurveChosenRow DEF CurveInv, Curve!TypeOK, CurveSaid
<1>4. r \in Curve!Row /\ v10 \in Curve!Checkpoints
  BY <1>3 DEF CurveChosenFrom, CurveInv, Curve!TypeOK
<1>5. SUFFICES ASSUME r.status \in Curve!Shown
               PROVE  /\ Curve!RowIsTrue(v10, r)
                      /\ \A c \in 1..(v10 - 1) : v13[c].status \in Curve!Shown =>
                           CurveRank[v13[c].said] <= CurveRank[r.said]
  BY <1>4 DEF CurveNewRow, Curve!RowIsTrue
<1>6. /\ r.count = n /\ (r.strict <=> b) /\ r.best \in 1..n
      /\ v12[r.best] = r.said /\ r.said # Curve!None
      /\ r.status = "available" => r.said \in CurveScaled
      /\ \A i \in 1..n : v12[i] # Curve!None => CurveRank[v12[i]] <= CurveRank[r.said]
  BY <1>3, <1>5 DEF CurveChosenFrom
<1>7. v4[r.best] = r.said
  <2>1. r.best \in Curve!Entries
    BY <1>2, <1>6, CurveBounds DEF Curve!Entries
  <2>2. \A i \in Curve!Entries : v12[i] # Curve!None => v12[i] = v4[i]
    BY DEF CurveInv, Curve!ReadInv
  <2> QED BY <1>6, <2>1, <2>2
<1>8. Curve!RowIsTrue(v10, r)
  <2>1. CASE v10 = Curve!Budget
    <3>1. v1 = "completed" /\ Len(v11) = Len(v3)
      BY <2>1 DEF CurveInv, Curve!ReadInv
    <3> QED BY <1>2, <1>6, <1>7, <2>1, <3>1 DEF Curve!RowIsTrue
  <2>2. CASE v10 # Curve!Budget
    BY <1>2, <1>6, <1>7, <2>2 DEF Curve!RowIsTrue
  <2> QED BY <2>1, <2>2
<1>9. ASSUME NEW c \in 1..(v10 - 1), v13[c].status \in Curve!Shown
      PROVE  CurveRank[v13[c].said] <= CurveRank[r.said]
  <2>1. c \in Curve!Checkpoints /\ c # Curve!Budget /\ c < v10 /\ v10 \in Nat /\ c \in Nat
    BY <1>4, CurveBounds DEF Curve!Checkpoints, Curve!Budget
  <2>2. /\ v13[c].count \in 1..Len(v3) /\ v13[c].best \in 1..v13[c].count
        /\ v13[c].said # Curve!None /\ v3[v13[c].count] = c
    BY <1>9, <2>1 DEF CurveInv, Curve!RowsInv, Curve!RowIsTrue
  <2>3. v12[v13[c].best] = v13[c].said /\ v13[c].count <= Len(v11)
    BY <1>9 DEF CurveInv, Curve!ReadInv
  <2>4. v13[c].count <= n
    <3>1. CASE v10 = Curve!Budget
      BY <2>3, <3>1
    <3>2. CASE v10 # Curve!Budget
      <4>1. v3[n] = v10
        BY <1>2, <3>2
      <4>2. v13[c].count < n
        BY <1>2, <2>1, <2>2, <4>1, CurveRoundsDiffer
      <4> QED BY <1>1, <1>2, <2>2, <4>2
    <3> QED BY <3>1, <3>2
  <2>5. v13[c].best \in 1..n
    BY <1>1, <1>2, <2>2, <2>4
  <2> QED BY <1>6, <2>2, <2>3, <2>5
<1> QED BY <1>8, <1>9

LEMMA CurveMakeRowKeeps == ASSUME CurveInv, Curve!MakeRow PROVE CurveInv'
<1> DEFINE why == CASE v9 = "prepared" -> "not started"
                    [] v9 = "running" -> "pending" [] OTHER -> "missing"
           R == IF v11 = Curve!NoFile THEN Curve!Without(why)
                ELSE IF v10 = Curve!Budget THEN Curve!FullRow ELSE Curve!AnchorRow(v10)
<1>0. PICK r \in R : v13' = [v13 EXCEPT ![v10] = r]
  BY DEF Curve!MakeRow
<1>1. /\ v7 = "row" /\ v13' = [v13 EXCEPT ![v10] = r]
      /\ IF v10 = Curve!Budget THEN v7' = "write" /\ v10' = v10 ELSE v7' = "history"
           /\ v10' = v10 + 1
      /\ v11' = Curve!NoFile /\ v12' = Curve!NoReport
      /\ UNCHANGED <<Curve!Cell, v8, v9, v14, Curve!Reference>>
  BY <1>0 DEF Curve!MakeRow
<1> HIDE DEF R, why
<1>2. CurveNewRow(r)
  <2>1. ASSUME NEW w \in {"not started", "pending", "missing"}, r \in Curve!Without(w)
        PROVE  CurveNewRow(r)
    BY <2>1, CurveEmptyRow DEF CurveNewRow, Curve!RowIsTrue
  <2>2. CASE v11 = Curve!NoFile
    <3>1. why \in {"not started", "pending", "missing"}
      BY DEF why
    <3>2. r \in Curve!Without(why)
      BY <1>0, <2>2 DEF R
    <3> QED BY <2>1, <3>1, <3>2
  <2>3. CASE v11 # Curve!NoFile /\ v10 = Curve!Budget
    <3>1. r \in Curve!FullRow
      BY <1>0, <2>3 DEF R
    <3>2. CASE v9 = "completed"
      <4>1. Len(v11) \in 1..Len(v11)
        <5>1. v11 \in Seq(0..CurveAnchors) /\ v11 # <<>>
          BY <2>3 DEF CurveInv, Curve!TypeOK, Curve!NoFile
        <5> QED BY <5>1
      <4>2. v2 \in BOOLEAN
        BY DEF CurveInv, Curve!TypeOK
      <4>3. r \in Curve!Chosen(Len(v11), v2)
        BY <3>1, <3>2 DEF Curve!FullRow
      <4> QED BY <1>1, <2>3, <3>2, <4>1, <4>2, <4>3, CurveNewRowIsTrue
    <3>3. CASE v9 # "completed"
      BY <2>1, <3>1, <3>3 DEF Curve!FullRow
    <3> QED BY <3>2, <3>3
  <2>4. CASE v11 # Curve!NoFile /\ v10 # Curve!Budget
    <3>1. r \in Curve!AnchorRow(v10)
      BY <1>0, <2>4 DEF R
    <3>2. CASE Curve!Anchor(v10) = Curve!None
      BY <2>1, <3>1, <3>2 DEF Curve!AnchorRow
    <3>3. CASE Curve!Anchor(v10) # Curve!None
      <4> DEFINE S == {i \in 1..Len(v11) : v11[i] = v10}
      <4>1. S # {} /\ Curve!Anchor(v10) = Curve!Min(S)
        BY <3>3 DEF Curve!Anchor
      <4>2. S \subseteq Nat
        OBVIOUS
      <4>3. Curve!Anchor(v10) \in S
        <5> HIDE DEF S
        <5> QED BY <4>1, <4>2, CurveLeastOf
      <4>4. Curve!Anchor(v10) \in 1..Len(v11) /\ v11[Curve!Anchor(v10)] = v10
        BY <4>3
      <4>5. r \in Curve!Chosen(Curve!Anchor(v10), v5[v10] = Curve!Anchor(v10))
        BY <3>1, <3>3 DEF Curve!AnchorRow
      <4>6. (v5[v10] = Curve!Anchor(v10)) \in BOOLEAN
        OBVIOUS
      <4> QED BY <1>1, <2>4, <4>4, <4>5, <4>6, CurveNewRowIsTrue
    <3> QED BY <3>2, <3>3
  <2> QED BY <2>2, <2>3, <2>4
<1>3. v10 \in Curve!Checkpoints /\ v13 \in [Curve!Checkpoints -> Curve!Row] /\ r \in Curve!Row
        /\ v10 \in Nat
  BY <1>2, CurveBounds DEF CurveInv, Curve!TypeOK, CurveNewRow, Curve!Checkpoints
<1>4. /\ v13' \in [Curve!Checkpoints -> Curve!Row] /\ v13'[v10] = r
      /\ \A c \in Curve!Checkpoints \ {v10} : v13'[c] = v13[c]
  BY <1>1, <1>3
<1>5. v10' \in Curve!Checkpoints /\ v7' \in {"write", "history"}
      /\ (v7' = "history" => v10' = v10 + 1) /\ (v7' = "write" => v10 = Curve!Budget)
  BY <1>1, <1>3, CurveBounds DEF Curve!Checkpoints, Curve!Budget
<1>6. Curve!TypeOK'
  <2>1. v2' \in BOOLEAN /\ v6' \in BOOLEAN
    BY <1>1 DEF CurveInv, Curve!TypeOK, Curve!Cell
  <2>2. v11' \in Seq(0..CurveAnchors)
    BY <1>1 DEF Curve!NoFile
  <2>3. v12' \in [Curve!Entries -> {Curve!None} \cup Curve!Reports]
    BY <1>1 DEF Curve!NoReport
  <2> QED
    BY <1>1, <1>4, <1>5, <2>1, <2>2, <2>3 DEF CurveInv, Curve!TypeOK, Curve!Cell, Curve!Reference
<1>7. Curve!HistoryInv'
  BY <1>1 DEF CurveInv, Curve!HistoryInv, Curve!Rounds, Curve!Cell
<1>8. Curve!ReferenceInv'
  BY <1>1 DEF CurveInv, Curve!ReferenceInv, Curve!Within, Curve!Cell, Curve!Reference
<1>9. \A c \in Curve!Checkpoints : v13[c].status \in Curve!Shown => c < v10
  BY <1>1 DEF CurveInv, Curve!ReadInv
<1>10. Curve!RowsInv'
  <2>1. UNCHANGED <<v3, v4, v1, v2, v5, v14, v15>>
    BY <1>1 DEF Curve!Cell, Curve!Reference
  <2>2. ASSUME NEW c \in Curve!Checkpoints PROVE Curve!RowIsTrue(c, v13'[c])
    <3>1. CASE c = v10
      BY <1>2, <1>4, <3>1 DEF CurveNewRow
    <3>2. CASE c # v10
      BY <1>4, <3>2 DEF CurveInv, Curve!RowsInv
    <3> QED BY <3>1, <3>2
  <2>3. ASSUME NEW c \in Curve!Checkpoints
        PROVE  Curve!RowIsTrue(c, v13[c])' /\ Curve!RowIsTrue(c, v14[c])'
                 /\ Curve!RowIsTrue(c, v15[c])'
    <3>1. Curve!RowIsTrue(c, v14[c]) /\ Curve!RowIsTrue(c, v15[c])
      BY DEF CurveInv, Curve!RowsInv
    <3> QED BY <2>1, <2>2, <3>1 DEF Curve!RowIsTrue
  <2>4. Curve!Rises(v13)'
    <3> SUFFICES ASSUME NEW c \in Curve!Checkpoints, NEW d \in Curve!Checkpoints, c < d,
                        v13'[c].status \in Curve!Shown, v13'[d].status \in Curve!Shown
                 PROVE  CurveRank[v13'[c].said] <= CurveRank[v13'[d].said]
      BY DEF Curve!Rises, Curve!Checkpoints
    <3>1. c \in Nat /\ d \in Nat
      BY CurveBounds DEF Curve!Checkpoints
    <3>2. CASE d = v10
      <4>1. c \in 1..(v10 - 1) /\ v13'[c] = v13[c]
        BY <1>3, <1>4, <3>1, <3>2 DEF Curve!Checkpoints
      <4> QED BY <1>2, <1>4, <3>2, <4>1 DEF CurveNewRow
    <3>3. CASE d # v10
      <4>1. v13'[d] = v13[d] /\ d < v10 /\ v13'[c] = v13[c]
        BY <1>3, <1>4, <1>9, <3>1, <3>3
      <4> QED BY <4>1 DEF CurveInv, Curve!RowsInv, Curve!Rises
    <3> QED BY <3>2, <3>3
  <2>5. Curve!Rises(v14)' /\ Curve!Rises(v15)'
    BY <2>1 DEF CurveInv, Curve!RowsInv, Curve!Rises
  <2> QED BY <2>3, <2>4, <2>5 DEF Curve!RowsInv
<1>11. Curve!ReadInv'
  <2>1. v9' = "completed" => v1' = "completed"
    BY <1>1 DEF CurveInv, Curve!ReadInv, Curve!Cell
  <2>2. ASSUME NEW c \in Curve!Checkpoints, v13'[c].status \in Curve!Shown, v7' # "write"
        PROVE  c < v10'
    <3>1. c \in Nat /\ v10' = v10 + 1
      BY <1>5, <2>2, CurveBounds DEF Curve!Checkpoints
    <3>2. CASE c = v10
      BY <1>3, <3>1, <3>2
    <3>3. CASE c # v10
      BY <1>3, <1>4, <1>9, <2>2, <3>1, <3>3
    <3> QED BY <3>2, <3>3
  <2> QED BY <1>5, <2>1, <2>2 DEF Curve!ReadInv, Curve!Checkpoints
<1> QED BY <1>6, <1>7, <1>8, <1>10, <1>11 DEF CurveInv

LEMMA CurveReadKeeps == ASSUME CurveInv, CurveReadStep PROVE CurveInv'
<1>1. CASE Curve!MakeRow
  BY <1>1, CurveMakeRowKeeps
<1>2. ASSUME Curve!ReadCell \/ Curve!ReadHistory \/ Curve!ReadReports \/ Curve!WriteCurve
      PROVE CurveInv'
  <2> USE CurveNumbers
  <2>1. UNCHANGED <<Curve!Cell, Curve!Reference>>
    BY <1>2 DEF Curve!ReadCell, Curve!ReadHistory, Curve!ReadReports, Curve!WriteCurve
  <2>2. Curve!NoRows \in [Curve!Checkpoints -> Curve!Row] /\ \A c \in Curve!Checkpoints :
          Curve!NoRows[c].status \notin Curve!Shown
    BY CurveUnreadRow DEF Curve!NoRows, Curve!Shown
  <2>3. /\ v13' = v13 \/ v13' = Curve!NoRows
        /\ v14' = v14 \/ v14' = v13
    BY <1>2 DEF Curve!ReadCell, Curve!ReadHistory, Curve!ReadReports, Curve!WriteCurve
  <2>4. Curve!TypeOK'
    <3>1. v2' \in BOOLEAN /\ v6' \in BOOLEAN
      BY <2>1 DEF CurveInv, Curve!TypeOK, Curve!Cell
    <3>2. v13' \in [Curve!Checkpoints -> Curve!Row] /\ v14' \in [Curve!Checkpoints -> Curve!Row]
      BY <2>2, <2>3 DEF CurveInv, Curve!TypeOK
    <3>3. v11' \in Seq(0..CurveAnchors)
      <4>1. v11' = v11 \/ v11' = v3 \/ v11' = Curve!NoFile
        BY <1>2 DEF Curve!ReadCell, Curve!ReadHistory, Curve!ReadReports, Curve!WriteCurve
      <4>2. Curve!NoFile \in Seq(0..CurveAnchors)
        BY DEF Curve!NoFile
      <4> QED BY <4>1, <4>2 DEF CurveInv, Curve!TypeOK
    <3>4. v12' \in [Curve!Entries -> CurveSaid]
      BY <1>2 DEF Curve!ReadCell, Curve!ReadHistory, Curve!ReadReports, Curve!WriteCurve,
         CurveInv, Curve!TypeOK, Curve!NoReport, CurveSaid, Curve!Reports, Curve!None
    <3>5. v10' \in Curve!Checkpoints /\ v8' \in 0..CurveExtracts
      BY <1>2 DEF Curve!ReadCell, Curve!ReadHistory, Curve!ReadReports, Curve!WriteCurve,
         CurveInv, Curve!TypeOK, Curve!Checkpoints
    <3>6. /\ v7' \in {"idle", "history", "reports", "row", "write"}
          /\ v9' \in {"prepared", "running", "completed", "failed"}
      BY <1>2 DEF Curve!ReadCell, Curve!ReadHistory, Curve!ReadReports, Curve!WriteCurve,
         CurveInv, Curve!TypeOK
    <3> QED BY <2>1, <3>1, <3>2, <3>3, <3>4, <3>5, <3>6 DEF CurveInv, Curve!TypeOK, Curve!Cell,
               Curve!Reference, CurveSaid
  <2>5. Curve!HistoryInv'
    BY <2>1 DEF CurveInv, Curve!HistoryInv, Curve!Rounds, Curve!Cell
  <2>6. Curve!ReferenceInv'
    BY <2>1 DEF CurveInv, Curve!ReferenceInv, Curve!Within, Curve!Cell, Curve!Reference
  <2>7. Curve!RowsInv'
    <3>1. UNCHANGED <<v3, v4, v1, v2, v5, v15>>
      BY <2>1 DEF Curve!Cell, Curve!Reference
    <3>2. ASSUME NEW c \in Curve!Checkpoints
          PROVE  Curve!RowIsTrue(c, v13[c])' /\ Curve!RowIsTrue(c, v14[c])'
                   /\ Curve!RowIsTrue(c, v15[c])'
      <4>1. Curve!RowIsTrue(c, v13[c]) /\ Curve!RowIsTrue(c, v14[c]) /\ Curve!RowIsTrue(c, v15[c])
        BY DEF CurveInv, Curve!RowsInv
      <4>2. Curve!RowIsTrue(c, Curve!NoRows[c])
        BY <2>2 DEF Curve!RowIsTrue
      <4>3. Curve!RowIsTrue(c, v13'[c]) /\ Curve!RowIsTrue(c, v14'[c])
        BY <2>3, <4>1, <4>2
      <4> QED BY <3>1, <4>1, <4>3 DEF Curve!RowIsTrue
    <3>3. Curve!Rises(v13)' /\ Curve!Rises(v14)' /\ Curve!Rises(v15)'
      <4>1. Curve!Rises(Curve!NoRows)
        BY <2>2 DEF Curve!Rises
      <4>2. Curve!Rises(v13') /\ Curve!Rises(v14')
        BY <2>3, <4>1 DEF CurveInv, Curve!RowsInv
      <4> QED BY <3>1, <4>2 DEF CurveInv, Curve!RowsInv, Curve!Rises
    <3> QED BY <3>2, <3>3 DEF Curve!RowsInv
  <2>8. Curve!ReadInv'
    <3>1. UNCHANGED <<v3, v4, v1>>
      BY <2>1 DEF Curve!Cell
    <3>2. CASE Curve!ReadCell
      BY <2>2, <3>1, <3>2 DEF Curve!ReadCell, Curve!ReadInv
    <3>3. CASE Curve!ReadHistory
      <4>1. /\ v7' = "reports" /\ v11' = v3
            /\ UNCHANGED <<v9, v10, v12, v13>> /\ v7 = "history"
        BY <3>3 DEF Curve!ReadHistory
      <4>2. Len(v3) \in Nat
        BY CurveTypes DEF CurveInv
      <4>3. ASSUME NEW c \in 1..(v10 - 1), v13[c].status \in Curve!Shown
            PROVE  v13[c].count <= Len(v3)
        <5>1. c \in Curve!Checkpoints
          BY DEF CurveInv, Curve!TypeOK, Curve!Checkpoints
        <5> QED BY <4>2, <4>3, <5>1 DEF CurveInv, Curve!RowsInv, Curve!RowIsTrue
      <4> QED BY <3>1, <4>1, <4>2, <4>3 DEF CurveInv, Curve!ReadInv
    <3>4. CASE Curve!ReadReports
      <4>1. /\ v7' = "row" /\ v12' = v4
            /\ UNCHANGED <<v9, v10, v11, v13>> /\ v7 = "reports"
        BY <3>4 DEF Curve!ReadReports
      <4>2. ASSUME NEW c \in 1..(v10 - 1), v13[c].status \in Curve!Shown
            PROVE  v4[v13[c].best] = v13[c].said
        <5>1. c \in Curve!Checkpoints
          BY DEF CurveInv, Curve!TypeOK, Curve!Checkpoints
        <5> QED BY <4>2, <5>1 DEF CurveInv, Curve!RowsInv, Curve!RowIsTrue
      <4> QED BY <3>1, <4>1, <4>2 DEF CurveInv, Curve!ReadInv
    <3>5. CASE Curve!WriteCurve
      BY <2>2, <3>1, <3>5 DEF Curve!WriteCurve, Curve!ReadInv
    <3> QED BY <1>2, <3>2, <3>3, <3>4, <3>5
  <2> QED BY <2>4, <2>5, <2>6, <2>7, <2>8 DEF CurveInv
<1> QED BY <1>1, <1>2 DEF CurveReadStep

-----------------------------------------------------------------------------
LEMMA CurveCollectKeeps == ASSUME CurveInv, CurveCollectStep PROVE CurveInv'
<1> USE CurveNumbers
<1>1. UNCHANGED <<Curve!Cell, Curve!Extraction>>
  BY DEF CurveCollectStep, Curve!ReadCurve, Curve!Collect
<1>2. Curve!NoRows \in [Curve!Checkpoints -> Curve!Row] /\ \A c \in Curve!Checkpoints :
        Curve!NoRows[c].status \notin Curve!Shown
  BY CurveUnreadRow DEF Curve!NoRows, Curve!Shown
<1>3. v15' = v14 \/ v15' = Curve!NoRows
  BY DEF CurveCollectStep, Curve!ReadCurve, Curve!Collect
<1>4. \A c \in Curve!Checkpoints : Curve!RowIsTrue(c, v15[c]) /\ v15[c] \in Curve!Row
  BY DEF CurveInv, Curve!RowsInv, Curve!TypeOK
<1>5. v16' \in [Curve!Checkpoints -> CurveSaid] /\ Curve!ReferenceInv'
  <2>1. CASE Curve!ReadCurve
    BY <1>1, <2>1 DEF Curve!ReadCurve, CurveInv, Curve!TypeOK, Curve!ReferenceInv, Curve!Within,
       Curve!Cell, CurveSaid
  <2>2. CASE Curve!Collect
    <3> DEFINE top(b) == Curve!Max(Curve!Leading(b))
               F(b) == IF Curve!Eligible(b) = {} THEN Curve!None ELSE v15[top(b)].said
    <3>0. CurveValid \subseteq Curve!Reports /\ Curve!None \notin CurveValid
      BY CurveBounds DEF Curve!Reports, Curve!None
    <3>1. v16' = [b \in Curve!Checkpoints |-> F(b)]
      BY <2>2 DEF Curve!Collect
    <3>2. ASSUME NEW b \in Curve!Checkpoints, NEW c \in Curve!Eligible(b)
          PROVE  /\ c \in Curve!Checkpoints /\ c <= b /\ c >= 1
                 /\ v15[c].status = "available" /\ v15[c].strict
                 /\ v15[c].said \in CurveValid /\ CurvePoints[v15[c].said] \in 0..100
      <4>1. /\ c \in Curve!Checkpoints /\ c <= b /\ c >= 1
            /\ v15[c].status = "available" /\ v15[c].strict /\ v15[c].said \in CurveValid
        BY DEF Curve!Eligible, Curve!Checkpoints
      <4> QED BY <4>1, CurveBounds
    <3>3. ASSUME NEW b \in Curve!Checkpoints, Curve!Eligible(b) # {}
          PROVE  /\ top(b) \in Curve!Eligible(b)
                 /\ \A d \in Curve!Eligible(b) :
                      CurvePoints[v15[d].said] <= CurvePoints[v15[top(b)].said]
      <4> DEFINE P == {CurvePoints[v15[d].said] : d \in Curve!Eligible(b)}
      <4>1. P \subseteq 0..100 /\ P # {} /\ 100 \in Nat
        BY <3>2, <3>3
      <4>2. PICK x \in P : \A y \in P : y <= x
        <5> HIDE DEF P
        <5> QED BY <4>1, CurveBounded
      <4>3. PICK c \in Curve!Eligible(b) : x = CurvePoints[v15[c].said]
        BY <4>2
      <4>4. c \in Curve!Leading(b)
        BY <4>2, <4>3 DEF Curve!Leading
      <4>5. b \in Nat /\ Curve!Leading(b) \subseteq 0..b
        BY <3>2 DEF Curve!Leading, Curve!Checkpoints
      <4>6. top(b) \in Curve!Leading(b)
        BY <4>4, <4>5, CurveGreatestOf
      <4> QED BY <4>6 DEF Curve!Leading
    <3> HIDE DEF top
    <3>4. ASSUME NEW b \in Curve!Checkpoints PROVE F(b) \in CurveSaid
      <4>1. CASE Curve!Eligible(b) = {}
        BY <4>1 DEF CurveSaid
      <4>2. CASE Curve!Eligible(b) # {}
        BY <3>0, <3>2, <3>3, <4>2 DEF CurveSaid
      <4> QED BY <4>1, <4>2
    <3> HIDE DEF F
    <3>5. v16' \in [Curve!Checkpoints -> CurveSaid] /\ \A b \in Curve!Checkpoints :
            v16'[b] = F(b)
      BY <3>1, <3>4
    <3>6. ASSUME NEW b \in Curve!Checkpoints, F(b) # Curve!None
          PROVE  /\ F(b) \in CurveValid \cap CurveScaled
                 /\ \E i \in 1..Len(v3) : v4[i] = F(b) /\ Curve!Within(b, i)
                 /\ \A d \in b..Curve!Budget :
                      F(d) # Curve!None /\ CurvePoints[F(b)] <= CurvePoints[F(d)]
      <4>1. Curve!Eligible(b) # {}
        BY <3>6 DEF F
      <4>2. PICK c \in Curve!Eligible(b) : F(b) = v15[c].said
        BY <3>3, <4>1 DEF F
      <4>3. /\ c \in Curve!Checkpoints /\ c <= b /\ c >= 1
            /\ v15[c].status = "available" /\ v15[c].strict /\ v15[c].said \in CurveValid
        BY <3>2
      <4> DEFINE r == v15[c]
      <4>4. /\ r.count \in 1..Len(v3) /\ r.best \in 1..r.count
            /\ v4[r.best] = F(b) /\ F(b) \in CurveScaled
            /\ c = Curve!Budget => v1 = "completed" /\ v2
            /\ c # Curve!Budget => v3[r.count] = c /\ v5[c] = r.count
        BY <1>4, <4>2, <4>3 DEF Curve!RowIsTrue, Curve!Shown
      <4>5. Len(v3) \in Nat
        BY CurveTypes DEF CurveInv
      <4> HIDE DEF r
      <4>6. r.best \in 1..Len(v3)
        BY <4>4, <4>5
      <4>7. Curve!Within(b, r.best)
        <5>1. CASE c = Curve!Budget
          BY <4>3, <4>4, <5>1 DEF Curve!Within, Curve!Checkpoints, Curve!Budget
        <5>2. CASE c # Curve!Budget
          <6>1. c \in 1..CurveAnchors /\ c <= b /\ r.best <= r.count
            BY <4>3, <4>4, <5>2 DEF Curve!Checkpoints, Curve!Budget
          <6> QED BY <4>4, <5>2, <6>1 DEF Curve!Within
        <5> QED BY <5>1, <5>2
      <4>8. ASSUME NEW d \in b..Curve!Budget
            PROVE  F(d) # Curve!None /\ CurvePoints[F(b)] <= CurvePoints[F(d)]
        <5>1. d \in Curve!Checkpoints /\ Curve!Eligible(b) \subseteq Curve!Eligible(d)
          BY DEF Curve!Eligible, Curve!Checkpoints, Curve!Budget
        <5>2. c \in Curve!Eligible(d) /\ F(d) = v15[top(d)].said /\ top(d) \in Curve!Eligible(d)
          BY <3>3, <5>1 DEF F
        <5>3. F(d) \in CurveValid
          BY <3>2, <5>1, <5>2
        <5>4. F(d) # Curve!None
          BY <3>0, <5>3
        <5> QED BY <3>3, <4>2, <5>1, <5>2, <5>4
      <4> QED BY <4>2, <4>3, <4>4, <4>6, <4>7, <4>8
    <3>7. Curve!ReferenceInv'
      <4>1. \A b \in Curve!Checkpoints : \A d \in b..Curve!Budget : d \in Curve!Checkpoints
        BY DEF Curve!Checkpoints, Curve!Budget
      <4>2. UNCHANGED <<v3, v4, v5, v1, v2>>
        BY <1>1 DEF Curve!Cell
      <4>3. ASSUME NEW b \in Curve!Checkpoints, v16'[b] # Curve!None
            PROVE  /\ v16'[b] \in CurveValid \cap CurveScaled
                   /\ \E i \in 1..Len(v3) : v4[i] = v16'[b] /\ Curve!Within(b, i)
                   /\ \A d \in b..Curve!Budget :
                        v16'[d] # Curve!None /\ CurvePoints[v16'[b]] <= CurvePoints[v16'[d]]
        BY <3>5, <3>6, <4>1, <4>3
      <4> QED BY <4>2, <4>3 DEF Curve!ReferenceInv, Curve!Within
    <3> QED BY <3>5, <3>7
  <2> QED BY <2>1, <2>2 DEF CurveCollectStep
<1>6. Curve!TypeOK'
  <2>1. v2' \in BOOLEAN /\ v6' \in BOOLEAN
    BY <1>1 DEF CurveInv, Curve!TypeOK, Curve!Cell
  <2>2. v15' \in [Curve!Checkpoints -> Curve!Row]
    BY <1>2, <1>3 DEF CurveInv, Curve!TypeOK
  <2> QED BY <1>1, <1>5, <2>1, <2>2
          DEF CurveInv, Curve!TypeOK, Curve!Cell, Curve!Extraction, CurveSaid
<1>7. Curve!HistoryInv' /\ Curve!ReadInv'
  <2>1. Curve!HistoryInv'
    BY <1>1 DEF CurveInv, Curve!HistoryInv, Curve!Rounds, Curve!Cell
  <2>2. Curve!ReadInv'
    BY <1>1 DEF CurveInv, Curve!ReadInv, Curve!Cell, Curve!Extraction
  <2> QED BY <2>1, <2>2
<1>8. Curve!RowsInv'
  <2>1. UNCHANGED <<v3, v4, v1, v2, v5, v13, v14>>
    BY <1>1 DEF Curve!Cell, Curve!Extraction
  <2>2. ASSUME NEW c \in Curve!Checkpoints
        PROVE  Curve!RowIsTrue(c, v13[c])' /\ Curve!RowIsTrue(c, v14[c])'
                 /\ Curve!RowIsTrue(c, v15[c])'
    <3>1. Curve!RowIsTrue(c, v13[c]) /\ Curve!RowIsTrue(c, v14[c])
      BY DEF CurveInv, Curve!RowsInv
    <3>2. Curve!RowIsTrue(c, Curve!NoRows[c])
      BY <1>2 DEF Curve!RowIsTrue
    <3>3. Curve!RowIsTrue(c, v15'[c])
      BY <1>3, <3>1, <3>2
    <3> QED BY <2>1, <3>1, <3>3 DEF Curve!RowIsTrue
  <2>3. Curve!Rises(v13)' /\ Curve!Rises(v14)' /\ Curve!Rises(v15)'
    <3>1. Curve!Rises(Curve!NoRows)
      BY <1>2 DEF Curve!Rises
    <3>2. Curve!Rises(v15')
      BY <1>3, <3>1 DEF CurveInv, Curve!RowsInv
    <3> QED BY <2>1, <3>2 DEF CurveInv, Curve!RowsInv, Curve!Rises
  <2> QED BY <2>2, <2>3 DEF Curve!RowsInv
<1> QED BY <1>5, <1>6, <1>7, <1>8 DEF CurveInv

LEMMA CurveNextInv == CurveInv /\ (Curve!Next \/ UNCHANGED Curve!vars) => CurveInv'
<1> SUFFICES ASSUME CurveInv, Curve!Next \/ UNCHANGED Curve!vars PROVE CurveInv'
  OBVIOUS
<1>1. CASE Curve!Next
  BY <1>1, CurveGroups, CurveReadKeeps, CurveCollectKeeps, CurveCellKeeps
<1>2. CASE UNCHANGED Curve!vars
  <2> USE <1>2 DEF Curve!vars
  <2>1. Curve!TypeOK'
    BY DEF CurveInv, Curve!TypeOK
  <2>2. Curve!HistoryInv'
    BY DEF CurveInv, Curve!HistoryInv, Curve!Rounds
  <2>3. Curve!RowsInv'
    BY DEF CurveInv, Curve!RowsInv, Curve!RowIsTrue, Curve!Rises
  <2>4. Curve!ReadInv'
    BY DEF CurveInv, Curve!ReadInv
  <2>5. Curve!ReferenceInv'
    BY DEF CurveInv, Curve!ReferenceInv, Curve!Within
  <2> QED BY <2>1, <2>2, <2>3, <2>4, <2>5 DEF CurveInv
<1> QED BY <1>1, <1>2

\* The round of an entry has one position.
LEMMA CurveOnePosition ==
  ASSUME CurveInv, NEW p \in 1..Len(v3), v3[p] # 0
  PROVE  Curve!Position(v3[p]) = p
<1>1. \A i \in 1..Len(v3) : v3[i] = v3[p] => i = p
  BY CurveRoundsDiffer
<1> QED BY <1>1 DEF Curve!Position

LEMMA CurveSound == CurveInv => Curve!TypeOK /\ Curve!CurveIsSound
<1> SUFFICES ASSUME CurveInv PROVE Curve!CurveIsSound
  BY DEF CurveInv
<1>1. Curve!RowsKeepTheirBoundary
  <2> SUFFICES ASSUME NEW c \in Curve!Checkpoints, v14[c].status \in Curve!Shown
               PROVE  v14[c].count = IF c = Curve!Budget THEN Len(v3) ELSE Curve!Position(c)
    BY DEF Curve!RowsKeepTheirBoundary
  <2>1. /\ v14[c].count \in 1..Len(v3)
        /\ c = Curve!Budget => v14[c].count = Len(v3)
        /\ c # Curve!Budget => v3[v14[c].count] = c
    BY DEF CurveInv, Curve!RowsInv, Curve!RowIsTrue
  <2>2. c # 0
    BY DEF Curve!Checkpoints
  <2> QED BY <2>1, <2>2, CurveOnePosition
<1>2. Curve!ChoiceNeverWorsens
  BY DEF CurveInv, Curve!RowsInv, Curve!Rises, Curve!ChoiceNeverWorsens
<1>3. Curve!ReferenceIsWithin
  <2> SUFFICES ASSUME NEW b \in Curve!Checkpoints, v16[b] # Curve!None
               PROVE  \E i \in 1..Len(v3) :
                         /\ v4[i] = v16[b]
                         /\ \/ \E a \in 1..CurveAnchors :
                                 a <= b /\ v5[a] \in i..Len(v3) /\ v3[v5[a]] = a
                            \/ b = Curve!Budget /\ v2
    BY DEF Curve!ReferenceIsWithin, CurveInv, Curve!ReferenceInv
  <2>1. PICK i \in 1..Len(v3) : v4[i] = v16[b] /\ Curve!Within(b, i)
    BY DEF CurveInv, Curve!ReferenceInv
  <2>2. ASSUME NEW a \in 1..CurveAnchors, v5[a] \in 1..Len(v3), i <= v5[a]
        PROVE  v5[a] \in i..Len(v3)
    BY <2>2
  <2> QED BY <2>1, <2>2 DEF Curve!Within
<1> QED BY <1>1, <1>2, <1>3 DEF Curve!CurveIsSound

-----------------------------------------------------------------------------
(* The watcher of game cells within the bounds b (GameWatch). Here v1 is   *)
(* clock, v2 is campaign, v3 is launches, v4 is cell, v5 is snapshot, v6   *)
(* is meta, v7 is pc, v8 is parent, v9 is saw, v10 is saws, v11 is now,    *)
(* v12 is at, v13 is left, v14 is twice, v15 is lost.                      *)

LEMMA WatchBounded ==
  ASSUME NEW b \in WatchBounds
  PROVE  /\ b.cells \in Nat /\ b.watchers \in Nat /\ WatchCheckpoint \in Nat
              /\ WatchWindow \in Nat
         /\ WatchPass \in Nat /\ b.time \in Nat /\ b.launches \in Nat \ {0}
  BY ClockBounds DEF WatchBounds

WatchInv(b) ==
  /\ Watch(b)!TypeOK /\ Watch(b)!CellInv /\ Watch(b)!WatchersInv /\ Watch(b)!SnapshotInv
  /\ Watch(b)!AloneInv

\* The steps of a watcher, and those of the campaign.
WatchWatcherStep(b, w) ==
  \/ Watch(b)!Watch(w) \/ Watch(b)!LaunchWatcher(w) \/ Watch(b)!Spawn(w) \/ Watch(b)!NoteLaunch(w)
  \/ Watch(b)!ReadCampaign(w) \/ Watch(b)!ReadCells(w) \/ Watch(b)!ReadTorn(w)
       \/ Watch(b)!Visit(w)
  \/ Watch(b)!Capture(w) \/ Watch(b)!Remaining(w) \/ Watch(b)!Note(w) \/ Watch(b)!GiveUp(w)
       \/ Watch(b)!Wake(w) \/ Watch(b)!Kill(w)

\* What is known of one watcher, and of the others while it takes its step.
WatchOwn(b, w) == Watch(b)!PassInv(w) /\ Watch(b)!OverInv(w) /\ Watch(b)!LeftInv(w)
WatchSame(b, v) ==
  /\ v7'[v] = v7[v] /\ v9'[v] = v9[v] /\ v10'[v] = v10[v] /\ v11'[v] = v11[v]
  /\ v12'[v] = v12[v] /\ v13'[v] = v13[v]
WatchTaken(b) == \A c \in Watch(b)!Cells : v5'[c].is = "nothing" => v5[c].is = "nothing"
WatchOthers(b, w) ==
  /\ UNCHANGED <<v1, v2, v3, v4>> /\ WatchTaken(b)
  /\ \A v \in Watch(b)!Watchers : v # w => WatchSame(b, v)

-----------------------------------------------------------------------------
LEMMA WatchGivenUpSnapshot ==
  ASSUME NEW b \in WatchBounds
  PROVE  /\ Watch(b)!Unavailable \in Watch(b)!Snapshots
         /\ Watch(b)!Unavailable.is = "unavailable" /\ Watch(b)!Unavailable.strict = FALSE
<1>1. /\ Watch(b)!Nothing \in Watch(b)!Snapshots
      /\ Watch(b)!Nothing.strict = FALSE
  BY WatchBounded DEF Watch!Snapshots, Watch!Nothing, Watch!Never
<1> HIDE DEF Watch!Nothing
<1> QED BY <1>1 DEF Watch!Unavailable, Watch!Snapshots

LEMMA WatchInitInv ==
  ASSUME NEW b \in WatchBounds
  PROVE  Watch(b)!Init => WatchInv(b)
<1> SUFFICES ASSUME Watch(b)!Init PROVE WatchInv(b)
  OBVIOUS
<1> USE WatchBounded
<1>1. Watch(b)!TypeOK
  <2>1. v1 \in 0..b.time /\ v3 \in 1..b.launches /\ v2 \in {"running", "over"}
    BY DEF Watch!Init
  <2>2. v4 \in [Watch(b)!Cells -> Watch(b)!CellRecord]
    BY DEF Watch!Init, Watch!CellRecord, Watch!Never
  <2>3. v5 \in [Watch(b)!Cells -> Watch(b)!Snapshots]
    BY DEF Watch!Init, Watch!Snapshots, Watch!Nothing, Watch!Never
  <2>4. /\ v7 \in [Watch(b)!Watchers -> Watch(b)!Steps]
        /\ v8 \in [Watch(b)!Watchers -> BOOLEAN]
        /\ v9 \in [Watch(b)!Watchers -> {"running", "over"}]
    BY DEF Watch!Init, Watch!Steps, Watch!Pass, Watch!Ended
  <2>5. /\ v11 \in [Watch(b)!Watchers -> 0..b.time]
        /\ v12 \in [Watch(b)!Watchers -> 0..b.cells + 1]
        /\ v13 \in [Watch(b)!Watchers -> SUBSET Watch(b)!Cells]
        /\ v10 \in [Watch(b)!Watchers -> [Watch(b)!Cells -> {"prepared", "running", "over"}]]
    BY DEF Watch!Init
  <2>6. v6 \in {Watch(b)!Nobody} \cup Watch(b)!Watchers /\ v14 \in BOOLEAN
          /\ v15 \subseteq Watch(b)!Cells
    BY DEF Watch!Init
  <2> QED BY <2>1, <2>2, <2>3, <2>4, <2>5, <2>6 DEF Watch!TypeOK
<1>2. Watch(b)!CellInv
  BY DEF Watch!CellInv, Watch!Init
<1>3. Watch(b)!WatchersInv
  BY DEF Watch!Init, Watch!WatchersInv, Watch!PassInv, Watch!OverInv, Watch!LeftInv, Watch!Pass
<1>4. Watch(b)!SnapshotInv
  BY DEF Watch!Init, Watch!SnapshotInv, Watch!Nothing
<1>5. Watch(b)!AloneInv
  BY DEF Watch!Init, Watch!AloneInv, Watch!AtWork, Watch!Ended
<1> QED BY <1>1, <1>2, <1>3, <1>4, <1>5 DEF WatchInv

-----------------------------------------------------------------------------
\* The types, action by action.
LEMMA WatchTickTypes ==
  ASSUME NEW b \in WatchBounds,
         Watch(b)!TypeOK, Watch(b)!Tick
  PROVE  Watch(b)!TypeOK'
<1> USE WatchBounded
<1>1. UNCHANGED <<v2, v3, v4, v5, v6, v7, v8, v9, v10, v11,
                  v12, v13, v14, v15>>
  BY DEF Watch!Tick, Watch!Campaign, Watch!Seen, Watch!History
<1>2. v1' \in 0..b.time
  BY DEF Watch!TypeOK, Watch!Tick
<1> QED BY <1>1, <1>2 DEF Watch!TypeOK

LEMMA WatchEndCampaignTypes ==
  ASSUME NEW b \in WatchBounds,
         Watch(b)!TypeOK, Watch(b)!EndCampaign
  PROVE  Watch(b)!TypeOK'
<1> USE WatchBounded
<1>1. UNCHANGED <<v1, v3, v4, v5, v6, v7, v8, v9, v10, v11, v12,
                  v13, v14, v15>>
  BY DEF Watch!EndCampaign, Watch!Campaign, Watch!Seen, Watch!History
<1>2. v2' \in {"running", "over"}
  BY DEF Watch!TypeOK, Watch!EndCampaign
<1> QED BY <1>1, <1>2 DEF Watch!TypeOK

LEMMA WatchRelaunchTypes ==
  ASSUME NEW b \in WatchBounds,
         Watch(b)!TypeOK, Watch(b)!Relaunch
  PROVE  Watch(b)!TypeOK'
<1> USE WatchBounded
<1>1. UNCHANGED <<v1, v4, v5, v6, v7, v8, v9, v10, v11, v12, v13, v14, v15>>
  BY DEF Watch!Relaunch, Watch!Campaign, Watch!Seen, Watch!History
<1>2. v2' \in {"running", "over"}
  BY DEF Watch!TypeOK, Watch!Relaunch
<1>3. v3' \in 1..b.launches
  BY DEF Watch!TypeOK, Watch!Relaunch
<1> QED BY <1>1, <1>2, <1>3 DEF Watch!TypeOK

LEMMA WatchStartCellTypes ==
  ASSUME NEW b \in WatchBounds,
         Watch(b)!TypeOK, NEW c \in Watch(b)!Cells, Watch(b)!StartCell(c)
  PROVE  Watch(b)!TypeOK'
<1> USE WatchBounded
<1>1. UNCHANGED <<v1, v2, v3, v5, v6, v7, v8, v9, v10, v11,
                  v12, v13, v14, v15>>
  BY DEF Watch!StartCell, Watch!Campaign, Watch!Seen, Watch!History
<1>2. v4' \in [Watch(b)!Cells -> Watch(b)!CellRecord]
  BY DEF Watch!TypeOK, Watch!StartCell, Watch!CellRecord, Watch!Never
<1> QED BY <1>1, <1>2 DEF Watch!TypeOK

LEMMA WatchEndCellTypes ==
  ASSUME NEW b \in WatchBounds,
         Watch(b)!TypeOK, NEW c \in Watch(b)!Cells, Watch(b)!EndCell(c)
  PROVE  Watch(b)!TypeOK'
<1> USE WatchBounded
<1>1. UNCHANGED <<v1, v2, v3, v5, v6, v7, v8, v9, v10, v11,
                  v12, v13, v14, v15>>
  BY DEF Watch!EndCell, Watch!Campaign, Watch!Seen, Watch!History
<1>2. v4' \in [Watch(b)!Cells -> Watch(b)!CellRecord]
  BY DEF Watch!TypeOK, Watch!EndCell, Watch!CellRecord, Watch!Never
<1> QED BY <1>1, <1>2 DEF Watch!TypeOK

LEMMA WatchWatchTypes ==
  ASSUME NEW b \in WatchBounds,
         Watch(b)!TypeOK, NEW w \in Watch(b)!Watchers, Watch(b)!Watch(w)
  PROVE  Watch(b)!TypeOK'
<1> USE WatchBounded
<1>1. UNCHANGED <<v1, v2, v3, v4, v5, v6, v8, v9, v10,
                  v11, v12, v13, v15>>
  BY DEF Watch!Watch, Watch!Campaign, Watch!Seen, Watch!History
<1>2. v7' \in [Watch(b)!Watchers -> Watch(b)!Steps]
  BY DEF Watch!TypeOK, Watch!Watch, Watch!Go, Watch!Steps, Watch!Pass, Watch!Ended
<1>3. v14' \in BOOLEAN
  BY DEF Watch!TypeOK, Watch!Watch, Watch!Begins
<1> QED BY <1>1, <1>2, <1>3 DEF Watch!TypeOK

LEMMA WatchLaunchWatcherTypes ==
  ASSUME NEW b \in WatchBounds,
         Watch(b)!TypeOK, NEW w \in Watch(b)!Watchers, Watch(b)!LaunchWatcher(w)
  PROVE  Watch(b)!TypeOK'
<1> USE WatchBounded
<1>1. UNCHANGED <<v1, v2, v3, v4, v5, v6, v8, v9, v10,
                  v11, v12, v13, v14, v15>>
  BY DEF Watch!LaunchWatcher, Watch!Campaign, Watch!Seen, Watch!History
<1>2. v7' \in [Watch(b)!Watchers -> Watch(b)!Steps]
  BY DEF Watch!TypeOK, Watch!LaunchWatcher, Watch!Go, Watch!Steps, Watch!Pass, Watch!Ended
<1> QED BY <1>1, <1>2 DEF Watch!TypeOK

LEMMA WatchSpawnTypes ==
  ASSUME NEW b \in WatchBounds,
         Watch(b)!TypeOK, NEW w \in Watch(b)!Watchers, Watch(b)!Spawn(w)
  PROVE  Watch(b)!TypeOK'
<1> USE WatchBounded
<1>1. UNCHANGED <<v1, v2, v3, v4, v5, v6, v9, v10, v11, v12, v13, v15>>
  BY DEF Watch!Spawn, Watch!Campaign, Watch!Seen, Watch!History
<1>2. v7' \in [Watch(b)!Watchers -> Watch(b)!Steps]
  BY DEF Watch!TypeOK, Watch!Spawn, Watch!Go, Watch!Steps, Watch!Pass, Watch!Ended
<1>3. v8' \in [Watch(b)!Watchers -> BOOLEAN]
  BY DEF Watch!TypeOK, Watch!Spawn
<1>4. v14' \in BOOLEAN
  BY DEF Watch!TypeOK, Watch!Spawn, Watch!Begins
<1> QED BY <1>1, <1>2, <1>3, <1>4 DEF Watch!TypeOK

LEMMA WatchNoteLaunchTypes ==
  ASSUME NEW b \in WatchBounds,
         Watch(b)!TypeOK, NEW w \in Watch(b)!Watchers, Watch(b)!NoteLaunch(w)
  PROVE  Watch(b)!TypeOK'
<1> USE WatchBounded
<1>1. UNCHANGED <<v1, v2, v3, v4, v5, v7, v9, v10, v11, v12,
                  v13, v14, v15>>
  BY DEF Watch!NoteLaunch, Watch!Campaign, Watch!Seen, Watch!History
<1>2. v8' \in [Watch(b)!Watchers -> BOOLEAN]
  BY DEF Watch!TypeOK, Watch!NoteLaunch
<1>3. v6' \in {Watch(b)!Nobody} \cup Watch(b)!Watchers
  BY DEF Watch!TypeOK, Watch!NoteLaunch
<1> QED BY <1>1, <1>2, <1>3 DEF Watch!TypeOK

LEMMA WatchReadCampaignTypes ==
  ASSUME NEW b \in WatchBounds,
         Watch(b)!TypeOK, NEW w \in Watch(b)!Watchers, Watch(b)!ReadCampaign(w)
  PROVE  Watch(b)!TypeOK'
<1> USE WatchBounded
<1>1. UNCHANGED <<v1, v2, v3, v4, v5, v6, v8, v10, v11, v12,
                  v13, v14, v15>>
  BY DEF Watch!ReadCampaign, Watch!Campaign, Watch!Seen, Watch!History
<1>2. v7' \in [Watch(b)!Watchers -> Watch(b)!Steps]
  BY DEF Watch!TypeOK, Watch!ReadCampaign, Watch!Go, Watch!Steps, Watch!Pass, Watch!Ended
<1>3. v9' \in [Watch(b)!Watchers -> {"running", "over"}]
  BY DEF Watch!TypeOK, Watch!ReadCampaign
<1> QED BY <1>1, <1>2, <1>3 DEF Watch!TypeOK

LEMMA WatchReadCellsTypes ==
  ASSUME NEW b \in WatchBounds,
         Watch(b)!TypeOK, NEW w \in Watch(b)!Watchers, Watch(b)!ReadCells(w)
  PROVE  Watch(b)!TypeOK'
<1> USE WatchBounded
<1>1. UNCHANGED <<v1, v2, v3, v4, v5, v6, v8, v9, v13, v14, v15>>
  BY DEF Watch!ReadCells, Watch!Campaign, Watch!Seen, Watch!History
<1>2. v7' \in [Watch(b)!Watchers -> Watch(b)!Steps]
  BY DEF Watch!TypeOK, Watch!ReadCells, Watch!Go, Watch!Steps, Watch!Pass, Watch!Ended
<1>3. v10' \in [Watch(b)!Watchers -> [Watch(b)!Cells -> {"prepared", "running", "over"}]]
  BY DEF Watch!TypeOK, Watch!ReadCells, Watch!CellRecord
<1>4. v11' \in [Watch(b)!Watchers -> 0..b.time]
  BY DEF Watch!TypeOK, Watch!ReadCells
<1>5. v12' \in [Watch(b)!Watchers -> 0..b.cells + 1]
  BY DEF Watch!TypeOK, Watch!ReadCells
<1> QED BY <1>1, <1>2, <1>3, <1>4, <1>5 DEF Watch!TypeOK

LEMMA WatchReadTornTypes ==
  ASSUME NEW b \in WatchBounds,
         Watch(b)!TypeOK, NEW w \in Watch(b)!Watchers, Watch(b)!ReadTorn(w)
  PROVE  Watch(b)!TypeOK'
<1> USE WatchBounded
<1>1. UNCHANGED <<v1, v2, v3, v4, v5, v6, v8, v14, v15>>
  BY DEF Watch!ReadTorn, Watch!Campaign, Watch!Seen, Watch!History
<1>2. v7' \in [Watch(b)!Watchers -> Watch(b)!Steps]
  BY DEF Watch!TypeOK, Watch!ReadTorn, Watch!Go, Watch!Steps, Watch!Pass, Watch!Ended
<1>3. v9' \in [Watch(b)!Watchers -> {"running", "over"}]
  BY DEF Watch!TypeOK, Watch!ReadTorn, Watch!Forget
<1>4. v10' \in [Watch(b)!Watchers -> [Watch(b)!Cells -> {"prepared", "running", "over"}]]
  BY DEF Watch!TypeOK, Watch!ReadTorn, Watch!Forget, Watch!Fresh
<1>5. v11' \in [Watch(b)!Watchers -> 0..b.time]
  BY DEF Watch!TypeOK, Watch!ReadTorn, Watch!Forget
<1>6. v12' \in [Watch(b)!Watchers -> 0..b.cells + 1]
  BY DEF Watch!TypeOK, Watch!ReadTorn, Watch!Forget
<1>7. v13' \in [Watch(b)!Watchers -> SUBSET Watch(b)!Cells]
  BY DEF Watch!TypeOK, Watch!ReadTorn, Watch!Forget
<1> QED BY <1>1, <1>2, <1>3, <1>4, <1>5, <1>6, <1>7 DEF Watch!TypeOK

LEMMA WatchVisitTypes ==
  ASSUME NEW b \in WatchBounds,
         Watch(b)!TypeOK, NEW w \in Watch(b)!Watchers, Watch(b)!Visit(w)
  PROVE  Watch(b)!TypeOK'
<1> USE WatchBounded
<1> DEFINE c == v12[w]
<1>1. UNCHANGED <<v1, v2, v3, v4, v6, v8, v9, v10, v11, v13, v14>>
  BY DEF Watch!Visit, Watch!Campaign
<1>2. c \in Watch(b)!Cells /\ c + 1 \in 0..b.cells + 1
  BY DEF Watch!Visit, Watch!Cells
<1>3. v7' \in [Watch(b)!Watchers -> Watch(b)!Steps]
  <2>1. v7' = v7 \/ v7' = [v7 EXCEPT ![w] = "write"]
    BY DEF Watch!Visit, Watch!Go
  <2> QED BY <2>1 DEF Watch!TypeOK, Watch!Steps, Watch!Pass
<1>4. v12' \in [Watch(b)!Watchers -> 0..b.cells + 1]
  <2>1. v12' = v12 \/ v12' = [v12 EXCEPT ![w] = c + 1]
    BY DEF Watch!Visit
  <2> HIDE DEF c
  <2> QED BY <1>2, <2>1 DEF Watch!TypeOK
<1>5. v5' \in [Watch(b)!Cells -> Watch(b)!Snapshots]
  <2>1. v5' = v5 \/ v5' = [v5 EXCEPT ![c] = Watch(b)!Unavailable]
    BY DEF Watch!Visit, Watch!Put
  <2> HIDE DEF c
  <2> QED BY <1>2, <2>1, WatchGivenUpSnapshot DEF Watch!TypeOK
<1>6. v15' \subseteq Watch(b)!Cells
  BY <1>2 DEF Watch!Visit, Watch!Put, Watch!TypeOK
<1> QED BY <1>1, <1>3, <1>4, <1>5, <1>6 DEF Watch!TypeOK

LEMMA WatchCaptureTypes ==
  ASSUME NEW b \in WatchBounds,
         Watch(b)!TypeOK, NEW w \in Watch(b)!Watchers, Watch(b)!PassInv(w), Watch(b)!Capture(w)
  PROVE  Watch(b)!TypeOK'
<1> USE WatchBounded
<1> DEFINE c == v12[w]
<1>0. c \in Watch(b)!Cells
  BY DEF Watch!PassInv, Watch!Capture
<1>1. UNCHANGED <<v1, v2, v3, v4, v6, v8, v9, v10, v11, v13, v14>>
  BY DEF Watch!Capture, Watch!Campaign, Watch!Seen, Watch!History, Watch!Put
<1>2. v7' \in [Watch(b)!Watchers -> Watch(b)!Steps]
  BY <1>0 DEF Watch!TypeOK, Watch!Capture, Watch!Go, Watch!Steps, Watch!Pass, Watch!Ended
<1>3. v5' \in [Watch(b)!Cells -> Watch(b)!Snapshots]
  <2> DEFINE s == [is |-> "taken", read |-> v1, strict |-> Watch(b)!Strict(w, c)]
  <2>1. s \in Watch(b)!Snapshots
    <3>1. Watch(b)!Strict(w, c) \in BOOLEAN
      BY DEF Watch!Strict
    <3>2. v1 \in 0..Watch(b)!Never
      BY DEF Watch!TypeOK, Watch!Never
    <3> QED BY <3>1, <3>2 DEF Watch!Snapshots
  <2>2. v5' = [v5 EXCEPT ![c] = s]
    BY DEF Watch!Capture, Watch!Put
  <2> HIDE DEF s
  <2> QED BY <1>0, <2>1, <2>2 DEF Watch!TypeOK
<1>4. v12' \in [Watch(b)!Watchers -> 0..b.cells + 1]
  BY <1>0 DEF Watch!TypeOK, Watch!Capture, Watch!Cells
<1>5. v15' \subseteq Watch(b)!Cells
  BY <1>0 DEF Watch!TypeOK, Watch!Capture, Watch!Put
<1> QED BY <1>1, <1>2, <1>3, <1>4, <1>5 DEF Watch!TypeOK

LEMMA WatchRemainingTypes ==
  ASSUME NEW b \in WatchBounds,
         Watch(b)!TypeOK, NEW w \in Watch(b)!Watchers, Watch(b)!Remaining(w)
  PROVE  Watch(b)!TypeOK'
<1> USE WatchBounded
<1>1. UNCHANGED <<v1, v2, v3, v4, v5, v6, v8, v9, v10,
                  v11, v12, v14, v15>>
  BY DEF Watch!Remaining, Watch!Campaign, Watch!Seen, Watch!History
<1>2. v7' \in [Watch(b)!Watchers -> Watch(b)!Steps]
  BY DEF Watch!TypeOK, Watch!Remaining, Watch!Go, Watch!Steps, Watch!Pass, Watch!Ended
<1>3. v13' \in [Watch(b)!Watchers -> SUBSET Watch(b)!Cells]
  BY DEF Watch!TypeOK, Watch!Remaining
<1> QED BY <1>1, <1>2, <1>3 DEF Watch!TypeOK

LEMMA WatchNoteTypes ==
  ASSUME NEW b \in WatchBounds,
         Watch(b)!TypeOK, NEW w \in Watch(b)!Watchers, Watch(b)!Note(w)
  PROVE  Watch(b)!TypeOK'
<1> USE WatchBounded
<1>1. UNCHANGED <<v1, v2, v3, v4, v5, v8, v14, v15>>
  BY DEF Watch!Note, Watch!Campaign, Watch!Seen, Watch!History
<1>2. v7' \in [Watch(b)!Watchers -> Watch(b)!Steps]
  BY DEF Watch!TypeOK, Watch!Note, Watch!Go, Watch!Steps, Watch!Pass, Watch!Ended
<1>3. v6' \in {Watch(b)!Nobody} \cup Watch(b)!Watchers
  BY DEF Watch!TypeOK, Watch!Note
<1>4. v9' \in [Watch(b)!Watchers -> {"running", "over"}]
  BY DEF Watch!TypeOK, Watch!Note, Watch!Forget, Watch!Seen
<1>5. v10' \in [Watch(b)!Watchers -> [Watch(b)!Cells -> {"prepared", "running", "over"}]]
  BY DEF Watch!TypeOK, Watch!Note, Watch!Forget, Watch!Fresh, Watch!Seen
<1>6. v11' \in [Watch(b)!Watchers -> 0..b.time]
  BY DEF Watch!TypeOK, Watch!Note, Watch!Forget, Watch!Seen
<1>7. v12' \in [Watch(b)!Watchers -> 0..b.cells + 1]
  BY DEF Watch!TypeOK, Watch!Note, Watch!Forget, Watch!Seen
<1>8. v13' \in [Watch(b)!Watchers -> SUBSET Watch(b)!Cells]
  BY DEF Watch!TypeOK, Watch!Note, Watch!Forget, Watch!Seen
<1> QED BY <1>1, <1>2, <1>3, <1>4, <1>5, <1>6, <1>7, <1>8 DEF Watch!TypeOK

LEMMA WatchGiveUpTypes ==
  ASSUME NEW b \in WatchBounds,
         Watch(b)!TypeOK, NEW w \in Watch(b)!Watchers, Watch(b)!GiveUp(w)
  PROVE  Watch(b)!TypeOK'
<1> USE WatchBounded
<1>1. UNCHANGED <<v1, v2, v3, v4, v6, v8, v14>>
  BY DEF Watch!GiveUp, Watch!Campaign
<1>4. /\ v9' \in [Watch(b)!Watchers -> {"running", "over"}]
      /\ v11' \in [Watch(b)!Watchers -> 0..b.time]
      /\ v12' \in [Watch(b)!Watchers -> 0..b.cells + 1]
      /\ v13' \in [Watch(b)!Watchers -> SUBSET Watch(b)!Cells]
      /\ v10' \in [Watch(b)!Watchers -> [Watch(b)!Cells -> {"prepared", "running", "over"}]]
  <2>1. CASE Watch(b)!Forget(w)
    <3>1. /\ v9' \in [Watch(b)!Watchers -> {"running", "over"}]
          /\ v11' \in [Watch(b)!Watchers -> 0..b.time]
          /\ v12' \in [Watch(b)!Watchers -> 0..b.cells + 1]
          /\ v13' \in [Watch(b)!Watchers -> SUBSET Watch(b)!Cells]
      BY <2>1, WatchBounded DEF Watch!Forget, Watch!TypeOK
    <3>2. Watch(b)!Fresh \in [Watch(b)!Cells -> {"prepared", "running", "over"}]
      BY DEF Watch!Fresh
    <3>3. v10' \in [Watch(b)!Watchers -> [Watch(b)!Cells -> {"prepared", "running", "over"}]]
      BY <2>1, <3>2 DEF Watch!Forget, Watch!TypeOK
    <3> QED BY <3>1, <3>3
  <2>2. CASE UNCHANGED <<v9, v10, v11, v12>> /\ \E c \in v13[w] :
          v13' = [v13 EXCEPT ![w] = @ \ {c}]
    <3>1. v13' \in [Watch(b)!Watchers -> SUBSET Watch(b)!Cells]
      BY <2>2 DEF Watch!TypeOK
    <3> QED BY <2>2, <3>1 DEF Watch!TypeOK
  <2> QED BY <2>1, <2>2 DEF Watch!GiveUp
<1>5. v7' \in [Watch(b)!Watchers -> Watch(b)!Steps]
  <2>1. v7' = v7 \/ v7' = [v7 EXCEPT ![w] = "over"]
    BY DEF Watch!GiveUp, Watch!Go
  <2> QED BY <2>1 DEF Watch!TypeOK, Watch!Steps, Watch!Ended
<1>6. v5' \in [Watch(b)!Cells -> Watch(b)!Snapshots]
  <2>1. v5' = v5 \/ \E c \in Watch(b)!Cells : v5' = [v5 EXCEPT ![c] = Watch(b)!Unavailable]
    BY DEF Watch!GiveUp, Watch!Put, Watch!TypeOK
  <2> QED BY <2>1, WatchGivenUpSnapshot DEF Watch!TypeOK
<1>7. v15' \subseteq Watch(b)!Cells
  BY DEF Watch!GiveUp, Watch!Put, Watch!TypeOK
<1> QED BY <1>1, <1>4, <1>5, <1>6, <1>7 DEF Watch!TypeOK

LEMMA WatchWakeTypes ==
  ASSUME NEW b \in WatchBounds,
         Watch(b)!TypeOK, NEW w \in Watch(b)!Watchers, Watch(b)!Wake(w)
  PROVE  Watch(b)!TypeOK'
<1> USE WatchBounded
<1>1. UNCHANGED <<v1, v2, v3, v4, v5, v6, v8, v9, v10,
                  v11, v12, v13, v14, v15>>
  BY DEF Watch!Wake, Watch!Campaign, Watch!Seen, Watch!History
<1>2. v7' \in [Watch(b)!Watchers -> Watch(b)!Steps]
  BY DEF Watch!TypeOK, Watch!Wake, Watch!Go, Watch!Steps, Watch!Pass, Watch!Ended
<1> QED BY <1>1, <1>2 DEF Watch!TypeOK

LEMMA WatchKillTypes ==
  ASSUME NEW b \in WatchBounds,
         Watch(b)!TypeOK, NEW w \in Watch(b)!Watchers, Watch(b)!Kill(w)
  PROVE  Watch(b)!TypeOK'
<1> USE WatchBounded
<1>1. UNCHANGED <<v1, v2, v3, v4, v5, v6, v8, v14, v15>>
  BY DEF Watch!Kill, Watch!Campaign, Watch!Seen, Watch!History
<1>2. v7' \in [Watch(b)!Watchers -> Watch(b)!Steps]
  BY DEF Watch!TypeOK, Watch!Kill, Watch!Go, Watch!Steps, Watch!Pass, Watch!Ended
<1>3. v9' \in [Watch(b)!Watchers -> {"running", "over"}]
  BY DEF Watch!TypeOK, Watch!Kill, Watch!Forget
<1>4. v10' \in [Watch(b)!Watchers -> [Watch(b)!Cells -> {"prepared", "running", "over"}]]
  BY DEF Watch!TypeOK, Watch!Kill, Watch!Forget, Watch!Fresh
<1>5. v11' \in [Watch(b)!Watchers -> 0..b.time]
  BY DEF Watch!TypeOK, Watch!Kill, Watch!Forget
<1>6. v12' \in [Watch(b)!Watchers -> 0..b.cells + 1]
  BY DEF Watch!TypeOK, Watch!Kill, Watch!Forget
<1>7. v13' \in [Watch(b)!Watchers -> SUBSET Watch(b)!Cells]
  BY DEF Watch!TypeOK, Watch!Kill, Watch!Forget
<1> QED BY <1>1, <1>2, <1>3, <1>4, <1>5, <1>6, <1>7 DEF Watch!TypeOK

\* A watcher's step leaves what is known of the others.
LEMMA WatchOthersKeep ==
  ASSUME NEW b \in WatchBounds,
         NEW w \in Watch(b)!Watchers, Watch(b)!WatchersInv, WatchOthers(b, w), WatchOwn(b, w)'
  PROVE  Watch(b)!WatchersInv'
<1> SUFFICES ASSUME NEW v \in Watch(b)!Watchers, v # w
      PROVE (Watch(b)!PassInv(v) /\ Watch(b)!OverInv(v) /\ Watch(b)!LeftInv(v))'
  BY DEF Watch!WatchersInv, WatchOwn
<1>1. Watch(b)!PassInv(v) /\ Watch(b)!OverInv(v) /\ Watch(b)!LeftInv(v) /\ WatchSame(b, v)
  BY DEF Watch!WatchersInv, WatchOthers
<1>2. UNCHANGED <<v1, v2, v3, v4>> /\ WatchTaken(b)
  BY DEF WatchOthers
<1>3. Watch(b)!PassInv(v)'
  BY <1>1, <1>2 DEF Watch!PassInv, WatchSame, Watch!Passed
<1>4. Watch(b)!OverInv(v)'
  BY <1>1, <1>2 DEF Watch!OverInv, WatchSame, WatchTaken
<1>5. Watch(b)!LeftInv(v)'
  BY <1>1, <1>2 DEF Watch!LeftInv, WatchSame, WatchTaken
<1> QED BY <1>3, <1>4, <1>5

LEMMA WatchCellsKeep ==
  ASSUME NEW b \in WatchBounds,
         Watch(b)!CellInv, UNCHANGED <<v1, v2, v3, v4>>
  PROVE  Watch(b)!CellInv'
  BY DEF Watch!CellInv

LEMMA WatchSnapshotsKeep ==
  ASSUME NEW b \in WatchBounds,
         Watch(b)!SnapshotInv, UNCHANGED <<v2, v3, v4, v5>>
  PROVE  Watch(b)!SnapshotInv'
  BY DEF Watch!SnapshotInv

-----------------------------------------------------------------------------
\* The campaign's steps.
LEMMA WatchTickInv ==
  ASSUME NEW b \in WatchBounds,
         WatchInv(b), Watch(b)!Tick
  PROVE  WatchInv(b)'
<1> USE WatchBounded
<1>1. Watch(b)!TypeOK'
  BY WatchTickTypes DEF WatchInv
<1>2. /\ UNCHANGED <<v2, v3, v4, v5, v6, v7, v8, v9, v10, v11, v12, v13,
                     v14, v15>>
      /\ v1' = v1 + 1
      /\ \A w \in Watch(b)!Watchers : v7[w] \in Watch(b)!Pass \ {"cells"} =>
           v1 < v11[w] + WatchPass
  BY DEF Watch!Tick, Watch!Campaign, Watch!Seen, Watch!History
<1>3. v1 \in Nat /\ v11 \in [Watch(b)!Watchers -> Nat]
      /\ \A c \in Watch(b)!Cells : v4[c].start \in Nat /\ v4[c].end \in Nat
  BY DEF WatchInv, Watch!TypeOK, Watch!CellRecord, Watch!Never
<1>4. Watch(b)!CellInv'
  BY <1>2, <1>3 DEF Watch!CellInv, WatchInv
<1>5. \A w \in Watch(b)!Watchers : Watch(b)!PassInv(w)'
  <2> SUFFICES ASSUME NEW w \in Watch(b)!Watchers PROVE Watch(b)!PassInv(w)'
    OBVIOUS
  <2>1. Watch(b)!PassInv(w)
    BY DEF WatchInv, Watch!WatchersInv
  <2>2. v11[w] \in Nat
    BY <1>3
  <2>3. v7[w] \in Watch(b)!Pass \ {"cells"} => v11[w] <= v1' /\ v1' <= v11[w] + WatchPass
    BY <1>2, <1>3, <2>1, <2>2 DEF Watch!PassInv
  <2> QED BY <1>2, <2>1, <2>3 DEF Watch!PassInv, Watch!Passed
<1>6. \A w \in Watch(b)!Watchers : Watch(b)!OverInv(w)' /\ Watch(b)!LeftInv(w)'
  BY <1>2 DEF WatchInv, Watch!WatchersInv, Watch!OverInv, Watch!LeftInv
<1>7. Watch(b)!SnapshotInv' /\ Watch(b)!AloneInv'
  BY <1>2 DEF WatchInv, Watch!SnapshotInv, Watch!AloneInv, Watch!AtWork
<1> QED BY <1>1, <1>4, <1>5, <1>6, <1>7 DEF WatchInv, Watch!WatchersInv

\* A step of the campaign leaves what has been read, written down and noted.
WatchUnread(b) == UNCHANGED <<v1, v5, v6, v7, v8, v9, v10, v11, v12, v13, v14, v15>>

LEMMA WatchCampaignAlone ==
  ASSUME NEW b \in WatchBounds,
         WatchInv(b), WatchUnread(b)
  PROVE  (\A w \in Watch(b)!Watchers : Watch(b)!LeftInv(w))' /\ Watch(b)!AloneInv'
  BY DEF WatchInv, WatchUnread, Watch!WatchersInv, Watch!LeftInv, Watch!AloneInv, Watch!AtWork

LEMMA WatchEndCampaignInv ==
  ASSUME NEW b \in WatchBounds,
         WatchInv(b), Watch(b)!EndCampaign
  PROVE  WatchInv(b)'
<1>1. Watch(b)!TypeOK'
  BY WatchEndCampaignTypes DEF WatchInv
<1>2. WatchUnread(b) /\ UNCHANGED <<v3, v4>> /\ v2 = "running" /\ v2' = "over"
  BY DEF Watch!EndCampaign, Watch!Seen, Watch!History, WatchUnread
<1>3. Watch(b)!CellInv'
  BY <1>2 DEF Watch!EndCampaign, Watch!CellInv, WatchInv, WatchUnread
<1>4. \A w \in Watch(b)!Watchers : Watch(b)!PassInv(w)'
  BY <1>2 DEF WatchUnread, WatchInv, Watch!WatchersInv, Watch!PassInv, Watch!Passed
<1>5. \A w \in Watch(b)!Watchers : Watch(b)!OverInv(w)'
  BY <1>2 DEF WatchUnread, WatchInv, Watch!WatchersInv, Watch!OverInv
<1>6. Watch(b)!SnapshotInv'
  BY <1>2 DEF WatchUnread, WatchInv, Watch!SnapshotInv
<1> QED BY <1>1, <1>2, <1>3, <1>4, <1>5, <1>6, WatchCampaignAlone DEF WatchInv, Watch!WatchersInv

LEMMA WatchRelaunchInv ==
  ASSUME NEW b \in WatchBounds,
         WatchInv(b), Watch(b)!Relaunch
  PROVE  WatchInv(b)'
<1>1. Watch(b)!TypeOK'
  BY WatchRelaunchTypes DEF WatchInv
<1>2. WatchUnread(b) /\ UNCHANGED v4 /\ v2 = "over" /\ v2' = "running" /\ v3' = v3 + 1
  BY DEF Watch!Relaunch, Watch!Seen, Watch!History, WatchUnread
<1>3. v3' # 1
  BY <1>2, WatchBounded DEF WatchInv, Watch!TypeOK
<1>4. Watch(b)!CellInv'
  BY <1>2 DEF Watch!CellInv, WatchInv, WatchUnread
<1>5. \A w \in Watch(b)!Watchers : Watch(b)!PassInv(w)'
  BY <1>2 DEF WatchUnread, WatchInv, Watch!WatchersInv, Watch!PassInv, Watch!Passed
<1>6. \A w \in Watch(b)!Watchers : Watch(b)!OverInv(w)'
  BY <1>3 DEF Watch!OverInv
<1>7. Watch(b)!SnapshotInv'
  BY <1>2, <1>3 DEF WatchUnread, WatchInv, Watch!SnapshotInv
<1> QED BY <1>1, <1>2, <1>4, <1>5, <1>6, <1>7, WatchCampaignAlone DEF WatchInv, Watch!WatchersInv

\* One cell moves on, while the campaign is running.
LEMMA WatchCellStepInv ==
  ASSUME NEW b \in WatchBounds,
         WatchInv(b), NEW c \in Watch(b)!Cells, Watch(b)!StartCell(c) \/ Watch(b)!EndCell(c)
  PROVE  WatchInv(b)'
<1> USE WatchBounded
<1>1. Watch(b)!TypeOK'
  BY WatchStartCellTypes, WatchEndCellTypes DEF WatchInv
<1>2. WatchUnread(b) /\ UNCHANGED <<v2, v3>>
  BY DEF Watch!StartCell, Watch!EndCell, Watch!Seen, Watch!History, WatchUnread
<1>3. v2 # "over"
  BY DEF Watch!StartCell, Watch!EndCell, WatchInv, Watch!CellInv, Watch!TypeOK
<1>4. \A d \in Watch(b)!Cells : d # c => v4'[d] = v4[d]
  BY DEF Watch!StartCell, Watch!EndCell, WatchInv, Watch!TypeOK
<1>5. \/ /\ v4[c].is = "prepared" /\ v4'[c].is = "running" /\ v4'[c].start = v1
      \/ /\ v4[c].is = "running" /\ v4'[c].is = "over"
         /\ v4'[c].start = v4[c].start /\ v4'[c].end = v1
  BY DEF Watch!StartCell, Watch!EndCell, WatchInv, Watch!TypeOK
<1>6. v1 \in Nat /\ v4[c].start \in Nat /\ (v4[c].is = "prepared" => v4[c].start = Watch(b)!Never)
      /\ (v4[c].is = "running" => v4[c].start <= v1)
  BY DEF WatchInv, Watch!TypeOK, Watch!CellRecord, Watch!CellInv, Watch!Never
<1>7. Watch(b)!CellInv'
  <2>1. v4'[c].is # "prepared" /\ v4'[c].start <= v1
        /\ (v4'[c].is = "over" => v4'[c].end <= v1)
    BY <1>5, <1>6
  <2> QED BY <1>2, <1>3, <1>4, <2>1 DEF WatchInv, Watch!CellInv, WatchUnread
<1>8. \A w \in Watch(b)!Watchers : Watch(b)!PassInv(w)'
  <2> SUFFICES ASSUME NEW w \in Watch(b)!Watchers PROVE Watch(b)!PassInv(w)'
    OBVIOUS
  <2>1. Watch(b)!PassInv(w)
    BY DEF WatchInv, Watch!WatchersInv
  <2>2. v4[c].is # "over"
    BY <1>5
  <2>3. Watch(b)!Passed(w, v12[w]) /\ v12[w] \in Watch(b)!Cells => Watch(b)!Passed(w, v12[w])'
    <3>1. CASE v12[w] # c
      BY <1>2, <1>4, <3>1 DEF WatchUnread, Watch!Passed
    <3>2. CASE v12[w] = c
      BY <1>2, <1>5, <1>6, <3>2 DEF WatchUnread, Watch!Passed
    <3> QED BY <3>1, <3>2
  <2> QED BY <1>2, <1>4, <2>1, <2>2, <2>3 DEF Watch!PassInv, WatchUnread
<1>9. \A w \in Watch(b)!Watchers : Watch(b)!OverInv(w)'
  BY <1>2, <1>3 DEF WatchUnread, WatchInv, Watch!WatchersInv, Watch!OverInv
<1>10. Watch(b)!SnapshotInv'
  <2> SUFFICES ASSUME NEW d \in Watch(b)!Cells
               PROVE  LET due == v4'[d].start + WatchCheckpoint IN
                      /\ v5[d].strict =>
                           /\ v4'[d].is # "prepared"
                           /\ due <= v5[d].read
                           /\ v5[d].read <= due + WatchWindow + WatchPass
                      /\ v5[d].is = "unavailable" /\ v3 = 1 =>
                           \/ v4'[d].is = "over" /\ v4'[d].end < due
                           \/ v4'[d].is = "prepared" /\ v2 = "over"
    BY <1>2 DEF Watch!SnapshotInv, WatchUnread
  <2>1. CASE d # c
    BY <1>4, <2>1 DEF WatchInv, Watch!SnapshotInv
  <2>2. CASE d = c
    BY <1>3, <1>5, <2>2 DEF WatchInv, Watch!SnapshotInv
  <2> QED BY <2>1, <2>2
<1> QED BY <1>1, <1>2, <1>7, <1>8, <1>9, <1>10, WatchCampaignAlone DEF WatchInv, Watch!WatchersInv

-----------------------------------------------------------------------------
\* Starting a watcher.
LEMMA WatchStartInv ==
  ASSUME NEW b \in WatchBounds,
         WatchInv(b), NEW w \in Watch(b)!Watchers,
         Watch(b)!Watch(w) \/ Watch(b)!LaunchWatcher(w) \/ Watch(b)!Spawn(w)
              \/ Watch(b)!NoteLaunch(w) \/ Watch(b)!Wake(w)
  PROVE  WatchInv(b)'
<1>1. Watch(b)!TypeOK'
  BY WatchWatchTypes, WatchLaunchWatcherTypes, WatchSpawnTypes, WatchNoteLaunchTypes,
     WatchWakeTypes DEF WatchInv
<1>2. UNCHANGED <<v1, v2, v3, v4, v5, v9, v10, v11, v12, v13, v15>>
  BY DEF Watch!Watch, Watch!LaunchWatcher, Watch!Spawn, Watch!NoteLaunch, Watch!Wake,
     Watch!Campaign, Watch!Seen, Watch!History
<1>3. \A v \in Watch(b)!Watchers : v # w => v7'[v] = v7[v]
  BY DEF Watch!Watch, Watch!LaunchWatcher, Watch!Spawn, Watch!NoteLaunch, Watch!Wake, Watch!Go,
     WatchInv, Watch!TypeOK
<1>4. v7'[w] = v7[w] \/ v7'[w] \in {"campaign", "refused", "asked"}
  BY DEF Watch!Watch, Watch!LaunchWatcher, Watch!Spawn, Watch!NoteLaunch, Watch!Wake, Watch!Go,
     WatchInv, Watch!TypeOK
<1>5. WatchOthers(b, w)
  BY <1>2, <1>3 DEF WatchOthers, WatchTaken, WatchSame
<1>6. WatchOwn(b, w)'
  <2>1. Watch(b)!PassInv(w) /\ Watch(b)!OverInv(w) /\ Watch(b)!LeftInv(w)
    BY DEF WatchInv, Watch!WatchersInv
  <2>2. Watch(b)!PassInv(w)'
    BY <1>2, <1>4, <2>1 DEF Watch!PassInv, Watch!Pass, Watch!Passed
  <2>3. Watch(b)!OverInv(w)'
    BY <1>2, <1>4, <2>1 DEF Watch!OverInv, Watch!Pass
  <2>4. Watch(b)!LeftInv(w)'
    BY <1>2, <1>4, <2>1 DEF Watch!LeftInv
  <2> QED BY <2>2, <2>3, <2>4 DEF WatchOwn
<1>7. Watch(b)!AloneInv'
  <2> SUFFICES ASSUME ~v14'
               PROVE  /\ \A u, v \in Watch(b)!Watchers : u # v => ~Watch(b)!AtWork(u)'
                           \/ ~Watch(b)!AtWork(v)'
                      /\ v15 = {}
                      /\ \A v \in Watch(b)!Watchers :
                           /\ v7'[v] = "write" => v5[v12[v]].is = "nothing"
                           /\ v7'[v] \in {"remaining", "last"} =>
                                \A c \in v13[v] : v5[c].is = "nothing"
    BY <1>2 DEF Watch!AloneInv
  <2>1. ~v14
    BY DEF Watch!Watch, Watch!LaunchWatcher, Watch!Spawn, Watch!NoteLaunch, Watch!Wake,
       Watch!Begins, Watch!History
  <2>2. /\ \A u, v \in Watch(b)!Watchers : u # v => ~Watch(b)!AtWork(u) \/ ~Watch(b)!AtWork(v)
        /\ v15 = {}
        /\ \A v \in Watch(b)!Watchers :
             /\ v7[v] = "write" => v5[v12[v]].is = "nothing"
             /\ v7[v] \in {"remaining", "last"} => \A c \in v13[v] : v5[c].is = "nothing"
    BY <2>1 DEF WatchInv, Watch!AloneInv
  <2>3. \A v \in Watch(b)!Watchers : v # w => Watch(b)!AtWork(v)' = Watch(b)!AtWork(v)
    BY <1>3 DEF Watch!AtWork
  <2>4. (Watch(b)!AtWork(w)' => Watch(b)!AtWork(w)) \/ \A v \in Watch(b)!Watchers : v # w =>
          ~Watch(b)!AtWork(v)
    <3>1. CASE Watch(b)!Watch(w) \/ Watch(b)!Spawn(w)
      BY <3>1 DEF Watch!Watch, Watch!Spawn, Watch!Begins
    <3>2. CASE Watch(b)!LaunchWatcher(w)
      BY <3>2 DEF Watch!LaunchWatcher, Watch!Go, Watch!AtWork, Watch!Ended, WatchInv, Watch!TypeOK
    <3>3. CASE Watch(b)!NoteLaunch(w) \/ Watch(b)!Wake(w)
      BY <3>3 DEF Watch!NoteLaunch, Watch!Wake, Watch!Go, Watch!AtWork, Watch!Ended, WatchInv,
         Watch!TypeOK
    <3> QED BY <3>1, <3>2, <3>3
  <2>5. \A u, v \in Watch(b)!Watchers : u # v => ~Watch(b)!AtWork(u)' \/ ~Watch(b)!AtWork(v)'
    BY <2>2, <2>3, <2>4
  <2> QED BY <1>3, <1>4, <2>2, <2>5
<1> QED BY <1>1, <1>2, <1>5, <1>6, <1>7, WatchOthersKeep, WatchCellsKeep, WatchSnapshotsKeep
           DEF WatchInv

-----------------------------------------------------------------------------
\* A step of a watcher at work, which is no other's.
LEMMA WatchWorkAlone ==
  ASSUME NEW b \in WatchBounds,
         NEW w \in Watch(b)!Watchers, Watch(b)!AloneInv, Watch(b)!AtWork(w), WatchOthers(b, w),
              UNCHANGED v14,
         ~v14 => /\ v15' = {}
                 /\ v7'[w] = "write" => v5'[v12'[w]].is = "nothing"
                 /\ v7'[w] \in {"remaining", "last"} =>
                      \A c \in v13'[w] : v5'[c].is = "nothing"
  PROVE  Watch(b)!AloneInv'
<1> SUFFICES ASSUME ~v14 PROVE Watch(b)!AloneInv'
  BY DEF Watch!AloneInv
<1>1. \A v \in Watch(b)!Watchers : v # w => ~Watch(b)!AtWork(v)
  BY DEF Watch!AloneInv
<1>2. \A v \in Watch(b)!Watchers : v # w => ~Watch(b)!AtWork(v)'
        /\ v7'[v] \notin {"write", "remaining", "last"}
  BY <1>1 DEF WatchOthers, WatchSame, Watch!AtWork, Watch!Ended
<1> QED BY <1>2 DEF Watch!AloneInv

\* Steps that write no snapshot.
LEMMA WatchReadInv ==
  ASSUME NEW b \in WatchBounds,
         WatchInv(b), NEW w \in Watch(b)!Watchers, Watch(b)!ReadCampaign(w)
              \/ Watch(b)!ReadCells(w) \/ Watch(b)!ReadTorn(w) \/ Watch(b)!Kill(w)
  PROVE  WatchInv(b)'
<1> USE WatchBounded
<1>1. Watch(b)!TypeOK'
  BY WatchReadCampaignTypes, WatchReadCellsTypes, WatchReadTornTypes, WatchKillTypes DEF WatchInv
<1>2. UNCHANGED <<v1, v2, v3, v4, v5, v15, v14>>
  BY DEF Watch!ReadCampaign, Watch!ReadCells, Watch!ReadTorn, Watch!Kill, Watch!Campaign,
     Watch!History
<1>3. \A v \in Watch(b)!Watchers : v # w => WatchSame(b, v)
  BY DEF Watch!ReadCampaign, Watch!ReadCells, Watch!ReadTorn, Watch!Kill, Watch!Go, Watch!Forget,
     WatchSame, WatchInv, Watch!TypeOK
<1>4. Watch(b)!AtWork(w) /\ WatchOthers(b, w)
  BY <1>2, <1>3 DEF Watch!ReadCampaign, Watch!ReadCells, Watch!ReadTorn, Watch!Kill, Watch!AtWork,
     Watch!Ended, WatchOthers, WatchTaken
<1>5. v7'[w] \in {"cells", "visit", "dead"}
  BY DEF Watch!ReadCampaign, Watch!ReadCells, Watch!ReadTorn, Watch!Kill, Watch!Go, WatchInv,
     Watch!TypeOK
<1>6. Watch(b)!AloneInv'
  BY <1>2, <1>4, <1>5, WatchWorkAlone DEF WatchInv, Watch!AloneInv
<1>7. WatchOwn(b, w)'
  <2>1. Watch(b)!LeftInv(w)'
    BY <1>5 DEF Watch!LeftInv
  <2>2. CASE Watch(b)!ReadCampaign(w)
    <3>1. v7'[w] = "cells" /\ v9'[w] = v2
      BY <2>2 DEF Watch!ReadCampaign, Watch!Go, WatchInv, Watch!TypeOK
    <3> QED BY <1>2, <2>1, <3>1 DEF WatchOwn, Watch!PassInv, Watch!OverInv, Watch!Pass
  <2>3. CASE Watch(b)!ReadCells(w)
    <3>1. /\ v7[w] = "cells" /\ v7'[w] = "visit" /\ v9'[w] = v9[w] /\ v11'[w] = v1 /\ v12'[w] = 1
          /\ \A c \in Watch(b)!Cells : v10'[w][c] = v4[c].is
      BY <2>3 DEF Watch!ReadCells, Watch!Go, WatchInv, Watch!TypeOK
    <3>2. v1 \in Nat /\ \A c \in Watch(b)!Cells : v4[c].is = "over" => v4[c].end <= v1
      BY DEF WatchInv, Watch!TypeOK, Watch!CellInv
    <3>3. Watch(b)!PassInv(w)'
      BY <1>2, <3>1, <3>2 DEF Watch!PassInv
    <3>4. Watch(b)!OverInv(w)
      BY DEF WatchInv, Watch!WatchersInv
    <3>5. \A c \in Watch(b)!Cells : ~(c < 1)
      BY DEF Watch!Cells
    <3>6. Watch(b)!OverInv(w)'
      BY <1>2, <3>1, <3>4, <3>5 DEF Watch!OverInv, Watch!Pass
    <3> QED BY <2>1, <3>3, <3>6 DEF WatchOwn
  <2>4. CASE Watch(b)!ReadTorn(w) \/ Watch(b)!Kill(w)
    <3>1. v7'[w] = "dead"
      BY <2>4 DEF Watch!ReadTorn, Watch!Kill, Watch!Go, WatchInv, Watch!TypeOK
    <3> QED BY <2>1, <3>1 DEF WatchOwn, Watch!PassInv, Watch!OverInv, Watch!Pass
  <2> QED BY <2>2, <2>3, <2>4
<1> QED BY <1>1, <1>2, <1>4, <1>6, <1>7, WatchOthersKeep, WatchCellsKeep, WatchSnapshotsKeep
           DEF WatchInv

LEMMA WatchRemainingInv ==
  ASSUME NEW b \in WatchBounds,
         WatchInv(b), NEW w \in Watch(b)!Watchers, Watch(b)!Remaining(w)
  PROVE  WatchInv(b)'
<1> USE WatchBounded
<1>1. Watch(b)!TypeOK'
  BY WatchRemainingTypes DEF WatchInv
<1>2. UNCHANGED <<v1, v2, v3, v4, v5, v9, v10, v11, v12, v15, v14>>
  BY DEF Watch!Remaining, Watch!Campaign, Watch!History
<1>3. WatchOthers(b, w) /\ Watch(b)!AtWork(w)
  BY <1>2 DEF Watch!Remaining, Watch!Go, WatchOthers, WatchSame, WatchTaken, Watch!AtWork,
     Watch!Ended, WatchInv, Watch!TypeOK
<1>4. /\ v7[w] = "visit" /\ v7'[w] = "remaining" /\ v12[w] = b.cells + 1
      /\ v13'[w] = {c \in Watch(b)!Cells : v5[c].is = "nothing"}
  BY DEF Watch!Remaining, Watch!Go, WatchInv, Watch!TypeOK
<1>5. Watch(b)!AloneInv'
  BY <1>2, <1>3, <1>4, WatchWorkAlone DEF WatchInv, Watch!AloneInv
<1>6. Watch(b)!PassInv(w) /\ Watch(b)!OverInv(w)
  BY DEF WatchInv, Watch!WatchersInv
<1>7. Watch(b)!PassInv(w)'
  BY <1>2, <1>4, <1>6 DEF Watch!PassInv, Watch!Pass
<1>8. Watch(b)!OverInv(w)'
  <2>1. \A c \in Watch(b)!Cells : c < v12[w]
    BY <1>4 DEF Watch!Cells
  <2> QED BY <1>2, <1>4, <1>6, <2>1 DEF Watch!OverInv, Watch!Pass
<1>9. Watch(b)!LeftInv(w)'
  BY <1>2, <1>4 DEF Watch!LeftInv
<1> QED BY <1>1, <1>2, <1>3, <1>5, <1>7, <1>8, <1>9, WatchOthersKeep, WatchCellsKeep,
           WatchSnapshotsKeep DEF WatchInv, WatchOwn

LEMMA WatchNoteInv ==
  ASSUME NEW b \in WatchBounds,
         WatchInv(b), NEW w \in Watch(b)!Watchers, Watch(b)!Note(w)
  PROVE  WatchInv(b)'
<1>1. Watch(b)!TypeOK'
  BY WatchNoteTypes DEF WatchInv
<1>2. UNCHANGED <<v1, v2, v3, v4, v5, v15, v14>>
  BY DEF Watch!Note, Watch!Campaign, Watch!History
<1>3. WatchOthers(b, w) /\ Watch(b)!AtWork(w) /\ v7[w] = "remaining"
  BY <1>2 DEF Watch!Note, Watch!Go, Watch!Forget, Watch!Seen, WatchOthers, WatchSame, WatchTaken,
     Watch!AtWork, Watch!Ended, WatchInv, Watch!TypeOK
<1>4. \/ v13[w] = {} /\ v7'[w] = "over"
      \/ v7'[w] = "asleep"
      \/ /\ v7'[w] = "last" /\ v9[w] = "over"
         /\ UNCHANGED <<v9, v10, v11, v12, v13>>
  BY DEF Watch!Note, Watch!Go, Watch!Seen, WatchInv, Watch!TypeOK
<1>5. Watch(b)!AloneInv'
  BY <1>2, <1>3, <1>4, WatchWorkAlone DEF WatchInv, Watch!AloneInv
<1>6. Watch(b)!PassInv(w) /\ Watch(b)!OverInv(w) /\ Watch(b)!LeftInv(w)
  BY DEF WatchInv, Watch!WatchersInv
<1>7. Watch(b)!PassInv(w)'
  BY <1>2, <1>3, <1>4, <1>6 DEF Watch!PassInv, Watch!Pass
<1>8. Watch(b)!OverInv(w)'
  BY <1>2, <1>3, <1>4, <1>6 DEF Watch!OverInv, Watch!Pass
<1>9. Watch(b)!LeftInv(w)'
  BY <1>2, <1>3, <1>4, <1>6 DEF Watch!LeftInv
<1> QED BY <1>1, <1>2, <1>3, <1>5, <1>7, <1>8, <1>9, WatchOthersKeep, WatchCellsKeep,
           WatchSnapshotsKeep DEF WatchInv, WatchOwn

-----------------------------------------------------------------------------
\* Steps that may write one.
LEMMA WatchVisitInv ==
  ASSUME NEW b \in WatchBounds,
         WatchInv(b), NEW w \in Watch(b)!Watchers, Watch(b)!Visit(w)
  PROVE  WatchInv(b)'
<1> USE WatchBounded
<1> DEFINE c == v12[w]
<1>1. Watch(b)!TypeOK'
  BY WatchVisitTypes DEF WatchInv
<1>2. UNCHANGED <<v1, v2, v3, v4, v9, v10, v11, v13, v14>>
  BY DEF Watch!Visit, Watch!Campaign
<1>3. c \in Watch(b)!Cells /\ v7[w] = "visit" /\ Watch(b)!AtWork(w)
  BY DEF Watch!Visit, Watch!AtWork, Watch!Ended
<1>4. \/ /\ v5[c].is # "nothing" \/ (~Watch(b)!Passed(w, c) /\ v10[w][c] # "over")
         /\ v7'[w] = "visit" /\ v12'[w] = c + 1 /\ UNCHANGED <<v5, v15>>
      \/ /\ v5[c].is = "nothing" /\ Watch(b)!Passed(w, c)
         /\ v7'[w] = "write" /\ UNCHANGED <<v12, v5, v15>>
      \/ /\ v5[c].is = "nothing" /\ ~Watch(b)!Passed(w, c) /\ v10[w][c] = "over"
         /\ v7'[w] = "visit" /\ v12'[w] = c + 1
         /\ v5' = [v5 EXCEPT ![c] = Watch(b)!Unavailable] /\ UNCHANGED v15
         /\ v5'[c] = Watch(b)!Unavailable
  BY DEF Watch!Visit, Watch!Put, Watch!Go, WatchInv, Watch!TypeOK
<1>5. \A v \in Watch(b)!Watchers : v # w => v7'[v] = v7[v] /\ v12'[v] = v12[v]
  <2>1. (v7' = v7 \/ v7' = [v7 EXCEPT ![w] = "write"])
          /\ (v12' = v12 \/ v12' = [v12 EXCEPT ![w] = c + 1])
    BY DEF Watch!Visit, Watch!Go
  <2> QED BY <2>1 DEF WatchInv, Watch!TypeOK
<1>6. \/ UNCHANGED v5
      \/ /\ \A d \in Watch(b)!Cells : d # c => v5'[d] = v5[d]
         /\ v5'[c] = Watch(b)!Unavailable /\ v10[w][c] = "over" /\ ~Watch(b)!Passed(w, c)
  BY <1>3, <1>4 DEF WatchInv, Watch!TypeOK
<1>7. WatchOthers(b, w)
  <2>1. WatchTaken(b)
    BY <1>3, <1>6, WatchGivenUpSnapshot DEF WatchTaken
  <2> QED BY <1>2, <1>5, <2>1 DEF WatchOthers, WatchSame
<1>8. Watch(b)!AloneInv'
  <2>1. v15' = v15 /\ v7'[w] \in {"visit", "write"}
    BY <1>4
  <2>2. v7'[w] = "write" => v5'[v12'[w]].is = "nothing"
    BY <1>4
  <2>3. ~v14 => v15 = {}
    BY DEF WatchInv, Watch!AloneInv
  <2> HIDE DEF c
  <2> QED BY <1>2, <1>3, <1>7, <2>1, <2>2, <2>3, WatchWorkAlone DEF WatchInv
<1>9. Watch(b)!PassInv(w) /\ Watch(b)!OverInv(w)
  BY DEF WatchInv, Watch!WatchersInv
<1>10. /\ v11[w] \in Nat /\ v4[c].start \in Nat /\ v4[c].end \in Nat
       /\ c \in Nat /\ v12'[w] \in Nat
  <2>1. c \in Nat
    BY <1>3 DEF Watch!Cells
  <2>2. v12'[w] \in Nat
    BY <1>4, <2>1
  <2> QED BY <1>3, <2>1, <2>2 DEF WatchInv, Watch!TypeOK, Watch!CellRecord, Watch!Never
<1>11. Watch(b)!PassInv(w)'
  <2>1. v7'[w] = "write" => v12'[w] = c /\ Watch(b)!Passed(w, c)'
    BY <1>2, <1>4 DEF Watch!Passed
  <2>2. v7'[w] = "visit" => v12'[w] >= 1
    BY <1>3, <1>4, <1>10 DEF Watch!Cells
  <2>3. v7'[w] \in {"visit", "write"}
    BY <1>4
  <2> QED BY <1>2, <1>3, <1>9, <2>1, <2>2, <2>3 DEF Watch!PassInv, Watch!Pass
<1>12. Watch(b)!OverInv(w)'
  <2> SUFFICES ASSUME v3 = 1, v9[w] = "over"
               PROVE  /\ v2 = "over"
                      /\ \A d \in Watch(b)!Cells : v10[w][d] = v4[d].is
                      /\ \A d \in Watch(b)!Cells : d < v12'[w] /\ v5'[d].is = "nothing" =>
                                            v4[d].is = "prepared"
    BY <1>2, <1>4 DEF Watch!OverInv, Watch!Pass
  <2>1. /\ v2 = "over"
        /\ \A d \in Watch(b)!Cells : v10[w][d] = v4[d].is
        /\ \A d \in Watch(b)!Cells : d < c /\ v5[d].is = "nothing" => v4[d].is = "prepared"
    BY <1>3, <1>9 DEF Watch!OverInv, Watch!Pass
  <2>2. v12'[w] \in {c, c + 1}
    BY <1>4
  <2>3. v12'[w] = c + 1 /\ v5'[c].is = "nothing" => v4[c].is = "prepared"
    <3> SUFFICES ASSUME v12'[w] = c + 1, v5'[c].is = "nothing" PROVE v4[c].is = "prepared"
      OBVIOUS
    <3>1. v12'[w] # c
      BY <1>10
    <3>2. v10[w][c] # "over"
      BY <1>4, <3>1, WatchGivenUpSnapshot
    <3>3. v4[c].is \in {"prepared", "running", "over"} /\ v4[c].is # "running"
      BY <1>3, <2>1 DEF WatchInv, Watch!TypeOK, Watch!CellInv
    <3> QED BY <1>3, <2>1, <3>2, <3>3
  <2>4. ASSUME NEW d \in Watch(b)!Cells, d < v12'[w], v5'[d].is = "nothing"
        PROVE  v4[d].is = "prepared"
    <3>1. CASE d = c
      <4>1. v12'[w] = c + 1
        BY <1>10, <2>2, <2>4, <3>1
      <4> QED BY <2>3, <2>4, <3>1, <4>1
    <3>2. CASE d # c
      <4>1. d < c
        BY <1>10, <2>2, <2>4, <3>2 DEF Watch!Cells
      <4>2. v5[d].is = "nothing"
        BY <1>6, <2>4, <3>2
      <4> QED BY <2>1, <4>1, <4>2
    <3> QED BY <3>1, <3>2
  <2> HIDE DEF c
  <2> QED BY <2>1, <2>4
<1>13. Watch(b)!LeftInv(w)'
  BY <1>4 DEF Watch!LeftInv
<1>14. Watch(b)!SnapshotInv'
  <2> SUFFICES ASSUME NEW d \in Watch(b)!Cells
               PROVE  LET due == v4[d].start + WatchCheckpoint IN
                      /\ v5'[d].strict =>
                           /\ v4[d].is # "prepared"
                           /\ due <= v5'[d].read
                           /\ v5'[d].read <= due + WatchWindow + WatchPass
                      /\ v5'[d].is = "unavailable" /\ v3 = 1 =>
                           \/ v4[d].is = "over" /\ v4[d].end < due
                           \/ v4[d].is = "prepared" /\ v2 = "over"
    BY <1>2 DEF Watch!SnapshotInv
  <2>1. CASE v5'[d] = v5[d]
    BY <2>1 DEF WatchInv, Watch!SnapshotInv
  <2>2. CASE v5'[d] # v5[d]
    <3>1. d = c /\ v5'[c] = Watch(b)!Unavailable /\ v10[w][c] = "over" /\ ~Watch(b)!Passed(w, c)
      BY <1>6, <2>2
    <3>2. v4[c].is = "over" /\ v4[c].end <= v11[w]
      BY <1>3, <1>9, <3>1 DEF Watch!PassInv, Watch!Pass
    <3>3. v4[c].start # Watch(b)!Never
      <4>1. v4[c].start <= v1 /\ v1 \in 0..b.time
        BY <1>3, <3>2 DEF WatchInv, Watch!CellInv, Watch!TypeOK
      <4> QED BY <1>10, <4>1 DEF Watch!Never
    <3>4. v4[c].end < v4[c].start + WatchCheckpoint
      BY <1>10, <3>1, <3>2, <3>3 DEF Watch!Passed
    <3> QED BY <3>1, <3>2, <3>4, WatchGivenUpSnapshot
  <2> QED BY <2>1, <2>2
<1> QED BY <1>1, <1>2, <1>7, <1>8, <1>11, <1>12, <1>13, <1>14, WatchOthersKeep, WatchCellsKeep
           DEF WatchInv, WatchOwn

LEMMA WatchCaptureInv ==
  ASSUME NEW b \in WatchBounds,
         WatchInv(b), NEW w \in Watch(b)!Watchers, Watch(b)!Capture(w)
  PROVE  WatchInv(b)'
<1> USE WatchBounded
<1> DEFINE c == v12[w]
<1>1. Watch(b)!PassInv(w) /\ Watch(b)!OverInv(w) /\ Watch(b)!TypeOK
  BY DEF WatchInv, Watch!WatchersInv
<1>2. Watch(b)!TypeOK'
  BY <1>1, WatchCaptureTypes
<1>3. UNCHANGED <<v1, v2, v3, v4, v9, v10, v11, v13, v14>>
  BY DEF Watch!Capture, Watch!Campaign
<1>4. v7[w] = "write" /\ c \in Watch(b)!Cells /\ Watch(b)!Passed(w, c) /\ Watch(b)!AtWork(w)
  BY <1>1 DEF Watch!Capture, Watch!PassInv, Watch!AtWork, Watch!Ended
<1>5. v7'[w] = "visit" /\ v12'[w] = c + 1 /\ \A v \in Watch(b)!Watchers : v # w => v7'[v] = v7[v]
        /\ v12'[v] = v12[v]
  BY DEF Watch!Capture, Watch!Go, WatchInv, Watch!TypeOK
<1>6. /\ \A d \in Watch(b)!Cells : d # c => v5'[d] = v5[d]
      /\ v5'[c].is = "taken" /\ v5'[c].read = v1
      /\ v5'[c].strict <=> Watch(b)!Strict(w, c)
  BY <1>4 DEF Watch!Capture, Watch!Put, WatchInv, Watch!TypeOK
<1>7. WatchOthers(b, w)
  <2>1. WatchTaken(b)
    BY <1>6 DEF WatchTaken
  <2> QED BY <1>3, <1>5, <2>1 DEF WatchOthers, WatchSame
<1>8. Watch(b)!AloneInv'
  <2>1. ~v14 => v15' = {}
    BY <1>4 DEF Watch!Capture, Watch!Put, WatchInv, Watch!AloneInv
  <2> HIDE DEF c
  <2> QED BY <1>3, <1>4, <1>5, <1>7, <2>1, WatchWorkAlone DEF WatchInv
<1>9. /\ v11[w] \in Nat /\ v1 \in Nat /\ v4[c].start \in Nat /\ c \in Nat /\ c >= 1
  BY <1>4 DEF WatchInv, Watch!TypeOK, Watch!CellRecord, Watch!Never, Watch!Cells
<1>10. Watch(b)!PassInv(w)'
  <2>1. v12'[w] >= 1
    BY <1>5, <1>9
  <2> QED BY <1>1, <1>3, <1>4, <1>5, <2>1 DEF Watch!PassInv, Watch!Pass
<1>11. Watch(b)!OverInv(w)'
  <2> SUFFICES ASSUME v3 = 1, v9[w] = "over"
               PROVE  /\ v2 = "over"
                      /\ \A d \in Watch(b)!Cells : v10[w][d] = v4[d].is
                      /\ \A d \in Watch(b)!Cells : d < v12'[w] /\ v5'[d].is = "nothing" =>
                                            v4[d].is = "prepared"
    BY <1>3, <1>5 DEF Watch!OverInv, Watch!Pass
  <2>1. /\ v2 = "over"
        /\ \A d \in Watch(b)!Cells : v10[w][d] = v4[d].is
        /\ \A d \in Watch(b)!Cells : d < c /\ v5[d].is = "nothing" => v4[d].is = "prepared"
    BY <1>1, <1>4 DEF Watch!OverInv, Watch!Pass
  <2>2. ASSUME NEW d \in Watch(b)!Cells, d < v12'[w], v5'[d].is = "nothing"
        PROVE  v4[d].is = "prepared"
    <3>1. d # c
      BY <1>6, <2>2
    <3>2. d < c
      BY <1>5, <1>9, <2>2, <3>1 DEF Watch!Cells
    <3> QED BY <1>6, <2>1, <2>2, <3>1, <3>2
  <2> QED BY <2>1, <2>2
<1>12. Watch(b)!LeftInv(w)'
  BY <1>5 DEF Watch!LeftInv
<1>13. Watch(b)!SnapshotInv'
  <2> SUFFICES ASSUME NEW d \in Watch(b)!Cells
               PROVE  LET due == v4[d].start + WatchCheckpoint IN
                      /\ v5'[d].strict =>
                           /\ v4[d].is # "prepared"
                           /\ due <= v5'[d].read
                           /\ v5'[d].read <= due + WatchWindow + WatchPass
                      /\ v5'[d].is = "unavailable" /\ v3 = 1 =>
                           \/ v4[d].is = "over" /\ v4[d].end < due
                           \/ v4[d].is = "prepared" /\ v2 = "over"
    BY <1>3 DEF Watch!SnapshotInv
  <2>1. CASE d # c
    BY <1>6, <2>1 DEF WatchInv, Watch!SnapshotInv
  <2>2. CASE d = c
    <3>1. v4[c].is # "prepared" /\ v4[c].start + WatchCheckpoint <= v11[w]
      BY <1>4, <1>9 DEF Watch!Passed, WatchInv, Watch!CellInv
    <3>2. v11[w] <= v1 /\ v1 <= v11[w] + WatchPass
      BY <1>1, <1>4 DEF Watch!PassInv, Watch!Pass
    <3>3. Watch(b)!Strict(w, c) => v1 <= v4[c].start + WatchCheckpoint + WatchWindow + WatchPass
      BY <1>9, <3>2 DEF Watch!Strict
    <3>4. v4[c].start + WatchCheckpoint <= v1
      BY <1>9, <3>1, <3>2
    <3> QED BY <1>6, <2>2, <3>1, <3>3, <3>4
  <2> QED BY <2>1, <2>2
<1> QED BY <1>2, <1>3, <1>7, <1>8, <1>10, <1>11, <1>12, <1>13, WatchOthersKeep, WatchCellsKeep
           DEF WatchInv, WatchOwn

LEMMA WatchGiveUpInv ==
  ASSUME NEW b \in WatchBounds,
         WatchInv(b), NEW w \in Watch(b)!Watchers, Watch(b)!GiveUp(w)
  PROVE  WatchInv(b)'
<1>1. Watch(b)!TypeOK'
  BY WatchGiveUpTypes DEF WatchInv
<1>2. UNCHANGED <<v1, v2, v3, v4, v14>>
  BY DEF Watch!GiveUp, Watch!Campaign
<1>3. v7[w] = "last" /\ Watch(b)!AtWork(w) /\ Watch(b)!PassInv(w) /\ Watch(b)!OverInv(w)
        /\ Watch(b)!LeftInv(w)
  BY DEF Watch!GiveUp, Watch!AtWork, Watch!Ended, WatchInv, Watch!WatchersInv
<1>4. CASE v13[w] = {} /\ Watch(b)!Go(w, "over") /\ Watch(b)!Forget(w) /\ UNCHANGED <<v5, v15>>
  <2>1. v7'[w] = "over"
    BY <1>4 DEF Watch!Go, WatchInv, Watch!TypeOK
  <2>2. WatchOthers(b, w)
    BY <1>2, <1>4 DEF Watch!Go, Watch!Forget, WatchOthers, WatchSame, WatchTaken, WatchInv,
       Watch!TypeOK
  <2>3. Watch(b)!AloneInv'
    BY <1>2, <1>3, <1>4, <2>1, <2>2, WatchWorkAlone DEF WatchInv, Watch!AloneInv
  <2>4. Watch(b)!PassInv(w)' /\ Watch(b)!OverInv(w)'
    BY <2>1 DEF Watch!PassInv, Watch!OverInv, Watch!Pass
  <2>5. Watch(b)!LeftInv(w)'
    BY <1>3, <1>4, <2>1 DEF Watch!LeftInv
  <2> QED BY <1>1, <1>2, <1>4, <2>2, <2>3, <2>4, <2>5, WatchOthersKeep, WatchCellsKeep,
             WatchSnapshotsKeep DEF WatchInv, WatchOwn
<1>5. CASE \E c \in v13[w] :
             /\ Watch(b)!Put(c, Watch(b)!Unavailable) /\ v13' = [v13 EXCEPT ![w] = @ \ {c}]
             /\ UNCHANGED <<v7, v9, v10, v11, v12>>
  <2>1. PICK c \in v13[w] :
          /\ Watch(b)!Put(c, Watch(b)!Unavailable) /\ v13' = [v13 EXCEPT ![w] = @ \ {c}]
          /\ UNCHANGED <<v7, v9, v10, v11, v12>>
    BY <1>5
  <2>2. c \in Watch(b)!Cells
    BY DEF WatchInv, Watch!TypeOK
  <2>3. /\ \A d \in Watch(b)!Cells : d # c => v5'[d] = v5[d]
        /\ v5'[c] = Watch(b)!Unavailable
    BY <2>1, <2>2 DEF Watch!Put, WatchInv, Watch!TypeOK
  <2>4. WatchOthers(b, w) /\ v13'[w] = v13[w] \ {c}
    <3>1. WatchTaken(b)
      BY <2>2, <2>3, WatchGivenUpSnapshot DEF WatchTaken
    <3>2. v13'[w] = v13[w] \ {c} /\ \A v \in Watch(b)!Watchers : v # w => v13'[v] = v13[v]
      BY <2>1 DEF WatchInv, Watch!TypeOK
    <3> QED BY <1>2, <2>1, <3>1, <3>2 DEF WatchOthers, WatchSame
  <2>5. Watch(b)!AloneInv'
    <3>1. v13[w] \subseteq Watch(b)!Cells
      BY DEF WatchInv, Watch!TypeOK
    <3>2. ~v14 => /\ v15 = {} /\ \A d \in v13[w] : v5[d].is = "nothing"
      BY <1>3 DEF WatchInv, Watch!AloneInv
    <3>3. ~v14 => v15' = {}
      BY <2>1, <3>2 DEF Watch!Put
    <3>4. ~v14 => \A d \in v13'[w] : v5'[d].is = "nothing"
      BY <2>3, <2>4, <3>1, <3>2
    <3> QED BY <1>2, <1>3, <2>1, <2>4, <3>3, <3>4, WatchWorkAlone DEF WatchInv
  <2>6. Watch(b)!PassInv(w)'
    BY <1>2, <1>3, <2>1 DEF Watch!PassInv, Watch!Pass
  <2>7. Watch(b)!OverInv(w)'
    BY <1>2, <1>3, <2>1, <2>4 DEF Watch!OverInv, Watch!Pass
  <2>8. Watch(b)!LeftInv(w)'
    BY <1>3, <2>1, <2>3, <2>4, WatchGivenUpSnapshot DEF Watch!LeftInv
  <2>9. Watch(b)!SnapshotInv'
    <3> SUFFICES ASSUME NEW d \in Watch(b)!Cells
                 PROVE  LET due == v4[d].start + WatchCheckpoint IN
                        /\ v5'[d].strict =>
                             /\ v4[d].is # "prepared"
                             /\ due <= v5'[d].read
                             /\ v5'[d].read <= due + WatchWindow + WatchPass
                        /\ v5'[d].is = "unavailable" /\ v3 = 1 =>
                             \/ v4[d].is = "over" /\ v4[d].end < due
                             \/ v4[d].is = "prepared" /\ v2 = "over"
      BY <1>2 DEF Watch!SnapshotInv
    <3>1. CASE d # c
      BY <2>3, <3>1 DEF WatchInv, Watch!SnapshotInv
    <3>2. CASE d = c
      <4>1. v9[w] = "over"
        BY <1>3 DEF Watch!PassInv
      <4>2. v3 = 1 => v2 = "over" /\ v4[c].is = "prepared"
        BY <1>3, <2>1, <4>1 DEF Watch!OverInv, Watch!Pass
      <4> QED BY <2>3, <3>2, <4>2, WatchGivenUpSnapshot
    <3> QED BY <3>1, <3>2
  <2> QED BY <1>1, <1>2, <2>4, <2>5, <2>6, <2>7, <2>8, <2>9, WatchOthersKeep, WatchCellsKeep
             DEF WatchInv, WatchOwn
<1> QED BY <1>4, <1>5 DEF Watch!GiveUp

-----------------------------------------------------------------------------
LEMMA WatchNextInv ==
  ASSUME NEW b \in WatchBounds,
         WatchInv(b), Watch(b)!Next \/ UNCHANGED Watch(b)!vars
  PROVE  WatchInv(b)'
<1>1. CASE UNCHANGED Watch(b)!vars
  BY <1>1 DEF Watch!vars, WatchInv, Watch!TypeOK, Watch!CellInv, Watch!WatchersInv, Watch!PassInv,
     Watch!OverInv, Watch!LeftInv, Watch!SnapshotInv, Watch!AloneInv, Watch!AtWork, Watch!Passed
<1>2. CASE Watch(b)!Tick \/ Watch(b)!EndCampaign \/ Watch(b)!Relaunch \/ \E c \in Watch(b)!Cells :
        Watch(b)!StartCell(c) \/ Watch(b)!EndCell(c)
  BY <1>2, WatchTickInv, WatchEndCampaignInv, WatchRelaunchInv, WatchCellStepInv
<1>3. ASSUME NEW w \in Watch(b)!Watchers, WatchWatcherStep(b, w)
      PROVE  WatchInv(b)'
  BY <1>3, WatchStartInv, WatchReadInv, WatchRemainingInv, WatchNoteInv, WatchVisitInv,
     WatchCaptureInv, WatchGiveUpInv DEF WatchWatcherStep
<1> QED BY <1>1, <1>2, <1>3 DEF Watch!Next, WatchWatcherStep

LEMMA WatchSound ==
  ASSUME NEW b \in WatchBounds
  PROVE  WatchInv(b) => Watch(b)!TypeOK /\ Watch(b)!WatchIsSound
<1> SUFFICES ASSUME WatchInv(b) PROVE Watch(b)!TypeOK /\ Watch(b)!WatchIsSound
  OBVIOUS
<1> USE WatchBounded
<1>1. Watch(b)!StrictIsTimely
  BY DEF WatchInv, Watch!SnapshotInv, Watch!StrictIsTimely
<1>2. Watch(b)!GivenUpIsTrue
  BY DEF WatchInv, Watch!SnapshotInv, Watch!CellInv, Watch!GivenUpIsTrue
<1>3. Watch(b)!TakenStays
  BY DEF WatchInv, Watch!AloneInv, Watch!TakenStays
<1>4. Watch(b)!OverIsComplete
  BY DEF WatchInv, Watch!WatchersInv, Watch!LeftInv, Watch!OverIsComplete
<1> QED BY <1>1, <1>2, <1>3, <1>4 DEF WatchInv, Watch!WatchIsSound

-----------------------------------------------------------------------------
(* From the parts to Spec: a step keeps the part, and is one of its module.  *)

LEMMA PartKept == ASSUME [Next]_vars PROVE part' = part
  BY DEF Next, vars

LEMMA RecStays ==
  ASSUME [Next]_vars, (part = "record")'
  PROVE  part = "record" /\ (Rec!Next \/ UNCHANGED Rec!vars)
  BY PartKept DEF Next, vars, Rec!vars

LEMMA RecInvariant == Spec => [](part = "record" => RecInv)
<1> DEFINE I == part = "record" => RecInv
<1>1. Init => I
  BY RecInitInv DEF Init
<1>2. I /\ [Next]_vars => I'
  BY RecStays, RecNextInv
<1> QED BY <1>1, <1>2, PTL DEF Spec

\* The controller's last word in controller.json stands, and a live controller is named in
\* it, whatever the launcher and any number of stops read and write meanwhile (launch,
\* execute_campaign, stop_campaign).
THEOREM TheRecordStands == Spec => []RecordIsSound
<1>1. (part = "record" => RecInv) => RecordIsSound
  BY RecSound DEF RecordIsSound
<1> QED BY <1>1, RecInvariant, PTL

LEMMA JudgeStays ==
  ASSUME [Next]_vars, (part = "judge")'
  PROVE  part = "judge" /\ (Judge!Next \/ UNCHANGED Judge!vars)
  BY PartKept DEF Next, vars, Judge!vars

LEMMA JudgeInvariant == Spec => [](part = "judge" => JudgeInv)
<1> DEFINE I == part = "judge" => JudgeInv
<1>1. Init => I
  BY JudgeInitInv DEF Init
<1>2. I /\ [Next]_vars => I'
  BY JudgeStays, JudgeNextInv
<1> QED BY <1>1, <1>2, PTL DEF Spec

\* A controller that ended of itself leaves no bridge, and of a judge it came to wait for
\* only what it noted in controller.json, if it could write that at all; the judge whose
\* start could not be written is outside of this (JudgeIsOwned).  And cells are scored by
\* the judge their controller found, unless it crashed or its owner closed it
\* (RuntimeResources.close, start_or_reuse_judge).
THEOREM JudgesAreAccounted == Spec => []JudgeIsSound
<1>1. (part = "judge" => JudgeInv) => JudgeIsSound
  BY JudgeSound DEF JudgeIsSound
<1> QED BY <1>1, JudgeInvariant, PTL

LEMMA AgentStays ==
  ASSUME [Next]_vars, (part = "agent")'
  PROVE  part = "agent" /\ (Agent!Next \/ UNCHANGED Agent!vars)
  BY PartKept DEF Next, vars, Agent!vars

LEMMA AgentInvariant == Spec => [](part = "agent" => AgentInv)
<1> DEFINE I == part = "agent" => AgentInv
<1>1. Init => I
  BY AgentInitInv DEF Init
<1>2. I /\ [Next]_vars => I'
  BY AgentStays, AgentNextInv
<1> QED BY <1>1, <1>2, PTL DEF Spec

\* agent-run.json is never ahead of what has happened to the agent, and not behind it for
\* good unless commands overlapped or one was killed (start, finish, stop, run).
THEOREM PhasesAreTrue == Spec => []PhasesAreSound
<1>1. (part = "agent" => AgentInv) => PhasesAreSound
  BY AgentSound DEF PhasesAreSound
<1> QED BY <1>1, AgentInvariant, PTL

LEMMA WorkerStays ==
  ASSUME [Next]_vars, (part = "worker")'
  PROVE  part = "worker" /\ (Worker!Next \/ UNCHANGED Worker!vars)
  BY PartKept DEF Next, vars, Worker!vars

LEMMA WorkerInvariant == Spec => [](part = "worker" => WorkerInv)
<1> DEFINE I == part = "worker" => WorkerInv
<1>1. Init => I
  BY WorkerInitInv DEF Init
<1>2. I /\ [Next]_vars => I'
  BY WorkerStays, WorkerNextInv
<1> QED BY <1>1, <1>2, PTL DEF Spec

\* One generation and one callback at a time, and no projection, relay or capability left
\* when the launcher leaves by its own path (run_launcher, the worker's proxy).
THEOREM TheSandboxIsClosed == Spec => []SandboxIsSound
<1>1. (part = "worker" => WorkerInv) => SandboxIsSound
  BY WorkerSound DEF SandboxIsSound
<1> QED BY <1>1, WorkerInvariant, PTL

LEMMA TrajectoryStays ==
  ASSUME [Next]_vars
  PROVE  /\ (part = "trajectory")' =>
              /\ part = "trajectory"
              /\ Trajectory(SearchAlone)!Next \/ UNCHANGED Trajectory(SearchAlone)!vars
         /\ (part = "trajectories")' =>
              /\ part = "trajectories"
              /\ Trajectory(SearchSucceeded)!Next \/ UNCHANGED Trajectory(SearchSucceeded)!vars
  BY PartKept DEF Next, vars, Trajectory!vars

LEMMA AuditStays ==
  ASSUME [Next]_vars, (part = "audit")'
  PROVE  part = "audit" /\ (Audit!Next \/ UNCHANGED Audit!vars)
  BY PartKept DEF Next, vars, Audit!vars

EvidenceInv ==
  /\ part = "trajectory" => TrajectoryInv(SearchAlone)
  /\ part = "trajectories" => TrajectoryInv(SearchSucceeded)
  /\ part = "audit" => AuditInv

LEMMA EvidenceInvariant == Spec => []EvidenceInv
<1>1. ASSUME Init PROVE EvidenceInv
  <2>1. part = "trajectory" => TrajectoryInv(SearchAlone)
    BY <1>1, TrajectoryInitInv, TrajectoryBounds DEF Init
  <2>2. part = "trajectories" => TrajectoryInv(SearchSucceeded)
    BY <1>1, TrajectoryInitInv, TrajectoryBounds DEF Init
  <2>3. part = "audit" => AuditInv
    BY <1>1, AuditInitInv DEF Init
  <2> QED BY <2>1, <2>2, <2>3 DEF EvidenceInv
<1>2. ASSUME EvidenceInv, [Next]_vars PROVE EvidenceInv'
  <2>1. (part = "trajectory")' => TrajectoryInv(SearchAlone)'
    BY <1>2, TrajectoryStays, TrajectoryNextInv, TrajectoryBounds DEF EvidenceInv
  <2>2. (part = "trajectories")' => TrajectoryInv(SearchSucceeded)'
    BY <1>2, TrajectoryStays, TrajectoryNextInv, TrajectoryBounds DEF EvidenceInv
  <2>3. (part = "audit")' => AuditInv'
    BY <1>2, AuditStays, AuditNextInv DEF EvidenceInv
  <2> QED BY <2>1, <2>2, <2>3 DEF EvidenceInv
<1> QED BY <1>1, <1>2, PTL DEF Spec

\* A verdict that passes is of one search with K candidates, each launched and each verified
\* or in the ledger, one promoted and the goal reported; with a recovery or a successor in
\* it, no more than K workers lived at once and the earlier searches were aborted
\* (summarize_cell's completion evidence).  An audit that passes means that no lane stood
\* still for longer than the limit and all were at work at once, and a campaign that kept
\* to that passes; an invocation that never ended passes only where its session was stopped
\* or closed over it and left no record (audit_pi_parallel_execution).
THEOREM EvidenceIsTrue == Spec => []EvidenceIsSound
<1>1. EvidenceInv => EvidenceIsSound
  BY TrajectorySound, AuditSound, TrajectoryBounds DEF EvidenceInv, EvidenceIsSound
<1> QED BY <1>1, EvidenceInvariant, PTL

LEMMA CurveStays ==
  ASSUME [Next]_vars, (part = "curve")'
  PROVE  part = "curve" /\ (Curve!Next \/ UNCHANGED Curve!vars)
  BY PartKept DEF Next, vars, Curve!vars

LEMMA WatchStays ==
  ASSUME [Next]_vars
  PROVE  /\ (part = "watch")' =>
              /\ part = "watch"
              /\ Watch(WatchedAgain)!Next \/ UNCHANGED Watch(WatchedAgain)!vars
         /\ (part = "cells")' =>
              /\ part = "cells"
              /\ Watch(WatchedAcross)!Next \/ UNCHANGED Watch(WatchedAcross)!vars
         /\ (part = "watchers")' =>
              /\ part = "watchers"
              /\ Watch(WatchedTogether)!Next \/ UNCHANGED Watch(WatchedTogether)!vars
  BY PartKept DEF Next, vars, Watch!vars

TimeInv ==
  /\ part = "curve" => CurveInv
  /\ part = "watch" => WatchInv(WatchedAgain)
  /\ part = "cells" => WatchInv(WatchedAcross)
  /\ part = "watchers" => WatchInv(WatchedTogether)

LEMMA TimeInvariant == Spec => []TimeInv
<1>1. ASSUME Init PROVE TimeInv
  <2>1. part = "curve" => CurveInv
    BY <1>1, CurveInitInv DEF Init
  <2>2. part = "watch" => WatchInv(WatchedAgain)
    BY <1>1, WatchInitInv, WatchedBounds DEF Init
  <2>3. part = "cells" => WatchInv(WatchedAcross)
    BY <1>1, WatchInitInv, WatchedBounds DEF Init
  <2>4. part = "watchers" => WatchInv(WatchedTogether)
    BY <1>1, WatchInitInv, WatchedBounds DEF Init
  <2> QED BY <2>1, <2>2, <2>3, <2>4 DEF TimeInv
<1>2. ASSUME TimeInv, [Next]_vars PROVE TimeInv'
  <2>1. (part = "curve")' => CurveInv'
    BY <1>2, CurveStays, CurveNextInv DEF TimeInv
  <2>2. (part = "watch")' => WatchInv(WatchedAgain)'
    BY <1>2, WatchStays, WatchNextInv, WatchedBounds DEF TimeInv
  <2>3. (part = "cells")' => WatchInv(WatchedAcross)'
    BY <1>2, WatchStays, WatchNextInv, WatchedBounds DEF TimeInv
  <2>4. (part = "watchers")' => WatchInv(WatchedTogether)'
    BY <1>2, WatchStays, WatchNextInv, WatchedBounds DEF TimeInv
  <2> QED BY <2>1, <2>2, <2>3, <2>4 DEF TimeInv
<1> QED BY <1>1, <1>2, PTL DEF Spec

\* A checkpoint of a time curve shows only what was known by then, and never a submission
\* that the task ranks below an earlier checkpoint's, for whatever ranking; a reference is a
\* valid report of a submission within its boundary, and its score rises with the boundary
\* (ordinary_checkpoint_row, collect_local_fast_reference).  A strict snapshot of a game is
\* taken in its window, none that was taken is lost to one watcher, and one is given up only
\* where there was none to take (watch_game_checkpoints, capture_game_snapshot).
THEOREM CurvesAreSound == Spec => []CurveIsSound
<1>1. TimeInv => CurveIsSound
  BY CurveSound, WatchSound, WatchedBounds DEF TimeInv, CurveIsSound
<1> QED BY <1>1, TimeInvariant, PTL
==============================================================================
