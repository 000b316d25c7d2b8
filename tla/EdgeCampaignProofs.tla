------------------------- MODULE EdgeCampaignProofs -------------------------
(***************************************************************************)
(* Theorems about EdgeCampaign, for every finite set of cells, every       *)
(* concurrency and every bound on launches and crashes.                    *)
(***************************************************************************)
EXTENDS EdgeCampaign, FiniteSetTheorems, TLAPS

-----------------------------------------------------------------------------
(* Type correctness, one lemma per group of actions, one step per part of  *)
(* the state.                                                              *)

LEMMA InitTypes == Init => TypeOK
<1> SUFFICES ASSUME Init PROVE TypeOK
  OBVIOUS
<1> USE DEF Init, None
<1>1. FilesOK
  <2>1. cellState \in [Cells -> CellStates] /\ campCell \in [Cells -> CellStates]
    BY DEF CellStates
  <2>2. ctlFile \in [state : CellStates, rc : {0, 1, 2, 130}]
    BY DEF CellStates
  <2> QED BY <2>1, <2>2 DEF FilesOK, CellStates
<1>2. ProcsOK
  BY DEF ProcsOK, Handles
<1>3. QueueOK
  BY DEF QueueOK, Points, Launching
<1>4. FlagsOK
  BY DEF FlagsOK, CellStates
<1>5. ClosingOK /\ HistoryOK
  BY DEF ClosingOK, HistoryOK
<1> QED BY <1>1, <1>2, <1>3, <1>4, <1>5 DEF TypeOK

LEMMA StartUpTypes == ASSUME TypeOK, StartUp PROVE TypeOK'
<1> USE DEF TypeOK, StartUp, BootController, BootCampaign, InstallHandlers,
            PrepareOk, PrepareFails, MarkFailed,
            files, procs, queue, flags, closing, history
<1>1. FilesOK'
  BY DEF FilesOK, CellStates
<1>2. ProcsOK'
  BY DEF ProcsOK
<1>3. QueueOK'
  BY DEF QueueOK, Points, Unarmed, Queueing, Launching
<1>4. FlagsOK'
  BY DEF FlagsOK
<1>5. ClosingOK' /\ HistoryOK'
  BY DEF ClosingOK, HistoryOK
<1> QED BY <1>1, <1>2, <1>3, <1>4, <1>5

LEMMA CellQueueTypes == ASSUME TypeOK, CellQueue PROVE TypeOK'
<1> USE DEF TypeOK, CellQueue, SkipCompleted, TakeCell, SpawnFails, Spawn,
            RecordRunning, MirrorRunning, LaunchesDone, RecordFails, Forward, Poll,
            FinishCell, MirrorDone, files, procs, queue, flags, closing, history
<1>1. FilesOK'
  <2>1. cellState' \in [Cells -> CellStates]
    <3>1. ASSUME NEW c \in Cells, FinishCell(c)
          PROVE  cellState' \in [Cells -> CellStates]
      <4>1. SettledState(c) \in CellStates
        BY DEF SettledState, CellStates
      <4> QED BY <3>1, <4>1 DEF FilesOK
    <3>2. CASE SpawnFails \/ RecordFails \/ RecordRunning
      BY <3>2 DEF FilesOK, QueueOK, CellStates, Launching
    <3> QED BY <3>1, <3>2 DEF FilesOK
  <2>2. campCell' \in [Cells -> CellStates]
    BY DEF FilesOK, QueueOK, CellStates, Launching
  <2>3. UNCHANGED <<campState, incomplete, ctlFile, scored>>
    OBVIOUS
  <2> QED BY <2>1, <2>2, <2>3 DEF FilesOK
<1>2. ProcsOK'
  BY DEF ProcsOK, QueueOK, Handles, Launching
<1>3. QueueOK'
  BY DEF QueueOK, QueueTop, Points, Queueing, Launching, Closing, None
<1>4. FlagsOK'
  <2>1. CASE SpawnFails \/ RecordFails \/ \E c \in Cells : FinishCell(c)
    BY <2>1 DEF FlagsOK, Or, ChildCode
  <2>2. CASE Forward
    BY <2>2 DEF FlagsOK
  <2>3. CASE UNCHANGED flags
    BY <2>3 DEF FlagsOK
  <2> QED BY <2>1, <2>2, <2>3
<1>5. ClosingOK' /\ HistoryOK'
  BY DEF ClosingOK, HistoryOK
<1> QED BY <1>1, <1>2, <1>3, <1>4, <1>5

LEMMA CloseOutTypes == ASSUME TypeOK, CloseOut PROVE TypeOK'
<1> USE DEF TypeOK, CloseOut, Settle, CloseResources, ReadEvidence, StampCell,
            StampController, StampCampaign, LastWrite,
            files, procs, queue, flags, closing, history
<1>1. FilesOK'
  <2>1. cellState' \in [Cells -> CellStates]
    BY DEF FilesOK, CellStates, Stamp
  <2>2. campCell' \in [Cells -> CellStates]
    BY DEF FilesOK, CellStates, StampedCells, Stamp
  <2>3. campState' \in CellStates
    BY DEF FilesOK, CellStates, FinalState
  <2>4. ctlFile' \in [state : CellStates, rc : {0, 1, 2, 130}]
    BY DEF FilesOK, FlagsOK, CellStates, Or
  <2>5. incomplete' \in SUBSET Cells /\ scored' \in SUBSET Cells
    BY DEF FilesOK, ClosingOK
  <2> QED BY <2>1, <2>2, <2>3, <2>4, <2>5 DEF FilesOK
<1>2. ProcsOK'
  BY DEF ProcsOK
<1>3. QueueOK'
  BY DEF QueueOK, Points, Finalizing, Closing, Launching, AfterStamp
<1>4. FlagsOK'
  BY DEF FlagsOK, FinalState, CellStates, Or
<1>5. ClosingOK'
  BY DEF ClosingOK, FilesOK
<1>6. HistoryOK'
  BY DEF HistoryOK
<1> QED BY <1>1, <1>2, <1>3, <1>4, <1>5, <1>6

LEMMA OtherTypes == ASSUME TypeOK, Launch \/ UserFinalize \/ Environment
                    PROVE  TypeOK'
<1> USE DEF TypeOK, Launch, UserFinalize, Environment, ChildScores, ChildExits,
            OrphanExits, StopSignal, EarlySignal, Crash,
            files, procs, queue, flags, closing, history
<1>1. FilesOK'
  BY DEF FilesOK
<1>2. ProcsOK'
  BY DEF ProcsOK, Handles, Live
<1>3. QueueOK'
  BY DEF QueueOK, Points, Unarmed, Finalizing, Launching, None
<1>4. FlagsOK'
  <2>1. CASE Launch
    BY <2>1 DEF FlagsOK, CellStates
  <2>2. CASE StopSignal
    BY <2>2 DEF FlagsOK
  <2>3. CASE UNCHANGED flags
    BY <2>3 DEF FlagsOK
  <2> QED BY <2>1, <2>2, <2>3
<1>5. ClosingOK'
  BY DEF ClosingOK
<1>6. HistoryOK'
  BY DEF HistoryOK
<1> QED BY <1>1, <1>2, <1>3, <1>4, <1>5, <1>6

LEMMA NextTypes == TypeOK /\ [Next]_vars => TypeOK'
<1> SUFFICES ASSUME TypeOK, [Next]_vars PROVE TypeOK'
  OBVIOUS
<1>1. CASE UNCHANGED vars
  BY <1>1 DEF vars, files, procs, queue, flags, closing, history, TypeOK,
              FilesOK, ProcsOK, QueueOK, FlagsOK, ClosingOK, HistoryOK
<1>2. CASE Next
  BY <1>2, StartUpTypes, CellQueueTypes, CloseOutTypes, OtherTypes
     DEF Next, Controller
<1> QED BY <1>1, <1>2

\* Every variable keeps its type: in particular a cell state written to disk is
\* one the finalizer and the runner adapter know.
THEOREM TypeCorrect == Spec => []TypeOK
BY InitTypes, NextTypes, PTL DEF Spec

-----------------------------------------------------------------------------
(* The queue's invariant                                                   *)

LEMMA ActiveFinite == ASSUME TypeOK
                      PROVE  IsFiniteSet(active) /\ Cardinality(active) \in Nat
<1>1. IsFiniteSet(active)
  BY CellsAssumption, FS_Subset DEF TypeOK, QueueOK
<1> QED BY <1>1, FS_CardinalityType

LEMMA InitQueue == Init => QueueInv
<1> SUFFICES ASSUME Init PROVE QueueInv
  OBVIOUS
<1>1. Cardinality({}) = 0
  BY FS_EmptySet
<1>2. Live = {}
  BY DEF Init, Live
<1> QED BY <1>1, <1>2, ConcurrencyAssumption
        DEF Init, QueueInv, SlotsHeld, TakenOnce, LaunchUnderWay, Launching,
            StopReachesChildren

\* Steps that touch neither the children nor the queue's bookkeeping keep the
\* invariant as long as they stay outside the launch of a cell.
LEMMA QuietStep ==
  ASSUME TypeOK, QueueInv,
         UNCHANGED <<child, signalled, queue, forwarded>>,
         stop => stop',
         pc' \notin Launching,
         pc \notin {"record", "mirror"},
         active # {} => pc' \in Queueing
  PROVE  QueueInv'
<1>1. Live' = Live
  BY DEF Live
<1> QED BY <1>1 DEF QueueInv, SlotsHeld, TakenOnce, LaunchUnderWay, Launching,
                    StopReachesChildren, queue

\* Steps that do not even move the program counter: a signal caught, a result
\* written, an orphan gone.
LEMMA StillStep ==
  ASSUME TypeOK, QueueInv,
         UNCHANGED <<child, signalled, pc, queue, forwarded>>,
         stop => stop'
  PROVE  QueueInv'
<1>1. Live' = Live
  BY DEF Live
<1> QED BY <1>1 DEF QueueInv, SlotsHeld, TakenOnce, LaunchUnderWay,
                    StopReachesChildren, queue

LEMMA StartUpQueue == ASSUME TypeOK, QueueInv, StartUp PROVE QueueInv'
<1>1. CASE BootCampaign
  <2>1. Live' = Live /\ active = {}
    BY <1>1 DEF BootCampaign, Live, procs, QueueInv, SlotsHeld, Queueing, Launching
  <2> QED BY <1>1, <2>1
          DEF BootCampaign, QueueInv, SlotsHeld, TakenOnce, LaunchUnderWay,
              Launching, StopReachesChildren, procs, flags
<1>2. CASE ~BootCampaign
  <2>1. /\ UNCHANGED <<child, signalled, queue, forwarded, stop>>
        /\ pc' \notin Launching /\ pc \notin Queueing
    BY <1>2 DEF StartUp, BootController, InstallHandlers, PrepareOk, PrepareFails,
                MarkFailed, procs, flags, Launching, Queueing
  <2> QED BY <2>1, QuietStep DEF QueueInv, SlotsHeld, Queueing, Launching
<1> QED BY <1>1, <1>2

LEMMA CellQueueQueue == ASSUME TypeOK, QueueInv, CellQueue PROVE QueueInv'
<1> USE DEF QueueInv, SlotsHeld, TakenOnce, LaunchUnderWay, StopReachesChildren
<1>0. IsFiniteSet(active) /\ Cardinality(active) \in Nat
  BY ActiveFinite
<1>1. ASSUME NEW c \in Cells, SkipCompleted(c) PROVE QueueInv'
  <2>1. Live' = Live
    BY <1>1 DEF SkipCompleted, Live, procs
  <2> QED BY <1>1, <2>1 DEF SkipCompleted, procs, flags, Launching
<1>2. ASSUME NEW c \in Cells, TakeCell(c) PROVE QueueInv'
  <2>1. Live' = Live
    BY <1>2 DEF TakeCell, Live, procs
  <2> QED BY <1>2, <2>1 DEF TakeCell, MayStart, procs, flags, Launching, Queueing
<1>3. CASE Spawn
  <2>1. Live' \subseteq Live \cup {current}
    BY <1>3 DEF Spawn, Live, TypeOK, ProcsOK
  <2>2. current \notin active /\ ~forwarded
    BY <1>3 DEF Spawn, Launching
  <2> QED BY <1>3, <2>1, <2>2 DEF Spawn, queue, flags, Launching, Queueing
<1>4. CASE SpawnFails
  BY <1>4, QuietStep DEF SpawnFails, procs, Launching, Queueing
<1>5. CASE RecordRunning
  <2>1. Live' = Live
    BY <1>5 DEF RecordRunning, Live, procs
  <2> QED BY <1>5, <2>1 DEF RecordRunning, queue, procs, flags, Launching, Queueing
<1>6. CASE MirrorRunning
  <2>1. Live' = Live /\ current \notin active
    BY <1>6 DEF MirrorRunning, Live, procs, Launching
  <2>2. Cardinality(active') = Cardinality(active) + 1
    BY <1>6, <1>0, <2>1, FS_AddElement DEF MirrorRunning
  <2>3. Cardinality(active') <= Concurrency
    BY <1>6, <1>0, <2>2, ConcurrencyAssumption DEF MirrorRunning, Launching
  <2> QED BY <1>6, <2>1, <2>3
          DEF MirrorRunning, procs, flags, Launching, Queueing
<1>7. CASE LaunchesDone
  BY <1>7, QuietStep DEF LaunchesDone, procs, flags, Launching, Queueing
<1>8. CASE Forward
  <2>1. Live' = Live
    BY <1>8 DEF Forward, Live
  <2>2. Live \subseteq active
    BY <1>8 DEF Forward
  <2>3. StopReachesChildren'
    BY <1>8, <2>1, <2>2 DEF Forward, Live
  <2> QED BY <1>8, <2>1, <2>3 DEF Forward, queue, Launching, Queueing
<1>9. CASE Poll
  <2>1. Live' = Live /\ batch' \subseteq active /\ batch' \cap Live = {}
    BY <1>9 DEF Poll, Live, procs
  <2>2. active # {} => pc' \in Queueing
    BY <1>9 DEF Poll, Queueing, Launching
  <2> QED BY <1>9, <2>1, <2>2 DEF Poll, procs, flags, Launching
<1>10. ASSUME NEW c \in Cells, FinishCell(c) PROVE QueueInv'
  <2>1. Live' = Live /\ c \notin Live
    BY <1>10 DEF FinishCell, Live, procs
  <2>2. Cardinality(active') <= Concurrency
    <3>1. Cardinality(active') = Cardinality(active) - 1
      BY <1>10, <1>0, FS_RemoveElement DEF FinishCell
    <3> QED BY <3>1, <1>0, ConcurrencyAssumption
  <2> QED BY <1>10, <2>1, <2>2 DEF FinishCell, procs, Launching, Queueing
<1>11. CASE MirrorDone
  <2>1. active # {} => pc' \in Queueing
    BY <1>11 DEF MirrorDone, QueueTop, Queueing, Launching
  <2>2. pc' \notin Launching /\ pc \notin {"record", "mirror"}
    BY <1>11 DEF MirrorDone, QueueTop, Launching
  <2> QED BY <1>11, <2>1, <2>2, QuietStep DEF MirrorDone, procs, flags
<1>12. CASE RecordFails
  <2>1. Live' \subseteq Live \ {current}
    BY <1>12 DEF RecordFails, Live, TypeOK, ProcsOK
  <2> QED BY <1>12, <2>1 DEF RecordFails, queue, Launching, Queueing
<1> QED BY <1>1, <1>2, <1>3, <1>4, <1>5, <1>6, <1>7, <1>8, <1>9, <1>10, <1>11, <1>12
        DEF CellQueue

LEMMA CloseOutQueue == ASSUME TypeOK, QueueInv, CloseOut PROVE QueueInv'
<1>1. /\ UNCHANGED <<child, signalled, queue, forwarded, stop>>
      /\ pc' \notin Launching /\ pc \notin Queueing
  BY DEF CloseOut, Settle, CloseResources, ReadEvidence, StampCell,
         StampController, StampCampaign, LastWrite, AfterStamp,
         procs, flags, Launching, Queueing
<1> QED BY <1>1, QuietStep DEF QueueInv, SlotsHeld, Queueing, Launching

LEMMA OtherQueue == ASSUME TypeOK, QueueInv, Launch \/ UserFinalize \/ Environment
                    PROVE  QueueInv'
<1>0. Cardinality({}) = 0
  BY FS_EmptySet
<1>1. CASE Launch
  <2>1. Live' = {}
    BY <1>1 DEF Launch, Live
  <2> QED BY <1>0, <1>1, <2>1, ConcurrencyAssumption
          DEF Launch, QueueInv, SlotsHeld, TakenOnce, LaunchUnderWay, Launching,
              StopReachesChildren
<1>2. CASE UserFinalize
  BY <1>2, QuietStep DEF UserFinalize, QueueInv, SlotsHeld, Queueing, Launching,
                         procs, flags
<1>3. ASSUME NEW c \in Cells, ChildScores(c) \/ OrphanExits(c) PROVE QueueInv'
  BY <1>3, StillStep DEF ChildScores, OrphanExits, procs, flags
<1>4. ASSUME NEW c \in Cells, ChildExits(c) PROVE QueueInv'
  <2>1. Live' \subseteq Live
    BY <1>4 DEF ChildExits, Live, TypeOK, ProcsOK
  <2> QED BY <1>4, <2>1 DEF ChildExits, QueueInv, SlotsHeld, TakenOnce,
                            LaunchUnderWay, StopReachesChildren, queue, flags
<1>5. CASE StopSignal
  BY <1>5, StillStep DEF StopSignal, procs
<1>6. CASE EarlySignal
  <2>1. active = {}
    BY <1>6 DEF EarlySignal, QueueInv, SlotsHeld, Unarmed, Queueing, Launching
  <2> QED BY <1>6, <2>1, QuietStep DEF EarlySignal, Unarmed, Launching, procs, flags
<1>7. CASE Crash
  <2>1. Live' = {}
    BY <1>7 DEF Crash, Live
  <2> QED BY <1>0, <1>7, <2>1, ConcurrencyAssumption
          DEF Crash, QueueInv, SlotsHeld, TakenOnce, LaunchUnderWay, Launching,
              StopReachesChildren, flags
<1> QED BY <1>1, <1>2, <1>3, <1>4, <1>5, <1>6, <1>7 DEF Environment

LEMMA NextQueue == TypeOK /\ QueueInv /\ [Next]_vars => QueueInv'
<1> SUFFICES ASSUME TypeOK, QueueInv, [Next]_vars PROVE QueueInv'
  OBVIOUS
<1>1. CASE UNCHANGED vars
  BY <1>1, StillStep DEF vars, procs, flags
<1>2. CASE Next
  BY <1>2, StartUpQueue, CellQueueQueue, CloseOutQueue, OtherQueue
     DEF Next, Controller
<1> QED BY <1>1, <1>2

\* The queue's bookkeeping is consistent at every step of every execution.
LEMMA QueueInvariant == Spec => []QueueInv
BY InitQueue, NextQueue, TypeCorrect, PTL DEF Spec

-----------------------------------------------------------------------------
(* What the queue's invariant implies                                      *)

LEMMA InvSlotBound == ASSUME TypeOK, QueueInv PROVE SlotBound
<1>0. IsFiniteSet(active) /\ Cardinality(active) \in Nat
  BY ActiveFinite
<1>1. CASE pc \in {"record", "mirror"}
  <2>1. Live \subseteq active \cup {current} /\ current \notin active
    BY <1>1 DEF QueueInv, SlotsHeld, TakenOnce, Launching
  <2>2. /\ IsFiniteSet(active \cup {current})
        /\ Cardinality(active \cup {current}) = Cardinality(active) + 1
    BY <1>0, <2>1, FS_AddElement
  <2>3. Cardinality(Live) <= Cardinality(active \cup {current})
    BY <2>1, <2>2, FS_Subset
  <2>4. Cardinality(active) < Concurrency
    BY <1>1 DEF QueueInv, LaunchUnderWay, Launching
  <2>5. Cardinality(Live) \in Nat
    BY <2>1, <2>2, FS_Subset, FS_CardinalityType
  <2> QED BY <1>0, <2>2, <2>3, <2>4, <2>5, ConcurrencyAssumption DEF SlotBound
<1>2. CASE pc \notin {"record", "mirror"}
  <2>1. Live \subseteq active /\ Cardinality(active) <= Concurrency
    BY <1>2 DEF QueueInv, SlotsHeld
  <2>2. Cardinality(Live) <= Cardinality(active) /\ Cardinality(Live) \in Nat
    BY <1>0, <2>1, FS_Subset, FS_CardinalityType
  <2> QED BY <1>0, <2>1, <2>2, ConcurrencyAssumption DEF SlotBound
<1> QED BY <1>1, <1>2

\* However many cells there are and whatever happens to them, the children of
\* one controller never outnumber cell_concurrency.
THEOREM SlotsBounded == Spec => []SlotBound
BY TypeCorrect, QueueInvariant, InvSlotBound, PTL

\* A stop that has been forwarded has reached every child still alive.
THEOREM StopReaches == Spec => []StopReachesChildren
<1>1. QueueInv => StopReachesChildren
  BY DEF QueueInv
<1> QED BY <1>1, QueueInvariant, PTL

\* When the queue is left, and the judge is about to close, no child runs.
THEOREM NobodyLeftBehind == Spec => []NoChildLeftBehind
<1>1. QueueInv => NoChildLeftBehind
  BY DEF QueueInv, SlotsHeld, NoChildLeftBehind, Queueing, Launching
<1> QED BY <1>1, QueueInvariant, PTL

\* Only Spawn adds a live child, and a launch under way precedes the forwarding.
LEMMA ForwardStops ==
  TypeOK /\ QueueInv /\ [Next]_vars => [forwarded => Live' \subseteq Live]_vars
<1> SUFFICES ASSUME TypeOK, QueueInv, Next, forwarded PROVE Live' \subseteq Live
  OBVIOUS
<1>1. pc \notin Launching
  BY DEF QueueInv, LaunchUnderWay
<1>2. CASE UNCHANGED child
  BY <1>2 DEF Live
<1>3. CASE Launch \/ Crash
  BY <1>3 DEF Launch, Crash, Live
<1>4. ASSUME NEW c \in Cells, ChildExits(c) PROVE Live' \subseteq Live
  BY <1>4 DEF ChildExits, Live, TypeOK, ProcsOK
<1>5. StartUp => UNCHANGED child
  BY DEF StartUp, BootController, BootCampaign, InstallHandlers, PrepareOk,
         PrepareFails, MarkFailed, procs
<1>6. CellQueue => UNCHANGED child
  BY <1>1 DEF CellQueue, SkipCompleted, TakeCell, SpawnFails, Spawn, RecordRunning,
         MirrorRunning, RecordFails, LaunchesDone, Forward, Poll, FinishCell,
         MirrorDone, procs, Launching
<1>7. CloseOut \/ UserFinalize => UNCHANGED child
  BY DEF CloseOut, Settle, CloseResources, ReadEvidence, StampCell,
         StampController, StampCampaign, LastWrite, UserFinalize, procs
<1>8. \A c \in Cells : ChildScores(c) \/ OrphanExits(c) => UNCHANGED child
  BY DEF ChildScores, OrphanExits, procs
<1>9. StopSignal \/ EarlySignal => UNCHANGED child
  BY DEF StopSignal, EarlySignal, procs
<1> QED BY <1>2, <1>3, <1>4, <1>5, <1>6, <1>7, <1>8, <1>9
        DEF Next, Controller, Environment

\* After the stop was forwarded the controller starts no child any more.
THEOREM ForwardIsFinal == Spec => NoStartAfterForward
BY TypeCorrect, QueueInvariant, ForwardStops, PTL DEF Spec, NoStartAfterForward
-----------------------------------------------------------------------------
(* Completion: what the files may claim                                    *)

LEMMA InitCompletion == Init => CompletionInv
BY DEF Init, CompletionInv, CompletedIsScored, CompletedCampaign, Queueing, Launching

\* Steps that leave the claims of the files alone, where results only grow.
LEMMA SameClaims ==
  ASSUME TypeOK, CompletionInv,
         UNCHANGED <<cellState, campCell, campState>>,
         scored \subseteq scored', scored' \subseteq Cells,
         UNCHANGED verdict \/ verdict' # "passed",
         pc' \in Queueing \cup {"install", "prepare", "settle"} =>
           campState = "running",
         pc' \in {"stampCells", "stampCampaign"} => verdict' # "none"
  PROVE  CompletionInv'
<1>1. CompletedIsScored' /\ CompletedCampaign'
  BY DEF CompletionInv, CompletedIsScored, CompletedCampaign
<1>2. (verdict = "passed" => scored = Cells)'
  BY DEF CompletionInv
<1> QED BY <1>1, <1>2 DEF CompletionInv

LEMMA StartUpCompletion == ASSUME TypeOK, CompletionInv, StartUp
                           PROVE  CompletionInv'
<1> USE DEF StartUp, BootController, BootCampaign, InstallHandlers, PrepareOk,
            PrepareFails, MarkFailed, procs, queue, flags, files, closing
<1>1. CompletedIsScored'
  BY DEF CompletionInv, CompletedIsScored
<1>2. CompletedCampaign'
  BY DEF CompletionInv, CompletedCampaign
<1>3. (verdict = "passed" => scored = Cells)'
  BY DEF CompletionInv
<1>4. (pc \in Queueing \cup {"install", "prepare", "settle"} => campState = "running")'
  BY DEF CompletionInv, Queueing, Launching
<1> QED BY <1>1, <1>2, <1>3, <1>4 DEF CompletionInv

LEMMA CellQueueCompletion == ASSUME TypeOK, CompletionInv, CellQueue
                             PROVE  CompletionInv'
<1> USE DEF CellQueue, SkipCompleted, TakeCell, SpawnFails, Spawn, RecordRunning,
            MirrorRunning, RecordFails, LaunchesDone, Forward, Poll, FinishCell,
            MirrorDone, files, procs, queue, flags, closing
<1>1. pc \in Queueing /\ campState = "running"
  BY DEF CompletionInv, Queueing, Launching
<1>2. /\ UNCHANGED <<campState, scored, verdict>>
      /\ pc' \notin {"stampCells", "stampCampaign"}
  BY DEF QueueTop
<1>3. CompletedIsScored'
  <2>1. ASSUME NEW c \in Cells, FinishCell(c) PROVE CompletedIsScored'
    <3>1. SettledState(c) = "completed" => c \in scored
      BY DEF SettledState, ChildCode
    <3>2. /\ cellState' = [cellState EXCEPT ![c] = SettledState(c)]
          /\ UNCHANGED <<campCell, scored>>
      BY <2>1
    <3> QED BY <3>1, <3>2 DEF CompletionInv, CompletedIsScored, TypeOK, FilesOK
  <2>2. CASE MirrorDone
    BY <2>2 DEF CompletionInv, CompletedIsScored, TypeOK, FilesOK, QueueOK
  <2>3. CASE SpawnFails \/ RecordFails \/ RecordRunning \/ MirrorRunning
    BY <2>3 DEF CompletionInv, CompletedIsScored, TypeOK, FilesOK
  <2>4. CASE UNCHANGED <<cellState, campCell>>
    BY <1>2, <2>4 DEF CompletionInv, CompletedIsScored
  <2> QED BY <2>1, <2>2, <2>3, <2>4
<1>4. CompletedCampaign' /\ (verdict = "passed" => scored = Cells)'
  BY <1>1, <1>2 DEF CompletionInv, CompletedCampaign
<1> QED BY <1>1, <1>2, <1>3, <1>4 DEF CompletionInv

LEMMA CloseOutCompletion == ASSUME TypeOK, CompletionInv, CloseOut
                            PROVE  CompletionInv'
<1>1. CASE Settle
  <2>1. FinalState = "completed" => \A c \in Cells : campCell[c] = "completed"
    BY DEF FinalState
  <2>2. /\ UNCHANGED <<cellState, campCell, scored, verdict>>
        /\ campState' = FinalState /\ pc' = "close"
    BY <1>1 DEF Settle, closing
  <2> QED BY <2>1, <2>2 DEF CompletionInv, CompletedIsScored, CompletedCampaign,
                            Queueing, Launching
<1>2. CASE CloseResources \/ StampController \/ LastWrite
  BY <1>2, SameClaims DEF CloseResources, StampController, LastWrite, TypeOK,
     FilesOK, CompletionInv, Queueing, Launching, closing
<1>3. CASE ReadEvidence
  <2>1. verdict' = "passed" => scored = Cells
    BY <1>3 DEF ReadEvidence, TypeOK, FilesOK
  <2> QED BY <1>3, <2>1 DEF ReadEvidence, CompletionInv, CompletedIsScored,
             CompletedCampaign, files, Queueing, Launching
<1>4. ASSUME NEW c \in Cells, StampCell(c) PROVE CompletionInv'
  <2>1. /\ cellState' = [cellState EXCEPT ![c] = Stamp]
        /\ UNCHANGED <<campCell, campState, scored, verdict, pc>>
    BY <1>4 DEF StampCell, closing
  <2>2. Stamp = "completed" => scored = Cells
    BY DEF Stamp, CompletionInv
  <2> QED BY <2>1, <2>2 DEF CompletionInv, CompletedIsScored, CompletedCampaign,
                            TypeOK, FilesOK
<1>5. CASE StampCampaign
  <2>1. Stamp = "completed" => scored = Cells
    BY DEF Stamp, CompletionInv
  <2>2. CompletedIsScored'
    BY <1>5, <2>1 DEF StampCampaign, StampedCells, CompletionInv,
                      CompletedIsScored
  <2>3. CompletedCampaign'
    <3>1. CASE verdict = "failed"
      BY <1>5, <3>1 DEF StampCampaign, CompletedCampaign
    <3>2. CASE verdict # "failed" /\ Repaired
      BY <1>5, <3>2 DEF StampCampaign, Repaired, CompletedCampaign
    <3>3. CASE verdict # "failed" /\ ~Repaired /\ verdict = "passed"
      BY <1>5, <3>3 DEF StampCampaign, StampedCells, Stamp, CompletionInv,
                        CompletedCampaign
    <3>4. verdict \in {"passed", "failed"}
      BY <1>5 DEF StampCampaign, CompletionInv, TypeOK, ClosingOK
    <3> QED BY <3>1, <3>2, <3>3, <3>4
  <2>4. pc' \in {"lastWrite", "idle"} /\ UNCHANGED <<scored, verdict>>
    BY <1>5 DEF StampCampaign, AfterStamp, closing
  <2> QED BY <2>2, <2>3, <2>4 DEF CompletionInv, Queueing, Launching
<1> QED BY <1>1, <1>2, <1>3, <1>4, <1>5 DEF CloseOut

LEMMA NextCompletion == TypeOK /\ CompletionInv /\ [Next]_vars => CompletionInv'
<1> SUFFICES ASSUME TypeOK, CompletionInv, [Next]_vars PROVE CompletionInv'
  OBVIOUS
<1>1. CASE UNCHANGED vars
  BY <1>1, SameClaims DEF vars, files, closing, CompletionInv, TypeOK, FilesOK
<1>2. CASE StartUp \/ CellQueue \/ CloseOut
  BY <1>2, StartUpCompletion, CellQueueCompletion, CloseOutCompletion
<1>3. CASE Launch \/ UserFinalize
  BY <1>3, SameClaims DEF Launch, UserFinalize, files, closing, TypeOK, FilesOK,
                          Queueing, Launching
<1>4. CASE Environment
  BY <1>4, SameClaims DEF Environment, ChildScores, ChildExits, OrphanExits,
     StopSignal, EarlySignal, Crash, files, closing, TypeOK, FilesOK,
     CompletionInv, Queueing, Launching
<1> QED BY <1>1, <1>2, <1>3, <1>4 DEF Next, Controller

LEMMA CompletionInvariant == Spec => []CompletionInv
BY InitCompletion, NextCompletion, TypeCorrect, PTL DEF Spec

\* No file calls a cell completed without a scored result, whatever was killed,
\* relaunched or finalized on the way.
THEOREM CompletedHasScore == Spec => []CompletedIsScored
<1>1. CompletionInv => CompletedIsScored
  BY DEF CompletionInv
<1> QED BY <1>1, CompletionInvariant, PTL

\* A campaign that reads completed lists every cell as completed.
THEOREM CampaignCompleted == Spec => []CompletedCampaign
<1>1. CompletionInv => CompletedCampaign
  BY DEF CompletionInv
<1> QED BY <1>1, CompletionInvariant, PTL
-----------------------------------------------------------------------------
(* The two ledgers: cell.json and campaign.json                            *)

LEMMA StartUpLedger == ASSUME TypeOK, LedgerInv, StartUp PROVE LedgerInv'
<1> USE DEF LedgerInv, LedgersAgree, procs, queue, flags, files, closing, history
<1>1. /\ UNCHANGED <<cellState, campCell, work, crashes>>
      /\ pc \notin {"mirror", "mirrorDone", "stampCells", "stampCampaign"}
      /\ pc' \notin {"mirror", "stampCampaign"}
  BY DEF StartUp, BootController, BootCampaign, InstallHandlers, PrepareOk,
         PrepareFails, MarkFailed
<1> QED BY <1>1

LEMMA CellQueueLedger == ASSUME TypeOK, LedgerInv, CellQueue PROVE LedgerInv'
<1> USE DEF LedgerInv, LedgersAgree, files, procs, queue, flags, closing, history
<1>1. ASSUME NEW c \in Cells, SkipCompleted(c) \/ TakeCell(c) PROVE LedgerInv'
  BY <1>1 DEF SkipCompleted, TakeCell
<1>2. CASE SpawnFails \/ RecordFails \/ RecordRunning
  BY <1>2 DEF SpawnFails, RecordFails, RecordRunning, TypeOK, FilesOK, QueueOK, Launching
<1>3. CASE MirrorRunning
  BY <1>3 DEF MirrorRunning, TypeOK, FilesOK
<1>4. CASE Spawn \/ LaunchesDone \/ Forward \/ Poll
  BY <1>4 DEF Spawn, LaunchesDone, Forward, Poll
<1>5. ASSUME NEW c \in Cells, FinishCell(c) PROVE LedgerInv'
  BY <1>5 DEF FinishCell, TypeOK, FilesOK
<1>6. CASE MirrorDone
  BY <1>6 DEF MirrorDone, QueueTop, TypeOK, FilesOK
<1> QED BY <1>1, <1>2, <1>3, <1>4, <1>5, <1>6 DEF CellQueue

LEMMA CloseOutLedger == ASSUME TypeOK, LedgerInv, CloseOut PROVE LedgerInv'
<1> USE DEF LedgerInv, LedgersAgree, files, procs, queue, flags, closing, history
<1>1. CASE Settle \/ CloseResources \/ ReadEvidence \/ LastWrite
  BY <1>1 DEF Settle, CloseResources, ReadEvidence, LastWrite
<1>2. ASSUME NEW c \in Cells, StampCell(c) PROVE LedgerInv'
  BY <1>2 DEF StampCell, TypeOK, FilesOK
<1>3. CASE StampController
  BY <1>3 DEF StampController, Stamp
<1>4. CASE StampCampaign
  BY <1>4 DEF StampCampaign, StampedCells, AfterStamp
<1> QED BY <1>1, <1>2, <1>3, <1>4 DEF CloseOut

LEMMA NextLedger == TypeOK /\ LedgerInv /\ [Next]_vars => LedgerInv'
<1> SUFFICES ASSUME TypeOK, LedgerInv, [Next]_vars PROVE LedgerInv'
  OBVIOUS
<1> USE DEF LedgerInv, LedgersAgree, files, queue, closing, history
<1>1. CASE UNCHANGED vars
  BY <1>1 DEF vars, Stamp
<1>2. CASE StartUp \/ CellQueue \/ CloseOut
  BY <1>2, StartUpLedger, CellQueueLedger, CloseOutLedger
<1>3. CASE Launch \/ UserFinalize \/ EarlySignal
  BY <1>3 DEF Launch, UserFinalize, EarlySignal, Unarmed
<1>4. CASE StopSignal \/ \E c \in Cells : ChildScores(c) \/ ChildExits(c) \/ OrphanExits(c)
  BY <1>4 DEF StopSignal, ChildScores, ChildExits, OrphanExits, Stamp
<1>5. CASE Crash
  BY <1>5 DEF Crash, TypeOK, HistoryOK
<1> QED BY <1>1, <1>2, <1>3, <1>4, <1>5 DEF Next, Controller, Environment

LEMMA LedgerInvariant == Spec => []LedgerInv
<1>1. Init => LedgerInv
  BY DEF Init, LedgerInv, LedgersAgree
<1> QED BY <1>1, NextLedger, TypeCorrect, PTL DEF Spec

\* As long as nobody was killed, cell.json and campaign.json agree wherever the
\* controller is not between the two writes.
THEOREM LedgersInStep == Spec => []LedgersAgree
<1>1. LedgerInv => LedgersAgree
  BY DEF LedgerInv
<1> QED BY <1>1, LedgerInvariant, PTL
-----------------------------------------------------------------------------
(* The queue implements the slot pool                                      *)

LEMMA NextFilled == TypeOK /\ QueueFilled /\ [Next]_vars => QueueFilled'
<1> SUFFICES ASSUME TypeOK, QueueFilled, [Next]_vars PROVE QueueFilled'
  OBVIOUS
<1> USE DEF QueueFilled, Unarmed, queue, flags
<1>1. CASE UNCHANGED vars
  BY <1>1 DEF vars
<1>2. CASE StartUp
  BY <1>2 DEF StartUp, BootController, BootCampaign, InstallHandlers, PrepareOk,
              PrepareFails, MarkFailed
<1>3. CASE CellQueue \/ CloseOut \/ UserFinalize
  <2>1. pc' \notin {"boot", "bootCampaign", "install", "prepare"}
    BY <1>3 DEF CellQueue, SkipCompleted, TakeCell, SpawnFails, Spawn,
       RecordRunning, MirrorRunning, RecordFails, LaunchesDone, Forward, Poll,
       FinishCell, MirrorDone, QueueTop, CloseOut, Settle, CloseResources, ReadEvidence,
       StampCell, StampController, StampCampaign, AfterStamp, LastWrite,
       UserFinalize
  <2> QED BY <2>1
<1>4. CASE Launch
  BY <1>4 DEF Launch
<1>5. CASE Environment
  BY <1>5 DEF Environment, ChildScores, ChildExits, OrphanExits, StopSignal,
              EarlySignal, Crash
<1> QED BY <1>1, <1>2, <1>3, <1>4, <1>5 DEF Next, Controller

LEMMA FilledInvariant == Spec => []QueueFilled
<1>1. Init => QueueFilled
  BY DEF Init, QueueFilled, Unarmed
<1> QED BY <1>1, NextFilled, TypeCorrect, PTL DEF Spec

\* Outside the queue nothing happens to the pool.
LEMMA PoolAsleep ==
  ASSUME QueueInv, pc \notin Queueing, pc' \notin Queueing, active' = {}
  PROVE  UNCHANGED <<SlotWaiting, SlotRunning, SlotClosed>>
BY DEF QueueInv, SlotsHeld, SlotWaiting, SlotRunning, SlotClosed, Queueing, Launching

LEMMA QueueStep ==
  ASSUME TypeOK, QueueInv, CellQueue
  PROVE  [Slots!Next]_(Slots!vars)
<1> USE DEF SlotWaiting, SlotRunning, SlotClosed, Queueing, Launching,
            queue, flags, QueueInv
<1>1. ASSUME NEW c \in Cells, SkipCompleted(c) PROVE Slots!Drop(c)
  BY <1>1 DEF SkipCompleted, Slots!Drop
<1>2. ASSUME NEW c \in Cells, TakeCell(c) PROVE UNCHANGED Slots!vars
  BY <1>2 DEF TakeCell, Slots!vars
<1>3. CASE SpawnFails
  <2>1. Slots!Drop(current)
    BY <1>3 DEF SpawnFails, Slots!Drop, TakenOnce
  <2> QED BY <1>3, <2>1 DEF SpawnFails, TypeOK, QueueOK, Slots!Next
<1>4. CASE Spawn
  <2>0. Slots!Cardinality(active) = Cardinality(active)
    BY DEF Slots!Cardinality, Cardinality
  <2>1. Slots!Admit(current)
    BY <1>4, <2>0 DEF Spawn, Slots!Admit, TakenOnce, LaunchUnderWay
  <2> QED BY <1>4, <2>1 DEF Spawn, TypeOK, QueueOK, Slots!Next
<1>5. CASE RecordRunning \/ MirrorRunning \/ LaunchesDone
  BY <1>5 DEF RecordRunning, MirrorRunning, LaunchesDone, Slots!vars
<1>6. CASE Forward
  <2>1. Slots!Close \/ UNCHANGED Slots!vars
    BY <1>6 DEF Forward, Slots!Close, Slots!vars
  <2> QED BY <2>1 DEF Slots!Next
<1>7. CASE Poll
  <2>1. Slots!Leave \/ UNCHANGED Slots!vars
    BY <1>7 DEF Poll, Slots!Leave, Slots!vars
  <2> QED BY <2>1 DEF Slots!Next
<1>8. ASSUME NEW c \in Cells, FinishCell(c) PROVE Slots!Retire(c)
  BY <1>8 DEF FinishCell, Slots!Retire, SlotsHeld
<1>9. CASE MirrorDone
  <2>1. Slots!Leave \/ UNCHANGED Slots!vars
    BY <1>9 DEF MirrorDone, QueueTop, Slots!Leave, Slots!vars
  <2> QED BY <2>1 DEF Slots!Next
<1>10. CASE RecordFails
  <2>1. Slots!Retire(current)
    BY <1>10 DEF RecordFails, Slots!Retire, TakenOnce
  <2> QED BY <1>10, <2>1 DEF RecordFails, TypeOK, QueueOK, Slots!Next
<1> QED BY <1>1, <1>2, <1>3, <1>4, <1>5, <1>6, <1>7, <1>8, <1>9, <1>10
        DEF CellQueue, Slots!Next

LEMMA OtherPoolStep ==
  ASSUME TypeOK, QueueInv, QueueFilled, Next, ~CellQueue
  PROVE  [Slots!Next]_(Slots!vars)
<1> USE DEF queue, flags
<1>1. CASE PrepareOk
  <2>1. Slots!Open
    BY <1>1 DEF PrepareOk, Slots!Open, QueueInv, SlotsHeld, QueueFilled, SlotWaiting,
       SlotRunning, SlotClosed, Queueing, Launching, Unarmed
  <2> QED BY <2>1 DEF Slots!Next
<1>2. CASE (StartUp /\ ~PrepareOk) \/ CloseOut \/ Launch \/ UserFinalize \/ EarlySignal
  <2>1. pc \notin Queueing /\ pc' \notin Queueing /\ (active' = {} \/ active' = active)
    BY <1>2 DEF StartUp, BootController, BootCampaign, InstallHandlers,
       PrepareFails, MarkFailed, CloseOut, Settle, CloseResources, ReadEvidence,
       StampCell, StampController, StampCampaign, LastWrite, AfterStamp, Launch,
       UserFinalize, EarlySignal, Unarmed, Queueing, Launching
  <2>2. active = {}
    BY <2>1 DEF QueueInv, SlotsHeld
  <2> QED BY <2>1, <2>2, PoolAsleep DEF Slots!vars
<1>3. CASE StopSignal \/ \E c \in Cells : ChildScores(c) \/ ChildExits(c) \/ OrphanExits(c)
  BY <1>3 DEF StopSignal, ChildScores, ChildExits, OrphanExits, SlotWaiting,
     SlotRunning, SlotClosed, Slots!vars
<1>4. CASE Crash
  <2>1. Slots!Leave
    BY <1>4 DEF Crash, Slots!Leave, SlotWaiting, SlotRunning, SlotClosed, Queueing,
       Launching
  <2> QED BY <2>1 DEF Slots!Next
<1> QED BY <1>1, <1>2, <1>3, <1>4 DEF Next, Controller, Environment

\* The cell queue implements the slot pool: a free slot for every start, every
\* cell started at most once per execution, none after the stop was forwarded.
THEOREM QueueIsSlotPool == Spec => RefinesCellSlots
<1>1. Init => Slots!Init
  BY DEF Init, Slots!Init, SlotWaiting, SlotRunning, SlotClosed, Queueing, Launching
<1>2. TypeOK /\ QueueInv /\ QueueFilled /\ [Next]_vars => [Slots!Next]_(Slots!vars)
  <2>1. UNCHANGED vars => UNCHANGED Slots!vars
    BY DEF vars, queue, flags, Slots!vars, SlotWaiting, SlotRunning, SlotClosed
  <2> QED BY <2>1, QueueStep, OtherPoolStep
<1> QED BY <1>1, <1>2, TypeCorrect, QueueInvariant, FilledInvariant, PTL
        DEF Spec, RefinesCellSlots, Slots!Spec
-----------------------------------------------------------------------------
(* The state and the exit code that a controller leaves behind             *)

\* A step that ends in mirrorDone settles one cell, as completed or as failed
\* unless a stop came.
LEMMA CellSettled ==
  ASSUME TypeOK, OutcomeInv, NEW d \in Cells, NEW s \in CellStates, NEW code \in {0, 1},
         pc \in Queueing \ {"mirrorDone"}, pc' = "mirrorDone", current' = d,
         cellState' = [cellState EXCEPT ![d] = s], rc' = Or(rc, code),
         UNCHANGED <<campCell, crashes, stop>>,
         Handled' = Handled \cup {d}, d \notin Handled,
         code = 1 => s # "completed", ~stop => s \in {"completed", "failed"}
  PROVE  /\ rc' # 0 => \E c \in Handled' : Outcome(c)' # "completed"
         /\ (crashes' = 0 /\ ~stop') =>
              \A c \in Handled' : Outcome(c)' \in {"completed", "failed"}
<1>1. Outcome(d)' = s
  BY DEF Outcome, TypeOK, FilesOK
<1>2. \A c \in Handled : Outcome(c)' = Outcome(c)
  BY DEF Outcome
<1>3. rc' # 0 => rc # 0 \/ code = 1
  BY DEF Or
<1> QED BY <1>1, <1>2, <1>3 DEF OutcomeInv

LEMMA CellQueueOutcome ==
  ASSUME TypeOK, QueueInv, LedgerInv, OutcomeInv, CellQueue PROVE OutcomeInv'
<1> DEFINE Codes == /\ rc # 0 => \E c \in Handled : Outcome(c) # "completed"
                    /\ (crashes = 0 /\ ~stop) =>
                         \A c \in Handled : Outcome(c) \in {"completed", "failed"}
           Drained == /\ (pc \in {"forward", "poll", "settle"} /\ active = {} /\ ~stop) =>
                           pending = {}
                      /\ pc = "settle" => active = {}
<1>1. pc \in Queueing /\ pc' \in Queueing \cup {"settle"}
  BY DEF CellQueue, SkipCompleted, TakeCell, SpawnFails, Spawn, RecordRunning, MirrorRunning,
         RecordFails, LaunchesDone, Forward, Poll, FinishCell, MirrorDone, QueueTop, Queueing,
         Launching
<1>2. Codes
  BY <1>1 DEF OutcomeInv
<1>3. Drained'
  <2>1. CASE LaunchesDone
    <3>1. Cardinality({}) = 0
      BY FS_EmptySet
    <3> QED BY <2>1, <3>1, ConcurrencyAssumption DEF LaunchesDone, MayStart, queue, flags
  <2>2. CASE Forward \/ Poll
    BY <2>2 DEF Forward, Poll, queue, flags, OutcomeInv
  <2>3. CASE MirrorDone
    BY <2>3 DEF MirrorDone, QueueTop, queue, flags
  <2>4. CASE ~(LaunchesDone \/ Forward \/ Poll \/ MirrorDone)
    BY <2>4 DEF CellQueue, SkipCompleted, TakeCell, SpawnFails, Spawn, RecordRunning,
                MirrorRunning, RecordFails, FinishCell, queue, flags
  <2> QED BY <2>1, <2>2, <2>3, <2>4
<1>4. Codes'
  <2> USE DEF files, queue, flags, history, Handled, Launching, Queueing
  <2>1. ASSUME NEW c \in Cells, SkipCompleted(c) PROVE Codes'
    <3>1. /\ pc = "launch" /\ Handled' = Handled \cup {c} /\ cellState[c] = "completed"
          /\ UNCHANGED <<cellState, campCell, rc, crashes, stop, pc, current>>
      BY <2>1 DEF SkipCompleted, QueueInv, TakenOnce
    <3>2. crashes = 0 => campCell[c] = "completed"
      BY <3>1 DEF LedgerInv, LedgersAgree
    <3> QED BY <1>2, <3>1, <3>2 DEF Outcome
  <2>2. ASSUME NEW c \in Cells, TakeCell(c) PROVE Codes'
    <3>1. /\ pc = "launch" /\ pc' = "spawn" /\ Handled' = Handled
          /\ UNCHANGED <<cellState, campCell, rc, crashes, stop>>
      BY <2>2 DEF TakeCell
    <3> QED BY <1>2, <3>1 DEF Outcome
  <2>3. CASE SpawnFails \/ RecordFails
    <3>1. /\ current \in Cells /\ pc' = "mirrorDone" /\ pc \in Launching
          /\ cellState' = [cellState EXCEPT ![current] = "failed"] /\ rc' = Or(rc, 1)
          /\ UNCHANGED <<campCell, crashes, stop, pending, active, current>>
      BY <2>3 DEF SpawnFails, RecordFails, TypeOK, QueueOK
    <3>2. current \notin pending \cup active
      BY <3>1 DEF QueueInv, TakenOnce
    <3>3. Handled' = Handled \cup {current} /\ current \notin Handled
      BY <3>1, <3>2
    <3>4. "failed" \in CellStates
      BY DEF CellStates
    <3> QED BY <3>1, <3>3, <3>4, CellSettled
  <2>4. CASE Spawn \/ RecordRunning
    <3>1. /\ pc \in {"spawn", "record"} /\ pc' \in {"record", "mirror"} /\ Handled' = Handled
          /\ UNCHANGED <<campCell, rc, crashes, stop>>
      BY <2>4 DEF Spawn, RecordRunning
    <3> QED BY <1>2, <3>1 DEF Outcome
  <2>5. CASE MirrorRunning
    <3>1. /\ pc = "mirror" /\ pc' = "launch" /\ Handled' = Handled
          /\ campCell' = [campCell EXCEPT ![current] = "running"]
          /\ UNCHANGED <<rc, crashes, stop>>
      BY <2>5 DEF MirrorRunning
    <3>2. \A c \in Handled : Outcome(c)' = Outcome(c)
      BY <3>1 DEF Outcome, TypeOK, FilesOK
    <3> QED BY <1>2, <3>1, <3>2
  <2>6. CASE LaunchesDone \/ Forward \/ Poll
    <3>1. /\ pc \in {"launch", "forward", "poll"} /\ pc' # "mirrorDone" /\ Handled' = Handled
          /\ UNCHANGED <<campCell, rc, crashes, stop>>
      BY <2>6 DEF LaunchesDone, Forward, Poll
    <3> QED BY <1>2, <3>1 DEF Outcome
  <2>7. ASSUME NEW c \in Cells, FinishCell(c) PROVE Codes'
    <3>1. /\ pc = "finish" /\ pc' = "mirrorDone" /\ current' = c /\ c \in active
          /\ pending' = pending /\ active' = active \ {c} /\ c \notin pending
          /\ cellState' = [cellState EXCEPT ![c] = SettledState(c)]
          /\ rc' = Or(rc, ChildCode(c)) /\ UNCHANGED <<campCell, crashes, stop>>
      BY <2>7 DEF FinishCell, QueueInv, SlotsHeld, TakenOnce
    <3>2. Handled' = Handled \cup {c} /\ c \notin Handled
      BY <3>1
    <3>3. /\ ChildCode(c) \in {0, 1} /\ SettledState(c) \in CellStates
          /\ ChildCode(c) = 1 => SettledState(c) # "completed"
          /\ ~stop => SettledState(c) \in {"completed", "failed"}
      BY DEF ChildCode, SettledState, CellStates
    <3> QED BY <3>1, <3>2, <3>3, CellSettled
  <2>8. CASE MirrorDone
    <3>1. /\ pc = "mirrorDone" /\ pc' \in {"launch", "finish", "settle"}
          /\ campCell' = [campCell EXCEPT ![current] = cellState[current]]
          /\ UNCHANGED <<cellState, rc, crashes, stop, pending, active, current>>
      BY <2>8 DEF MirrorDone, QueueTop
    <3>2. Handled' = Handled
      BY <3>1
    <3>3. \A c \in Handled : Outcome(c)' = Outcome(c)
      BY <3>1 DEF Outcome, TypeOK, FilesOK
    <3> QED BY <1>2, <3>1, <3>2, <3>3
  <2> QED BY <2>1, <2>2, <2>3, <2>4, <2>5, <2>6, <2>7, <2>8 DEF CellQueue
<1> HIDE DEF Codes, Drained
<1>5. pc' \notin Unarmed \cup {"prepare"}
  BY <1>1 DEF Unarmed, Queueing, Launching
<1>6. Codes' /\ Drained' /\ pc' \notin Unarmed \cup {"prepare"} => OutcomeInv'
  BY DEF Codes, Drained, OutcomeInv
<1> QED BY <1>3, <1>4, <1>5, <1>6

LEMMA OtherOutcome ==
  ASSUME TypeOK, QueueInv, QueueFilled, OutcomeInv, [Next]_vars, ~CellQueue PROVE OutcomeInv'
<1> USE DEF files, procs, queue, flags, closing, history
<1>1. CASE PrepareOk
  <2>1. pc' = "launch" /\ Handled' = {} /\ rc' = 0
    BY <1>1 DEF PrepareOk, QueueFilled, Handled, OutcomeInv
  <2> QED BY <2>1 DEF OutcomeInv, Unarmed
<1>2. CASE StartUp /\ ~PrepareOk
  <2>1. /\ pc' \in {"bootCampaign", "install", "prepare", "markFailed", "idle"}
        /\ pc' \in {"bootCampaign", "install", "prepare"} =>
             rc' = rc /\ pc \in {"boot", "bootCampaign", "install"}
    BY <1>2 DEF StartUp, BootController, BootCampaign, InstallHandlers, PrepareFails, MarkFailed
  <2> QED BY <2>1 DEF OutcomeInv, Unarmed, Queueing, Launching
<1>3. CASE CloseOut \/ UserFinalize \/ EarlySignal \/ Crash
  <2>1. pc' \in {"close", "idle", "lastWrite"} \cup Finalizing
    BY <1>3 DEF CloseOut, Settle, CloseResources, ReadEvidence, StampCell, StampController,
                StampCampaign, AfterStamp, LastWrite, UserFinalize, EarlySignal, Crash, Finalizing
  <2> QED BY <2>1 DEF OutcomeInv, Unarmed, Queueing, Launching, Finalizing
<1>4. CASE Launch
  BY <1>4 DEF Launch, OutcomeInv, Queueing, Launching
<1>5. CASE StopSignal \/ (\E c \in Cells : ChildScores(c) \/ ChildExits(c) \/ OrphanExits(c))
           \/ UNCHANGED vars
  <2>1. /\ UNCHANGED <<cellState, campCell, rc, crashes, pc, current, pending, active>>
        /\ ~stop' => ~stop
    BY <1>5 DEF StopSignal, ChildScores, ChildExits, OrphanExits, vars
  <2>2. Handled' = Handled /\ \A c : Outcome(c)' = Outcome(c)
    BY <2>1 DEF Handled, Outcome
  <2> QED BY <2>1, <2>2 DEF OutcomeInv
<1> QED BY <1>1, <1>2, <1>3, <1>4, <1>5 DEF Next, Controller, Environment

\* When the queue is left, zero is the code of a completed campaign and of a
\* campaign with a cell that failed, which Settle turns into one.
LEMMA SettledCode ==
  ASSUME TypeOK, OutcomeInv, Settle, crashes = 0
  PROVE  rc' = 0 <=> final' = "completed"
<1>1. /\ pc = "settle" /\ final' = FinalState
      /\ rc' = CASE FinalState = "interrupted" -> Or(rc, 130)
                  [] FinalState = "failed"      -> Or(rc, 1)
                  [] OTHER                      -> rc
  BY DEF Settle
<1>2. rc # 0 => \E c \in Cells : campCell[c] # "completed"
  BY <1>1 DEF OutcomeInv, Handled, Outcome
<1>3. CASE stop
  BY <1>1, <1>3 DEF FinalState, Or
<1>4. CASE ~stop
  <2>1. pending = {} /\ active = {} /\ Handled = Cells
    BY <1>1, <1>4 DEF OutcomeInv, Handled, Launching
  <2>2. \A c \in Cells : campCell[c] \in {"completed", "failed"}
    BY <1>1, <1>4, <2>1 DEF OutcomeInv, Outcome
  <2>3. CASE \E c \in Cells : campCell[c] = "failed"
    <3>1. FinalState = "failed"
      BY <1>4, <2>3 DEF FinalState
    <3> QED BY <1>1, <3>1 DEF Or
  <2>4. CASE \A c \in Cells : campCell[c] = "completed"
    <3>1. FinalState = "completed"
      BY <1>4, <2>4, CellsAssumption DEF FinalState
    <3> QED BY <1>1, <1>2, <2>4, <3>1
  <2> QED BY <2>2, <2>3, <2>4
<1> QED BY <1>3, <1>4

LEMMA SettledKept ==
  ASSUME TypeOK, OutcomeInv, CompletionInv, SettledInv, [Next]_vars PROVE SettledInv'
<1> USE DEF SettledInv, Finalizing, Queueing, Launching, Unarmed, RepairedCells,
            files, procs, queue, flags, closing, history
<1>1. CASE StartUp
  BY <1>1 DEF StartUp, BootController, BootCampaign, InstallHandlers, PrepareOk, PrepareFails,
              MarkFailed
<1>2. CASE CellQueue
  <2>1. /\ pc \in Queueing /\ pc' \in Queueing \cup {"settle"}
        /\ UNCHANGED <<finalizer, exit, verdict, work, incomplete>>
    BY <1>2 DEF CellQueue, SkipCompleted, TakeCell, SpawnFails, Spawn, RecordRunning,
                MirrorRunning, RecordFails, LaunchesDone, Forward, Poll, FinishCell,
                MirrorDone, QueueTop
  <2> QED BY <2>1
<1>3. CASE CloseOut
  <2>1. CASE Settle
    <3>1. /\ pc = "settle" /\ pc' = "close" /\ campState' = final'
          /\ UNCHANGED <<finalizer, exit, crashes>>
      BY <2>1 DEF Settle
    <3> QED BY <2>1, <3>1, SettledCode
  <2>2. CASE CloseResources \/ ReadEvidence \/ StampController
    BY <2>2 DEF CloseResources, ReadEvidence, StampController
  <2>3. ASSUME NEW c \in Cells, StampCell(c) PROVE SettledInv'
    BY <2>3 DEF StampCell
  <2>4. CASE StampCampaign
    <3>1. /\ pc = "stampCampaign" /\ pc' \in {"lastWrite", "idle"}
          /\ UNCHANGED <<finalizer, exit, crashes, rc, final, verdict, work>>
          /\ finalizer = "user" => pc' = "idle"
      BY <2>4 DEF StampCampaign, AfterStamp
    <3>2. verdict \in {"passed", "failed"}
      BY <3>1 DEF CompletionInv, TypeOK, ClosingOK
    <3>3. CASE verdict = "failed"
      BY <2>4, <3>1, <3>3 DEF StampCampaign
    <3>4. CASE verdict = "passed"
      <4>1. work = {} => ~Repaired
        BY <3>1, <3>4 DEF Repaired
      <4> QED BY <2>4, <3>1, <3>4, <4>1 DEF StampCampaign
    <3> QED BY <3>2, <3>3, <3>4
  <2>5. CASE LastWrite
    BY <2>5 DEF LastWrite
  <2> QED BY <1>3, <2>1, <2>2, <2>3, <2>4, <2>5 DEF CloseOut
<1>4. CASE Launch \/ UserFinalize
  BY <1>4 DEF Launch, UserFinalize
<1>5. CASE EarlySignal \/ Crash
  BY <1>5 DEF EarlySignal, Crash
<1>6. CASE StopSignal \/ (\E c \in Cells : ChildScores(c) \/ ChildExits(c) \/ OrphanExits(c))
           \/ UNCHANGED vars
  BY <1>6 DEF StopSignal, ChildScores, ChildExits, OrphanExits, vars, ControllerAlive
<1> QED BY <1>1, <1>2, <1>3, <1>4, <1>5, <1>6 DEF Next, Controller, Environment

LEMMA CleanExitKept ==
  ASSUME TypeOK, CompletionInv, SettledInv, CleanExit, [Next]_vars PROVE CleanExit'
<1> USE DEF CleanExit, SettledInv, RepairedCells, Finalizing,
            files, procs, queue, flags, closing, history
<1>1. CASE MarkFailed
  BY <1>1 DEF MarkFailed
<1>2. CASE LastWrite
  <2>1. /\ pc = "lastWrite" /\ UNCHANGED <<campState, finalizer, verdict, work, crashes>>
        /\ rc' = (IF verdict = "failed" THEN Or(rc, 2) ELSE rc)
        /\ ctlFile' = [state |-> IF verdict = "failed" THEN "partial" ELSE final, rc |-> rc']
    BY <1>2 DEF LastWrite
  <2>2. finalizer # "user"
    BY <2>1
  <2> QED BY <2>1, <2>2 DEF Or
<1>3. CASE Launch \/ UserFinalize \/ EarlySignal \/ Crash
  BY <1>3 DEF Launch, UserFinalize, EarlySignal, Crash, TypeOK, HistoryOK
<1>4. CASE StopSignal \/ (\E c \in Cells : ChildScores(c) \/ ChildExits(c) \/ OrphanExits(c))
           \/ UNCHANGED vars
  BY <1>4 DEF StopSignal, ChildScores, ChildExits, OrphanExits, vars
<1>5. CASE StartUp /\ ~MarkFailed
  BY <1>5 DEF StartUp, BootController, BootCampaign, InstallHandlers, PrepareOk, PrepareFails
<1>6. CASE CellQueue
  <2>1. pc' # "idle"
    BY <1>6 DEF CellQueue, SkipCompleted, TakeCell, SpawnFails, Spawn, RecordRunning,
                MirrorRunning, RecordFails, LaunchesDone, Forward, Poll, FinishCell,
                MirrorDone, QueueTop
  <2> QED BY <2>1
<1>7. CASE CloseOut /\ ~LastWrite
  <2>1. pc # "idle" /\ UNCHANGED exit /\ (UNCHANGED finalizer \/ pc' # "idle")
    BY <1>7 DEF CloseOut, Settle, CloseResources, ReadEvidence, StampCell, StampController,
                StampCampaign
  <2> QED BY <2>1
<1> QED BY <1>1, <1>2, <1>3, <1>4, <1>5, <1>6, <1>7 DEF Next, Controller, Environment

LEMMA NextExit ==
  TypeOK /\ QueueInv /\ QueueFilled /\ LedgerInv /\ CompletionInv /\ ExitInv /\ [Next]_vars
    => ExitInv'
<1> SUFFICES ASSUME TypeOK, QueueInv, QueueFilled, LedgerInv, CompletionInv, ExitInv, [Next]_vars
             PROVE  ExitInv'
  OBVIOUS
<1>1. OutcomeInv'
  BY CellQueueOutcome, OtherOutcome DEF ExitInv
<1>2. SettledInv' /\ CleanExit'
  BY SettledKept, CleanExitKept DEF ExitInv
<1> QED BY <1>1, <1>2 DEF ExitInv

\* A controller that returned by itself left controller.json with the state of
\* campaign.json and its own exit code, and zero means a completed campaign.
THEOREM ExitIsHonest == Spec => []CleanExit
<1>1. Init => ExitInv
  BY DEF Init, ExitInv, OutcomeInv, SettledInv, CleanExit, Unarmed, Queueing, Launching,
         Finalizing
<1>2. ExitInv => CleanExit
  BY DEF ExitInv
<1> QED BY <1>1, <1>2, NextExit, TypeCorrect, QueueInvariant, FilledInvariant, LedgerInvariant,
           CompletionInvariant, PTL DEF Spec
=============================================================================
