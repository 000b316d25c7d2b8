------------------------- MODULE CommonMatrixProofs -------------------------
(***************************************************************************)
(* Theorems about CommonMatrix, for every finite set of cells, every       *)
(* concurrency and every bound on runs and crashes.                        *)
(***************************************************************************)
EXTENDS CommonMatrix, FiniteSetTheorems, TLAPS

\* The actions in three groups.
Launches == Begin \/ Select \/ LoopTop \/ (\E c \in Cells : TakeCell(c)) \/ Popen
            \/ PopenFails \/ Append \/ Record \/ LaunchesDone
Returns  == Poll \/ (\E c \in Cells : FinishCell(c)) \/ Retire \/ EnterFinally
            \/ Terminate \/ Reap \/ Final
Outside  == Run \/ (\E c \in Cells : CellRuns(c)) \/ OrphanRuns \/ Interrupt \/ Crash

LEMMA NextGroups == ASSUME [Next]_vars
                    PROVE  Launches \/ Returns \/ Outside \/ UNCHANGED vars
  BY DEF Next, Controller, Loop, Launches, Returns, Outside

-----------------------------------------------------------------------------
(* Type correctness                                                        *)

LEMMA OutcomeType == ASSUME TypeOK, NEW c \in Cells PROVE Outcome(c) \in Terminal
  BY DEF Outcome, Terminal

LEMMA InitTypes == Init => TypeOK
<1> SUFFICES ASSUME Init PROVE TypeOK
  OBVIOUS
<1> USE DEF Init, TypeOK
<1>1. disk \in [cells : [Cells -> CellStates], state : CampStates]
  BY DEF CellStates, CampStates, Terminal
<1>2. manifest \in [Cells -> {"absent", "prepared", "running", "finished", "incomplete"}]
  OBVIOUS
<1>3. cells \in [Cells -> CellStates]
  BY <1>1
<1>4. runs \in 0..MaxRuns /\ crashes \in 0..MaxCrashes
  BY BoundsAssumption
<1> QED BY <1>1, <1>2, <1>3, <1>4 DEF Handles, Points, Launching

LEMMA LaunchTypes == ASSUME TypeOK, Launches PROVE TypeOK'
<1> USE DEF TypeOK, Launches, Begin, Select, LoopTop, TakeCell, Popen, PopenFails,
            Append, Record, LaunchesDone, files, procs, queue, flags, history
<1>1. disk' \in [cells : [Cells -> CellStates], state : CampStates]
  BY DEF CampStates
<1>2. UNCHANGED <<manifest, orphan, stop, failFast, runs, crashes, cut>> /\ raising' \in BOOLEAN
  OBVIOUS
<1>3. proc' \in [Cells -> Handles]
  BY DEF Handles, Phases, Launching
<1>4. pc' \in Points
  BY DEF Points, InTry, InEnd, Before
<1>5. cells' \in [Cells -> CellStates]
  BY DEF CellStates
<1>6. pending' \subseteq Cells /\ active' \subseteq Cells /\ done' \subseteq active'
  BY DEF Launching
<1>7. current' \in Cells \cup {None} /\ (pc' \in Launching => current' \in Cells)
  BY DEF Launching
<1>8. doubled' \subseteq Cells
  BY DEF Launching
<1> QED BY <1>1, <1>2, <1>3, <1>4, <1>5, <1>6, <1>7, <1>8

LEMMA ReturnTypes == ASSUME TypeOK, Returns PROVE TypeOK'
<1>0. Terminal \subseteq CellStates /\ \A c \in Cells : Outcome(c) \in CellStates
  BY OutcomeType DEF CellStates
<1> USE DEF TypeOK, Returns, Poll, FinishCell, Retire, EnterFinally, Terminate, Reap,
            Final, files, procs, queue, flags, history
<1>1. cells' \in [Cells -> CellStates]
  BY <1>0
<1>2. disk' \in [cells : [Cells -> CellStates], state : CampStates]
  <2>1. CASE Reap
    BY <2>1, <1>1
  <2>2. CASE Retire \/ Final
    BY <2>2 DEF CampStates, FinalState
  <2>3. CASE UNCHANGED disk
    BY <2>3
  <2> QED BY <2>1, <2>2, <2>3
<1>3. UNCHANGED <<manifest, orphan, stop, raising, failFast, runs, crashes, doubled>>
  OBVIOUS
<1>4. proc' \in [Cells -> Handles]
  BY DEF Handles
<1>5. pc' \in Points
  BY DEF Points, InTry, InEnd, AfterRetire
<1>6. pending' \subseteq Cells /\ active' \subseteq Cells /\ done' \subseteq active'
  OBVIOUS
<1>7. current' \in Cells \cup {None} /\ (pc' \in Launching => current' \in Cells)
  BY DEF Launching, AfterRetire
<1>8. cut' \subseteq Cells
  OBVIOUS
<1> QED BY <1>1, <1>2, <1>3, <1>4, <1>5, <1>6, <1>7, <1>8

LEMMA OutsideTypes == ASSUME TypeOK, Outside PROVE TypeOK'
<1> USE DEF TypeOK, Outside, Run, CellRuns, OrphanRuns, Interrupt, Crash, Abandon,
            files, procs, queue, flags, history
<1>1. UNCHANGED disk /\ cells' \in [Cells -> CellStates]
  OBVIOUS
<1>2. manifest' \in [Cells -> {"absent", "prepared", "running", "finished", "incomplete"}]
  BY DEF CellStep
<1>3. proc' \in [Cells -> Handles]
  BY DEF Handles
<1>4. orphan' \subseteq Cells \X Phases
  <2>1. CASE OrphanRuns
    BY <2>1
  <2>2. CASE Interrupt \/ Crash
    BY <2>2 DEF Alive
  <2>3. CASE UNCHANGED orphan
    BY <2>3
  <2> QED BY <2>1, <2>2, <2>3
<1>5. pc' \in Points /\ (pc' \in Launching => pc = pc')
  BY DEF Points, Before, InEnd, Launching
<1>6. /\ pending' \subseteq Cells /\ active' \subseteq Cells /\ done' \subseteq active'
      /\ current' \in Cells \cup {None}
      /\ pc' \in Launching => current' \in Cells
  BY <1>5 DEF Launching
<1>7. stop' \in BOOLEAN /\ raising' \in BOOLEAN /\ failFast' \in BOOLEAN
  OBVIOUS
<1>8. runs' \in 0..MaxRuns /\ crashes' \in 0..MaxCrashes
  BY BoundsAssumption
<1>9. cut' \subseteq Cells /\ UNCHANGED doubled
  OBVIOUS
<1> QED BY <1>1, <1>2, <1>3, <1>4, <1>5, <1>6, <1>7, <1>8, <1>9

LEMMA NextTypes == TypeOK /\ [Next]_vars => TypeOK'
<1> SUFFICES ASSUME TypeOK, [Next]_vars PROVE TypeOK'
  OBVIOUS
<1>1. CASE UNCHANGED vars
  BY <1>1 DEF TypeOK, vars, files, procs, queue, flags, history
<1> QED BY <1>1, NextGroups, LaunchTypes, ReturnTypes, OutsideTypes

\* The state of a campaign, of its cells and of their processes has the values the
\* code gives it (run_campaign, finish_cell, standalone.execute).
THEOREM TypeCorrect == Spec => []TypeOK
  BY InitTypes, NextTypes, PTL DEF Spec

-----------------------------------------------------------------------------
(* Slots                                                                   *)

LEMMA ActiveFinite == ASSUME TypeOK
                      PROVE  IsFiniteSet(active) /\ Cardinality(active) \in Nat
  BY CellsAssumption, FS_Subset, FS_CardinalityType DEF TypeOK

LEMMA OneMoreActive ==
  ASSUME TypeOK, Cardinality(active) < Concurrency, NEW c
  PROVE  /\ IsFiniteSet(active \cup {c}) /\ Cardinality(active \cup {c}) \in Nat
         /\ Cardinality(active \cup {c}) <= Concurrency
<1>1. /\ IsFiniteSet(active \cup {c})
      /\ Cardinality(active \cup {c}) = IF c \in active THEN Cardinality(active)
                                        ELSE Cardinality(active) + 1
  BY ActiveFinite, FS_AddElement
<1> QED BY <1>1, ActiveFinite, ConcurrencyAssumption

LEMMA InitSlots == Init => SlotInv
<1> SUFFICES ASSUME Init PROVE SlotInv
  OBVIOUS
<1>1. Alive = {}
  BY DEF Init, Alive, Phases
<1>2. Cardinality(active) = 0
  BY FS_EmptySet DEF Init
<1> QED BY <1>1, <1>2, ConcurrencyAssumption DEF Init, SlotInv, Launching

LEMMA LaunchSlots == ASSUME TypeOK, SlotInv, Launches PROVE SlotInv'
<1> USE DEF SlotInv, Held, Alive, InTry, InEnd, Before, Launching
<1>1. CASE Begin \/ Select \/ LoopTop \/ PopenFails \/ Record \/ LaunchesDone
  BY <1>1 DEF Begin, Select, LoopTop, PopenFails, Record, LaunchesDone,
              files, procs, queue
<1>2. CASE \E c \in Cells : TakeCell(c)
  BY <1>2 DEF TakeCell, Room, files, procs
<1>3. CASE Popen
  BY <1>3 DEF Popen, TypeOK, queue
<1>4. CASE Append
  <2>1. Cardinality(active') <= Concurrency
    BY <1>4, OneMoreActive DEF Append
  <2> QED BY <1>4, <2>1 DEF Append, procs
<1> QED BY <1>1, <1>2, <1>3, <1>4 DEF Launches

LEMMA FewerActive == ASSUME TypeOK, Cardinality(active) <= Concurrency, NEW c
                     PROVE  Cardinality(active \ {c}) <= Concurrency
<1>1. Cardinality(active \ {c}) \in Nat /\ Cardinality(active \ {c}) <= Cardinality(active)
  BY ActiveFinite, FS_RemoveElement, FS_CardinalityType
<1> QED BY <1>1, ActiveFinite, ConcurrencyAssumption

LEMMA ReturnSlots == ASSUME TypeOK, SlotInv, Returns PROVE SlotInv'
<1> USE DEF SlotInv, Held, Alive, InTry, InEnd, Before, Launching
<1>1. CASE Poll \/ (\E c \in Cells : FinishCell(c)) \/ Final
  BY <1>1 DEF Poll, FinishCell, Final, files, procs, queue
<1>2. CASE Retire
  <2>1. Cardinality(active') <= Concurrency
    BY <1>2, FewerActive DEF Retire
  <2> QED BY <1>2, <2>1 DEF Retire, AfterRetire, procs
<1>3. CASE EnterFinally
  BY <1>3 DEF EnterFinally, procs, queue
<1>4. CASE Terminate
  BY <1>4 DEF Terminate, TypeOK, Phases, queue
<1>5. CASE Reap
  <2>1. Cardinality(active') <= Concurrency
    BY <1>5, FewerActive DEF Reap
  <2> QED BY <1>5, <2>1 DEF Reap, procs
<1> QED BY <1>1, <1>2, <1>3, <1>4, <1>5 DEF Returns

LEMMA OutsideSlots == ASSUME TypeOK, SlotInv, Outside PROVE SlotInv'
<1> USE DEF SlotInv, Held, Alive, InTry, InEnd, Before, Launching
<1>1. CASE Run
  <2>1. Cardinality(active') <= Concurrency
    BY <1>1, FS_EmptySet, ConcurrencyAssumption DEF Run
  <2> QED BY <1>1, <2>1 DEF Run, Phases
<1>2. CASE \E c \in Cells : CellRuns(c)
  BY <1>2 DEF CellRuns, CellStep, TypeOK, Phases, queue
<1>3. CASE OrphanRuns
  BY <1>3 DEF OrphanRuns, queue
<1>4. CASE Interrupt
  BY <1>4 DEF Interrupt, Abandon, Phases, queue, TypeOK
<1>5. CASE Crash
  BY <1>5 DEF Crash, Abandon, Phases, queue, TypeOK
<1> QED BY <1>1, <1>2, <1>3, <1>4, <1>5 DEF Outside

LEMMA NextSlots == TypeOK /\ SlotInv /\ [Next]_vars => SlotInv'
<1> SUFFICES ASSUME TypeOK, SlotInv, [Next]_vars PROVE SlotInv'
  OBVIOUS
<1>1. CASE UNCHANGED vars
  BY <1>1 DEF SlotInv, Held, Alive, vars, procs, queue
<1> QED BY <1>1, NextGroups, LaunchSlots, ReturnSlots, OutsideSlots

LEMMA SlotInvariant == Spec => []SlotInv
  BY InitTypes, NextTypes, InitSlots, NextSlots, PTL DEF Spec

\* An active list within the limit and a free slot for the process that is not in
\* it yet bound the processes at work.
LEMMA InvSlotBound == ASSUME TypeOK, SlotInv PROVE SlotBound
<1>1. IsFiniteSet(Alive) /\ Cardinality(Alive) \in Nat
  BY CellsAssumption, FS_Subset, FS_CardinalityType DEF Alive
<1>2. IsFiniteSet(Held) /\ Cardinality(Held) \in Nat /\ Cardinality(Held) <= Concurrency
  <2>1. CASE pc = "append"
    BY <2>1, OneMoreActive DEF SlotInv, Held, Launching
  <2>2. CASE pc # "append" /\ Held = active
    BY <2>2, ActiveFinite DEF SlotInv
  <2>3. CASE Held = {}
    BY <2>3, FS_EmptySet, ConcurrencyAssumption
  <2> QED BY <2>1, <2>2, <2>3 DEF Held
<1>3. Cardinality(Alive) <= Cardinality(Held)
  BY <1>2, FS_Subset DEF SlotInv
<1> QED BY <1>1, <1>2, <1>3, ConcurrencyAssumption DEF SlotBound

\* No more run-cell processes of a controller are at work than cell_concurrency,
\* whatever fails to start, exits or is interrupted meanwhile (run_campaign).
THEOREM SlotsBounded == Spec => []SlotBound
  BY TypeCorrect, SlotInvariant, InvSlotBound, PTL

\* None of the processes in the active list outlives the finally block, whatever
\* led into it (terminate_active_cells).
THEOREM NobodyLeft == Spec => []NoChildLeft
<1>1. SlotInv => NoChildLeft
  BY DEF SlotInv, Held, NoChildLeft, InTry
<1> QED BY <1>1, SlotInvariant, PTL

-----------------------------------------------------------------------------
(* fail_fast                                                               *)

LEMMA InitLaunch == Init => LaunchInv /\ FailFastInv
  BY DEF Init, LaunchInv, FailFastInv, Before, Launching, InTry, InEnd

LEMMA LaunchFresh == ASSUME TypeOK, LaunchInv, Launches PROVE LaunchInv'
<1> USE DEF LaunchInv, Fresh, InTry, InEnd, Before, Launching
<1>1. CASE Begin \/ LoopTop \/ PopenFails \/ Record \/ LaunchesDone
  BY <1>1 DEF Begin, LoopTop, PopenFails, Record, LaunchesDone,
              files, procs, queue
<1>2. CASE Select
  BY <1>2 DEF Select, TypeOK, procs
<1>3. CASE \E c \in Cells : TakeCell(c)
  BY <1>3 DEF TakeCell, procs
<1>4. CASE Popen
  BY <1>4 DEF Popen, TypeOK, queue
<1>5. CASE Append
  BY <1>5 DEF Append, procs
<1> QED BY <1>1, <1>2, <1>3, <1>4, <1>5 DEF Launches

LEMMA ReturnFresh == ASSUME TypeOK, LaunchInv, Returns PROVE LaunchInv'
<1> USE DEF LaunchInv, Fresh, InTry, InEnd, Before, Launching
<1>1. CASE Poll \/ (\E c \in Cells : FinishCell(c)) \/ EnterFinally \/ Reap \/ Final
  BY <1>1 DEF Poll, FinishCell, EnterFinally, Reap, Final, procs, queue
<1>2. CASE Retire
  BY <1>2 DEF Retire, AfterRetire, procs
<1>3. CASE Terminate
  BY <1>3 DEF Terminate, TypeOK, queue
<1> QED BY <1>1, <1>2, <1>3 DEF Returns

LEMMA OutsideFresh == ASSUME TypeOK, SlotInv, LaunchInv, Outside PROVE LaunchInv'
<1> USE DEF LaunchInv, Fresh, InTry, InEnd, Before, Launching
<1>1. CASE Run \/ OrphanRuns
  BY <1>1 DEF Run, OrphanRuns, queue
<1>2. CASE \E c \in Cells : CellRuns(c)
  BY <1>2 DEF CellRuns, CellStep, TypeOK, Phases, queue
<1>3. CASE Interrupt
  BY <1>3 DEF Interrupt, Abandon, TypeOK, queue
<1>4. CASE Crash
  BY <1>4 DEF Crash, queue
<1> QED BY <1>1, <1>2, <1>3, <1>4 DEF Outside

LEMMA NextFresh == TypeOK /\ SlotInv /\ LaunchInv /\ [Next]_vars => LaunchInv'
<1> SUFFICES ASSUME TypeOK, SlotInv, LaunchInv, [Next]_vars PROVE LaunchInv'
  OBVIOUS
<1>1. CASE UNCHANGED vars
  BY <1>1 DEF LaunchInv, Fresh, vars, procs, queue
<1> QED BY <1>1, NextGroups, LaunchFresh, ReturnFresh, OutsideFresh

LEMMA LaunchFailFast == ASSUME TypeOK, LaunchInv, FailFastInv, Launches
                        PROVE  FailFastInv'
<1> USE DEF FailFastInv, Unfinished, InTry
<1>1. CASE Begin \/ LoopTop \/ PopenFails \/ Record \/ LaunchesDone
  BY <1>1 DEF Begin, LoopTop, PopenFails, Record, LaunchesDone,
              files, procs, queue, flags
<1>2. CASE Select
  BY <1>2 DEF Select, LaunchInv, Fresh, Before, procs, flags
<1>3. CASE \E c \in Cells : TakeCell(c)
  BY <1>3 DEF TakeCell, LaunchInv, Fresh, TypeOK, procs, flags
<1>4. CASE Popen
  BY <1>4 DEF Popen, TypeOK, queue, flags
<1>5. CASE Append
  BY <1>5 DEF Append, procs, flags
<1> QED BY <1>1, <1>2, <1>3, <1>4, <1>5 DEF Launches

LEMMA ReturnFailFast == ASSUME TypeOK, SlotInv, FailFastInv, Returns
                        PROVE  FailFastInv'
<1> USE DEF FailFastInv, Unfinished, InTry
<1>1. CASE Poll \/ EnterFinally \/ Terminate \/ Reap \/ Final
  BY <1>1 DEF Poll, EnterFinally, Terminate, Reap, Final, procs, queue, flags
<1>2. CASE \E c \in Cells : FinishCell(c)
  BY <1>2 DEF FinishCell, TypeOK, procs, flags
<1>3. CASE Retire
  BY <1>3 DEF Retire, AfterRetire, procs, flags
<1> QED BY <1>1, <1>2, <1>3 DEF Returns

LEMMA OutsideFailFast == ASSUME TypeOK, SlotInv, FailFastInv, Outside
                         PROVE  FailFastInv'
<1> USE DEF FailFastInv, Unfinished, InTry
<1>1. CASE Run \/ OrphanRuns \/ Interrupt \/ Crash
  BY <1>1 DEF Run, OrphanRuns, Interrupt, Crash, queue, flags
<1>2. CASE \E c \in Cells : CellRuns(c)
  BY <1>2 DEF CellRuns, CellStep, SlotInv, Held, Alive, TypeOK, Phases, queue, flags
<1> QED BY <1>1, <1>2 DEF Outside

LEMMA NextFailFast == TypeOK /\ SlotInv /\ LaunchInv /\ FailFastInv /\ [Next]_vars
                        => FailFastInv'
<1> SUFFICES ASSUME TypeOK, SlotInv, LaunchInv, FailFastInv, [Next]_vars
             PROVE  FailFastInv'
  OBVIOUS
<1>1. CASE UNCHANGED vars
  BY <1>1 DEF FailFastInv, Unfinished, vars, procs, queue, flags
<1> QED BY <1>1, NextGroups, LaunchFailFast, ReturnFailFast, OutsideFailFast

LEMMA LaunchInvariant == Spec => [](LaunchInv /\ FailFastInv)
  BY InitTypes, NextTypes, InitSlots, NextSlots, InitLaunch, NextFresh, NextFailFast,
     PTL DEF Spec

\* Popen is the only step that adds a process.
LEMMA OnlyPopenStarts == ASSUME TypeOK, [Next]_vars, ~Popen PROVE Alive' \subseteq Alive
<1> USE DEF Alive
<1>1. CASE Launches
  BY <1>1 DEF Launches, Begin, Select, LoopTop, TakeCell, PopenFails, Append, Record,
              LaunchesDone, files, procs
<1>2. CASE Returns
  BY <1>2 DEF Returns, Poll, FinishCell, Retire, EnterFinally, Terminate, Reap, Final,
              procs, Phases, TypeOK
<1>3. CASE Outside
  BY <1>3 DEF Outside, Run, CellRuns, CellStep, OrphanRuns, Interrupt, Crash, Abandon,
              Phases, TypeOK
<1>4. CASE UNCHANGED vars
  BY <1>4 DEF vars, procs
<1> QED BY <1>1, <1>2, <1>3, <1>4, NextGroups

\* With fail_fast nothing is started any more in a run in which a cell came back
\* unfinished (the reset of pending in run_campaign).
THEOREM FailFastIsFinal == Spec => FailFastStops
<1>1. TypeOK /\ FailFastInv /\ [Next]_vars =>
        [(failFast /\ \E c \in Cells \ active : proc[c] = "exited" /\ cells[c] # "finished")
           => Alive' \subseteq Alive]_vars
  <2>1. ASSUME TypeOK, FailFastInv, Popen, failFast, Unfinished # {} PROVE FALSE
    BY <2>1 DEF FailFastInv, Popen, InTry
  <2> QED BY <2>1, OnlyPopenStarts DEF Unfinished
<1> QED BY <1>1, TypeCorrect, LaunchInvariant, PTL DEF Spec, FailFastStops

-----------------------------------------------------------------------------
(* The slot pool                                                           *)

\* Popen is the only step that admits a cell: the one taken last, to a free slot.
LEMMA PopenAdmits ==
  ASSUME TypeOK, SlotInv, LaunchInv, Popen
  PROVE  current \in Cells /\ Pool!Admit(current)
<1>1. /\ pc = "popen" /\ pc' = "append" /\ current \in Cells
      /\ UNCHANGED <<pending, active, current>>
  BY DEF Popen, TypeOK, queue, Launching
<1>2. current \notin pending /\ current \notin active
  BY <1>1 DEF LaunchInv, Launching, InTry
<1>3. Pool!Cardinality(active) < Concurrency
  <2>1. Pool!Cardinality(active) = Cardinality(active)
    BY DEF Pool!Cardinality, Cardinality
  <2> QED BY <1>1, <2>1 DEF SlotInv, Launching
<1>4. /\ Waiting = pending \cup {current} /\ Waiting' = pending
      /\ Admitted = active /\ Admitted' = active \cup {current}
  BY <1>1 DEF Waiting, Admitted, InTry
<1> QED BY <1>1, <1>2, <1>3, <1>4 DEF Pool!Admit, InTry

LEMMA LaunchPool ==
  ASSUME TypeOK, SlotInv, LaunchInv, Launches
  PROVE  [Pool!Next]_(Pool!vars)
<1> USE DEF Waiting, Admitted, InTry, InEnd, files, procs, queue, flags
<1>1. CASE Begin
  BY <1>1 DEF Begin, Pool!vars
<1>2. CASE Select
  <2>1. Pool!Open
    BY <1>2 DEF Select, Pool!Open, LaunchInv, Before
  <2> QED BY <2>1 DEF Pool!Next
<1>3. CASE LoopTop \/ PopenFails
  <2>1. Pool!Leave \/ UNCHANGED Pool!vars
    BY <1>3 DEF LoopTop, PopenFails, Pool!Leave, Pool!vars
  <2> QED BY <2>1 DEF Pool!Next
<1>4. CASE (\E c \in Cells : TakeCell(c)) \/ Append \/ Record \/ LaunchesDone
  BY <1>4 DEF TakeCell, Append, Record, LaunchesDone, Pool!vars
<1>5. CASE Popen
  BY <1>5, PopenAdmits DEF Pool!Next
<1> QED BY <1>1, <1>2, <1>3, <1>4, <1>5 DEF Launches

LEMMA ReturnPool ==
  ASSUME TypeOK, SlotInv, Returns
  PROVE  [Pool!Next]_(Pool!vars)
<1> USE DEF Waiting, Admitted, InTry, InEnd, files, procs, queue, flags
<1>1. CASE Poll \/ (\E c \in Cells : FinishCell(c)) \/ EnterFinally \/ Terminate \/ Final
  BY <1>1 DEF Poll, FinishCell, EnterFinally, Terminate, Final, Pool!vars
<1>2. CASE Retire
  <2>1. current \in active /\ current \in Cells
    BY <1>2 DEF Retire, SlotInv, TypeOK
  <2>2. Pool!Retire(current)
    BY <1>2, <2>1 DEF Retire, AfterRetire, Pool!Retire
  <2> QED BY <2>1, <2>2 DEF Pool!Next
<1>3. CASE Reap
  <2>1. (\E c \in active : Pool!Retire(c)) \/ UNCHANGED Pool!vars
    BY <1>3 DEF Reap, Pool!Retire, Pool!vars
  <2> QED BY <2>1 DEF Pool!Next, TypeOK
<1> QED BY <1>1, <1>2, <1>3 DEF Returns

LEMMA OutsidePool == ASSUME Outside PROVE [Pool!Next]_(Pool!vars)
<1> USE DEF Waiting, Admitted, InTry, InEnd, queue
<1>1. CASE Run
  BY <1>1 DEF Run, Pool!vars
<1>2. CASE (\E c \in Cells : CellRuns(c)) \/ OrphanRuns
  BY <1>2 DEF CellRuns, OrphanRuns, Pool!vars
<1>3. CASE Interrupt \/ Crash
  <2>1. Pool!Leave
    BY <1>3 DEF Interrupt, Crash, Pool!Leave
  <2> QED BY <2>1 DEF Pool!Next
<1> QED BY <1>1, <1>2, <1>3 DEF Outside

\* run_campaign implements the slot pool: a process is started only in a free slot
\* and in the try block, for a cell that was selected and not started yet in this
\* run, whatever raises, exits or is killed meanwhile.
THEOREM LoopIsSlotPool == Spec => RefinesPool
<1>1. Init => Pool!Init
  BY DEF Init, Pool!Init, Waiting, Admitted, InTry, InEnd
<1>2. TypeOK /\ SlotInv /\ LaunchInv /\ [Next]_vars => [Pool!Next]_(Pool!vars)
  <2>1. UNCHANGED vars => UNCHANGED Pool!vars
    BY DEF vars, queue, Pool!vars, Waiting, Admitted
  <2> QED BY <2>1, NextGroups, LaunchPool, ReturnPool, OutsidePool
<1> QED BY <1>1, <1>2, TypeCorrect, SlotInvariant, LaunchInvariant, PTL
        DEF Spec, RefinesPool, Pool!Spec

-----------------------------------------------------------------------------
(* The campaign's own state                                                *)

LEMMA NextCampaign == TypeOK /\ CampaignInv /\ [Next]_vars => CampaignInv'
<1> SUFFICES ASSUME TypeOK, CampaignInv, [Next]_vars PROVE CampaignInv'
  OBVIOUS
<1> USE DEF CampaignInv, CampaignFinished, TypeOK
<1>1. CASE Launches
  BY <1>1 DEF Launches, Begin, Select, LoopTop, TakeCell, Popen, PopenFails, Append,
              Record, LaunchesDone, files
<1>2. CASE Final
  BY <1>2 DEF Final, FinalState
<1>3. CASE Poll \/ (\E c \in Cells : FinishCell(c)) \/ EnterFinally \/ Terminate
  BY <1>3 DEF Poll, FinishCell, EnterFinally, Terminate, files
<1>4. CASE Retire \/ Reap
  BY <1>4 DEF Retire, AfterRetire, Reap
<1>5. CASE Outside
  BY <1>5 DEF Outside, Run, CellRuns, OrphanRuns, Interrupt, Crash, InTry, files
<1>6. CASE UNCHANGED vars
  BY <1>6 DEF vars, files
<1> QED BY <1>1, <1>2, <1>3, <1>4, <1>5, <1>6, NextGroups DEF Returns

\* A campaign reads finished only if every cell does: the write that says so is the
\* last of a run, and the first of the next one takes it back (run_campaign).
THEOREM CampaignIsFinished == Spec => []CampaignFinished
<1>1. Init => CampaignInv
  BY DEF Init, CampaignInv, CampaignFinished
<1>2. CampaignInv => CampaignFinished
  BY DEF CampaignInv
<1> QED BY <1>1, <1>2, TypeCorrect, NextCampaign, PTL DEF Spec

-----------------------------------------------------------------------------
(* Workers and what they leave in experiment.json                          *)

LEMMA InitWorkers == Init => WorkerInv /\ FinishedInv
  BY DEF Init, WorkerInv, FinishedInv, FinishedIsReal, Fresh, Workers, Phases, Terminal

LEMMA LaunchWorkers == ASSUME TypeOK, LaunchInv, WorkerInv, Launches PROVE WorkerInv'
<1> USE DEF WorkerInv, Workers, Fresh, Orphaned
<1>1. CASE Begin \/ Select \/ LoopTop \/ PopenFails \/ Append \/ Record \/ LaunchesDone
  BY <1>1 DEF Begin, Select, LoopTop, PopenFails, Append, Record, LaunchesDone,
              files, procs, history
<1>2. CASE \E c \in Cells : TakeCell(c)
  BY <1>2 DEF TakeCell, files, procs, history
<1>3. CASE Popen
  <2> SUFFICES ASSUME NEW c \in Cells \ doubled'
               PROVE  /\ ~Fresh(c)' => c \notin Orphaned'
                      /\ \A p, q \in Workers(c)' : p = q
                      /\ "checked" \in Workers(c)' => manifest'[c] = "prepared"
                      /\ "running" \in Workers(c)' => manifest'[c] = "running"
    OBVIOUS
  <2>1. c \notin doubled
    BY <1>3 DEF Popen
  <2>2. CASE c # current
    BY <1>3, <2>1, <2>2 DEF Popen, files, TypeOK
  <2>3. CASE c = current
    <3>1. c \notin Orphaned
      BY <1>3, <2>3 DEF Popen
    <3>2. Workers(c)' = {"starting"}
      BY <1>3, <2>3, <3>1 DEF Popen, TypeOK, Phases
    <3> QED BY <1>3, <3>1, <3>2 DEF Popen
  <2> QED BY <2>2, <2>3
<1> QED BY <1>1, <1>2, <1>3 DEF Launches

\* A step that takes workers away, and touches no experiment.json.
LEMMA SameWorkers ==
  ASSUME WorkerInv, UNCHANGED manifest, doubled \subseteq doubled',
         \A c \in Cells : Fresh(c) => Fresh(c)',
         \A c \in Cells, p \in Phases : proc'[c] = p => proc[c] = p,
         orphan' \subseteq orphan
  PROVE  WorkerInv'
<1> SUFFICES ASSUME NEW c \in Cells \ doubled'
             PROVE  /\ ~Fresh(c)' => c \notin Orphaned'
                    /\ \A p, q \in Workers(c)' : p = q
                    /\ "checked" \in Workers(c)' => manifest'[c] = "prepared"
                    /\ "running" \in Workers(c)' => manifest'[c] = "running"
  BY DEF WorkerInv
<1>1. Workers(c)' \subseteq Workers(c)
  BY DEF Workers
<1>2. Orphaned' \subseteq Orphaned
  BY DEF Orphaned
<1> QED BY <1>1, <1>2 DEF WorkerInv

LEMMA ReturnWorkers == ASSUME TypeOK, WorkerInv, Returns PROVE WorkerInv'
<1> USE DEF Fresh
<1>1. CASE Terminate
  <2>1. UNCHANGED <<manifest, orphan, doubled>>
    BY <1>1 DEF Terminate, files, history
  <2>2. CASE UNCHANGED proc
    BY <2>1, <2>2, SameWorkers
  <2>3. ASSUME NEW c \in active \cap Alive, proc' = [proc EXCEPT ![c] = "exited"]
        PROVE  WorkerInv'
    BY <2>1, <2>3, SameWorkers DEF TypeOK, Alive, Phases
  <2> QED BY <1>1, <2>2, <2>3 DEF Terminate
<1>2. CASE ~Terminate
  BY <1>2, SameWorkers DEF Returns, Poll, FinishCell, Retire, EnterFinally, Reap, Final,
              files, procs, history
<1> QED BY <1>1, <1>2

\* A worker of c leaves the state of experiment.json that its next phase expects.
LEMMA CellStepLeaves ==
  ASSUME TypeOK, NEW c \in Cells, NEW p \in Phases, NEW q \in Handles, CellStep(c, p, q),
         p = "checked" => manifest[c] = "prepared",
         p = "running" => manifest[c] = "running"
  PROVE  /\ q \in Phases \cup {"exited"}
         /\ q = "checked" => manifest'[c] = "prepared"
         /\ q = "running" => manifest'[c] = "running"
         /\ \A d \in Cells \ {c} : manifest'[d] = manifest[d]
         /\ manifest[c] \in Terminal => manifest'[c] = manifest[c]
  BY DEF CellStep, Phases, Handles, TypeOK, Terminal

LEMMA CellRunsWorkers == ASSUME TypeOK, WorkerInv, NEW c \in Cells, CellRuns(c)
                         PROVE  WorkerInv'
<1> USE DEF Fresh, Workers, Orphaned
<1>1. PICK q \in Handles : CellStep(c, proc[c], q) /\ proc' = [proc EXCEPT ![c] = q]
  BY DEF CellRuns
<1>2. UNCHANGED <<orphan, doubled>>
  BY DEF CellRuns, history
<1>3. proc[c] \in Phases
  BY <1>1 DEF CellStep, Phases
<1> SUFFICES ASSUME NEW d \in Cells \ doubled
             PROVE  /\ ~Fresh(d)' => d \notin Orphaned'
                    /\ \A r, s \in Workers(d)' : r = s
                    /\ "checked" \in Workers(d)' => manifest'[d] = "prepared"
                    /\ "running" \in Workers(d)' => manifest'[d] = "running"
  BY <1>2 DEF WorkerInv
<1>4. CASE d # c
  <2>1. manifest'[d] = manifest[d]
    BY <1>1, <1>4 DEF CellStep, TypeOK
  <2>2. Workers(d)' = Workers(d) /\ (Fresh(d)' <=> Fresh(d))
    BY <1>1, <1>2, <1>4 DEF TypeOK
  <2> QED BY <1>2, <2>1, <2>2 DEF WorkerInv
<1>5. CASE d = c
  <2>1. proc[c] # "none" /\ c \notin Orphaned
    BY <1>3, <1>5 DEF WorkerInv, Phases
  <2>2. Workers(c) = {proc[c]} /\ Workers(c)' = {q} \cap Phases
    BY <1>1, <1>2, <1>3, <2>1 DEF TypeOK
  <2>3. /\ q = "checked" => manifest'[c] = "prepared"
        /\ q = "running" => manifest'[c] = "running"
    BY <1>1, <1>3, <1>5, <2>2, CellStepLeaves DEF WorkerInv
  <2> QED BY <1>2, <1>5, <2>1, <2>2, <2>3
<1> QED BY <1>4, <1>5

LEMMA OrphanRunsWorkers == ASSUME TypeOK, WorkerInv, OrphanRuns PROVE WorkerInv'
<1> USE DEF Fresh, Workers, Orphaned
<1>1. PICK o \in orphan, q \in Handles :
        /\ CellStep(o[1], o[2], q)
        /\ orphan' = (orphan \ {o}) \cup (IF q \in Phases THEN {<<o[1], q>>} ELSE {})
  BY DEF OrphanRuns
<1> DEFINE c == o[1]
<1>2. UNCHANGED <<proc, doubled>>
  BY DEF OrphanRuns, history
<1>3. c \in Cells /\ o[2] \in Phases /\ o = <<c, o[2]>>
  BY DEF TypeOK
<1> SUFFICES ASSUME NEW d \in Cells \ doubled
             PROVE  /\ ~Fresh(d)' => d \notin Orphaned'
                    /\ \A r, s \in Workers(d)' : r = s
                    /\ "checked" \in Workers(d)' => manifest'[d] = "prepared"
                    /\ "running" \in Workers(d)' => manifest'[d] = "running"
  BY <1>2 DEF WorkerInv
<1> HIDE DEF c
<1>4. CASE d # c
  <2>1. manifest'[d] = manifest[d]
    BY <1>1, <1>3, <1>4 DEF CellStep, TypeOK, c
  <2>2. \A r : <<d, r>> \in orphan' <=> <<d, r>> \in orphan
    BY <1>1, <1>3, <1>4 DEF c
  <2>3. d \in Orphaned' => d \in Orphaned
    BY <1>1, <1>3, <1>4 DEF c
  <2>4. Workers(d)' = Workers(d) /\ (Fresh(d)' <=> Fresh(d))
    BY <1>2, <2>2
  <2> QED BY <2>1, <2>3, <2>4 DEF WorkerInv
<1>5. CASE d = c
  <2>1. c \in Cells \ doubled /\ c \in Orphaned /\ <<c, o[2]>> \in orphan
    BY <1>3, <1>5 DEF c
  <2>2. Fresh(c)
    BY <2>1 DEF WorkerInv
  <2>3. Workers(c) = {o[2]}
    <3>1. o[2] \in Workers(c)
      BY <1>3, <2>1
    <3>2. \A r, s \in Workers(c) : r = s
      BY <2>1 DEF WorkerInv
    <3> HIDE DEF Workers
    <3> QED BY <3>1, <3>2
  <2>4. Workers(c)' = {q} \cap Phases
    <3>1. \A r \in Phases : <<c, r>> \in orphan' <=> r = q
      BY <1>1, <1>3, <2>3 DEF c
    <3> QED BY <1>2, <2>2, <3>1 DEF Phases
  <2>5. /\ q = "checked" => manifest'[c] = "prepared"
        /\ q = "running" => manifest'[c] = "running"
    <3>1. CellStep(c, o[2], q)
      BY <1>1 DEF c
    <3>2. /\ o[2] = "checked" => manifest[c] = "prepared"
          /\ o[2] = "running" => manifest[c] = "running"
      BY <2>1, <2>3 DEF WorkerInv
    <3> QED BY <1>3, <3>1, <3>2, CellStepLeaves
  <2> QED BY <1>2, <1>5, <2>2, <2>4, <2>5
<1> QED BY <1>4, <1>5

LEMMA AbandonOrphans ==
  ASSUME TypeOK, NEW kept, Abandon(kept), NEW c \in Cells, NEW p
  PROVE  <<c, p>> \in orphan' <=> <<c, p>> \in orphan \/ (c \in Alive \ kept /\ p = proc[c])
<1> DEFINE left == {<<d, proc[d]>> : d \in Alive \ kept}
<1>1. orphan' = orphan \cup left
  BY DEF Abandon
<1>2. <<c, p>> \in left <=> c \in Alive \ kept /\ p = proc[c]
  BY Zenon
<1> HIDE DEF left
<1> QED BY <1>1, <1>2

\* Processes that are abandoned stay the workers of their cells.
LEMMA AbandonWorkers ==
  ASSUME TypeOK, WorkerInv, NEW kept, Abandon(kept), UNCHANGED <<manifest, doubled>>
  PROVE  WorkerInv'
<1> SUFFICES ASSUME NEW c \in Cells \ doubled
             PROVE  /\ ~Fresh(c)' => c \notin Orphaned'
                    /\ Workers(c)' \subseteq Workers(c)
  BY DEF WorkerInv
<1>1. proc'[c] = IF c \in kept THEN proc[c] ELSE "none"
  BY DEF Abandon
<1>2. c \in Orphaned' => c \in Orphaned \/ c \in Alive \ kept
  <2>1. c \in Orphaned' => \E p \in Phases : <<c, p>> \in orphan'
    <3>1. orphan' \subseteq Cells \X Phases
      BY DEF Abandon, Alive, TypeOK
    <3> QED BY <3>1 DEF Orphaned
  <2>2. \A p : <<c, p>> \in orphan => c \in Orphaned
    BY DEF Orphaned
  <2> QED BY <2>1, <2>2, AbandonOrphans
<1>3. CASE c \in kept \/ c \notin Alive
  BY <1>1, <1>2, <1>3, AbandonOrphans DEF WorkerInv, Workers, Fresh, Phases
<1>4. CASE c \in Alive \ kept
  BY <1>1, <1>4, AbandonOrphans DEF Workers, Fresh, Phases
<1> QED BY <1>3, <1>4

LEMMA OutsideWorkers == ASSUME TypeOK, WorkerInv, Outside PROVE WorkerInv'
<1>1. CASE Run
  BY <1>1, SameWorkers DEF Run, Fresh, Phases, files
<1>2. CASE Interrupt
  BY <1>2, AbandonWorkers DEF Interrupt, files, history
<1>3. CASE Crash
  BY <1>3, AbandonWorkers DEF Crash, files
<1> QED BY <1>1, <1>2, <1>3, CellRunsWorkers, OrphanRunsWorkers DEF Outside

LEMMA NextWorkers == TypeOK /\ LaunchInv /\ WorkerInv /\ [Next]_vars => WorkerInv'
<1> SUFFICES ASSUME TypeOK, LaunchInv, WorkerInv, [Next]_vars PROVE WorkerInv'
  OBVIOUS
<1>1. CASE UNCHANGED vars
  BY <1>1, SameWorkers DEF vars, files, procs, history, Fresh
<1> QED BY <1>1, NextGroups, LaunchWorkers, ReturnWorkers, OutsideWorkers

\* While no two processes work on a cell, nobody changes an experiment.json that is
\* terminal, nor one whose only worker has exited.
LEMMA ManifestKept ==
  ASSUME TypeOK, WorkerInv, [Next]_vars, NEW c \in Cells \ doubled
  PROVE  /\ manifest[c] \in Terminal => manifest'[c] = manifest[c]
         /\ ~Fresh(c) /\ c \notin Alive => manifest'[c] = manifest[c]
<1>1. CASE Launches
  BY <1>1 DEF Launches, Begin, Select, LoopTop, TakeCell, Popen, PopenFails, Append,
              Record, LaunchesDone, files
<1>2. CASE Returns
  BY <1>2 DEF Returns, Poll, FinishCell, Retire, EnterFinally, Terminate, Reap, Final,
              files
<1>3. CASE Run \/ Interrupt \/ Crash
  BY <1>3 DEF Run, Interrupt, Crash, files
<1>4. ASSUME NEW d \in Cells, CellRuns(d)
      PROVE  /\ manifest[c] \in Terminal => manifest'[c] = manifest[c]
             /\ ~Fresh(c) /\ c \notin Alive => manifest'[c] = manifest[c]
  <2>1. PICK q \in Handles : CellStep(d, proc[d], q)
    BY <1>4 DEF CellRuns
  <2>2. proc[d] \in Phases /\ d \in Alive
    BY <2>1 DEF CellStep, Phases, Alive
  <2>3. CASE d # c
    BY <2>1, <2>3 DEF CellStep, TypeOK
  <2>4. CASE d = c
    <3>1. proc[c] \in Workers(c)
      BY <2>2, <2>4 DEF Workers
    <3> QED BY <2>1, <2>2, <2>4, <3>1, CellStepLeaves DEF WorkerInv
  <2> QED BY <2>3, <2>4
<1>5. CASE OrphanRuns
  <2>1. PICK o \in orphan, q \in Handles : CellStep(o[1], o[2], q)
    BY <1>5 DEF OrphanRuns
  <2>2. o[1] \in Cells /\ o[2] \in Phases /\ o = <<o[1], o[2]>> /\ o[1] \in Orphaned
    BY DEF TypeOK, Orphaned
  <2>3. CASE o[1] # c
    BY <2>1, <2>2, <2>3 DEF CellStep, TypeOK
  <2>4. CASE o[1] = c
    <3>1. o[2] \in Workers(c)
      BY <2>2, <2>4 DEF Workers
    <3>2. Fresh(c)
      BY <2>2, <2>4 DEF WorkerInv
    <3>3. /\ o[2] = "checked" => manifest[c] = "prepared"
          /\ o[2] = "running" => manifest[c] = "running"
      BY <3>1 DEF WorkerInv
    <3> QED BY <2>1, <2>2, <2>4, <3>2, <3>3, CellStepLeaves
  <2> QED BY <2>3, <2>4
<1>6. CASE UNCHANGED vars
  BY <1>6 DEF vars, files
<1> QED BY <1>1, <1>2, <1>3, <1>4, <1>5, <1>6, NextGroups DEF Outside

LEMMA DoubledGrows == ASSUME [Next]_vars PROVE doubled \subseteq doubled'
<1>1. CASE Launches
  BY <1>1 DEF Launches, Begin, Select, LoopTop, TakeCell, Popen, PopenFails, Append,
              Record, LaunchesDone, history
<1>2. CASE Returns
  BY <1>2 DEF Returns, Poll, FinishCell, Retire, EnterFinally, Terminate, Reap, Final,
              history
<1>3. CASE Outside
  BY <1>3 DEF Outside, Run, CellRuns, OrphanRuns, Interrupt, Crash, history
<1>4. CASE UNCHANGED vars
  BY <1>4 DEF vars, history
<1> QED BY <1>1, <1>2, <1>3, <1>4, NextGroups

\* What a step may newly call finished, in the file or in memory: in the file what
\* memory calls so, in memory what the file calls so when it is read, or what
\* experiment.json does.
LEMMA NewlyFinished ==
  ASSUME TypeOK, [Next]_vars, NEW c \in Cells
  PROVE  /\ disk'.cells[c] = "finished" =>
              \/ disk.cells[c] = "finished"
              \/ pc # "idle" /\ cells[c] = "finished"
              \/ manifest[c] = "finished"
         /\ pc' # "idle" /\ cells'[c] = "finished" =>
              \/ disk.cells[c] = "finished"
              \/ pc # "idle" /\ cells[c] = "finished"
              \/ manifest[c] = "finished"
<1> USE DEF TypeOK
<1>1. CASE Launches
  BY <1>1 DEF Launches, Begin, Select, LoopTop, TakeCell, Popen, PopenFails, Append,
              Record, LaunchesDone, files, queue
<1>2. CASE Poll \/ Retire \/ EnterFinally \/ Terminate \/ Final
  BY <1>2 DEF Poll, Retire, AfterRetire, EnterFinally, Terminate, Final, files, queue
<1>3. CASE (\E d \in Cells : FinishCell(d)) \/ Reap
  BY <1>3 DEF FinishCell, Reap, Outcome, files
<1>4. CASE Outside
  BY <1>4 DEF Outside, Run, CellRuns, OrphanRuns, Interrupt, Crash, files, queue
<1>5. CASE UNCHANGED vars
  BY <1>5 DEF vars, files, queue
<1> QED BY <1>1, <1>2, <1>3, <1>4, <1>5, NextGroups DEF Returns

LEMMA NextFinished == TypeOK /\ WorkerInv /\ FinishedInv /\ [Next]_vars => FinishedInv'
<1> SUFFICES ASSUME TypeOK, WorkerInv, FinishedInv, [Next]_vars,
                    NEW c \in Cells \ doubled'
             PROVE  /\ disk'.cells[c] = "finished" => manifest'[c] = "finished"
                    /\ pc' # "idle" /\ cells'[c] = "finished" => manifest'[c] = "finished"
  BY DEF FinishedInv, FinishedIsReal
<1>1. c \in Cells \ doubled
  BY DoubledGrows
<1>2. manifest[c] = "finished" => manifest'[c] = "finished"
  BY <1>1, ManifestKept DEF Terminal
<1> QED BY <1>1, <1>2, NewlyFinished DEF FinishedInv, FinishedIsReal

LEMMA WorkerInvariant == Spec => [](WorkerInv /\ FinishedInv)
  BY InitTypes, NextTypes, InitSlots, NextSlots, InitLaunch, NextFresh, InitWorkers,
     NextWorkers, NextFinished, PTL DEF Spec

\* A cell reads finished only if its experiment does, over stops, crashes and later
\* runs, unless two processes worked on it (finish_cell, standalone.execute).
THEOREM FinishedHasResult == Spec => []FinishedIsReal
<1>1. FinishedInv => FinishedIsReal
  BY DEF FinishedInv
<1> QED BY <1>1, WorkerInvariant, PTL

-----------------------------------------------------------------------------
(* Terminal cells: the file and the controller's memory                    *)

LEMMA InitMemory == Init => MemoryInv
  BY DEF Init, MemoryInv, Before, InTry, InEnd, Launching

LEMMA LaunchMemory == ASSUME TypeOK, LaunchInv, MemoryInv, Launches PROVE MemoryInv'
<1> USE DEF MemoryInv, Before, InTry, InEnd, Launching
<1>1. CASE Begin
  BY <1>1 DEF Begin, queue, history
<1>2. CASE Select
  BY <1>2 DEF Select, LaunchInv, TypeOK, files, history
<1>3. CASE LoopTop \/ PopenFails \/ LaunchesDone
  BY <1>3 DEF LoopTop, PopenFails, LaunchesDone, Alive, Outcome, files, procs, queue, history
<1>4. ASSUME NEW c \in Cells, TakeCell(c) PROVE MemoryInv'
  <2>1. cells' = [cells EXCEPT ![c] = "running"] /\ "running" \notin Terminal
    BY <1>4 DEF TakeCell, Terminal
  <2>2. disk.cells[c] \notin Terminal
    BY <1>4 DEF TakeCell
  <2> QED BY <1>4, <2>1, <2>2 DEF TakeCell, Alive, Outcome, TypeOK, files, procs, history
<1>5. CASE Popen
  BY <1>5 DEF Popen, Alive, Outcome, TypeOK, files, queue
<1>6. CASE Append
  BY <1>6 DEF Append, Alive, Outcome, files, procs, history
<1>7. CASE Record
  BY <1>7 DEF Record, Alive, Outcome, TypeOK, procs, queue, history
<1> QED BY <1>1, <1>2, <1>3, <1>4, <1>5, <1>6, <1>7 DEF Launches

LEMMA ReturnMemory == ASSUME TypeOK, SlotInv, LaunchInv, MemoryInv, Returns
                      PROVE  MemoryInv'
<1> USE DEF MemoryInv, Before, InTry, InEnd, Launching
<1>1. CASE Poll \/ EnterFinally
  BY <1>1 DEF Poll, EnterFinally, Alive, Outcome, files, procs, queue, history
<1>2. ASSUME NEW c \in Cells, FinishCell(c) PROVE MemoryInv'
  <2>1. c \in active /\ c \notin pending /\ c \notin Alive
    BY <1>2 DEF FinishCell, SlotInv, LaunchInv, TypeOK
  <2> QED BY <1>2, <2>1 DEF FinishCell, Alive, Outcome, TypeOK, files, procs, history
<1>3. CASE Retire
  BY <1>3 DEF Retire, AfterRetire, Alive, Outcome, TypeOK, procs, history
<1>4. CASE Terminate
  BY <1>4 DEF Terminate, Alive, Outcome, Phases, TypeOK, files, queue, history
<1>5. CASE Reap
  BY <1>5 DEF Reap, SlotInv, Held, Alive, Outcome, TypeOK, procs, history
<1>6. CASE Final
  BY <1>6 DEF Final
<1> QED BY <1>1, <1>2, <1>3, <1>4, <1>5, <1>6 DEF Returns

LEMMA OutsideMemory ==
  ASSUME TypeOK, SlotInv, LaunchInv, WorkerInv, MemoryInv, [Next]_vars, Outside
  PROVE  MemoryInv'
<1> USE DEF MemoryInv, Before, InTry, InEnd, Launching
<1>1. CASE Run
  BY <1>1 DEF Run, files
<1>2. CASE (\E c \in Cells : CellRuns(c)) \/ OrphanRuns
  <2>1. UNCHANGED <<disk, pc, queue, history>>
    BY <1>2 DEF CellRuns, OrphanRuns
  <2>2. ASSUME pc \in InTry \cup InEnd, NEW c \in active \ doubled, cells[c] \in Terminal
        PROVE  c \notin Alive' /\ cells[c] = Outcome(c)'
    <3>1. c \in Cells \ doubled /\ ~Fresh(c) /\ c \notin Alive
      BY <2>2 DEF TypeOK, LaunchInv
    <3>2. manifest'[c] = manifest[c]
      BY <3>1, ManifestKept
    <3>3. c \notin Alive'
      <4>1. ~Popen
        BY <1>2 DEF CellRuns, OrphanRuns, Popen
      <4> QED BY <3>1, <4>1, OnlyPopenStarts
    <3> QED BY <2>2, <3>2, <3>3 DEF Outcome
  <2> QED BY <2>1, <2>2 DEF queue, history
<1>3. CASE Interrupt
  BY <1>3 DEF Interrupt, Abandon, Alive, Outcome, Phases, TypeOK, files, queue, history
<1>4. CASE Crash
  BY <1>4 DEF Crash
<1> QED BY <1>1, <1>2, <1>3, <1>4 DEF Outside

LEMMA NextMemory ==
  TypeOK /\ SlotInv /\ LaunchInv /\ WorkerInv /\ MemoryInv /\ [Next]_vars => MemoryInv'
<1> SUFFICES ASSUME TypeOK, SlotInv, LaunchInv, WorkerInv, MemoryInv, [Next]_vars
             PROVE  MemoryInv'
  OBVIOUS
<1>1. CASE UNCHANGED vars
  BY <1>1 DEF MemoryInv, Alive, Outcome, vars, files, procs, queue, history
<1> QED BY <1>1, NextGroups, LaunchMemory, ReturnMemory, OutsideMemory

LEMMA MemoryInvariant == Spec => []MemoryInv
  BY InitTypes, NextTypes, InitSlots, NextSlots, InitLaunch, NextFresh, InitWorkers,
     NextWorkers, InitMemory, NextMemory, PTL DEF Spec

\* The file is only ever rewritten with the cells the controller has in memory.
LEMMA WritesMemory ==
  ASSUME TypeOK, SlotInv, MemoryInv, [Next]_vars, NEW c \in Cells \ doubled,
         disk.cells[c] \in Terminal
  PROVE  disk'.cells[c] = disk.cells[c]
<1>1. CASE Begin \/ Record \/ Retire \/ Final
  <2>1. pc # "idle" /\ disk'.cells[c] \in {disk.cells[c], cells[c]}
    BY <1>1 DEF Begin, Record, Retire, Final, TypeOK
  <2> QED BY <2>1 DEF MemoryInv
<1>2. CASE Reap
  BY <1>2 DEF Reap, MemoryInv, TypeOK, InEnd
<1>3. CASE UNCHANGED disk
  BY <1>3
<1>4. Launches => Begin \/ Record \/ UNCHANGED disk
  BY DEF Launches, Begin, Select, LoopTop, TakeCell, Popen, PopenFails, Append, Record,
         LaunchesDone, files
<1>5. Returns => Retire \/ Reap \/ Final \/ UNCHANGED disk
  BY DEF Returns, Poll, FinishCell, Retire, EnterFinally, Terminate, Reap, Final, files
<1>6. Outside \/ UNCHANGED vars => UNCHANGED disk
  BY DEF Outside, Run, CellRuns, OrphanRuns, Interrupt, Crash, vars, files
<1> QED BY <1>1, <1>2, <1>3, <1>4, <1>5, <1>6, NextGroups

\* Once campaign.json calls a cell terminal, no later run starts it, and its state
\* stays unless two processes worked on it (the filter of run_campaign).
THEOREM TerminalCellsAreFinal == Spec => TerminalIsFinal
<1>1. TypeOK /\ SlotInv /\ MemoryInv /\ [Next]_vars =>
        [\A c \in Cells : disk.cells[c] \in Terminal =>
           /\ c \in doubled \/ disk'.cells[c] = disk.cells[c]
           /\ c \in Alive' => c \in Alive]_vars
  <2> SUFFICES ASSUME TypeOK, SlotInv, MemoryInv, [Next]_vars,
                      NEW c \in Cells, disk.cells[c] \in Terminal
               PROVE  /\ c \in doubled \/ disk'.cells[c] = disk.cells[c]
                      /\ c \in Alive' => c \in Alive
    OBVIOUS
  <2>1. CASE Popen
    BY <2>1 DEF Popen, MemoryInv, Alive, TypeOK, Launching, files
  <2> QED BY <2>1, WritesMemory, OnlyPopenStarts
<1> QED BY <1>1, TypeCorrect, SlotInvariant, MemoryInvariant, PTL DEF Spec, TerminalIsFinal
=============================================================================
