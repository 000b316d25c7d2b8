----------------------------- MODULE CellSlots -----------------------------
(***************************************************************************)
(* What a cell queue promises: a fixed number of slots, each cell admitted  *)
(* to a slot at most once while the pool is open, nobody admitted after it  *)
(* closed.  The pool may be opened again once it is empty, and its owner    *)
(* may leave it or lose it with everything it holds.  Both campaign         *)
(* controllers implement it: EdgeCampaign (execute_cell_queue) and          *)
(* CommonMatrix (run_campaign).                                             *)
(***************************************************************************)
EXTENDS Naturals, FiniteSets

CONSTANTS Cells,
          Slots,
          Selections    \* the sets of cells the pool may be opened for

VARIABLES waiting, running, closed

vars == <<waiting, running, closed>>

Init == waiting = {} /\ running = {} /\ closed = TRUE

Open ==
  /\ closed /\ waiting = {} /\ running = {}
  /\ waiting' \in Selections /\ closed' = FALSE
  /\ UNCHANGED running

Admit(c) ==
  /\ ~closed
  /\ c \in waiting /\ c \notin running
  /\ Cardinality(running) < Slots
  /\ waiting' = waiting \ {c}
  /\ running' = running \cup {c}
  /\ UNCHANGED closed

\* Not started: nothing to do for the cell, or it could not be launched.
Drop(c) ==
  /\ c \in waiting
  /\ waiting' = waiting \ {c}
  /\ UNCHANGED <<running, closed>>

\* A cell comes back, and with it the owner may give up all that wait.
Retire(c) ==
  /\ c \in running
  /\ running' = running \ {c}
  /\ waiting' \in {waiting, {}}
  /\ UNCHANGED closed

Close ==
  /\ ~closed
  /\ closed' = TRUE
  /\ UNCHANGED <<waiting, running>>

\* The pool is left: what still waits is never started, and of what runs the
\* owner may lose sight.
Leave ==
  /\ waiting' = {} /\ closed' = TRUE
  /\ running' \in SUBSET running

Next ==
  \/ Open \/ Close \/ Leave
  \/ \E c \in Cells : Admit(c) \/ Drop(c) \/ Retire(c)

Spec == Init /\ [][Next]_vars
=============================================================================
