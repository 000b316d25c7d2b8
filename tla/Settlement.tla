----------------------------- MODULE Settlement -----------------------------
(***************************************************************************)
(* What a closeout promises, whatever interrupts it: one artifact is       *)
(* chosen, it alone is installed, and the result is settled afterwards.    *)
(***************************************************************************)
CONSTANT Artifacts
VARIABLES chosen, installed, settled

None == <<>>
vars == <<chosen, installed, settled>>

Init == chosen = None /\ installed = None /\ settled = FALSE

Choose ==
  /\ chosen = None
  /\ chosen' \in Artifacts
  /\ UNCHANGED <<installed, settled>>

Install ==
  /\ chosen # None /\ installed = None
  /\ installed' = chosen
  /\ UNCHANGED <<chosen, settled>>

Settle ==
  /\ installed # None /\ ~settled
  /\ settled' = TRUE
  /\ UNCHANGED <<chosen, installed>>

Next == Choose \/ Install \/ Settle
Spec == Init /\ [][Next]_vars
=============================================================================
