--------------------------- MODULE MCEdgeCampaign ---------------------------
(* Model-checking instances of EdgeCampaign. *)
EXTENDS EdgeCampaign, TLC

\* The cells of a campaign are interchangeable: the queue's order is open.
CellSymmetry == Permutations(Cells)
=============================================================================
