--------------------------- MODULE MCCommonMatrix ---------------------------
(* Model-checking instances of CommonMatrix. *)
EXTENDS CommonMatrix, TLC

\* The loop takes the cells in some order; no property depends on which.
CellSymmetry == Permutations(Cells)
=============================================================================
