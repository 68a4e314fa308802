--------------------------- MODULE MCSavingsGoals ---------------------------
(***************************************************************************)
(* Two interchangeable devices for SavingsGoals.                           *)
(***************************************************************************)
EXTENDS SavingsGoals, TLC

CONSTANTS d1, d2

SaverSymmetry == Permutations(Savers)
=============================================================================
