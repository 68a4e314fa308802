--------------------------- MODULE MCBudgetAlert ---------------------------
(***************************************************************************)
(* Instances of BudgetAlert.                                               *)
(***************************************************************************)
EXTENDS BudgetAlert, TLC

CONSTANTS e1, e2, e3, d1, d2

BudgetSymmetry == Permutations({e1, e2, e3}) \cup Permutations(Devices)
=============================================================================
