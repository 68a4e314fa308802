----------------------------- MODULE MCSessions -----------------------------
(***************************************************************************)
(* Symmetry for the instances of Sessions.                                 *)
(***************************************************************************)
EXTENDS Sessions, TLC

Symmetry == Permutations(Tokens) \cup Permutations(Reqs) \cup Permutations(Users)
=============================================================================
