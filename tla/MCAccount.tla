----------------------------- MODULE MCAccount -----------------------------
(***************************************************************************)
(* Two users, a category of the first and one of the system.               *)
(***************************************************************************)
EXTENDS Account, TLC

CONSTANTS u1, u2, c1, s1

MCCatOwner == [c \in Categories |-> IF c = s1 THEN System ELSE u1]

Symmetry == Permutations(Items) \cup Permutations(Reqs)
=============================================================================
