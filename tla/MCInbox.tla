------------------------------ MODULE MCInbox ------------------------------
(***************************************************************************)
(* Two users who share devices.                                            *)
(***************************************************************************)
EXTENDS Inbox, TLC

Symmetry == Permutations(Users) \cup Permutations(Notes) \cup Permutations(Tokens)
=============================================================================
