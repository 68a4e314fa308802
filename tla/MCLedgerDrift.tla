---------------------------- MODULE MCLedgerDrift ----------------------------
(***************************************************************************)
(* The instance of LedgerDrift: a user with two devices beside another.    *)
(***************************************************************************)
EXTENDS LedgerDrift, MCLedger

DeviceSymmetry == Permutations({d1, d2})
=============================================================================
