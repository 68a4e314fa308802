--------------------------- MODULE MCLedgerRaces ---------------------------
(***************************************************************************)
(* The instance of LedgerRaces: one user with one device and two wallets.  *)
(***************************************************************************)
EXTENDS LedgerRaces, MCLedger
=============================================================================
