----------------------------- MODULE LedgerDrift -----------------------------
(***************************************************************************)
(* The ledger of users with any number of devices, with a history variable *)
(* for the commits that trust a row which another request has changed or   *)
(* removed since it was read: what such a commit gives back to a wallet is *)
(* no longer what the row took from it.                                    *)
(***************************************************************************)
EXTENDS Ledger

VARIABLE drifted   \* history: wallets that a stale commit had to do with

driftVars == <<vars, drifted>>

\* The wallets of the row that request r read, of the row it finds and of its dto.
Named(r) ==
    {row.wallet : row \in {req[r].old, rows[req[r].tx]} \cap Row}
    \cup IF req[r].op = "update" THEN {req[r].patch.wallet} \ {Keep} ELSE {}

DriftInit == Init /\ drifted = {}

DriftNext ==
    \/ Next /\ ~StaleCommit /\ UNCHANGED drifted
    \/ \E r \in Reqs :
          /\ Stale(r)
          /\ UpdateCommit(r) \/ RemoveCommit(r)
          /\ drifted' = drifted \cup Named(r)

DriftSpec == DriftInit /\ [][DriftNext]_driftVars

-----------------------------------------------------------------------------
\* However many devices a user has, a balance drifts from what its transactions
\* and transfers explain only where a stale commit had a hand in it: in a wallet
\* of the row as it was read, as it is, or as the dto wants it.
ExactUnlessStale ==
    \A w \in Wallets : wallet[w] = "live" /\ w \notin drifted =>
        balance[w] = base[w] + LedgerSum(w) + TransferSum(w)
=============================================================================
