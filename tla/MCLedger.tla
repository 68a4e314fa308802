------------------------------ MODULE MCLedger ------------------------------
(***************************************************************************)
(* Instances of Ledger: two wallets of one user and, where tenants matter, *)
(* a wallet of another; each device is named after its user.               *)
(***************************************************************************)
EXTENDS Ledger, TLC

CONSTANTS u1, u2, w1, w2, x1, d1, d2, e1, t1, t2

MCOwner == [w \in Wallets |-> IF w = x1 THEN u2 ELSE u1]
MCReqUser == [r \in Reqs |-> IF r = e1 THEN u2 ELSE u1]

NoChange == [wallet |-> Keep, type |-> Keep, amount |-> Keep]
Move(w)  == [NoChange EXCEPT !.wallet = w]
Flip     == [NoChange EXCEPT !.type = "income"]
Amount(a) == [NoChange EXCEPT !.amount = a]

\* Moves, flips and amounts alone, and two of them at once.
MCPatches == {Move(w2), Flip, Amount(2), [Move(w1) EXCEPT !.amount = 1]}
FewPatches == {Move(w2), Flip}

TxSymmetry == Permutations(TxIds)
=============================================================================
