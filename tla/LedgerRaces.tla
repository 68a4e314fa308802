----------------------------- MODULE LedgerRaces -----------------------------
(***************************************************************************)
(* The ledger of users who have one device each, with a history variable   *)
(* for the only thing that can then come between what a request read and   *)
(* what it commits: the scheduler, which posts a user's due rules on its   *)
(* own schedule.                                                           *)
(***************************************************************************)
EXTENDS Ledger

VARIABLE posts   \* history: rows posted since the request looked at its wallet

racesVars == <<vars, posts>>

\* The wallet a pending request has looked at: the balance a transfer compared,
\* or the references a removal counted.
LookedAt(r) ==
    IF req[r].op = "transfer" THEN {req[r].from}
    ELSE IF req[r].op = "removeWallet" THEN {req[r].wallet}
    ELSE {}

RacesInit == Init /\ posts = [r \in Reqs |-> {}]

RacesNext ==
    \/ \E r \in Reqs : Handler(r) /\ posts' = [posts EXCEPT ![r] = {}]
    \/ SelectDue /\ UNCHANGED posts
    \/ \E t \in TxIds, row \in Row :
          /\ Post(t, row)
          /\ posts' = [r \in Reqs |-> IF row.wallet \in LookedAt(r) THEN posts[r] \cup {t} ELSE posts[r]]

RacesSpec == RacesInit /\ [][RacesNext]_racesVars

-----------------------------------------------------------------------------
PostedSum(r) ==
    SumFunction([t \in TxIds |-> IF t \in posts[r] THEN Effect(rows[t], req[r].from) ELSE 0])

\* A transfer takes its source below zero by no more than the rules the
\* scheduler posted there after the balance was compared: it leaves at least
\* their net amount.
OverdraftIsPosted ==
    [][\A r \in Reqs : TransferCommit(r) => balance'[req[r].from] >= PostedSum(r)]_racesVars

\* A removal that passed its two counts is refused by the foreign keys only over
\* rows the scheduler posted after the counts, never over a rule or a row of the
\* user's own.
RefusalIsPosted ==
    \A r \in Reqs : req[r].op = "removeWallet" =>
        /\ req[r].wallet \notin ruled
        /\ \A t \in TxIds : rows[t] \in Row /\ rows[t].wallet = req[r].wallet => t \in posts[r]
=============================================================================
