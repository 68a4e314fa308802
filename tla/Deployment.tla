----------------------------- MODULE Deployment -----------------------------
(***************************************************************************)
(* Containers that boot, serve and are killed, and the rate cache that one *)
(* of them, Host, keeps while it serves.                                   *)
(***************************************************************************)
EXTENDS Migrator, RateCache

CONSTANT Host

ASSUME HostAssumption == Host \in Instances

vars == <<migrator, rates>>

Serves(i) == boot[i] = "serving"

Init == MigratorInit /\ RatesInit

\* What happens to Host's memory when a process gets on or goes.
BootOrKill ==
    /\ MigratorNext
    /\ IF Serves(Host) /\ ~Serves(Host)' THEN Forget ELSE UNCHANGED rates

\* Host's clock is looked at only while it serves.
GetRates ==
    /\ Serves(Host)
    /\ RatesNext
    /\ UNCHANGED migrator

Next == BootOrKill \/ GetRates

Spec == Init /\ [][Next]_vars

\* Postgres grants a lock in the order it was asked for, and processes go on;
\* answers of the provider and restarts may fail to come.
Fairness ==
    \A i \in Instances : SF_vars(Lock(i) /\ UNCHANGED rates) /\ WF_vars(BootStep(i) /\ BootOrKill)

FairSpec == Spec /\ Fairness

-----------------------------------------------------------------------------
\* While a process serves, its cache keeps the last good rate and never goes
\* back in time, whatever fails; it goes back to an older rate only if the body
\* of an older answer came in after a newer answer was stored.
CacheMovesOn ==
    [][cache' # cache /\ cache # Fallback /\ Serves(Host)' =>
          /\ cache' # Fallback
          /\ cache'.at >= cache.at
          /\ cache'.rate >= cache.rate \/ \E r \in overtaken : Store(r)]_vars
=============================================================================
