----------------------------- MODULE BudgetAlert -----------------------------
(***************************************************************************)
(* The budget alert of one user, category and month: a limit, the expenses *)
(* that count against it, and the alert TransactionsService.create emits   *)
(* when its expense is the one that reaches the limit.  The expense is     *)
(* committed first; then, in two selects of their own, the limit and the   *)
(* month's total are read back.                                            *)
(***************************************************************************)
EXTENDS Integers, FiniteSets, Functions

CONSTANTS
    Expenses,    \* ledger rows of the category and month
    Amounts,     \* their amountKhr
    Limits,      \* the limitKhr values users set
    Devices,     \* request slots
    NoBudget     \* no row for the user, month and category

ASSUME FiniteAssumption == IsFiniteSet(Expenses)
ASSUME AmountAssumption == Amounts \subseteq Nat \ {0}
ASSUME LimitAssumption  == Limits \subseteq Nat \ {0} /\ NoBudget \notin Limits

VARIABLES
    limit,     \* budgets.limitKhr, or NoBudget
    amount,    \* amountKhr of each expense row, 0 where there is none
    unused,    \* expenses not yet inserted
    req,       \* what the alert of each request still has to do
    alerts,    \* budget_alert notifications
    wasOver,   \* history: the limit was reached before the request's own expense
    during     \* history: what others changed since the request's commit

alertVars == <<limit, amount, unused, req, alerts, wasOver, during>>

Idle    == [pc |-> "idle"]
Request == [pc : {"idle"}]
           \cup [pc : {"budget"}, amount : Amounts]
           \cup [pc : {"sum"}, amount : Amounts, limit : Limits]
Change  == {"growth", "edit"}

AlertTypeOK ==
    /\ limit   \in Limits \cup {NoBudget}
    /\ amount  \in [Expenses -> Amounts \cup {0}]
    /\ unused  \in SUBSET Expenses
    /\ req     \in [Devices -> Request]
    /\ alerts  \in Nat
    /\ wasOver \in [Devices -> BOOLEAN]
    /\ during  \in [Devices -> SUBSET Change]

AlertInit ==
    /\ limit   = NoBudget
    /\ amount  = [e \in Expenses |-> 0]
    /\ unused  = Expenses
    /\ req     = [d \in Devices |-> Idle]
    /\ alerts  = 0
    /\ wasOver = [d \in Devices |-> FALSE]
    /\ during  = [d \in Devices |-> {}]

Total   == SumFunction(amount)
Reached == limit \in Limits /\ Total >= limit

\* The history of the requests under way when somebody makes a change, and that
\* of a request that ends.
Seen(change) == [d \in Devices |-> IF req[d] = Idle THEN {} ELSE during[d] \cup {change}]
Over(d) ==
    /\ req'     = [req EXCEPT ![d] = Idle]
    /\ during'  = [during EXCEPT ![d] = {}]
    /\ wasOver' = [wasOver EXCEPT ![d] = FALSE]

\* Variants: over the limit instead of at it; without "but was under before it".
CrossesBeyond(total, a, l) == total > l /\ total - a <= l
Exceeds(total, a, l)       == total >= l

\* "now at/over, but was under before it".
Crosses(total, a, l) == total >= l /\ total - a < l

-----------------------------------------------------------------------------
\* TransactionsService.create of an expense, up to its commit.
Create(d, e, a) ==
    /\ req[d] = Idle
    /\ e \in unused
    /\ unused'  = unused \ {e}
    /\ amount'  = [amount EXCEPT ![e] = a]
    /\ req'     = [req EXCEPT ![d] = [pc |-> "budget", amount |-> a]]
    /\ wasOver' = [wasOver EXCEPT ![d] = Reached]
    /\ during'  = Seen("growth")
    /\ UNCHANGED <<limit, alerts>>

\* maybeEmitBudgetAlert: the budget row, if any; then the month's total.
ReadBudget(d) ==
    /\ req[d].pc = "budget"
    /\ IF limit = NoBudget THEN Over(d)
       ELSE /\ req' = [req EXCEPT ![d] = [pc |-> "sum", amount |-> @.amount, limit |-> limit]]
            /\ UNCHANGED <<wasOver, during>>
    /\ UNCHANGED <<limit, amount, unused, alerts>>

SumAndEmit(d) ==
    /\ req[d].pc = "sum"
    /\ alerts' = IF Crosses(Total, req[d].amount, req[d].limit) THEN alerts + 1 ELSE alerts
    /\ Over(d)
    /\ UNCHANGED <<limit, amount, unused>>

\* A failed query or insert is logged, and the alert is not tried again.
Fail(d) ==
    /\ req[d] # Idle
    /\ Over(d)
    /\ UNCHANGED <<limit, amount, unused, alerts>>

\* BudgetsService.upsert and remove: no alert, however much is spent already.
SetLimit(d, l) ==
    /\ req[d] = Idle
    /\ limit'  = l
    /\ during' = Seen("edit")
    /\ UNCHANGED <<amount, unused, req, alerts, wasOver>>

Upsert(d, l)    == SetLimit(d, l)
RemoveBudget(d) == limit # NoBudget /\ SetLimit(d, NoBudget)

\* TransactionsService.update and remove: no alert either.  An amount of 0 stands
\* for an expense that was removed, or moved to another category, month or type.
EditExpense(d, e, a) ==
    /\ req[d] = Idle
    /\ amount[e] > 0
    /\ amount' = [amount EXCEPT ![e] = a]
    /\ during' = Seen("edit")
    /\ UNCHANGED <<limit, unused, req, alerts, wasOver>>

\* RecurringService.materialize posts an expense of the category: no alert.
Post(e, a) ==
    /\ e \in unused
    /\ unused' = unused \ {e}
    /\ amount' = [amount EXCEPT ![e] = a]
    /\ during' = Seen("growth")
    /\ UNCHANGED <<limit, req, alerts, wasOver>>

AlertNext ==
    \/ \E d \in Devices, e \in Expenses, a \in Amounts : Create(d, e, a)
    \/ \E d \in Devices, e \in Expenses, a \in Amounts \cup {0} : EditExpense(d, e, a)
    \/ \E d \in Devices : ReadBudget(d) \/ SumAndEmit(d) \/ Fail(d) \/ RemoveBudget(d)
    \/ \E d \in Devices, l \in Limits : Upsert(d, l)
    \/ \E e \in Expenses, a \in Amounts : Post(e, a)

AlertSpec == AlertInit /\ [][AlertNext]_alertVars

-----------------------------------------------------------------------------
\* "fires once, only on the transaction that crosses": when nobody changes the
\* category or its limit between a create's commit and its two selects, it alerts
\* exactly if its expense took the month's total from under the limit to it.
AlertIffCrossed ==
    [][\A d \in Devices :
          SumAndEmit(d) /\ during[d] = {} => (alerts' > alerts <=> ~wasOver[d] /\ Reached)]_alertVars

\* Expenses that other devices or the recurring run add in between may swallow
\* or double an alert, but never raise one about a limit that was reached before.
NoLateAlarm ==
    [][\A d \in Devices :
          SumAndEmit(d) /\ "edit" \notin during[d] /\ alerts' > alerts => ~wasOver[d]]_alertVars
=============================================================================
