------------------------------ MODULE Account ------------------------------
(***************************************************************************)
(* Categories, what is filed under them, and the deletion of an account.   *)
(* A transaction, recurring rule or budget is stored after a check that    *)
(* its category may be used; a category is deleted after two counts; an    *)
(* account is deleted by one db.transaction(..) of three statements, each  *)
(* with a snapshot of its own.  The foreign keys of transactions and rules *)
(* restrict the removal of categories, and through the wallets that of     *)
(* users; budgets go with either.  Amounts and wallets are in Ledger.      *)
(***************************************************************************)
EXTENDS FiniteSets

CONSTANTS
    Users,
    Categories,
    CatOwner,     \* the user of each category, or System
    System,       \* the owner of the shared categories
    Items,        \* identifiers of transactions and rules, never reused
    Reqs          \* requests, and the recurring run

Kinds == {"transaction", "rule"}

ASSUME OwnerAssumption == CatOwner \in [Categories -> Users \cup {System}] /\ System \notin Users

VARIABLES
    account,     \* users rows
    category,    \* categories rows
    item,        \* transactions and recurring_rules rows
    budget,      \* budgets rows: (user, category)
    req,         \* what each request has read, or deleted and not yet committed
    raced        \* history: removals that a new row got in the way of

vars == <<account, category, item, budget, req, raced>>

Row    == [kind : Kinds, user : Users, category : Categories]
Budget == Users \X Categories
Unused == [kind |-> "none"]
Gone   == [kind |-> "gone"]
Idle   == [op |-> "idle"]

Request ==
    [op : {"idle"}]
    \cup [op : {"add"}, row : Row]
    \cup [op : {"move"}, item : Items, to : Categories]
    \cup [op : {"budget"}, user : Users, category : Categories]
    \cup [op : {"removeCategory"}, user : Users, category : Categories, counted : SUBSET Kinds]
    \cup [op : {"deleteAccount"}, user : Users, cleared : SUBSET Kinds, rows : SUBSET Items]

TypeOK ==
    /\ account  \in [Users -> {"active", "gone"}]
    /\ category \in [Categories -> {"none", "live", "gone"}]
    /\ item     \in [Items -> Row \cup {Unused, Gone}]
    /\ budget   \subseteq Budget
    /\ req      \in [Reqs -> Request]
    /\ raced    \subseteq Reqs

\* The seeded categories are there before the first user.
Init ==
    /\ account  = [u \in Users |-> "active"]
    /\ category = [c \in Categories |-> IF CatOwner[c] = System THEN "live" ELSE "none"]
    /\ item     = [i \in Items |-> Unused]
    /\ budget   = {}
    /\ req      = [r \in Reqs |-> Idle]
    /\ raced    = {}

-----------------------------------------------------------------------------
ItemsOf(u)     == {i \in Items : item[i].kind \in Kinds /\ item[i].user = u}
ItemsIn(c)     == {i \in Items : item[i].kind \in Kinds /\ item[i].category = c}
OfKind(S, K)   == {i \in S : item[i].kind \in K}

\* Rows that a deletion under way has deleted: whoever wants to write one waits.
Locked(i) == \E r \in Reqs : req[r].op = "deleteAccount" /\ i \in req[r].rows

\* Variant: the category only has to exist.
Existing(u, c) == category[c] = "live"

\* assertCategoryUsable: a system category, or one of the user's.
Usable(u, c) == category[c] = "live" /\ CatOwner[c] \in {System, u}

\* The foreign keys of a new row.
Parents(u, c) == account[u] = "active" /\ category[c] = "live"

\* The removals under way that have looked already where a row now appears.
Overtaken(kind, u, c) ==
    {r \in Reqs : \/ req[r].op = "removeCategory" /\ req[r].category = c /\ kind \in req[r].counted
                  \/ req[r].op = "deleteAccount" /\ req[r].user = u /\ kind \in req[r].cleared}

Goto(r, q) == req' = [req EXCEPT ![r] = q]
End(r)     == Goto(r, Idle) /\ raced' = raced \ {r}

-----------------------------------------------------------------------------
\* CategoriesService.create; update changes nothing another row depends on.
CreateCategory(u, c) ==
    /\ account[u] = "active"
    /\ category[c] = "none" /\ CatOwner[c] = u
    /\ category' = [category EXCEPT ![c] = "live"]
    /\ UNCHANGED <<account, item, budget, req, raced>>

\* create of transactions and of rules: the check, then the insert.
AddCheck(r, kind, u, c) ==
    /\ req[r] = Idle
    /\ account[u] = "active"
    /\ Usable(u, c)
    /\ Goto(r, [op |-> "add", row |-> [kind |-> kind, user |-> u, category |-> c]])
    /\ UNCHANGED <<account, category, item, budget, raced>>

\* The recurring run: a rule it has selected, which may then be changed or
\* removed, is posted as a transaction.
SelectRule(r, i) ==
    /\ req[r] = Idle
    /\ item[i].kind = "rule"
    /\ Goto(r, [op |-> "add", row |-> [item[i] EXCEPT !.kind = "transaction"]])
    /\ UNCHANGED <<account, category, item, budget, raced>>

AddInsert(r, i) ==
    /\ req[r].op = "add"
    /\ item[i] = Unused
    /\ LET row == req[r].row
       IN  /\ Parents(row.user, row.category)
           /\ item'  = [item EXCEPT ![i] = row]
           /\ raced' = raced \cup Overtaken(row.kind, row.user, row.category)
    /\ Goto(r, Idle)
    /\ UNCHANGED <<account, category, budget>>

\* update of transactions and of rules, with a categoryId.
MoveCheck(r, i, c) ==
    /\ req[r] = Idle
    /\ item[i].kind \in Kinds
    /\ Usable(item[i].user, c)
    /\ Goto(r, [op |-> "move", item |-> i, to |-> c])
    /\ UNCHANGED <<account, category, item, budget, raced>>

MoveUpdate(r) ==
    /\ req[r].op = "move"
    /\ LET i == req[r].item
           c == req[r].to
       IN  /\ ~Locked(i)
           /\ item[i].kind \in Kinds => category[c] = "live"
           /\ item'  = IF item[i] = Gone THEN item ELSE [item EXCEPT ![i].category = c]
           /\ raced' = IF item[i] = Gone THEN raced
                       ELSE raced \cup Overtaken(item[i].kind, item[i].user, c)
    /\ Goto(r, Idle)
    /\ UNCHANGED <<account, category, budget>>

\* remove of transactions and of rules.
RemoveItem(i) ==
    /\ item[i].kind \in Kinds
    /\ ~Locked(i)
    /\ item' = [item EXCEPT ![i] = Gone]
    /\ UNCHANGED <<account, category, budget, req, raced>>

\* BudgetsService.upsert and remove.
BudgetCheck(r, u, c) ==
    /\ req[r] = Idle
    /\ account[u] = "active"
    /\ Usable(u, c)
    /\ Goto(r, [op |-> "budget", user |-> u, category |-> c])
    /\ UNCHANGED <<account, category, item, budget, raced>>

BudgetUpsert(r) ==
    /\ req[r].op = "budget"
    /\ Parents(req[r].user, req[r].category)
    /\ budget' = budget \cup {<<req[r].user, req[r].category>>}
    /\ Goto(r, Idle)
    /\ UNCHANGED <<account, category, item, raced>>

RemoveBudget(b) ==
    /\ b \in budget
    /\ budget' = budget \ {b}
    /\ UNCHANGED <<account, category, item, req, raced>>

-----------------------------------------------------------------------------
\* CategoriesService.remove: findOwned and the refusal of system categories,
FindOwned(r, u, c) ==
    /\ req[r] = Idle
    /\ account[u] = "active"
    /\ category[c] = "live" /\ CatOwner[c] = u
    /\ Goto(r, [op |-> "removeCategory", user |-> u, category |-> c, counted |-> {}])
    /\ UNCHANGED <<account, category, item, budget, raced>>

\* the two counts, which run at the same time on two connections,
Count(r, kind) ==
    /\ req[r].op = "removeCategory"
    /\ kind \notin req[r].counted
    /\ IF OfKind(ItemsIn(req[r].category), {kind}) = {}
       THEN Goto(r, [req[r] EXCEPT !.counted = @ \cup {kind}]) /\ UNCHANGED raced
       ELSE End(r)
    /\ UNCHANGED <<account, category, item, budget>>

Counted(r) == req[r].op = "removeCategory" /\ req[r].counted = Kinds

\* and the delete, which waits for rows that are being deleted.
DeleteCategory(r) ==
    /\ Counted(r)
    /\ LET c == req[r].category
       IN  /\ ItemsIn(c) = {}
           /\ category' = [category EXCEPT ![c] = "gone"]
           /\ budget'   = {b \in budget : b[2] # c}
    /\ End(r)
    /\ UNCHANGED <<account, item>>

-----------------------------------------------------------------------------
\* AuthService.deleteAccount, after the password: the block begins.
DeleteBegin(r, u) ==
    /\ req[r] = Idle
    /\ account[u] = "active"
    /\ Goto(r, [op |-> "deleteAccount", user |-> u, cleared |-> {}, rows |-> {}])
    /\ UNCHANGED <<account, category, item, budget, raced>>

\* Variants: outside the transaction; the rules are left to the cascade.
ClearAtOnce(r, kind, before) ==
    /\ req[r].op = "deleteAccount" /\ req[r].cleared = before
    /\ LET found == OfKind(ItemsOf(req[r].user), {kind})
       IN  item' = [i \in Items |-> IF i \in found THEN Gone ELSE item[i]]
    /\ Goto(r, [req[r] EXCEPT !.cleared = before \cup {kind}])
    /\ UNCHANGED <<account, category, budget, raced>>

ClearTransactions(r, kind, before) ==
    /\ req[r].op = "deleteAccount" /\ req[r].cleared = before
    /\ Goto(r, [req[r] EXCEPT !.cleared = before \cup {kind},
                              !.rows = @ \cup OfKind(ItemsOf(req[r].user), {"transaction"})])
    /\ UNCHANGED <<account, category, item, budget, raced>>

\* DELETE of the user's rows of one kind, not yet visible to others; it waits
\* for rows another deletion of the same account has deleted.
Clear(r, kind, before) ==
    /\ req[r].op = "deleteAccount" /\ req[r].cleared = before
    /\ LET found == OfKind(ItemsOf(req[r].user), {kind})
       IN  /\ \A i \in found : ~Locked(i)
           /\ Goto(r, [req[r] EXCEPT !.cleared = before \cup {kind}, !.rows = @ \cup found])
    /\ UNCHANGED <<account, category, item, budget, raced>>

DeleteTransactions(r) == Clear(r, "transaction", {})
DeleteRules(r)        == Clear(r, "rule", {"transaction"})

Cleared(r) == req[r].op = "deleteAccount" /\ req[r].cleared = Kinds

\* DELETE of the user and all that goes with the user, then the commit.  Rows
\* that the first statements did not see hold the wallets back: the block fails.
DeleteUser(r) ==
    /\ Cleared(r)
    /\ LET u == req[r].user
       IN  /\ ItemsOf(u) \subseteq req[r].rows
           /\ account'  = [account EXCEPT ![u] = "gone"]
           /\ item'     = [i \in Items |-> IF i \in req[r].rows THEN Gone ELSE item[i]]
           /\ category' = [c \in Categories |-> IF CatOwner[c] = u /\ category[c] = "live"
                                                THEN "gone" ELSE category[c]]
           /\ budget'   = {b \in budget : b[1] # u /\ CatOwner[b[2]] # u}
    /\ End(r)

\* A refused statement, a lost connection, a dead process: nothing is stored.
Fail(r) ==
    /\ req[r] # Idle
    /\ End(r)
    /\ UNCHANGED <<account, category, item, budget>>

Handler(r) ==
    \/ \E u \in Users, c \in Categories :
          \/ \E kind \in Kinds : AddCheck(r, kind, u, c)
          \/ BudgetCheck(r, u, c)
          \/ FindOwned(r, u, c)
    \/ \E u \in Users : DeleteBegin(r, u)
    \/ \E i \in Items : SelectRule(r, i) \/ AddInsert(r, i) \/ \E c \in Categories : MoveCheck(r, i, c)
    \/ \E kind \in Kinds : Count(r, kind)
    \/ MoveUpdate(r) \/ BudgetUpsert(r) \/ DeleteCategory(r)
    \/ DeleteTransactions(r) \/ DeleteRules(r) \/ DeleteUser(r)
    \/ Fail(r)

Next ==
    \/ \E r \in Reqs : Handler(r)
    \/ \E u \in Users, c \in Categories : CreateCategory(u, c) \/ RemoveBudget(<<u, c>>)
    \/ \E i \in Items : RemoveItem(i)

Spec == Init /\ [][Next]_vars

-----------------------------------------------------------------------------
\* Whatever is stored is filed under a category that exists and that its user
\* may see, and belongs to an account that exists: the check may be old by the
\* time of the insert, and the recurring run makes none.
FiledUnderUsable ==
    /\ \A i \in Items : item[i].kind \in Kinds =>
          Parents(item[i].user, item[i].category) /\ CatOwner[item[i].category] \in {System, item[i].user}
    /\ \A b \in budget : Parents(b[1], b[2]) /\ CatOwner[b[2]] \in {System, b[1]}

\* The two deletions that Postgres could refuse are prepared well enough: only
\* a row stored after they looked makes the database refuse a category that
\* passed both counts or an account whose rows are cleared.
RefusedOnlyIfRaced ==
    \A r \in Reqs \ raced :
        /\ Counted(r) => ItemsIn(req[r].category) = {}
        /\ Cleared(r) => ItemsOf(req[r].user) \subseteq req[r].rows

\* A deletion that fails, at whatever statement, costs its user nothing:
\* transactions, rules, categories and budgets go with the account in one step
\* or by their own removal, and a shared category never goes.
AllOrNothing ==
    [][/\ \A i \in Items : item[i].kind \in Kinds /\ item'[i] = Gone =>
             RemoveItem(i) \/ account'[item[i].user] = "gone"
       /\ \A c \in Categories : category[c] = "live" /\ category'[c] = "gone" =>
             /\ CatOwner[c] # System
             /\ account'[CatOwner[c]] = "gone" \/ \E r \in Reqs : req[r] # Idle /\ DeleteCategory(r)
       /\ \A u \in Users : account'[u] = "gone" => ItemsOf(u)' = {}]_vars
=============================================================================
