------------------------------- MODULE Ledger -------------------------------
(***************************************************************************)
(* The money of the application: wallets with a stored balance, the ledger *)
(* of income and expense transactions that explains it, and the transfers  *)
(* between wallets.  A request is a process.  A handler that reads before  *)
(* it writes is two steps: the read, made outside any database             *)
(* transaction, and the commit of the db.transaction(..) block that uses   *)
(* what was read.  The commit is one step because its statements are       *)
(* relative updates under row locks and become visible together; a block   *)
(* that fails (foreign key, number out of range, lost connection, killed   *)
(* process) leaves no trace and ends the request.                          *)
(***************************************************************************)
EXTENDS Integers, FiniteSets, Functions

CONSTANTS
    Users, Wallets,
    Owner,       \* the user of each wallet
    TxIds,       \* identifiers of ledger rows, never reused
    Reqs,        \* request slots: one device sends one request at a time
    ReqUser,     \* the user each device is signed in as
    Amounts,     \* the amountKhr values sent by clients
    Openings,    \* the balanceKhr values clients set on a wallet
    Patches,     \* the UpdateTransactionDto values sent by clients
    Ops,         \* the handlers offered in this instance
    MaxKhr,      \* the largest magnitude a bigint balance column holds
    MaxMoved,    \* bound on what one wallet ever sends to another
    Keep,        \* "field absent from the dto"
    Unissued, Deleted

Types == {"income", "expense"}
Row   == [user : Users, wallet : Wallets, type : Types, amount : Amounts]
Patch == [wallet : Wallets \cup {Keep}, type : Types \cup {Keep},
          amount : Amounts \cup {Keep}]
AllOps == {"create", "update", "remove", "transfer", "edit", "removeWallet",
           "rules"}

ASSUME OwnerAssumption  == Owner \in [Wallets -> Users] /\ ReqUser \in [Reqs -> Users]
ASSUME FiniteAssumption == IsFiniteSet(Wallets) /\ IsFiniteSet(TxIds)
ASSUME AmountAssumption == Amounts \subseteq Nat \ {0} /\ Openings \subseteq Nat
ASSUME BoundAssumption  == MaxKhr \in Nat /\ MaxMoved \in Nat
ASSUME PatchAssumption  == Patches \subseteq Patch
ASSUME KeepAssumption   == Keep \notin Wallets /\ Keep \notin Types /\ Keep \notin Amounts
ASSUME NoRowAssumption  == Unissued \notin Row /\ Deleted \notin Row /\ Unissued # Deleted
ASSUME OpsAssumption    == Ops \subseteq AllOps

VARIABLES
    wallet,    \* wallets table: "unborn", "live" or "gone"
    balance,   \* wallets.balanceKhr
    rows,      \* transactions table
    moved,     \* transfers table: riel sent, per (from, to)
    ruled,     \* wallets some recurring rule posts to
    due,       \* wallets of the rules the scheduler's last select returned
    req,       \* what each request has read and is about to commit
    base       \* history variable: what balance held without ledger and transfers

vars == <<wallet, balance, rows, moved, ruled, due, req, base>>

Idle == [op |-> "idle"]
Request ==
    [op : {"idle"}]
    \cup [op : {"create"}, row : Row]
    \cup [op : {"update"}, tx : TxIds, old : Row, patch : Patch]
    \cup [op : {"remove"}, tx : TxIds, old : Row]
    \cup [op : {"transfer"}, from : Wallets, to : Wallets, amount : Amounts]
    \cup [op : {"removeWallet"}, wallet : Wallets]

TypeOK ==
    /\ wallet  \in [Wallets -> {"unborn", "live", "gone"}]
    /\ balance \in [Wallets -> Int]
    /\ base    \in [Wallets -> Int]
    /\ rows    \in [TxIds -> Row \cup {Unissued, Deleted}]
    /\ moved   \in [Wallets \X Wallets -> Nat]
    /\ ruled   \in SUBSET Wallets
    /\ due     \in SUBSET Wallets
    /\ req     \in [Reqs -> Request]

-----------------------------------------------------------------------------
\* Helpers of the services.  Beside some operators stands a variant, the
\* operator with a plausible slip; no behaviour of Spec uses a variant.

SignedAmount(row) == IF row.type = "income" THEN row.amount ELSE -row.amount

\* Variant: the user is left out of the WHERE clause.
Live(u, w) == wallet[w] = "live"

Owned(u, w) == wallet[w] = "live" /\ Owner[w] = u

\* Variant: `?? existing.type` is left out.
PatchedType(row, p) ==
    [row EXCEPT !.wallet = IF p.wallet = Keep THEN @ ELSE p.wallet,
                !.type   = p.type,
                !.amount = IF p.amount = Keep THEN @ ELSE p.amount]

\* `dto.field ?? existing.field`, and the SET list that skips absent fields.
Patched(row, p) ==
    [row EXCEPT !.wallet = IF p.wallet = Keep THEN @ ELSE p.wallet,
                !.type   = IF p.type   = Keep THEN @ ELSE p.type,
                !.amount = IF p.amount = Keep THEN @ ELSE p.amount]

\* UPDATE wallets SET balance = balance + d WHERE id = w AND userId = u.
ApplyToWallet(b, u, w, d) == IF Owned(u, w) THEN [b EXCEPT ![w] = @ + d] ELSE b

\* The column holds the balance; otherwise Postgres rejects the statement.
Fits(b) == \A w \in Wallets : b[w] \in -MaxKhr .. MaxKhr

Referenced(w) == \E t \in TxIds : rows[t] \in Row /\ rows[t].wallet = w

\* The row a `WHERE id = t AND userId = u` select finds.
Visible(u, t) == rows[t] \in Row /\ rows[t].user = u

\* Variant: the request is carried out again.
Again(r) == UNCHANGED req

Done(r) == req' = [req EXCEPT ![r] = Idle]

-----------------------------------------------------------------------------
Init ==
    /\ wallet  = [w \in Wallets |-> "unborn"]
    /\ balance = [w \in Wallets |-> 0]
    /\ base    = [w \in Wallets |-> 0]
    /\ rows    = [t \in TxIds |-> Unissued]
    /\ moved   = [p \in Wallets \X Wallets |-> 0]
    /\ ruled   = {}
    /\ due     = {}
    /\ req     = [r \in Reqs |-> Idle]

\* WalletsService.create.
CreateWallet(r, w, b) ==
    /\ req[r] = Idle
    /\ wallet[w] = "unborn"
    /\ Owner[w] = ReqUser[r]
    /\ wallet'  = [wallet EXCEPT ![w] = "live"]
    /\ balance' = [balance EXCEPT ![w] = b]
    /\ base'    = [base EXCEPT ![w] = b]
    /\ UNCHANGED <<rows, moved, ruled, due, req>>

\* WalletsService.update with a balanceKhr: an absolute write.
EditBalance(r, w, b) ==
    /\ "edit" \in Ops
    /\ req[r] = Idle
    /\ Owned(ReqUser[r], w)
    /\ balance' = [balance EXCEPT ![w] = b]
    /\ base'    = [base EXCEPT ![w] = @ + (b - balance[w])]
    /\ UNCHANGED <<wallet, rows, moved, ruled, due, req>>

\* Variants: the wallet is not checked; the balance is not moved.
CreateCheckAnyWallet(r, row) ==
    /\ "create" \in Ops
    /\ req[r] = Idle
    /\ row.user = ReqUser[r]
    /\ req' = [req EXCEPT ![r] = [op |-> "create", row |-> row]]
    /\ UNCHANGED <<wallet, balance, rows, moved, ruled, due, base>>

InsertOnly(row, t) ==
    /\ rows[t] = Unissued
    /\ wallet[row.wallet] = "live"
    /\ rows' = [rows EXCEPT ![t] = row]
    /\ UNCHANGED <<wallet, balance, moved, ruled, due, base>>

\* TransactionsService.create: the ownership check, then the transaction.
CreateCheck(r, row) ==
    /\ "create" \in Ops
    /\ req[r] = Idle
    /\ row.user = ReqUser[r]
    /\ Owned(ReqUser[r], row.wallet)
    /\ req' = [req EXCEPT ![r] = [op |-> "create", row |-> row]]
    /\ UNCHANGED <<wallet, balance, rows, moved, ruled, due, base>>

Insert(row, t) ==
    /\ rows[t] = Unissued
    /\ wallet[row.wallet] = "live"
    /\ rows' = [rows EXCEPT ![t] = row]
    /\ balance' = ApplyToWallet(balance, row.user, row.wallet, SignedAmount(row))
    /\ Fits(balance')
    /\ UNCHANGED <<wallet, moved, ruled, due, base>>

CreateCommit(r, t) ==
    /\ req[r].op = "create"
    /\ Insert(req[r].row, t)
    /\ Done(r)

\* TransactionsService.update: findOne and the ownership check, then the
\* transaction, which trusts the row findOne returned.
UpdateRead(r, t, p) ==
    /\ "update" \in Ops
    /\ req[r] = Idle
    /\ Visible(ReqUser[r], t)
    /\ p.wallet # Keep => Owned(ReqUser[r], p.wallet)
    /\ req' = [req EXCEPT ![r] = [op |-> "update", tx |-> t, old |-> rows[t], patch |-> p]]
    /\ UNCHANGED <<wallet, balance, rows, moved, ruled, due, base>>

UpdateCommit(r) ==
    /\ req[r].op = "update"
    /\ LET t    == req[r].tx
           u    == ReqUser[r]
           old  == req[r].old
           new  == Patched(old, req[r].patch)
           back == ApplyToWallet(balance, u, old.wallet, -SignedAmount(old))
       IN  /\ rows[t] \in Row => wallet[Patched(rows[t], req[r].patch).wallet] = "live"
           /\ rows' = [rows EXCEPT ![t] = IF @ \in Row THEN Patched(@, req[r].patch) ELSE @]
           /\ balance' = ApplyToWallet(back, u, new.wallet, SignedAmount(new))
           /\ Fits(back) /\ Fits(balance')
    /\ Done(r)
    /\ UNCHANGED <<wallet, moved, ruled, due, base>>

\* TransactionsService.remove: findOne, then the transaction, which trusts it.
RemoveRead(r, t) ==
    /\ "remove" \in Ops
    /\ req[r] = Idle
    /\ Visible(ReqUser[r], t)
    /\ req' = [req EXCEPT ![r] = [op |-> "remove", tx |-> t, old |-> rows[t]]]
    /\ UNCHANGED <<wallet, balance, rows, moved, ruled, due, base>>

\* Variant: the money is not given back.
RemoveCommitOnly(r) ==
    /\ req[r].op = "remove"
    /\ rows' = [rows EXCEPT ![req[r].tx] = IF @ \in Row THEN Deleted ELSE @]
    /\ Done(r)
    /\ UNCHANGED <<wallet, balance, moved, ruled, due, base>>

RemoveCommit(r) ==
    /\ req[r].op = "remove"
    /\ LET old == req[r].old
       IN  /\ rows' = [rows EXCEPT ![req[r].tx] = IF @ \in Row THEN Deleted ELSE @]
           /\ balance' = ApplyToWallet(balance, ReqUser[r], old.wallet, -SignedAmount(old))
           /\ Fits(balance')
    /\ Done(r)
    /\ UNCHANGED <<wallet, moved, ruled, due, base>>

\* Variant: the balance is not compared.
TransferUnchecked(r, f, t, a) ==
    /\ "transfer" \in Ops
    /\ req[r] = Idle
    /\ f # t
    /\ Owned(ReqUser[r], f) /\ Owned(ReqUser[r], t)
    /\ req' = [req EXCEPT ![r] = [op |-> "transfer", from |-> f, to |-> t, amount |-> a]]
    /\ UNCHANGED <<wallet, balance, rows, moved, ruled, due, base>>

\* TransfersService.create: the two wallets and the balance are read, then the
\* transaction moves the money without looking at the balance again.
TransferCheck(r, f, t, a) ==
    /\ "transfer" \in Ops
    /\ req[r] = Idle
    /\ f # t
    /\ Owned(ReqUser[r], f) /\ Owned(ReqUser[r], t)
    /\ balance[f] >= a
    /\ req' = [req EXCEPT ![r] = [op |-> "transfer", from |-> f, to |-> t, amount |-> a]]
    /\ UNCHANGED <<wallet, balance, rows, moved, ruled, due, base>>

TransferCommit(r) ==
    /\ req[r].op = "transfer"
    /\ LET f == req[r].from
           t == req[r].to
           a == req[r].amount
       IN  /\ wallet[f] = "live" /\ wallet[t] = "live"
           /\ moved[<<f, t>>] + a <= MaxMoved
           /\ moved'   = [moved EXCEPT ![<<f, t>>] = @ + a]
           /\ balance' = [balance EXCEPT ![f] = @ - a, ![t] = @ + a]
           /\ Fits(balance')
    /\ Done(r)
    /\ UNCHANGED <<wallet, rows, ruled, due, base>>

\* Variants: the transactions are not counted; the foreign keys do not restrict.
RemoveWalletUncounted(r, w) ==
    /\ "removeWallet" \in Ops
    /\ req[r] = Idle
    /\ Owned(ReqUser[r], w)
    /\ w \notin ruled
    /\ req' = [req EXCEPT ![r] = [op |-> "removeWallet", wallet |-> w]]
    /\ UNCHANGED <<wallet, balance, rows, moved, ruled, due, base>>

RemoveWalletUnguarded(r) ==
    /\ req[r].op = "removeWallet"
    /\ wallet' = [wallet EXCEPT ![req[r].wallet] = "gone"]
    /\ Done(r)
    /\ UNCHANGED <<balance, rows, moved, ruled, due, base>>

\* WalletsService.remove: two counts, then the delete.  Its transfers go with
\* the wallet (ON DELETE CASCADE), its transactions and rules forbid it.  The
\* lookup and the counts are one step: what comes between them and what comes
\* after them meet the same foreign keys.
RemoveWalletCheck(r, w) ==
    /\ "removeWallet" \in Ops
    /\ req[r] = Idle
    /\ Owned(ReqUser[r], w)
    /\ ~Referenced(w)
    /\ w \notin ruled
    /\ req' = [req EXCEPT ![r] = [op |-> "removeWallet", wallet |-> w]]
    /\ UNCHANGED <<wallet, balance, rows, moved, ruled, due, base>>

RemoveWalletCommit(r) ==
    /\ req[r].op = "removeWallet"
    /\ LET w == req[r].wallet
       IN  /\ ~Referenced(w)
           /\ w \notin ruled
           /\ wallet'  = [wallet EXCEPT ![w] = "gone"]
           /\ moved'   = [p \in Wallets \X Wallets |-> IF w \in {p[1], p[2]} THEN 0 ELSE moved[p]]
           /\ base'    = [v \in Wallets |-> IF v = w THEN balance[w]
                                           ELSE base[v] + moved[<<w, v>>] - moved[<<v, w>>]]
    /\ Done(r)
    /\ UNCHANGED <<balance, rows, ruled, due>>

\* A request that fails after its reads: nothing of it is stored.
Abort(r) ==
    /\ req[r] # Idle
    /\ Done(r)
    /\ UNCHANGED <<wallet, balance, rows, moved, ruled, due, base>>

\* RecurringService: a rule keeps its wallet from being removed; the scheduler
\* selects the due rules and then posts occurrences from what it selected,
\* whether or not the rule is still there (Recurring models rules and dates).
AddRule(r, w) ==
    /\ "rules" \in Ops
    /\ req[r] = Idle
    /\ Owned(ReqUser[r], w)
    /\ ruled' = ruled \cup {w}
    /\ UNCHANGED <<wallet, balance, rows, moved, due, req, base>>

DropRule(r, w) ==
    /\ req[r] = Idle
    /\ w \in ruled /\ Owner[w] = ReqUser[r]
    /\ ruled' = ruled \ {w}
    /\ UNCHANGED <<wallet, balance, rows, moved, due, req, base>>

SelectDue ==
    /\ \E D \in SUBSET ruled : due' = D
    /\ UNCHANGED <<wallet, balance, rows, moved, ruled, req, base>>

Post(t, row) ==
    /\ row.wallet \in due
    /\ row.user = Owner[row.wallet]
    /\ Insert(row, t)
    /\ UNCHANGED req

Handler(r) ==
    \/ \E w \in Wallets, b \in Openings : CreateWallet(r, w, b) \/ EditBalance(r, w, b)
    \/ \E row \in Row : CreateCheck(r, row)
    \/ \E t \in TxIds, p \in Patches : UpdateRead(r, t, p)
    \/ \E t \in TxIds : CreateCommit(r, t) \/ RemoveRead(r, t)
    \/ \E f, t \in Wallets, a \in Amounts : TransferCheck(r, f, t, a)
    \/ \E w \in Wallets : RemoveWalletCheck(r, w) \/ AddRule(r, w) \/ DropRule(r, w)
    \/ UpdateCommit(r)
    \/ RemoveCommit(r)
    \/ TransferCommit(r)
    \/ RemoveWalletCommit(r)
    \/ Abort(r)

Next ==
    \/ \E r \in Reqs : Handler(r)
    \/ SelectDue
    \/ \E t \in TxIds, row \in Row : Post(t, row)

Spec == Init /\ [][Next]_vars

-----------------------------------------------------------------------------
\* What the ledger promises.

Effect(row, w) == IF row \in Row /\ row.wallet = w THEN SignedAmount(row) ELSE 0

LedgerSum(w)   == SumFunction([t \in TxIds |-> Effect(rows[t], w)])
TransferSum(w) == SumFunction([v \in Wallets |-> moved[<<v, w>>] - moved[<<w, v>>]])

\* The stored balance of every wallet is what its owner put in it plus what its
\* transactions and transfers explain: create, update, remove, transfer and the
\* scheduler's postings, in any order, never let the two drift apart.
LedgerExact ==
    \A w \in Wallets : wallet[w] = "live" =>
        balance[w] = base[w] + LedgerSum(w) + TransferSum(w)

\* A transaction always sits on an existing wallet of its own user: no move
\* between wallets, no removal of a wallet under a pending request and no
\* scheduler posting leaves a row on a wallet that is gone or someone else's.
RowsInOwnWallet ==
    \A t \in TxIds : rows[t] \in Row => Owned(rows[t].user, rows[t].wallet)

\* The row an update or remove read is no longer the row it is about to write.
Stale(r) == req[r].op \in {"update", "remove"} /\ rows[req[r].tx] # req[r].old

StaleCommit ==
    \E r \in Reqs : Stale(r) /\ (UpdateCommit(r) \/ RemoveCommit(r))

\* Every step that inserts, changes or deletes a transaction moves the balances
\* of all wallets by exactly the change of that row's effect, and a step that
\* touches no row, no transfer and no manual balance moves no money; the only
\* steps that may not are the commits of an update or remove whose row changed
\* after it was read.
MoneyFollowsRows ==
    [][~StaleCommit =>
          /\ \A t \in TxIds : rows'[t] # rows[t] =>
                \A w \in Wallets : balance'[w] - balance[w] = Effect(rows'[t], w) - Effect(rows[t], w)
          /\ rows' = rows /\ moved' = moved /\ base' = base =>
                \A w \in Wallets : wallet[w] = "live" => balance'[w] = balance[w]]_vars

\* At most one device per user: a user's requests come one after another.
OneDevice == \A r, q \in Reqs : ReqUser[r] = ReqUser[q] => r = q

\* The balances of a user change only by a request of that user or by the
\* scheduler posting one of that user's rules.
OnlyOwnMoney ==
    [][\A w \in Wallets : balance'[w] # balance[w] =>
          \/ \E r \in Reqs : ReqUser[r] = Owner[w] /\ Handler(r)
          \/ w \in due /\ \E t \in TxIds : rows'[t] # rows[t] /\ rows'[t].wallet = w]_vars
=============================================================================
