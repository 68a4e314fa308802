------------------------------ MODULE WalletTx ------------------------------
(***************************************************************************)
(* The wallets of one user, their db.transaction(..) blocks statement by   *)
(* statement under READ COMMITTED: a row that a block has written is       *)
(* locked until the block ends, a statement that meets a locked row waits  *)
(* and then works on the newest version of that row, and what a block      *)
(* writes is seen by others when it commits.  Ledger takes these blocks as *)
(* single steps; AsLedger says that for balances and transfers it may.     *)
(***************************************************************************)
EXTENDS Integers, Sequences, FiniteSets, Functions

CONSTANTS
    Wallets, Reqs,
    User,        \* the user of all wallets and requests
    Amounts,     \* amountKhr of transfers
    Openings,    \* balanceKhr of created wallets
    Edits,       \* balanceKhr sent by edits
    MaxKhr,      \* the largest magnitude a bigint balance column holds
    MaxMoved,    \* bound: what one wallet ever sends to another
    NoOne        \* nobody holds the lock

ASSUME FiniteAssumption == IsFiniteSet(Wallets) /\ IsFiniteSet(Reqs) /\ NoOne \notin Reqs
ASSUME MoneyAssumption  == Amounts \subseteq Nat \ {0} /\ Openings \cup Edits \subseteq 0 .. MaxKhr
ASSUME BoundAssumption  == MaxKhr \in Nat /\ MaxMoved \in Nat

VARIABLES
    table,     \* wallets: the committed row of each
    draft,     \* the newest version of each row, committed or not
    lock,      \* the request whose block has written the row
    req,       \* what each request is doing, and the row updates still to do
    moved,     \* transfers: riel sent, per (from, to)
    missed     \* history: blocks overtaken since their "begin" or "max"

vars == <<table, draft, lock, req, moved, missed>>

Row == [state : {"unborn", "live", "gone"}, balance : Int,
        primary : BOOLEAN, position : Nat]

\* One row of an UPDATE: a column of a wallet is set, or its balance moved.
Update == [wallet : Wallets, column : {"balance"}, value : Edits]
          \cup [wallet : Wallets, column : {"credit"}, value : Int]
          \cup [wallet : Wallets, column : {"primary"}, value : BOOLEAN]
          \cup [wallet : Wallets, column : {"position"}, value : Nat]

Idle    == [op |-> "idle", pc |-> "idle"]
Block ==
    [op : {"transfer"}, pc : {"block"}, from : Wallets, to : Wallets, amount : Amounts,
     todo : Seq(Update)]
    \cup [op : {"create"}, pc : {"block"}, balance : Openings, primary : BOOLEAN, todo : Seq(Update)]
    \cup [op : {"update"}, pc : {"block"}, wallet : Wallets, column : {"balance"}, value : Edits,
          todo : Seq(Update)]
    \cup [op : {"update"}, pc : {"block"}, wallet : Wallets, column : {"primary"}, value : {TRUE},
          todo : Seq(Update)]
    \cup [op : {"reorder"}, pc : {"block"}, ids : SUBSET Wallets, todo : Seq(Update)]
Request ==
    {Idle} \cup Block
    \cup [op : {"transfer"}, pc : {"checked"}, from : Wallets, to : Wallets, amount : Amounts]
    \cup [op : {"create"}, pc : {"insert"}, balance : Openings, primary : BOOLEAN, position : Nat]
    \cup [op : {"remove"}, pc : {"checked"}, wallet : Wallets]

TypeOK ==
    /\ table \in [Wallets -> Row]
    /\ draft \in [Wallets -> Row]
    /\ lock  \in [Wallets -> Reqs \cup {NoOne}]
    /\ req   \in [Reqs -> Request]
    /\ moved \in [Wallets \X Wallets -> Nat]
    /\ missed \subseteq Reqs \X {"begin", "max"}

Init ==
    /\ table = [w \in Wallets |-> [state |-> "unborn", balance |-> 0,
                                   primary |-> FALSE, position |-> 0]]
    /\ draft = table
    /\ lock  = [w \in Wallets |-> NoOne]
    /\ req   = [r \in Reqs |-> Idle]
    /\ moved = [p \in Wallets \X Wallets |-> 0]
    /\ missed = {}

-----------------------------------------------------------------------------
\* What a statement's snapshot holds: the wallets committed by then.
Live == {w \in Wallets : table[w].state = "live"}

Distinct == \A v, w \in Live : table[v].position = table[w].position => v = w

Orders(S) == {s \in [1 .. Cardinality(S) -> S] : IsInjective(s)}

\* Variant: maxPos ?? -1.
PositionOfLast ==
    LET used == {table[w].position : w \in Live} \cup {-1}
    IN  CHOOSE p \in used : \A q \in used : q <= p

\* (maxPos ?? -1) + 1.
NewPosition ==
    LET used == {table[w].position : w \in Live} \cup {-1}
    IN  (CHOOSE p \in used : \A q \in used : q <= p) + 1

Change(w, column, v) == [wallet |-> w, column |-> column, value |-> v]
Changed(row, c) ==
    IF c.column = "credit" THEN [row EXCEPT !.balance = @ + c.value]
                           ELSE [row EXCEPT ![c.column] = c.value]

Fits(row) == row.balance \in -MaxKhr .. MaxKhr

\* Variant: the primary wallets are left alone.
NoSweep(S) == {<<>>}

\* clearPrimary: the rows of its snapshot, in the order the scan meets them.
Sweep(S) == {[i \in DOMAIN s |-> Change(s[i], "primary", FALSE)] : s \in Orders(S)}

\* The foreign keys of a transfer hold both wallets until its block ends.
Shares(r, w) == req[r].op = "transfer" /\ req[r].pc = "block" /\ w \in {req[r].from, req[r].to}

\* Variant: the locks of a block that failed stay.
RollbackLocked(r) ==
    /\ draft' = [w \in Wallets |-> IF lock[w] = r THEN table[w] ELSE draft[w]]
    /\ req'   = [req EXCEPT ![r] = Idle]
    /\ UNCHANGED <<table, lock, moved, missed>>

Forget(r) == {m \in missed : m[1] # r}

Overtake(r, since) ==
    Forget(r) \cup {<<q, since>> : q \in {q \in Reqs \ {r} :
                       IF since = "max" THEN req[q].pc = "insert"
                                        ELSE req[q].op \in {"create", "update"}}}

Unlocked(r) == [w \in Wallets |-> IF lock[w] = r THEN NoOne ELSE lock[w]]

Rollback(r) ==
    /\ draft' = [w \in Wallets |-> IF lock[w] = r THEN table[w] ELSE draft[w]]
    /\ lock'  = Unlocked(r)
    /\ req'   = [req EXCEPT ![r] = Idle]
    /\ missed' = Forget(r)
    /\ UNCHANGED <<table, moved>>

-----------------------------------------------------------------------------
\* A handler up to its block.

Sending(q, f, t) ==
    IF req[q].op = "transfer" /\ req[q].from = f /\ req[q].to = t THEN req[q].amount ELSE 0

\* TransfersService.create: both wallets and the balance, outside the block.
CheckTransfer(r, f, t, a) ==
    /\ req[r] = Idle
    /\ f # t
    /\ {f, t} \subseteq Live
    /\ table[f].balance >= a
    /\ moved[<<f, t>>] + SumFunction([q \in Reqs |-> Sending(q, f, t)]) + a <= MaxMoved
    /\ req' = [req EXCEPT ![r] = [op |-> "transfer", pc |-> "checked",
                                  from |-> f, to |-> t, amount |-> a]]
    /\ UNCHANGED <<table, draft, lock, moved, missed>>

\* Its insert, refused by the foreign keys if a wallet is gone; the debit and
\* the credit follow.
InsertTransfer(r) ==
    /\ req[r].op = "transfer" /\ req[r].pc = "checked"
    /\ LET f == req[r].from
           t == req[r].to
           a == req[r].amount
       IN  req' = [req EXCEPT ![r] =
               IF {f, t} \subseteq Live
               THEN [op |-> "transfer", pc |-> "block", from |-> f, to |-> t, amount |-> a,
                     todo |-> <<Change(f, "credit", -a), Change(t, "credit", a)>>]
               ELSE Idle]
    /\ UNCHANGED <<table, draft, lock, moved, missed>>

\* A block that begins with row updates, from the snapshot of this step.
Begin(r, block) ==
    /\ req[r] = Idle
    /\ req' = [req EXCEPT ![r] = block]
    /\ UNCHANGED <<table, draft, lock, moved, missed>>

\* WalletsService.create; identifiers are reserved for the creates under way.
BeginCreate(r, b, p) ==
    /\ \E sweep \in IF p THEN Sweep(Live) ELSE {<<>>} :
          Begin(r, [op |-> "create", pc |-> "block", balance |-> b, primary |-> p, todo |-> sweep])
    /\ Cardinality({q \in Reqs : req[q].op = "create"})
          < Cardinality({w \in Wallets : table[w].state = "unborn"})

\* WalletsService.update: the dto sets one column, isPrimary only to true.
BeginUpdate(r, w, column, v) ==
    /\ w \in Live
    /\ \E sweep \in IF column = "primary" THEN Sweep(Live \ {w}) ELSE {<<>>} :
          Begin(r, [op |-> "update", pc |-> "block", wallet |-> w, column |-> column, value |-> v,
                    todo |-> Append(sweep, Change(w, column, v))])

\* WalletsService.reorder: the ids are the user's and distinct; nothing says
\* that they are all of the user's.
BeginReorder(r, ids) ==
    Begin(r, [op |-> "reorder", pc |-> "block", ids |-> Range(ids),
              todo |-> [i \in DOMAIN ids |-> Change(ids[i], "position", i - 1)]])

\* WalletsService.remove: findOne and the counts (none here), then the delete.
CheckRemove(r, w) ==
    /\ req[r] = Idle
    /\ w \in Live
    /\ req' = [req EXCEPT ![r] = [op |-> "remove", pc |-> "checked", wallet |-> w]]
    /\ UNCHANGED <<table, draft, lock, moved, missed>>

-----------------------------------------------------------------------------
\* The statements of a block.

\* Variant: no transaction, every statement commits at once.
StepOutside(r) ==
    /\ req[r].pc = "block" /\ req[r].todo # <<>>
    /\ LET c == Head(req[r].todo)
       IN  /\ table' = IF table[c.wallet].state = "live"
                       THEN [table EXCEPT ![c.wallet] = Changed(@, c)] ELSE table
           /\ draft' = table'
    /\ req' = [req EXCEPT ![r].todo = Tail(@)]
    /\ UNCHANGED <<lock, moved, missed>>

\* The next row is free or already ours: its newest version is changed.  A
\* wallet that is gone by now matches no row.
Step(r) ==
    /\ req[r].pc = "block" /\ req[r].todo # <<>>
    /\ LET c == Head(req[r].todo)
           w == c.wallet
       IN  /\ lock[w] \in {NoOne, r}
           /\ IF draft[w].state = "live"
              THEN /\ Fits(Changed(draft[w], c))
                   /\ lock'  = [lock EXCEPT ![w] = r]
                   /\ draft' = [draft EXCEPT ![w] = Changed(@, c)]
              ELSE UNCHANGED <<lock, draft>>
    /\ req' = [req EXCEPT ![r].todo = Tail(@)]
    /\ UNCHANGED <<table, moved, missed>>

\* Postgres rejects a balance out of range, and the block fails.
OutOfRange(r) ==
    /\ req[r].pc = "block" /\ req[r].todo # <<>>
    /\ LET c == Head(req[r].todo)
           w == c.wallet
       IN  lock[w] \in {NoOne, r} /\ draft[w].state = "live" /\ ~Fits(Changed(draft[w], c))
    /\ Rollback(r)

Swept(r) == req[r].pc = "block" /\ req[r].todo = <<>>

Commit(r) ==
    /\ Swept(r)
    /\ req[r].op # "create"
    /\ table' = [w \in Wallets |-> IF lock[w] = r THEN draft[w] ELSE table[w]]
    /\ lock'  = Unlocked(r)
    /\ moved' = IF req[r].op = "transfer"
                THEN [moved EXCEPT ![<<req[r].from, req[r].to>>] = @ + req[r].amount] ELSE moved
    /\ req'   = [req EXCEPT ![r] = Idle]
    /\ missed' = IF req[r].op = "reorder" /\ ~(Distinct /\ req[r].ids \subseteq Live)
                 THEN Overtake(r, "max") ELSE Forget(r)
    /\ UNCHANGED draft

ReadMax(r) ==
    /\ Swept(r)
    /\ req[r].op = "create"
    /\ req' = [req EXCEPT ![r] = [op |-> "create", pc |-> "insert", balance |-> req[r].balance,
                                  primary |-> req[r].primary, position |-> NewPosition]]
    /\ UNCHANGED <<table, draft, lock, moved, missed>>

NewId == CHOOSE w \in Wallets : table[w].state = "unborn"

\* The insert of a create, which nobody sees before the commit, and the commit.
CommitCreate(r) ==
    /\ req[r].pc = "insert"
    /\ LET row == [state |-> "live", balance |-> req[r].balance,
                   primary |-> req[r].primary, position |-> req[r].position]
       IN  /\ table' = [[w \in Wallets |-> IF lock[w] = r THEN draft[w] ELSE table[w]]
                           EXCEPT ![NewId] = row]
           /\ draft' = [draft EXCEPT ![NewId] = row]
    /\ lock'    = Unlocked(r)
    /\ req'     = [req EXCEPT ![r] = Idle]
    /\ missed'  = Overtake(r, "begin") \cup Overtake(r, "max")
    /\ UNCHANGED moved

\* Of a row that is gone only the balance is remembered, for Ledger's sake.
Gone(row) == [row EXCEPT !.state = "gone", !.primary = FALSE, !.position = 0]

\* DELETE, which waits for writers and for transfers that hold the wallet.
DeleteWallet(r) ==
    /\ req[r].op = "remove"
    /\ LET w == req[r].wallet
       IN  /\ lock[w] = NoOne
           /\ \A q \in Reqs : ~Shares(q, w)
           /\ table' = [table EXCEPT ![w] = Gone(@)]
           /\ draft' = [draft EXCEPT ![w] = Gone(@)]
           /\ moved' = [p \in Wallets \X Wallets |-> IF w \in {p[1], p[2]} THEN 0 ELSE moved[p]]
    /\ req' = [req EXCEPT ![r] = Idle]
    /\ UNCHANGED <<lock, missed>>

\* The connection or the process goes before the request is answered.
Fail(r) == req[r] # Idle /\ Rollback(r)

WaitsFor(r, q) ==
    /\ req[r].pc = "block" /\ req[r].todo # <<>>
    /\ q = lock[Head(req[r].todo).wallet]
    /\ q # r

\* Postgres finds blocks that wait for each other and kills one.
Victim(r) ==
    /\ \E S \in SUBSET Reqs : r \in S /\ \A s \in S : \E q \in S : WaitsFor(s, q)
    /\ Rollback(r)

Client(r) ==
    \/ \E f, t \in Wallets, a \in Amounts : CheckTransfer(r, f, t, a)
    \/ \E b \in Openings, p \in BOOLEAN : BeginCreate(r, b, p)
    \/ \E w \in Wallets : \/ \E b \in Edits : BeginUpdate(r, w, "balance", b)
                          \/ BeginUpdate(r, w, "primary", TRUE)
                          \/ CheckRemove(r, w)
    \/ \E ids \in UNION {Orders(S) : S \in (SUBSET Live) \ {{}}} : BeginReorder(r, ids)

Proceed(r) ==
    \/ InsertTransfer(r) \/ Step(r) \/ OutOfRange(r) \/ Commit(r)
    \/ ReadMax(r) \/ CommitCreate(r) \/ DeleteWallet(r)

Next == \E r \in Reqs : Client(r) \/ Proceed(r) \/ Fail(r) \/ Victim(r)

Spec == Init /\ [][Next]_vars

\* Postgres queues those who wait for a row and detects deadlocks; users may
\* always do something else.
Fairness ==
    /\ \A r \in Reqs : SF_vars(Proceed(r))
    /\ WF_vars(\E r \in Reqs : Victim(r))

FairSpec == Spec /\ Fairness

-----------------------------------------------------------------------------
\* The manual order is an order: no step makes two wallets share a position,
\* whatever creates, reorders and removals run at once, but for a reorder whose
\* list is not that of all wallets, and a create that was overtaken after it had
\* read the highest position: by another create, or by a reorder that names a
\* wallet that is gone or finds two wallets at one position.
DistinctPositions ==
    [][Distinct => \/ Distinct'
                   \/ \E r \in Reqs : CommitCreate(r) /\ <<r, "max">> \in missed
                   \/ \E r \in Reqs : Commit(r) /\ req[r].op = "reorder" /\ req[r].ids # Live]_vars

Promotes(r, w) ==
    \/ CommitCreate(r) /\ req[r].primary /\ w = NewId
    \/ Commit(r) /\ req[r].op = "update" /\ req[r].wallet = w /\ req[r].column = "primary"

\* A block that makes a wallet primary leaves it the only one, however many
\* such blocks meet: only a wallet created since the sweep can be a second.
PrimaryTaken ==
    [][\A r \in Reqs, w \in Wallets :
          Promotes(r, w) /\ <<r, "begin">> \notin missed
          => \A v \in Live' : table'[v].primary => v = w]_vars

\* Every request is answered: blocks that take their rows in opposite orders
\* never hold each other for ever.
EveryRequestEnds == \A r \in Reqs : req[r] # Idle ~> req[r] = Idle

-----------------------------------------------------------------------------
\* Ledger, of which these are the wallets and transfers, without ledger rows.
LedgerRequest(q) ==
    CASE q.op = "transfer" -> [op |-> "transfer", from |-> q.from, to |-> q.to, amount |-> q.amount]
      [] q.op = "remove"   -> [op |-> "removeWallet", wallet |-> q.wallet]
      [] OTHER             -> [op |-> "idle"]

Received(w) == SumFunction([v \in Wallets |-> moved[<<v, w>>] - moved[<<w, v>>]])

L == INSTANCE Ledger WITH
        Users <- {User}, Owner <- [w \in Wallets |-> User], ReqUser <- [r \in Reqs |-> User],
        Openings <- Openings \cup Edits, TxIds <- {}, Patches <- {},
        Ops <- {"transfer", "edit", "removeWallet"},
        Keep <- "keep", Unissued <- "unissued", Deleted <- "deleted",
        wallet  <- [w \in Wallets |-> table[w].state],
        balance <- [w \in Wallets |-> table[w].balance],
        base    <- [w \in Wallets |-> table[w].balance - Received(w)],
        req     <- [r \in Reqs |-> LedgerRequest(req[r])],
        rows <- <<>>, ruled <- {}, due <- {}

\* Statement by statement, under row locks, deadlocks and rollbacks, balances
\* and transfers change exactly as in Ledger, where a block is one step.
AsLedger == L!Spec
=============================================================================
