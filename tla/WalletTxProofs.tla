--------------------------- MODULE WalletTxProofs ---------------------------
(***************************************************************************)
(* Proofs about WalletTx: types, distinct positions, the one primary       *)
(* wallet, and the refinement of Ledger.                                   *)
(*                                                                         *)
(* The inductive invariant IInv is a conjunction of parts.  Of the store   *)
(* (Store): a row that is not locked is as committed (Free), a locked one  *)
(* is written by a block under way, in that block's column only (Held,     *)
(* TodoOf), and every create under way finds an identifier (Room).  Of     *)
(* balances: RangeOk, MovedOk, Space.  Of each request: how far its block  *)
(* has come (SweepOk, OrderOk, MaxOk, TransferOk, EditOk), for a request   *)
(* that no commit has overtaken.                                           *)
(***************************************************************************)
EXTENDS WalletTx, SumProofs, SequenceTheorems, TLAPS

\* What the constants are.
LEMMA MoneyTypes ==
  /\ \A a \in Amounts : a \in Nat \ {0}
  /\ \A b \in Openings \cup Edits : b \in 0 .. MaxKhr /\ b \in Nat
  /\ MaxKhr \in Nat /\ MaxMoved \in Nat
  BY MoneyAssumption, BoundAssumption DEF MoneyAssumption, BoundAssumption

\* What a request in each state has.
RequestFields(q) ==
    /\ q.op \in {"idle", "transfer", "create", "update", "reorder", "remove"}
    /\ q.pc \in {"idle", "checked", "block", "insert"}
    /\ q.op = "idle" <=> q = Idle
    /\ q.op = "idle" <=> q.pc = "idle"
    /\ q.op = "transfer" => q.from \in Wallets /\ q.to \in Wallets /\ q.amount \in Amounts
                            /\ q.pc \in {"checked", "block"}
    /\ q.op = "remove" => q.wallet \in Wallets /\ q.pc = "checked"
    /\ q.op = "create" => q.balance \in Openings /\ q.primary \in BOOLEAN /\ q.pc \in {"block", "insert"}
    /\ q.op = "update" => q.wallet \in Wallets /\ q.pc = "block"
                          /\ \/ q.column = "balance" /\ q.value \in Edits
                             \/ q.column = "primary" /\ q.value = TRUE
    /\ q.op = "reorder" => q.ids \in SUBSET Wallets /\ q.pc = "block"
    /\ q.pc = "insert" => q.op = "create" /\ q.position \in Nat
    /\ q.pc = "block" => q.todo \in Seq(Update) /\ q.op \in {"transfer", "create", "update", "reorder"}

\* Each shape of a request has the fields its handler uses.
LEMMA RequestHas == ASSUME NEW q \in Request PROVE RequestFields(q)
<1>1. CASE q = Idle
  BY <1>1 DEF RequestFields, Idle
<1>2. CASE q \in [op : {"transfer"}, pc : {"checked"}, from : Wallets, to : Wallets, amount : Amounts]
  BY <1>2 DEF RequestFields, Idle
<1>3. CASE q \in [op : {"transfer"}, pc : {"block"}, from : Wallets, to : Wallets, amount : Amounts, todo : Seq(Update)]
  BY <1>3 DEF RequestFields, Idle
<1>4. CASE q \in [op : {"create"}, pc : {"block"}, balance : Openings, primary : BOOLEAN, todo : Seq(Update)]
  BY <1>4 DEF RequestFields, Idle
<1>5. CASE q \in [op : {"create"}, pc : {"insert"}, balance : Openings, primary : BOOLEAN, position : Nat]
  BY <1>5 DEF RequestFields, Idle
<1>6. CASE q \in [op : {"update"}, pc : {"block"}, wallet : Wallets, column : {"balance"}, value : Edits, todo : Seq(Update)]
  BY <1>6 DEF RequestFields, Idle
<1>7. CASE q \in [op : {"update"}, pc : {"block"}, wallet : Wallets, column : {"primary"}, value : {TRUE}, todo : Seq(Update)]
  <2>1. q.value \in {TRUE} /\ q.op = "update" /\ q.pc = "block" /\ q.wallet \in Wallets
        /\ q.column = "primary" /\ q.todo \in Seq(Update)
    BY <1>7
  <2>2. q.value = TRUE
    BY <2>1, Zenon
  <2>3. q # Idle
    BY <2>1 DEF Idle
  <2>4. QED
    BY <2>1, <2>2, <2>3, Zenon DEF RequestFields
<1>8. CASE q \in [op : {"reorder"}, pc : {"block"}, ids : SUBSET Wallets, todo : Seq(Update)]
  BY <1>8 DEF RequestFields, Idle
<1>9. CASE q \in [op : {"remove"}, pc : {"checked"}, wallet : Wallets]
  BY <1>9 DEF RequestFields, Idle
<1>10. QED
  BY <1>1, <1>2, <1>3, <1>4, <1>5, <1>6, <1>7, <1>8, <1>9 DEF Request, Block

\* A user has finitely many wallets.
LEMMA LiveFinite == Live \subseteq Wallets /\ IsFiniteSet(Live) /\ Cardinality(Live) \in Nat
<1>1. Live \subseteq Wallets
  BY DEF Live
<1>2. QED
  BY <1>1, FiniteAssumption, FS_Subset, FS_CardinalityType DEF FiniteAssumption

\* A function on 1 .. n is a sequence.
LEMMA FunctionIsSeq == ASSUME NEW S, NEW n \in Nat, NEW f \in [1 .. n -> S] PROVE f \in Seq(S) /\ Len(f) = n
<1>1. f \in Seq(S)
  BY SeqDef
<1>2. DOMAIN f = 1 .. Len(f) /\ Len(f) \in Nat
  BY <1>1, LenProperties
<1>3. QED
  BY <1>1, <1>2

\* The sweep of a set of wallets visits each of them once.
LEMMA SweepType ==
  ASSUME NEW S \in SUBSET Wallets, NEW sweep \in Sweep(S)
  PROVE  /\ sweep \in Seq(Update)
         /\ \A i \in 1 .. Len(sweep) : \E w \in S : sweep[i] = Change(w, "primary", FALSE)
         /\ \A w \in S : \E i \in 1 .. Len(sweep) : sweep[i] = Change(w, "primary", FALSE)
<1>1. PICK s \in Orders(S) : sweep = [i \in DOMAIN s |-> Change(s[i], "primary", FALSE)]
  BY DEF Sweep
<1> DEFINE n == Cardinality(S)
<1>2. IsFiniteSet(S) /\ n \in Nat
  BY FiniteAssumption, FS_Subset, FS_CardinalityType DEF FiniteAssumption
<1>3. s \in [1 .. n -> S] /\ IsInjective(s)
  BY DEF Orders
<1>4. \A w \in S : \E i \in 1 .. n : s[i] = w
  <2>1. s \in Injection(1 .. n, S)
    BY <1>3 DEF Injection
  <2>2. IsFiniteSet(1 .. n) /\ Cardinality(1 .. n) = n
    BY <1>2, FS_Interval
  <2>3. s \in Surjection(1 .. n, S)
    BY <1>2, <2>1, <2>2, FS_Injection
  <2>4. QED
    BY <2>3 DEF Surjection
<1>5. \A w \in S : Change(w, "primary", FALSE) \in Update
  BY DEF Change, Update
<1>6. sweep \in [1 .. n -> Update]
  BY <1>1, <1>3, <1>5
<1>7. sweep \in Seq(Update) /\ Len(sweep) = n
  BY <1>2, <1>6, FunctionIsSeq
<1>8. QED
  BY <1>1, <1>3, <1>4, <1>7

\* The row updates that wait are typed, and are for wallets.
LEMMA TodoType ==
  ASSUME NEW q \in Request, q.pc = "block", NEW t \in Seq(Update)
  PROVE  /\ [q EXCEPT !.todo = t] \in Request
         /\ [q EXCEPT !.todo = t].todo = t
         /\ [q EXCEPT !.todo = t].op = q.op /\ [q EXCEPT !.todo = t].pc = "block"
         /\ q.op = "transfer" => /\ [q EXCEPT !.todo = t].from = q.from
                                /\ [q EXCEPT !.todo = t].to = q.to
                                /\ [q EXCEPT !.todo = t].amount = q.amount
         /\ q.op = "create" => /\ [q EXCEPT !.todo = t].balance = q.balance
                              /\ [q EXCEPT !.todo = t].primary = q.primary
         /\ q.op = "update" => /\ [q EXCEPT !.todo = t].wallet = q.wallet
                              /\ [q EXCEPT !.todo = t].column = q.column
                              /\ [q EXCEPT !.todo = t].value = q.value
         /\ q.op = "reorder" => [q EXCEPT !.todo = t].ids = q.ids
<1> DEFINE p == [q EXCEPT !.todo = t]
           Same == /\ p \in Request
                   /\ p.todo = t /\ p.op = q.op /\ p.pc = "block"
                   /\ q.op = "transfer" => p.from = q.from /\ p.to = q.to /\ p.amount = q.amount
                   /\ q.op = "create" => p.balance = q.balance /\ p.primary = q.primary
                   /\ q.op = "update" => p.wallet = q.wallet /\ p.column = q.column /\ p.value = q.value
                   /\ q.op = "reorder" => p.ids = q.ids
<1>1. ASSUME q \in [op : {"transfer"}, pc : {"block"}, from : Wallets, to : Wallets, amount : Amounts, todo : Seq(Update)]
      PROVE  Same
  BY <1>1 DEF Request, Block
<1>2. ASSUME q \in [op : {"create"}, pc : {"block"}, balance : Openings, primary : BOOLEAN, todo : Seq(Update)]
      PROVE  Same
  BY <1>2 DEF Request, Block
<1>3. ASSUME q \in [op : {"update"}, pc : {"block"}, wallet : Wallets, column : {"balance"}, value : Edits, todo : Seq(Update)]
      PROVE  Same
  BY <1>3 DEF Request, Block
<1>4. ASSUME q \in [op : {"update"}, pc : {"block"}, wallet : Wallets, column : {"primary"}, value : {TRUE}, todo : Seq(Update)]
      PROVE  Same
  BY <1>4 DEF Request, Block
<1>5. ASSUME q \in [op : {"reorder"}, pc : {"block"}, ids : SUBSET Wallets, todo : Seq(Update)]
      PROVE  Same
  BY <1>5 DEF Request, Block
<1> HIDE DEF Same
<1>6. q \in Block
  BY DEF Request, Idle
<1>7. Same
  BY <1>1, <1>2, <1>3, <1>4, <1>5, <1>6 DEF Block
<1>8. QED
  BY <1>7 DEF Same

\* What an update leaves of a row.
LEMMA ChangedRow ==
  ASSUME NEW row \in Row, NEW c \in Update
  PROVE  /\ Changed(row, c) \in Row /\ Changed(row, c).state = row.state
         /\ c.column = "credit" => Changed(row, c).balance = row.balance + c.value
         /\ c.column = "balance" => Changed(row, c).balance = c.value
         /\ c.column = "primary" => Changed(row, c).primary = c.value
         /\ c.column = "position" => Changed(row, c).position = c.value
         /\ c.column \notin {"credit", "balance"} => Changed(row, c).balance = row.balance
         /\ c.column # "primary" => Changed(row, c).primary = row.primary
         /\ c.column # "position" => Changed(row, c).position = row.position
<1>1. CASE c.column = "credit"
  BY <1>1 DEF Changed, Update, Row
<1>2. CASE c.column = "balance"
  <2>1. Changed(row, c) = [row EXCEPT !.balance = c.value] /\ c.value \in Int
    BY <1>2, MoneyTypes DEF Changed, Update
  <2>2. QED
    BY <1>2, <2>1 DEF Row
<1>3. CASE c.column = "primary"
  <2>1. Changed(row, c) = [row EXCEPT !.primary = c.value] /\ c.value \in BOOLEAN
    BY <1>3 DEF Changed, Update
  <2>2. QED
    BY <1>3, <2>1 DEF Row
<1>4. CASE c.column = "position"
  <2>1. Changed(row, c) = [row EXCEPT !.position = c.value] /\ c.value \in Nat
    BY <1>4 DEF Changed, Update
  <2>2. QED
    BY <1>4, <2>1 DEF Row
<1>5. QED
  BY <1>1, <1>2, <1>3, <1>4 DEF Update

\* A deleted wallet keeps the rest of its row.
LEMMA GoneRow ==
  ASSUME NEW row \in Row
  PROVE  Gone(row) \in Row /\ Gone(row).state = "gone" /\ Gone(row).balance = row.balance
  BY DEF Gone, Row

\* A finite set of integers that is not empty has a greatest element.
LEMMA Greatest ==
  ASSUME NEW S, IsFiniteSet(S)
  PROVE  \A T \in SUBSET S : T # {} /\ T \subseteq Int => \E p \in T : \A q \in T : q <= p
<1> DEFINE Bad == {T \in SUBSET S : T # {} /\ T \subseteq Int /\ ~\E p \in T : \A q \in T : q <= p}
<1> SUFFICES ASSUME Bad # {} PROVE FALSE
  OBVIOUS
<1>1. PICK T \in Bad : \A U \in Bad : ~(U \subseteq T /\ U # T)
  <2>1. Bad \subseteq SUBSET S
    OBVIOUS
  <2> HIDE DEF Bad
  <2>2. QED
    BY <2>1, LeastSubset
<1>2. PICK x \in T : TRUE
  OBVIOUS
<1>3. CASE T \ {x} = {}
  BY <1>2, <1>3
<1>4. CASE T \ {x} # {}
  <2>1. T \ {x} \notin Bad
    BY <1>1, <1>2
  <2>2. PICK p \in T \ {x} : \A q \in T \ {x} : q <= p
    BY <1>4, <2>1
  <2>3. p \in Int /\ x \in Int
    BY <1>2
  <2>4. CASE x <= p
    BY <2>2, <2>4
  <2>5. CASE p <= x
    BY <2>2, <2>3, <2>5
  <2>6. QED
    BY <2>3, <2>4, <2>5
<1>5. QED
  BY <1>3, <1>4

\* The new position is beyond those in use.
LEMMA NewPositionBeyond ==
  ASSUME TypeOK
  PROVE  NewPosition \in Nat /\ \A w \in Live : table[w].position < NewPosition
<1> DEFINE used == {table[w].position : w \in Live} \cup {-1}
           top == CHOOSE p \in used : \A q \in used : q <= p
<1>1. \A w \in Live : table[w].position \in Nat
  BY DEF Live, TypeOK, Row
<1>2. IsFiniteSet(used)
  <2> DEFINE f == [w \in Live |-> table[w].position]
             used0 == {table[w].position : w \in Live}
  <2>1. f \in Surjection(Live, used0)
    BY DEF Surjection
  <2>2. IsFiniteSet(used0)
    BY <2>1, LiveFinite, FS_Surjection
  <2>3. QED
    BY <2>2, FS_AddElement
<1>3. used # {} /\ used \subseteq Int /\ used \subseteq Nat \cup {-1}
  BY <1>1
<1>4. NewPosition = top + 1
  BY DEF NewPosition
<1>5. \A w \in Live : table[w].position \in used
  OBVIOUS
<1> HIDE DEF used
<1>6. top \in used /\ \A q \in used : q <= top
  BY <1>2, <1>3, Greatest
<1> HIDE DEF top
<1>7. top \in Nat \cup {-1}
  BY <1>3, <1>6
<1>8. QED
  BY <1>1, <1>4, <1>5, <1>6, <1>7

-----------------------------------------------------------------------------
\* A step of request r, and those that only change what r is doing.
Turn(r) == Client(r) \/ Proceed(r) \/ Fail(r) \/ Victim(r)

Enters(r) ==
    \/ \E f, t \in Wallets, a \in Amounts : CheckTransfer(r, f, t, a)
    \/ InsertTransfer(r)
    \/ \E b \in Openings, p \in BOOLEAN : BeginCreate(r, b, p)
    \/ \E w \in Wallets : (\E b \in Edits : BeginUpdate(r, w, "balance", b)) \/ BeginUpdate(r, w, "primary", TRUE)
    \/ \E ids \in UNION {Orders(S) : S \in (SUBSET Live) \ {{}}} : BeginReorder(r, ids)
    \/ \E w \in Wallets : CheckRemove(r, w)
    \/ ReadMax(r)

\* The cases of a step that the proofs go through.
LEMMA TurnCases ==
  ASSUME NEW r \in Reqs, Turn(r)
  PROVE  Enters(r) \/ Step(r) \/ Rollback(r) \/ Commit(r) \/ CommitCreate(r) \/ DeleteWallet(r)
  BY DEF Turn, Client, Proceed, Fail, Victim, OutOfRange, Enters

\* The list of a reorder: each of its wallets, the i-th to get position i - 1.
LEMMA ReorderType ==
  ASSUME NEW r, NEW ids \in UNION {Orders(S) : S \in (SUBSET Live) \ {{}}}
  PROVE  /\ Range(ids) \subseteq Live /\ DOMAIN ids = 1 .. Cardinality(Range(ids))
         /\ Cardinality(Range(ids)) \in Nat
         /\ \A i \in DOMAIN ids : ids[i] \in Range(ids)
         /\ \A w \in Range(ids) : \E i \in DOMAIN ids : ids[i] = w
         /\ \A i, j \in DOMAIN ids : i # j => ids[i] # ids[j]
         /\ [i \in DOMAIN ids |-> Change(ids[i], "position", i - 1)] \in Seq(Update)
         /\ Len([i \in DOMAIN ids |-> Change(ids[i], "position", i - 1)]) = Cardinality(Range(ids))
<1>1. PICK S \in SUBSET Live : ids \in Orders(S)
  OBVIOUS
<1> DEFINE n == Cardinality(S)
           todo == [i \in DOMAIN ids |-> Change(ids[i], "position", i - 1)]
<1>2. S \in SUBSET Wallets /\ IsFiniteSet(S) /\ n \in Nat
  BY LiveFinite, FS_Subset, FS_CardinalityType
<1>3. ids \in [1 .. n -> S] /\ IsInjective(ids) /\ DOMAIN ids = 1 .. n
  BY <1>1 DEF Orders
<1>4. /\ \A i \in DOMAIN ids : ids[i] \in Range(ids)
      /\ \A w \in Range(ids) : \E i \in DOMAIN ids : ids[i] = w
      /\ \A i, j \in DOMAIN ids : i # j => ids[i] # ids[j]
      /\ Range(ids) \subseteq S
  BY <1>3 DEF Range, IsInjective
<1>5. Cardinality(Range(ids)) = n
  <2>1. ids \in Injection(1 .. n, S)
    BY <1>3 DEF Injection
  <2>2. IsFiniteSet(1 .. n) /\ Cardinality(1 .. n) = n
    BY <1>2, FS_Interval
  <2>3. ids \in Surjection(1 .. n, S)
    BY <1>2, <2>1, <2>2, FS_Injection
  <2>4. \A w \in S : \E i \in 1 .. n : ids[i] = w
    BY <2>3 DEF Surjection
  <2>5. Range(ids) = S
    BY <1>3, <1>4, <2>4 DEF Range
  <2>6. QED
    BY <2>5
<1>6. todo \in Seq(Update) /\ Len(todo) = n
  <2>1. \A i \in 1 .. n : Change(ids[i], "position", i - 1) \in Update
    BY <1>2, <1>3 DEF Change, Update
  <2>2. todo \in [1 .. n -> Update]
    BY <1>3, <2>1
  <2> HIDE DEF todo, n
  <2>3. QED
    BY <1>2, <2>2, FunctionIsSeq
<1>7. QED
  BY <1>1, <1>2, <1>3, <1>4, <1>5, <1>6

\* What a request enters with.
LEMMA EnteredType ==
  ASSUME TypeOK, NEW r \in Reqs, Enters(r)
  PROVE  /\ req'[r] \in Request
         /\ \A q \in Reqs \ {r} : req'[q] = req[q]
         /\ req' \in [Reqs -> Request]
         /\ UNCHANGED <<table, draft, lock, moved, missed>>
<1> DEFINE Entered == /\ req' = [req EXCEPT ![r] = req'[r]] /\ req'[r] \in Request
                      /\ UNCHANGED <<table, draft, lock, moved, missed>>
<1> USE DEF TypeOK
<1>1. ASSUME NEW n \in Request, req' = [req EXCEPT ![r] = n], UNCHANGED <<table, draft, lock, moved, missed>>
      PROVE  Entered
  BY <1>1
<1> HIDE DEF Entered
<1>2. ASSUME NEW f \in Wallets, NEW t \in Wallets, NEW a \in Amounts, CheckTransfer(r, f, t, a) PROVE Entered
  <2>1. [op |-> "transfer", pc |-> "checked", from |-> f, to |-> t, amount |-> a] \in Request
    BY DEF Request
  <2>2. QED
    BY <1>1, <1>2, <2>1 DEF CheckTransfer
<1>3. ASSUME InsertTransfer(r) PROVE Entered
  <2> DEFINE f == req[r].from
             t == req[r].to
             a == req[r].amount
             todo == <<Change(f, "credit", -a), Change(t, "credit", a)>>
  <2>1. f \in Wallets /\ t \in Wallets /\ a \in Amounts /\ a \in Int
    <3>1. RequestFields(req[r])
      BY RequestHas
    <3>2. f \in Wallets /\ t \in Wallets /\ a \in Amounts
      BY <1>3, <3>1 DEF InsertTransfer, RequestFields
    <3>3. QED
      BY <3>2, MoneyTypes
  <2>2. Change(f, "credit", -a) \in Update /\ Change(t, "credit", a) \in Update
    BY <2>1 DEF Change, Update
  <2>3. todo \in Seq(Update)
    BY <2>2
  <2>4. Idle \in Request
    BY DEF Request
  <2> HIDE DEF todo
  <2>5. [op |-> "transfer", pc |-> "block", from |-> f, to |-> t, amount |-> a, todo |-> todo] \in Block
    BY <2>1, <2>3 DEF Block
  <2>6. [op |-> "transfer", pc |-> "block", from |-> f, to |-> t, amount |-> a, todo |-> todo] \in Request
    BY <2>5 DEF Request
  <2>7. CASE {f, t} \subseteq Live
    BY <1>1, <1>3, <2>6, <2>7 DEF InsertTransfer, todo
  <2>8. CASE ~({f, t} \subseteq Live)
    BY <1>1, <1>3, <2>4, <2>8 DEF InsertTransfer
  <2>9. QED
    BY <2>7, <2>8
<1>4. ASSUME NEW b \in Openings, NEW p \in BOOLEAN, BeginCreate(r, b, p) PROVE Entered
  <2>1. PICK sweep \in IF p THEN Sweep(Live) ELSE {<<>>} :
           Begin(r, [op |-> "create", pc |-> "block", balance |-> b, primary |-> p, todo |-> sweep])
    BY <1>4 DEF BeginCreate
  <2>2. sweep \in Seq(Update)
    BY LiveFinite, SweepType, EmptySeq
  <2>3. [op |-> "create", pc |-> "block", balance |-> b, primary |-> p, todo |-> sweep] \in Block
    BY <2>2 DEF Block
  <2>4. QED
    BY <1>1, <2>1, <2>3 DEF Begin, Request
<1>5. ASSUME NEW w \in Wallets, NEW b \in Edits, BeginUpdate(r, w, "balance", b) PROVE Entered
  <2> DEFINE todo == Append(<<>>, Change(w, "balance", b))
             n == [op |-> "update", pc |-> "block", wallet |-> w, column |-> "balance", value |-> b, todo |-> todo]
  <2>1. Begin(r, n)
    BY <1>5 DEF BeginUpdate
  <2>2. todo \in Seq(Update)
    BY AppendProperties, EmptySeq DEF Change, Update
  <2> HIDE DEF todo
  <2>3. n \in Block
    BY <2>2 DEF Block
  <2>4. QED
    BY <1>1, <2>1, <2>3 DEF Begin, Request
<1>6. ASSUME NEW w \in Wallets, BeginUpdate(r, w, "primary", TRUE) PROVE Entered
  <2>1. PICK sweep \in Sweep(Live \ {w}) :
           Begin(r, [op |-> "update", pc |-> "block", wallet |-> w, column |-> "primary", value |-> TRUE,
                     todo |-> Append(sweep, Change(w, "primary", TRUE))])
    BY <1>6 DEF BeginUpdate
  <2> DEFINE todo == Append(sweep, Change(w, "primary", TRUE))
             n == [op |-> "update", pc |-> "block", wallet |-> w, column |-> "primary", value |-> TRUE, todo |-> todo]
  <2>2. todo \in Seq(Update)
    <3>1. sweep \in Seq(Update)
      BY LiveFinite, SweepType
    <3>2. Change(w, "primary", TRUE) \in Update
      BY DEF Change, Update
    <3>3. QED
      BY <3>1, <3>2, AppendProperties
  <2>3. Begin(r, n)
    BY <2>1
  <2> HIDE DEF todo
  <2>4. n \in Block
    BY <2>2 DEF Block
  <2>5. QED
    BY <1>1, <2>3, <2>4 DEF Begin, Request
<1>7. ASSUME NEW ids \in UNION {Orders(S) : S \in (SUBSET Live) \ {{}}}, BeginReorder(r, ids) PROVE Entered
  <2> DEFINE todo == [i \in DOMAIN ids |-> Change(ids[i], "position", i - 1)]
             n == [op |-> "reorder", pc |-> "block", ids |-> Range(ids), todo |-> todo]
  <2>1. Begin(r, n)
    BY <1>7 DEF BeginReorder
  <2>2. todo \in Seq(Update) /\ Range(ids) \subseteq Wallets
    BY ReorderType, LiveFinite
  <2> HIDE DEF todo
  <2>3. n \in Block
    BY <2>2 DEF Block
  <2>4. QED
    BY <1>1, <2>1, <2>3 DEF Begin, Request
<1>8. ASSUME NEW w \in Wallets, CheckRemove(r, w) PROVE Entered
  <2>1. [op |-> "remove", pc |-> "checked", wallet |-> w] \in Request
    BY DEF Request
  <2>2. QED
    BY <1>1, <1>8, <2>1 DEF CheckRemove
<1>9. ASSUME ReadMax(r) PROVE Entered
  <2>1. req[r].balance \in Openings /\ req[r].primary \in BOOLEAN
    BY <1>9, RequestHas DEF ReadMax, RequestFields
  <2>2. [op |-> "create", pc |-> "insert", balance |-> req[r].balance, primary |-> req[r].primary,
         position |-> NewPosition] \in Request
    BY <2>1, NewPositionBeyond DEF Request
  <2>3. QED
    BY <1>1, <1>9, <2>2 DEF ReadMax
<1>10. Entered
  BY <1>2, <1>3, <1>4, <1>5, <1>6, <1>7, <1>8, <1>9 DEF Enters
<1>11. QED
  BY <1>10 DEF Entered

\* The next statement of a block changes one row at most.
LEMMA StepFacts ==
  ASSUME TypeOK, NEW r \in Reqs, Step(r)
  PROVE  LET c == Head(req[r].todo)
             w == c.wallet
         IN  /\ req[r].todo \in Seq(Update) /\ req[r].todo # <<>> /\ req[r].pc = "block"
             /\ c \in Update /\ w \in Wallets /\ lock[w] \in {NoOne, r}
             /\ req' = [req EXCEPT ![r] = req'[r]]
             /\ req'[r] = [req[r] EXCEPT !.todo = Tail(req[r].todo)]
             /\ Tail(req[r].todo) \in Seq(Update)
             /\ \/ /\ draft[w].state = "live" /\ Fits(Changed(draft[w], c))
                   /\ lock'  = [lock EXCEPT ![w] = r]
                   /\ draft' = [draft EXCEPT ![w] = Changed(draft[w], c)]
                \/ draft[w].state # "live" /\ UNCHANGED <<lock, draft>>
             /\ UNCHANGED <<table, moved, missed>>
<1>1. RequestFields(req[r])
  BY RequestHas DEF TypeOK
<1>2. req[r].todo \in Seq(Update) /\ req[r].todo # <<>> /\ req[r].pc = "block"
  BY <1>1 DEF Step, RequestFields
<1>3. Head(req[r].todo) \in Update /\ Tail(req[r].todo) \in Seq(Update)
  BY <1>2, HeadTailProperties
<1>4. Head(req[r].todo).wallet \in Wallets
  BY <1>3 DEF Update
<1>5. req' = [req EXCEPT ![r] = req'[r]] /\ req'[r] = [req[r] EXCEPT !.todo = Tail(req[r].todo)]
  BY DEF Step, TypeOK
<1>6. QED
  BY <1>2, <1>3, <1>4, <1>5 DEF Step

\* The other steps of a request that write: what they leave, row by row.
LEMMA RollbackFacts ==
  ASSUME TypeOK, NEW r \in Reqs, Rollback(r)
  PROVE  /\ req' = [req EXCEPT ![r] = Idle]
         /\ \A w \in Wallets : /\ draft'[w] = IF lock[w] = r THEN table[w] ELSE draft[w]
                               /\ lock'[w] = IF lock[w] = r THEN NoOne ELSE lock[w]
         /\ UNCHANGED <<table, moved>>
         /\ draft' \in [Wallets -> Row] /\ lock' \in [Wallets -> Reqs \cup {NoOne}]
  BY DEF Rollback, Unlocked, TypeOK

\* A COMMIT makes what the block wrote the committed rows, and frees the locks.
LEMMA CommitFacts ==
  ASSUME TypeOK, NEW r \in Reqs, Commit(r)
  PROVE  /\ req' = [req EXCEPT ![r] = Idle]
         /\ \A w \in Wallets : /\ table'[w] = IF lock[w] = r THEN draft[w] ELSE table[w]
                               /\ lock'[w] = IF lock[w] = r THEN NoOne ELSE lock[w]
         /\ UNCHANGED draft
         /\ table' \in [Wallets -> Row] /\ lock' \in [Wallets -> Reqs \cup {NoOne}]
         /\ req[r].pc = "block" /\ req[r].todo = <<>> /\ req[r].op \in {"transfer", "update", "reorder"}
<1>1. RequestFields(req[r])
  BY RequestHas DEF TypeOK
<1>2. req[r].pc = "block" /\ req[r].todo = <<>> /\ req[r].op \in {"transfer", "update", "reorder"}
  BY <1>1 DEF Commit, Swept, RequestFields
<1>3. QED
  BY <1>2 DEF Commit, Unlocked, TypeOK

\* The row that a create inserts.
NewRow(q) == [state |-> "live", balance |-> q.balance, primary |-> q.primary, position |-> q.position]

\* The INSERT of a wallet commits with the sweep of its block.
LEMMA CreateFacts ==
  ASSUME TypeOK, NEW r \in Reqs, CommitCreate(r)
  PROVE  /\ req' = [req EXCEPT ![r] = Idle]
         /\ NewRow(req[r]) \in Row
         /\ \A w \in Wallets : /\ table'[w] = IF w = NewId THEN NewRow(req[r])
                                              ELSE IF lock[w] = r THEN draft[w] ELSE table[w]
                               /\ draft'[w] = IF w = NewId THEN NewRow(req[r]) ELSE draft[w]
                               /\ lock'[w] = IF lock[w] = r THEN NoOne ELSE lock[w]
         /\ UNCHANGED moved
         /\ table' \in [Wallets -> Row] /\ draft' \in [Wallets -> Row] /\ lock' \in [Wallets -> Reqs \cup {NoOne}]
         /\ req[r].pc = "insert" /\ req[r].op = "create"
         /\ req[r].balance \in Openings /\ req[r].position \in Nat /\ req[r].primary \in BOOLEAN
<1>1. RequestFields(req[r])
  BY RequestHas DEF TypeOK
<1>2. /\ req[r].pc = "insert" /\ req[r].op = "create"
      /\ req[r].balance \in Openings /\ req[r].position \in Nat /\ req[r].primary \in BOOLEAN
  BY <1>1 DEF CommitCreate, RequestFields
<1>3. NewRow(req[r]) \in Row
  BY <1>2, MoneyTypes DEF NewRow, Row
<1> DEFINE mid == [w \in Wallets |-> IF lock[w] = r THEN draft[w] ELSE table[w]]
           row == NewRow(req[r])
<1>4. table' = [mid EXCEPT ![NewId] = row] /\ draft' = [draft EXCEPT ![NewId] = row]
  BY DEF CommitCreate, NewRow
<1>5. mid \in [Wallets -> Row]
  BY DEF TypeOK
<1>6. \A w \in Wallets : mid[w] = IF lock[w] = r THEN draft[w] ELSE table[w]
  OBVIOUS
<1> HIDE DEF mid, row
<1>7. /\ table' \in [Wallets -> Row] /\ draft' \in [Wallets -> Row]
      /\ \A w \in Wallets : /\ table'[w] = IF w = NewId THEN row ELSE mid[w]
                            /\ draft'[w] = IF w = NewId THEN row ELSE draft[w]
  BY <1>3, <1>4, <1>5 DEF TypeOK, row
<1>8. /\ req' = [req EXCEPT ![r] = Idle] /\ UNCHANGED moved
      /\ lock' \in [Wallets -> Reqs \cup {NoOne}]
      /\ \A w \in Wallets : lock'[w] = IF lock[w] = r THEN NoOne ELSE lock[w]
  BY DEF CommitCreate, Unlocked, TypeOK
<1>9. QED
  BY <1>2, <1>3, <1>6, <1>7, <1>8 DEF row

\* A DELETE waits for the lock of the row, and is a block of its own.
LEMMA DeleteFacts ==
  ASSUME TypeOK, NEW r \in Reqs, DeleteWallet(r)
  PROVE  LET w == req[r].wallet
         IN  /\ req' = [req EXCEPT ![r] = Idle]
             /\ req[r].op = "remove" /\ req[r].pc = "checked" /\ w \in Wallets
             /\ lock[w] = NoOne /\ \A q \in Reqs : ~Shares(q, w)
             /\ table' = [table EXCEPT ![w] = Gone(table[w])] /\ table' \in [Wallets -> Row]
             /\ draft' = [draft EXCEPT ![w] = Gone(draft[w])] /\ draft' \in [Wallets -> Row]
             /\ moved' = [p \in Wallets \X Wallets |-> IF w \in {p[1], p[2]} THEN 0 ELSE moved[p]]
             /\ UNCHANGED <<lock, missed>>
<1>1. RequestFields(req[r])
  BY RequestHas DEF TypeOK
<1>2. req[r].op = "remove" /\ req[r].pc = "checked" /\ req[r].wallet \in Wallets
  BY <1>1 DEF DeleteWallet, RequestFields
<1>3. Gone(table[req[r].wallet]) \in Row /\ Gone(draft[req[r].wallet]) \in Row
  BY <1>2, GoneRow DEF TypeOK
<1>4. QED
  BY <1>2, <1>3 DEF DeleteWallet, TypeOK

\* Every statement of every block keeps the types.
LEMMA TypeStep == TypeOK /\ [Next]_vars => TypeOK'
<1> SUFFICES ASSUME TypeOK, [Next]_vars PROVE TypeOK'
  OBVIOUS
<1>0. Idle \in Request
  BY DEF Request
<1>1. ASSUME NEW r, NEW since \in {"begin", "max"}, missed' = Overtake(r, since)
      PROVE  missed' \subseteq Reqs \X {"begin", "max"}
  BY <1>1 DEF Overtake, Forget, TypeOK
<1>2. ASSUME NEW r \in Reqs, Enters(r) PROVE TypeOK'
  BY <1>2, EnteredType DEF TypeOK
<1>3. ASSUME NEW r \in Reqs, Step(r) PROVE TypeOK'
  <2> DEFINE c == Head(req[r].todo)
             w == c.wallet
             t == Tail(req[r].todo)
  <2>1. /\ req[r].pc = "block" /\ c \in Update /\ w \in Wallets /\ t \in Seq(Update)
        /\ req' = [req EXCEPT ![r] = req'[r]] /\ req'[r] = [req[r] EXCEPT !.todo = t]
        /\ \/ lock' = [lock EXCEPT ![w] = r] /\ draft' = [draft EXCEPT ![w] = Changed(draft[w], c)]
           \/ UNCHANGED <<lock, draft>>
        /\ UNCHANGED <<table, moved, missed>>
    BY <1>3, StepFacts, Zenon
  <2>2. req[r] \in Request /\ draft[w] \in Row
    BY <2>1 DEF TypeOK
  <2> HIDE DEF c, w, t
  <2>3. req'[r] \in Request
    BY <2>1, <2>2, TodoType
  <2>4. Changed(draft[w], c) \in Row
    BY <2>1, <2>2, ChangedRow
  <2>5. req' \in [Reqs -> Request]
    BY <2>1, <2>3 DEF TypeOK
  <2>6. draft' \in [Wallets -> Row] /\ lock' \in [Wallets -> Reqs \cup {NoOne}]
    BY <2>1, <2>4 DEF TypeOK
  <2>7. QED
    BY <2>1, <2>5, <2>6 DEF TypeOK
<1>4. ASSUME NEW r \in Reqs, Rollback(r) PROVE TypeOK'
  <2>1. missed' \subseteq Reqs \X {"begin", "max"}
    BY <1>4 DEF Rollback, Forget, TypeOK
  <2>2. QED
    BY <1>0, <1>4, <2>1, RollbackFacts DEF TypeOK
<1>5. ASSUME NEW r \in Reqs, Commit(r) PROVE TypeOK'
  <2>1. missed' \subseteq Reqs \X {"begin", "max"}
    BY <1>1, <1>5 DEF Commit, Forget, TypeOK
  <2>2. moved' \in [Wallets \X Wallets -> Nat]
    <3>1. CASE req[r].op = "transfer"
      <4> DEFINE p == <<req[r].from, req[r].to>>
      <4>1. req[r].amount \in Nat /\ p \in Wallets \X Wallets
        <5>1. RequestFields(req[r])
          BY RequestHas DEF TypeOK
        <5>2. req[r].amount \in Amounts /\ req[r].from \in Wallets /\ req[r].to \in Wallets
          BY <3>1, <5>1 DEF RequestFields
        <5>3. QED
          BY <5>2, MoneyTypes
      <4>2. moved' = [moved EXCEPT ![p] = @ + req[r].amount]
        BY <1>5, <3>1 DEF Commit
      <4> HIDE DEF p
      <4>3. moved[p] + req[r].amount \in Nat
        BY <4>1 DEF TypeOK
      <4>4. QED
        BY <4>1, <4>2, <4>3 DEF TypeOK
    <3>2. CASE req[r].op # "transfer"
      BY <1>5, <3>2 DEF Commit, TypeOK
    <3>3. QED
      BY <3>1, <3>2
  <2>3. QED
    BY <1>0, <1>5, <2>1, <2>2, CommitFacts DEF TypeOK
<1>6. ASSUME NEW r \in Reqs, CommitCreate(r) PROVE TypeOK'
  <2>1. missed' \subseteq Reqs \X {"begin", "max"}
    BY <1>6 DEF CommitCreate, Overtake, Forget, TypeOK
  <2>2. QED
    BY <1>0, <1>6, <2>1, CreateFacts DEF TypeOK
<1>7. ASSUME NEW r \in Reqs, DeleteWallet(r) PROVE TypeOK'
  <2>1. moved' \in [Wallets \X Wallets -> Nat]
    BY <1>7, DeleteFacts DEF TypeOK
  <2>2. QED
    BY <1>0, <1>7, <2>1, DeleteFacts DEF TypeOK
<1>8. CASE UNCHANGED vars
  BY <1>8 DEF vars, TypeOK
<1>9. CASE Next
  <2>1. PICK r \in Reqs : Turn(r)
    BY <1>9 DEF Next, Turn
  <2>2. QED
    BY <1>2, <1>3, <1>4, <1>5, <1>6, <1>7, <2>1, TurnCases
<1>10. QED
  BY <1>8, <1>9

-----------------------------------------------------------------------------
Unborn  == {w \in Wallets : table[w].state = "unborn"}
Creates == {r \in Reqs : req[r].op = "create"}

\* The column that a block writes.
Column(q) == CASE q.op = "transfer" -> "credit"
               [] q.op = "create"   -> "primary"
               [] q.op = "update"   -> q.column
               [] OTHER             -> "position"

Pending(q) == {q.todo[i] : i \in 1 .. Len(q.todo)}

\* A row that nobody has locked is as committed.
Free == \A w \in Wallets : lock[w] = NoOne => draft[w] = table[w]

\* A locked row is of a live wallet, and differs from the committed row in the
\* column that its holder writes.
Held(r) == \A w \in Wallets : lock[w] = r =>
    /\ req[r].pc \in {"block", "insert"}
    /\ table[w].state = "live" /\ draft[w].state = "live"
    /\ Column(req[r]) \notin {"credit", "balance"} => draft[w].balance = table[w].balance
    /\ Column(req[r]) # "primary"  => draft[w].primary = table[w].primary
    /\ Column(req[r]) # "position" => draft[w].position = table[w].position

\* What a block still has to write is in that column; a sweep clears it, and
\* the wallet of an update gets it.
TodoOf(q) == q.pc = "block" => \A c \in Pending(q) :
    /\ c.column = Column(q)
    /\ c.column = "primary" => c.value = (q.op = "update" /\ c.wallet = q.wallet)

\* There is an identifier for each create under way.
Room == Cardinality(Creates) <= Cardinality(Unborn)

\* Who is asked to be removed exists, or did.
RemoveOk(r) == req[r].op = "remove" => table[req[r].wallet].state # "unborn"

Store == TypeOK /\ Free /\ Room /\ \A r \in Reqs : Held(r) /\ TodoOf(req[r]) /\ RemoveOk(r)

\* The identifier a wallet is given is of no wallet before.
LEMMA NewIdUnborn ==
  ASSUME TypeOK, Room, NEW r \in Reqs, req[r].op = "create"
  PROVE  NewId \in Wallets /\ table[NewId].state = "unborn"
<1>1. IsFiniteSet(Creates) /\ IsFiniteSet(Unborn)
  BY FiniteAssumption, FS_Subset DEF Creates, Unborn, FiniteAssumption
<1>2. Cardinality(Creates) \in Nat /\ Cardinality(Unborn) \in Nat /\ Cardinality(Creates) # 0
  BY <1>1, FS_CardinalityType, FS_EmptySet DEF Creates
<1>3. Cardinality(Unborn) # 0
  BY <1>2 DEF Room
<1>4. Unborn # {}
  BY <1>3, FS_EmptySet
<1>5. QED
  BY <1>4 DEF NewId, Unborn

\* The head of what is pending is done, and the rest stays pending.
LEMMA PendingStep ==
  ASSUME NEW q, q.todo \in Seq(Update), q.todo # <<>>, NEW p, p.todo = Tail(q.todo)
  PROVE  Head(q.todo) \in Pending(q) /\ Pending(q) = {Head(q.todo)} \cup Pending(p)
<1> DEFINE s == q.todo
           n == Len(s)
<1>1. n \in Nat \ {0} /\ Head(s) = s[1] /\ Tail(s) \in Seq(Update) /\ Len(Tail(s)) = n - 1
      /\ \A i \in 1 .. n - 1 : Tail(s)[i] = s[i + 1]
  BY EmptySeq, HeadTailProperties, LenProperties
<1>2. \A i \in 1 .. n : i = 1 \/ (i - 1 \in 1 .. n - 1 /\ s[i] = Tail(s)[i - 1])
  BY <1>1
<1> HIDE DEF s, n
<1>3. Pending(q) = {s[i] : i \in 1 .. n} /\ Pending(p) = {Tail(s)[i] : i \in 1 .. n - 1}
  BY <1>1 DEF Pending, s, n
<1>4. QED
  BY <1>1, <1>2, <1>3 DEF s

\* Nothing is locked by a request that is not in its block.
LEMMA EntersBare ==
  ASSUME TypeOK, NEW r \in Reqs, Held(r), Enters(r), ~ReadMax(r)
  PROVE  (\A w \in Wallets : lock[w] # r) /\ req[r].pc \in {"idle", "checked"} /\ req[r].op \in {"idle", "transfer"}
<1>1. ASSUME NEW block, Begin(r, block) PROVE req[r] = Idle
  BY <1>1 DEF Begin
<1>2. \/ req[r] = Idle
      \/ req[r].op = "transfer" /\ req[r].pc = "checked"
  <2>1. CASE \E f, t \in Wallets, a \in Amounts : CheckTransfer(r, f, t, a)
    BY <2>1, Zenon DEF CheckTransfer
  <2>2. CASE InsertTransfer(r)
    BY <2>2, Zenon DEF InsertTransfer
  <2>3. CASE \E b \in Openings, p \in BOOLEAN : BeginCreate(r, b, p)
    BY <2>3, <1>1, Zenon DEF BeginCreate
  <2>4. CASE \E w \in Wallets : (\E b \in Edits : BeginUpdate(r, w, "balance", b)) \/ BeginUpdate(r, w, "primary", TRUE)
    BY <2>4, <1>1, Zenon DEF BeginUpdate
  <2>5. CASE \E ids \in UNION {Orders(S) : S \in (SUBSET Live) \ {{}}} : BeginReorder(r, ids)
    BY <2>5, <1>1, Zenon DEF BeginReorder
  <2>6. CASE \E w \in Wallets : CheckRemove(r, w)
    BY <2>6, Zenon DEF CheckRemove
  <2>7. QED
    BY <2>1, <2>2, <2>3, <2>4, <2>5, <2>6, Zenon DEF Enters
<1>3. QED
  BY <1>2 DEF Held, Idle

\* What a step of one request leaves of another's.
LEMMA OthersKept ==
  ASSUME TypeOK, Free, Room, NEW q \in Reqs, Held(q), NEW r \in Reqs \ {q}, Turn(r)
  PROVE  /\ req'[q] = req[q]
         /\ \A w \in Wallets : lock'[w] = q <=> lock[w] = q
         /\ \A w \in Wallets : lock[w] = q => draft'[w] = draft[w] /\ table'[w] = table[w]
         /\ \A since \in {"begin", "max"} : <<q, since>> \in missed => <<q, since>> \in missed'
<1> USE FiniteAssumption DEF FiniteAssumption
<1>1. CASE Enters(r)
  BY <1>1, EnteredType
<1>2. CASE Step(r)
  <2> DEFINE c == Head(req[r].todo)
             w == c.wallet
  <2>1. /\ w \in Wallets /\ lock[w] \in {NoOne, r}
        /\ req' = [req EXCEPT ![r] = req'[r]]
        /\ \/ lock' = [lock EXCEPT ![w] = r] /\ draft' = [draft EXCEPT ![w] = Changed(draft[w], c)]
           \/ UNCHANGED <<lock, draft>>
        /\ UNCHANGED <<table, moved, missed>>
    BY <1>2, StepFacts, Zenon
  <2> HIDE DEF c, w
  <2>2. QED
    BY <2>1 DEF TypeOK
<1>3. CASE Rollback(r)
  <2>1. \A since : <<q, since>> \in missed => <<q, since>> \in missed'
    BY <1>3 DEF Rollback, Forget
  <2>2. QED
    BY <1>3, <2>1, RollbackFacts DEF TypeOK
<1>4. CASE Commit(r)
  <2>1. \A since : <<q, since>> \in missed => <<q, since>> \in missed'
    BY <1>4 DEF Commit, Overtake, Forget
  <2>2. QED
    BY <1>4, <2>1, CommitFacts DEF TypeOK
<1>5. CASE CommitCreate(r)
  <2>1. \A since : <<q, since>> \in missed => <<q, since>> \in missed'
    BY <1>5 DEF CommitCreate, Overtake, Forget
  <2>2. \A w \in Wallets : lock[w] = q => w # NewId
    BY <1>5, CreateFacts, NewIdUnborn DEF Held
  <2>3. QED
    BY <1>5, <2>1, <2>2, CreateFacts DEF TypeOK
<1>6. CASE DeleteWallet(r)
  BY <1>6, DeleteFacts DEF TypeOK
<1>7. QED
  BY <1>1, <1>2, <1>3, <1>4, <1>5, <1>6, TurnCases

\* Wallets become live by creates and go by removals.
LEMMA Lives ==
  ASSUME TypeOK, Room, NEW r \in Reqs, Held(r), Turn(r)
  PROVE  \A w \in Wallets :
            \/ table'[w].state = table[w].state
            \/ /\ CommitCreate(r) /\ w = NewId /\ table[w].state = "unborn" /\ table'[w].state = "live"
            \/ /\ DeleteWallet(r) /\ w = req[r].wallet /\ table'[w].state = "gone"
<1>1. CASE Enters(r)
  BY <1>1, EnteredType
<1>2. CASE Step(r)
  BY <1>2 DEF Step
<1>3. CASE Rollback(r)
  BY <1>3, RollbackFacts
<1>4. CASE Commit(r)
  BY <1>4, CommitFacts DEF Held
<1>5. CASE CommitCreate(r)
  <2>1. NewRow(req[r]).state = "live"
    BY DEF NewRow
  <2>2. QED
    BY <1>5, <2>1, CreateFacts, NewIdUnborn DEF Held
<1>6. CASE DeleteWallet(r)
  BY <1>6, DeleteFacts, GoneRow DEF TypeOK
<1>7. QED
  BY <1>1, <1>2, <1>3, <1>4, <1>5, <1>6, TurnCases

\* How a request enters a state.
EntersAs(r) ==
    LET q == req[r]
        p == req'[r]
    IN  \/ /\ p.pc \in {"idle", "checked"} /\ p.op \in {"idle", "transfer", "remove"}
           /\ p.op = "transfer" => /\ p.from # p.to
                                  /\ \E f, t \in Wallets, a \in Amounts : CheckTransfer(r, f, t, a)
           /\ p.op = "remove" => p.wallet \in Live /\ \E w \in Wallets : CheckRemove(r, w)
        \/ /\ p.op = "transfer" /\ p.pc = "block" /\ q.op = "transfer" /\ q.pc = "checked"
           /\ p.from = q.from /\ p.to = q.to /\ p.amount = q.amount
           /\ p.from \in Live /\ p.to \in Live
           /\ p.todo = <<Change(p.from, "credit", -p.amount), Change(p.to, "credit", p.amount)>>
        \/ /\ q = Idle /\ p.op = "create" /\ p.pc = "block" /\ Cardinality(Creates) < Cardinality(Unborn)
           /\ p.todo \in IF p.primary THEN Sweep(Live) ELSE {<<>>}
        \/ /\ q = Idle /\ p.op = "update" /\ p.pc = "block" /\ p.column = "balance"
           /\ p.todo = <<Change(p.wallet, "balance", p.value)>>
        \/ /\ q = Idle /\ p.op = "update" /\ p.pc = "block" /\ p.column = "primary" /\ p.value = TRUE
           /\ \E sweep \in Sweep(Live \ {p.wallet}) : p.todo = Append(sweep, Change(p.wallet, "primary", TRUE))
        \/ /\ q = Idle /\ p.op = "reorder" /\ p.pc = "block"
           /\ \E ids \in UNION {Orders(S) : S \in (SUBSET Live) \ {{}}} :
                 p.ids = Range(ids) /\ p.todo = [i \in DOMAIN ids |-> Change(ids[i], "position", i - 1)]
        \/ /\ ReadMax(r)
           /\ p.op = "create" /\ p.pc = "insert" /\ p.primary = q.primary /\ p.position = NewPosition
           /\ q.op = "create" /\ q.pc = "block" /\ q.todo = <<>>

\* Every handler that is called enters in one of those ways.
LEMMA HowEnters == ASSUME TypeOK, NEW r \in Reqs, Enters(r) PROVE EntersAs(r)
<1>0. \A n : req' = [req EXCEPT ![r] = n] => req'[r] = n
  BY DEF TypeOK
<1>1. ASSUME NEW f \in Wallets, NEW t \in Wallets, NEW a \in Amounts, CheckTransfer(r, f, t, a) PROVE EntersAs(r)
  <2>1. req'[r] = [op |-> "transfer", pc |-> "checked", from |-> f, to |-> t, amount |-> a] /\ f # t
    BY <1>0, <1>1, Zenon DEF CheckTransfer
  <2>2. /\ req'[r].op = "transfer" /\ req'[r].pc = "checked"
        /\ req'[r].from = f /\ req'[r].to = t /\ f # t
    BY <2>1
  <2>3. QED
    BY <1>1, <2>2, Zenon DEF EntersAs
<1>2. ASSUME InsertTransfer(r) PROVE EntersAs(r)
  <2> DEFINE f == req[r].from
             t == req[r].to
             a == req[r].amount
             todo == <<Change(f, "credit", -a), Change(t, "credit", a)>>
  <2>1. req[r].op = "transfer" /\ req[r].pc = "checked"
    BY <1>2 DEF InsertTransfer
  <2>2. req'[r] = IF {f, t} \subseteq Live
                  THEN [op |-> "transfer", pc |-> "block", from |-> f, to |-> t, amount |-> a, todo |-> todo]
                  ELSE Idle
    BY <1>0, <1>2, Zenon DEF InsertTransfer
  <2> HIDE DEF todo
  <2>3. CASE {f, t} \subseteq Live
    <3>1. f \in Live /\ t \in Live
      BY <2>3
    <3> HIDE DEF f, t, a
    <3>2. /\ req'[r].op = "transfer" /\ req'[r].pc = "block" /\ req'[r].from = f /\ req'[r].to = t
          /\ req'[r].amount = a /\ req'[r].todo = todo
      BY <2>2, <2>3
    <3>3. QED
      BY <2>1, <3>1, <3>2, Zenon DEF EntersAs, f, t, a, todo
  <2>4. CASE ~({f, t} \subseteq Live)
    <3>1. req'[r] = Idle
      BY <2>2, <2>4
    <3>2. QED
      BY <3>1 DEF EntersAs, Idle
  <2>5. QED
    BY <2>3, <2>4
<1>3. ASSUME NEW block, Begin(r, block) PROVE req'[r] = block /\ req[r] = Idle
  BY <1>0, <1>3 DEF Begin
<1>4. ASSUME NEW b \in Openings, NEW p \in BOOLEAN, BeginCreate(r, b, p) PROVE EntersAs(r)
  <2>1. PICK sweep \in IF p THEN Sweep(Live) ELSE {<<>>} :
           Begin(r, [op |-> "create", pc |-> "block", balance |-> b, primary |-> p, todo |-> sweep])
    BY <1>4 DEF BeginCreate
  <2>2. req'[r] = [op |-> "create", pc |-> "block", balance |-> b, primary |-> p, todo |-> sweep]
        /\ req[r] = Idle
    BY <1>3, <2>1
  <2>3. req'[r].op = "create" /\ req'[r].pc = "block" /\ req'[r].primary = p /\ req'[r].todo = sweep
        /\ req[r] = Idle
    BY <2>2
  <2>4. QED
    <3>1. Cardinality(Creates) < Cardinality(Unborn)
      BY <1>4, Zenon DEF BeginCreate, Creates, Unborn
    <3>2. QED
      BY <2>1, <2>3, <3>1, Zenon DEF EntersAs
<1>5. ASSUME NEW w \in Wallets, NEW b \in Edits, BeginUpdate(r, w, "balance", b) PROVE EntersAs(r)
  <2> DEFINE todo == Append(<<>>, Change(w, "balance", b))
  <2>1. Begin(r, [op |-> "update", pc |-> "block", wallet |-> w, column |-> "balance", value |-> b, todo |-> todo])
    BY <1>5 DEF BeginUpdate
  <2>2. todo = <<Change(w, "balance", b)>>
    OBVIOUS
  <2> HIDE DEF todo
  <2>3. req'[r] = [op |-> "update", pc |-> "block", wallet |-> w, column |-> "balance", value |-> b, todo |-> todo]
        /\ req[r] = Idle
    BY <1>3, <2>1
  <2>4. /\ req'[r].op = "update" /\ req'[r].pc = "block" /\ req'[r].wallet = w /\ req'[r].column = "balance"
        /\ req'[r].value = b /\ req'[r].todo = todo /\ req[r] = Idle
    BY <2>3
  <2>5. QED
    BY <2>2, <2>4, Zenon DEF EntersAs
<1>6. ASSUME NEW w \in Wallets, BeginUpdate(r, w, "primary", TRUE) PROVE EntersAs(r)
  <2>1. PICK sweep \in Sweep(Live \ {w}) :
           Begin(r, [op |-> "update", pc |-> "block", wallet |-> w, column |-> "primary", value |-> TRUE,
                     todo |-> Append(sweep, Change(w, "primary", TRUE))])
    BY <1>6 DEF BeginUpdate
  <2> DEFINE todo == Append(sweep, Change(w, "primary", TRUE))
  <2>2. Begin(r, [op |-> "update", pc |-> "block", wallet |-> w, column |-> "primary", value |-> TRUE, todo |-> todo])
    BY <2>1
  <2>3. \E s \in Sweep(Live \ {w}) : todo = Append(s, Change(w, "primary", TRUE))
    BY <2>1
  <2> HIDE DEF todo
  <2>4. req'[r] = [op |-> "update", pc |-> "block", wallet |-> w, column |-> "primary", value |-> TRUE, todo |-> todo]
        /\ req[r] = Idle
    BY <1>3, <2>2
  <2>5. /\ req'[r].op = "update" /\ req'[r].pc = "block" /\ req'[r].wallet = w /\ req'[r].column = "primary"
        /\ req'[r].value = TRUE /\ req'[r].todo = todo /\ req[r] = Idle
    BY <2>4
  <2>6. QED
    BY <2>3, <2>5, Zenon DEF EntersAs
<1>7. ASSUME NEW ids \in UNION {Orders(S) : S \in (SUBSET Live) \ {{}}}, BeginReorder(r, ids) PROVE EntersAs(r)
  <2> DEFINE todo == [i \in DOMAIN ids |-> Change(ids[i], "position", i - 1)]
             rng == Range(ids)
  <2>1. Begin(r, [op |-> "reorder", pc |-> "block", ids |-> rng, todo |-> todo])
    BY <1>7 DEF BeginReorder
  <2> HIDE DEF todo, rng
  <2>2. req'[r] = [op |-> "reorder", pc |-> "block", ids |-> rng, todo |-> todo]
        /\ req[r] = Idle
    BY <1>3, <2>1
  <2>3. req'[r].op = "reorder" /\ req'[r].pc = "block" /\ req'[r].ids = rng /\ req'[r].todo = todo
        /\ req[r] = Idle
    BY <2>2
  <2>4. QED
    BY <2>3, Zenon DEF EntersAs, todo, rng
<1>8. ASSUME NEW w \in Wallets, CheckRemove(r, w) PROVE EntersAs(r)
  <2>1. req'[r] = [op |-> "remove", pc |-> "checked", wallet |-> w] /\ w \in Live
    BY <1>0, <1>8, Zenon DEF CheckRemove
  <2>2. req'[r].op = "remove" /\ req'[r].pc = "checked" /\ req'[r].wallet \in Live
    BY <2>1
  <2>3. QED
    BY <1>8, <2>2, Zenon DEF EntersAs
<1>9. ASSUME ReadMax(r) PROVE EntersAs(r)
  <2>1. req'[r] = [op |-> "create", pc |-> "insert", balance |-> req[r].balance,
                   primary |-> req[r].primary, position |-> NewPosition]
    BY <1>0, <1>9, Zenon DEF ReadMax
  <2>2. req[r].op = "create" /\ req[r].pc = "block" /\ req[r].todo = <<>>
    BY <1>9 DEF ReadMax, Swept
  <2>3. /\ req'[r].op = "create" /\ req'[r].pc = "insert" /\ req'[r].primary = req[r].primary
        /\ req'[r].position = NewPosition
    BY <2>1
  <2>4. QED
    BY <1>9, <2>2, <2>3, Zenon DEF EntersAs
<1>10. QED
  BY <1>1, <1>2, <1>4, <1>5, <1>6, <1>7, <1>8, <1>9 DEF Enters

\* What waits when an update is put behind a list.
LEMMA PendingAppend ==
  ASSUME NEW s \in Seq(Update), NEW c \in Update, NEW q, q.todo = Append(s, c)
  PROVE  Pending(q) = {s[i] : i \in 1 .. Len(s)} \cup {c}
<1>1. Len(s) \in Nat /\ Len(q.todo) = Len(s) + 1 /\ q.todo[Len(s) + 1] = c
      /\ \A i \in 1 .. Len(s) : q.todo[i] = s[i]
  BY AppendProperties, LenProperties
<1>2. \A i \in 1 .. Len(s) + 1 : i \in 1 .. Len(s) \/ i = Len(s) + 1
  BY <1>1
<1>3. QED
  BY <1>1, <1>2 DEF Pending

\* What waits when the head of a list has been done.
LEMMA PendingFew ==
  /\ \A q : q.todo = <<>> => Pending(q) = {}
  /\ \A q, c : q.todo = <<c>> => Pending(q) = {c}
  /\ \A q, c, d : q.todo = <<c, d>> => Pending(q) = {c, d}
<1>1. ASSUME NEW q, q.todo = <<>> PROVE Pending(q) = {}
  BY <1>1 DEF Pending
<1>2. ASSUME NEW q, NEW c, q.todo = <<c>> PROVE Pending(q) = {c}
  <2>1. Len(q.todo) = 1 /\ q.todo[1] = c
    BY <1>2
  <2>2. QED
    BY <2>1 DEF Pending
<1>3. ASSUME NEW q, NEW c, NEW d, q.todo = <<c, d>> PROVE Pending(q) = {c, d}
  <2>1. Len(q.todo) = 2 /\ q.todo[1] = c /\ q.todo[2] = d
    BY <1>3
  <2>2. QED
    BY <2>1 DEF Pending
<1>4. QED
  BY <1>1, <1>2, <1>3

\* What a block has to write when it begins.
LEMMA TodoEnters ==
  ASSUME TypeOK, NEW r \in Reqs, Enters(r)
  PROVE  TodoOf(req'[r])
<1> DEFINE p == req'[r]
<1>1. p \in Request
  BY EnteredType
<1>2. RequestFields(p)
  BY <1>1, RequestHas
<1>3. EntersAs(r)
  BY HowEnters
<1>4. CASE p.pc # "block"
  BY <1>4 DEF TodoOf
<1>5. CASE p.op = "transfer" /\ p.todo = <<Change(p.from, "credit", -p.amount), Change(p.to, "credit", p.amount)>>
  <2>1. \A c \in Pending(p) : c.column = "credit"
    BY <1>5, PendingFew DEF Change
  <2>2. Column(p) = "credit"
    BY <1>5 DEF Column
  <2>3. QED
    BY <2>1, <2>2 DEF TodoOf
<1>6. CASE p.op = "create" /\ p.todo \in IF p.primary THEN Sweep(Live) ELSE {<<>>}
  <2>1. \A c \in Pending(p) : c.column = "primary" /\ c.value = FALSE
    <3>1. CASE p.primary
      <4>1. Live \in SUBSET Wallets /\ p.todo \in Sweep(Live)
        BY <1>6, <3>1, LiveFinite
      <4>2. \A i \in 1 .. Len(p.todo) : \E w \in Live : p.todo[i] = Change(w, "primary", FALSE)
        BY <4>1, SweepType
      <4>3. \A w : Change(w, "primary", FALSE).column = "primary" /\ Change(w, "primary", FALSE).value = FALSE
        BY DEF Change
      <4>4. \A i \in 1 .. Len(p.todo) : p.todo[i].column = "primary" /\ p.todo[i].value = FALSE
        BY <4>2, <4>3
      <4>5. QED
        BY <4>4 DEF Pending
    <3>2. CASE ~p.primary
      BY <1>6, <3>2, PendingFew
    <3>3. QED
      BY <3>1, <3>2
  <2>2. Column(p) = "primary"
    BY <1>6 DEF Column
  <2>3. QED
    BY <1>6, <2>1, <2>2 DEF TodoOf
<1>7. CASE p.op = "update" /\ p.column = "balance" /\ p.todo = <<Change(p.wallet, "balance", p.value)>>
  <2>1. \A c \in Pending(p) : c.column = "balance"
    BY <1>7, PendingFew DEF Change
  <2>2. Column(p) = "balance"
    BY <1>7 DEF Column
  <2>3. QED
    BY <2>1, <2>2 DEF TodoOf
<1>8. CASE p.op = "update" /\ p.column = "primary"
           /\ \E sweep \in Sweep(Live \ {p.wallet}) : p.todo = Append(sweep, Change(p.wallet, "primary", TRUE))
  <2>1. PICK sweep \in Sweep(Live \ {p.wallet}) : p.todo = Append(sweep, Change(p.wallet, "primary", TRUE))
    BY <1>8
  <2>2. /\ sweep \in Seq(Update)
        /\ \A i \in 1 .. Len(sweep) : \E w \in Live \ {p.wallet} : sweep[i] = Change(w, "primary", FALSE)
    <3>1. Live \ {p.wallet} \in SUBSET Wallets
      BY LiveFinite
    <3>2. QED
      BY <3>1, SweepType
  <2>3. p.wallet \in Wallets
    BY <1>2, <1>8 DEF RequestFields
  <2>4. Change(p.wallet, "primary", TRUE) \in Update
    BY <2>3 DEF Change, Update
  <2>5. Pending(p) = {sweep[i] : i \in 1 .. Len(sweep)} \cup {Change(p.wallet, "primary", TRUE)}
    BY <2>1, <2>2, <2>4, PendingAppend
  <2>6. \A c \in Pending(p) : c.column = "primary" /\ c.value = (c.wallet = p.wallet)
    <3> SUFFICES ASSUME NEW c \in Pending(p) PROVE c.column = "primary" /\ c.value = (c.wallet = p.wallet)
      OBVIOUS
    <3>1. c = Change(p.wallet, "primary", TRUE) \/ \E w \in Live \ {p.wallet} : c = Change(w, "primary", FALSE)
      BY <2>2, <2>5
    <3>2. CASE c = Change(p.wallet, "primary", TRUE)
      BY <3>2 DEF Change
    <3>3. CASE \E w \in Live \ {p.wallet} : c = Change(w, "primary", FALSE)
      <4>1. c.column = "primary" /\ c.value = FALSE /\ c.wallet # p.wallet
        BY <3>3 DEF Change
      <4>2. QED
        BY <4>1
    <3>4. QED
      BY <3>1, <3>2, <3>3
  <2>7. Column(p) = "primary"
    BY <1>8 DEF Column
  <2>8. QED
    BY <1>8, <2>6, <2>7 DEF TodoOf
<1>9. CASE p.op = "reorder"
           /\ \E ids \in UNION {Orders(S) : S \in (SUBSET Live) \ {{}}} :
                 p.ids = Range(ids) /\ p.todo = [i \in DOMAIN ids |-> Change(ids[i], "position", i - 1)]
  <2>1. PICK ids \in UNION {Orders(S) : S \in (SUBSET Live) \ {{}}} :
                 p.todo = [i \in DOMAIN ids |-> Change(ids[i], "position", i - 1)]
    BY <1>9
  <2>2. DOMAIN ids = 1 .. Cardinality(Range(ids)) /\ Len(p.todo) = Cardinality(Range(ids))
    BY <2>1, ReorderType
  <2>3. \A i \in 1 .. Len(p.todo) : p.todo[i] = Change(ids[i], "position", i - 1)
    BY <2>1, <2>2
  <2>4. \A c \in Pending(p) : c.column = "position"
    <3> SUFFICES ASSUME NEW i \in 1 .. Len(p.todo) PROVE p.todo[i].column = "position"
      BY DEF Pending
    <3>1. p.todo[i] = Change(ids[i], "position", i - 1)
      BY <2>3
    <3>2. QED
      BY <3>1 DEF Change
  <2>5. Column(p) = "position"
    BY <1>9 DEF Column
  <2>6. QED
    BY <2>4, <2>5 DEF TodoOf
<1> HIDE DEF p
<1>10. QED
  BY <1>3, <1>4, <1>5, <1>6, <1>7, <1>8, <1>9, Zenon DEF EntersAs, p

\* The column of a block stays, while it works on its rows and when it inserts.
LEMMA SameColumn ==
  ASSUME TypeOK, NEW r \in Reqs, Step(r)
  PROVE  /\ req'[r].pc = "block" /\ req'[r].todo = Tail(req[r].todo) /\ req'[r].op = req[r].op
         /\ Column(req'[r]) = Column(req[r])
         /\ req[r].op = "transfer" => req'[r].from = req[r].from /\ req'[r].to = req[r].to /\ req'[r].amount = req[r].amount
         /\ req[r].op = "create" => req'[r].primary = req[r].primary
         /\ req[r].op = "update" => /\ req'[r].wallet = req[r].wallet
                                   /\ req'[r].column = req[r].column /\ req'[r].value = req[r].value
         /\ req[r].op = "reorder" => req'[r].ids = req[r].ids
<1> DEFINE t == Tail(req[r].todo)
<1>1. req[r] \in Request /\ req[r].pc = "block" /\ t \in Seq(Update) /\ req'[r] = [req[r] EXCEPT !.todo = t]
  BY StepFacts DEF TypeOK
<1> HIDE DEF t
<1>2. RequestFields(req[r])
  BY <1>1, RequestHas
<1>3. /\ req'[r].pc = "block" /\ req'[r].todo = t /\ req'[r].op = req[r].op
      /\ req[r].op = "transfer" => req'[r].from = req[r].from /\ req'[r].to = req[r].to /\ req'[r].amount = req[r].amount
      /\ req[r].op = "create" => req'[r].primary = req[r].primary
      /\ req[r].op = "update" => /\ req'[r].wallet = req[r].wallet
                                /\ req'[r].column = req[r].column /\ req'[r].value = req[r].value
      /\ req[r].op = "reorder" => req'[r].ids = req[r].ids
  BY <1>1, TodoType
<1>4. Column(req'[r]) = Column(req[r])
  BY <1>3 DEF Column
<1>5. QED
  BY <1>3, <1>4 DEF t

\* Every block goes on to write no column but its own.
LEMMA TodoStep ==
  ASSUME TypeOK, NEW r \in Reqs, TodoOf(req[r]), Turn(r)
  PROVE  TodoOf(req'[r])
<1>1. CASE Enters(r)
  BY <1>1, TodoEnters
<1>2. CASE Step(r)
  <2>1. req[r].todo \in Seq(Update) /\ req[r].todo # <<>> /\ req[r].pc = "block"
    BY <1>2, StepFacts
  <2>2. Pending(req'[r]) \subseteq Pending(req[r])
    BY <1>2, <2>1, SameColumn, PendingStep
  <2>3. req[r].op = "update" => req'[r].wallet = req[r].wallet
    BY <1>2, SameColumn
  <2>4. req'[r].op = req[r].op /\ Column(req'[r]) = Column(req[r])
    BY <1>2, SameColumn
  <2>5. QED
    BY <2>1, <2>2, <2>3, <2>4 DEF TodoOf
<1>3. CASE req'[r] = Idle
  BY <1>3 DEF Idle, TodoOf
<1>4. QED
  <2>1. Rollback(r) \/ Commit(r) \/ CommitCreate(r) \/ DeleteWallet(r) => req'[r] = Idle
    BY RollbackFacts, CommitFacts, CreateFacts, DeleteFacts DEF TypeOK
  <2>2. QED
    BY <1>1, <1>2, <1>3, <2>1, TurnCases

\* A row that no block has written is as committed, whatever step is taken.
LEMMA FreeStep ==
  ASSUME TypeOK, Free, Room, NEW r \in Reqs, Held(r), Turn(r)
  PROVE  Free'
<1> SUFFICES ASSUME NEW w \in Wallets, lock'[w] = NoOne PROVE draft'[w] = table'[w]
  BY DEF Free
<1> USE FiniteAssumption DEF FiniteAssumption
<1>1. CASE Enters(r)
  BY <1>1, EnteredType DEF Free
<1>2. CASE Step(r)
  <2> DEFINE c == Head(req[r].todo)
             v == c.wallet
  <2>1. /\ v \in Wallets
        /\ \/ lock' = [lock EXCEPT ![v] = r] /\ draft' = [draft EXCEPT ![v] = Changed(draft[v], c)]
           \/ UNCHANGED <<lock, draft>>
        /\ UNCHANGED <<table, moved, missed>>
    BY <1>2, StepFacts, Zenon
  <2> HIDE DEF c, v
  <2>2. QED
    BY <2>1 DEF TypeOK, Free
<1>3. CASE Rollback(r)
  BY <1>3, RollbackFacts DEF Free
<1>4. CASE Commit(r)
  BY <1>4, CommitFacts DEF Free
<1>5. CASE CommitCreate(r)
  BY <1>5, CreateFacts DEF Free
<1>6. CASE DeleteWallet(r)
  BY <1>6, DeleteFacts DEF Free, TypeOK
<1>7. QED
  BY <1>1, <1>2, <1>3, <1>4, <1>5, <1>6, TurnCases

\* What a block has written stays its own until it ends: a lock is of a block
\* under way, on a wallet that exists.
LEMMA HeldStep ==
  ASSUME TypeOK, Free, Room, NEW r \in Reqs, Held(r), TodoOf(req[r]), Turn(r)
  PROVE  Held(r)'
<1> SUFFICES ASSUME NEW w \in Wallets, lock'[w] = r
             PROVE  /\ req'[r].pc \in {"block", "insert"}
                    /\ table'[w].state = "live" /\ draft'[w].state = "live"
                    /\ Column(req'[r]) \notin {"credit", "balance"} => draft'[w].balance = table'[w].balance
                    /\ Column(req'[r]) # "primary"  => draft'[w].primary = table'[w].primary
                    /\ Column(req'[r]) # "position" => draft'[w].position = table'[w].position
  BY DEF Held
<1> USE FiniteAssumption DEF FiniteAssumption
<1>1. CASE Enters(r)
  <2>1. lock[w] = r /\ draft'[w] = draft[w] /\ table'[w] = table[w]
    BY <1>1, EnteredType
  <2>2. ReadMax(r)
    BY <1>1, <2>1, EntersBare
  <2>3. req'[r].op = "create" /\ req'[r].pc = "insert" /\ req[r].op = "create"
    BY <2>2 DEF ReadMax, Swept, TypeOK
  <2>4. Column(req'[r]) = Column(req[r])
    BY <2>3 DEF Column
  <2>5. QED
    BY <2>1, <2>3, <2>4 DEF Held
<1>2. CASE Step(r)
  <2> DEFINE c == Head(req[r].todo)
             v == c.wallet
  <2>1. /\ v \in Wallets /\ c \in Update /\ lock[v] \in {NoOne, r}
        /\ \/ /\ draft[v].state = "live"
              /\ lock' = [lock EXCEPT ![v] = r] /\ draft' = [draft EXCEPT ![v] = Changed(draft[v], c)]
           \/ UNCHANGED <<lock, draft>>
        /\ UNCHANGED <<table, moved, missed>>
    BY <1>2, StepFacts, Zenon
  <2>2. c.column = Column(req[r])
    <3>1. req[r].todo \in Seq(Update) /\ req[r].todo # <<>> /\ req[r].pc = "block"
      BY <1>2, StepFacts
    <3>2. c \in Pending(req[r])
      BY <1>2, <3>1, SameColumn, PendingStep
    <3>3. QED
      BY <3>1, <3>2 DEF TodoOf
  <2>3. req'[r].pc = "block" /\ Column(req'[r]) = Column(req[r]) /\ req[r].pc = "block"
    BY <1>2, SameColumn, StepFacts
  <2> HIDE DEF c, v
  <2>4. CASE lock'[w] = lock[w] /\ draft'[w] = draft[w]
    BY <2>1, <2>3, <2>4 DEF Held
  <2>5. CASE ~(lock'[w] = lock[w] /\ draft'[w] = draft[w])
    <3>1. w = v /\ draft[w].state = "live" /\ draft'[w] = Changed(draft[w], c)
      BY <2>1, <2>5 DEF TypeOK
    <3>2. /\ table[w].state = "live"
          /\ Column(req[r]) \notin {"credit", "balance"} => draft[w].balance = table[w].balance
          /\ Column(req[r]) # "primary"  => draft[w].primary = table[w].primary
          /\ Column(req[r]) # "position" => draft[w].position = table[w].position
      BY <2>1, <3>1 DEF Held, Free
    <3>3. draft[w] \in Row
      BY DEF TypeOK
    <3>4. /\ Changed(draft[w], c).state = "live"
          /\ c.column \notin {"credit", "balance"} => Changed(draft[w], c).balance = draft[w].balance
          /\ c.column # "primary" => Changed(draft[w], c).primary = draft[w].primary
          /\ c.column # "position" => Changed(draft[w], c).position = draft[w].position
      BY <2>1, <3>1, <3>3, ChangedRow
    <3>5. QED
      BY <2>1, <2>2, <2>3, <3>1, <3>2, <3>4
  <2>6. QED
    BY <2>4, <2>5
<1>3. ASSUME Rollback(r) \/ Commit(r) \/ CommitCreate(r) PROVE FALSE
  BY <1>3, RollbackFacts, CommitFacts, CreateFacts
<1>4. CASE DeleteWallet(r)
  <2>1. req[r].pc = "checked" /\ lock[w] = r
    BY <1>4, DeleteFacts
  <2>2. QED
    BY <2>1 DEF Held
<1>5. QED
  BY <1>1, <1>2, <1>3, <1>4, TurnCases

\* The creates under way find an identifier each.
LEMMA RoomStep ==
  ASSUME TypeOK, Free, Room, NEW r \in Reqs, Held(r), RemoveOk(r), Turn(r)
  PROVE  Room'
<1> DEFINE C  == Creates
           C2 == Creates'
           U  == Unborn
           U2 == Unborn'
<1>1. IsFiniteSet(Reqs) /\ IsFiniteSet(Wallets)
  BY FiniteAssumption DEF FiniteAssumption
<1>2. C \subseteq Reqs /\ C2 \subseteq Reqs /\ U \subseteq Wallets /\ U2 \subseteq Wallets
  BY DEF Creates, Unborn
<1>3. /\ IsFiniteSet(C) /\ IsFiniteSet(C2) /\ IsFiniteSet(U) /\ IsFiniteSet(U2)
      /\ Cardinality(C) \in Nat /\ Cardinality(C2) \in Nat /\ Cardinality(U) \in Nat /\ Cardinality(U2) \in Nat
  BY <1>1, <1>2, FS_Subset, FS_CardinalityType
<1>4. Cardinality(C) <= Cardinality(U)
  BY DEF Room
<1>5. \A q \in Reqs \ {r} : req'[q] = req[q]
  <2>1. CASE Enters(r)
    BY <2>1, EnteredType
  <2>2. CASE Step(r)
    BY <2>2 DEF Step, TypeOK
  <2>3. CASE Rollback(r) \/ Commit(r) \/ CommitCreate(r) \/ DeleteWallet(r)
    BY <2>3, RollbackFacts, CommitFacts, CreateFacts, DeleteFacts DEF TypeOK
  <2>4. QED
    BY <2>1, <2>2, <2>3, TurnCases
<1>6. CASE CommitCreate(r)
  <2>1. r \in C /\ NewId \in U
    BY <1>6, CreateFacts, NewIdUnborn DEF Creates, Unborn
  <2>2. req'[r] = Idle
    BY <1>6, CreateFacts DEF TypeOK
  <2>3. C2 = C \ {r}
    BY <1>5, <2>2 DEF Creates, Idle
  <2>4. \A w \in Wallets : w # NewId => table'[w].state = table[w].state
    BY <1>6, CreateFacts DEF Held
  <2>5. table'[NewId].state = "live"
    <3>1. NewRow(req[r]).state = "live"
      BY DEF NewRow
    <3>2. table'[NewId] = NewRow(req[r])
      BY <1>6, <2>1, CreateFacts DEF Unborn
    <3>3. QED
      BY <3>1, <3>2
  <2>6. U2 = U \ {NewId}
    BY <2>4, <2>5 DEF Unborn
  <2>7. Cardinality(C2) = Cardinality(C) - 1 /\ Cardinality(U2) = Cardinality(U) - 1
    BY <1>3, <2>1, <2>3, <2>6, FS_RemoveElement
  <2>8. QED
    BY <1>3, <1>4, <2>7 DEF Room
<1>7. CASE ~CommitCreate(r)
  <2>1. U2 = U
    <3>0. \A w \in Wallets :
            \/ table'[w].state = table[w].state
            \/ /\ CommitCreate(r) /\ w = NewId /\ table[w].state = "unborn" /\ table'[w].state = "live"
            \/ /\ DeleteWallet(r) /\ w = req[r].wallet /\ table'[w].state = "gone"
      BY Lives
    <3>1. \A w \in Wallets :
            \/ table'[w].state = table[w].state
            \/ DeleteWallet(r) /\ w = req[r].wallet /\ table'[w].state = "gone"
      BY <1>7, <3>0
    <3>2. DeleteWallet(r) => table[req[r].wallet].state # "unborn"
      BY DeleteFacts DEF RemoveOk
    <3>3. QED
      BY <3>1, <3>2 DEF Unborn
  <2>2. CASE req'[r].op = "create" => req[r].op = "create"
    <3>1. C2 \subseteq C
      BY <1>5, <2>2 DEF Creates
    <3>2. Cardinality(C2) <= Cardinality(C)
      BY <1>3, <3>1, FS_Subset
    <3>3. QED
      BY <1>3, <1>4, <2>1, <3>2 DEF Room
  <2>3. CASE req'[r].op = "create" /\ req[r].op # "create"
    <3>1. Enters(r)
      <4>1. Step(r) => req'[r].op = req[r].op
        BY SameColumn
      <4>2. Rollback(r) \/ Commit(r) \/ DeleteWallet(r) => req'[r].op = "idle"
        BY RollbackFacts, CommitFacts, DeleteFacts DEF TypeOK, Idle
      <4>3. QED
        BY <1>7, <2>3, <4>1, <4>2, TurnCases
    <3>2. Cardinality(C) < Cardinality(U)
      BY <2>3, <3>1, HowEnters, Zenon DEF EntersAs
    <3>3. C2 = C \cup {r} /\ r \notin C
      BY <1>5, <2>3 DEF Creates
    <3>4. Cardinality(C2) = Cardinality(C) + 1
      BY <1>3, <3>3, FS_AddElement
    <3>5. QED
      BY <1>3, <2>1, <3>2, <3>4 DEF Room
  <2>4. QED
    BY <2>2, <2>3
<1>8. QED
  BY <1>6, <1>7

\* No step brings a wallet back among the unborn.
LEMMA BornStays ==
  ASSUME TypeOK, Room, NEW r \in Reqs, Held(r), RemoveOk(r), Turn(r),
         NEW w \in Wallets, table[w].state # "unborn"
  PROVE  table'[w].state # "unborn"
  BY Lives

\* Types, locks, versions and identifiers are kept by every step.
LEMMA StoreStep == ASSUME Store, NEW r \in Reqs, Turn(r) PROVE Store'
<1> USE DEF Store
<1>1. TypeOK'
  BY TypeStep DEF Turn, Next
<1>2. Free' /\ Room'
  BY FreeStep, RoomStep
<1>3. ASSUME NEW q \in Reqs PROVE Held(q)' /\ TodoOf(req'[q]) /\ RemoveOk(q)'
  <2>1. CASE q = r
    <3>1. Held(r)' /\ TodoOf(req'[r])
      BY HeldStep, TodoStep
    <3>2. RemoveOk(r)'
      <4> SUFFICES ASSUME req'[r].op = "remove" PROVE table'[req'[r].wallet].state # "unborn"
        BY DEF RemoveOk
      <4>1. Enters(r)
        <5>1. Step(r) => req[r].pc = "block" /\ req'[r].op = req[r].op
          BY SameColumn, StepFacts
        <5>2. req[r].pc = "block" => req[r].op # "remove"
          BY RequestHas DEF RequestFields, TypeOK
        <5>3. Rollback(r) \/ Commit(r) \/ CommitCreate(r) \/ DeleteWallet(r) => req'[r].op = "idle"
          BY RollbackFacts, CommitFacts, CreateFacts, DeleteFacts DEF TypeOK, Idle
        <5>4. QED
          BY <5>1, <5>2, <5>3, TurnCases
      <4>2. EntersAs(r) /\ UNCHANGED table
        BY <4>1, HowEnters, EnteredType
      <4>3. req'[r].wallet \in Live
        BY <4>2, Zenon DEF EntersAs
      <4>4. QED
        BY <4>2, <4>3 DEF Live
    <3>3. QED
      BY <2>1, <3>1, <3>2
  <2>2. CASE q # r
    <3>1. /\ req'[q] = req[q]
          /\ \A w \in Wallets : lock'[w] = q <=> lock[w] = q
          /\ \A w \in Wallets : lock[w] = q => draft'[w] = draft[w] /\ table'[w] = table[w]
      BY <2>2, OthersKept
    <3>2. Held(q)'
      BY <3>1 DEF Held
    <3>3. TodoOf(req'[q])
      BY <3>1
    <3>4. RemoveOk(q)'
      <4> SUFFICES ASSUME req[q].op = "remove" PROVE table'[req[q].wallet].state # "unborn"
        BY <3>1 DEF RemoveOk
      <4>1. req[q].wallet \in Wallets
        BY RequestHas DEF RequestFields, TypeOK
      <4>2. QED
        BY <4>1, BornStays DEF RemoveOk
    <3>5. QED
      BY <3>2, <3>3, <3>4
  <2>3. QED
    BY <2>1, <2>2
<1>4. QED
  BY <1>1, <1>2, <1>3

\* At the start no row is locked and no block under way.
LEMMA StoreInit == Init => Store
<1> SUFFICES ASSUME Init PROVE Store
  OBVIOUS
<1> USE DEF Init
<1>1. TypeOK
  <2>1. [state |-> "unborn", balance |-> 0, primary |-> FALSE, position |-> 0] \in Row
    BY DEF Row
  <2>2. Idle \in Request
    BY DEF Request
  <2>3. QED
    BY <2>1, <2>2 DEF TypeOK
<1>2. Free
  BY DEF Free
<1>3. Room
  <2>1. Creates = {}
    BY DEF Creates, Idle
  <2>2. Unborn \subseteq Wallets
    BY DEF Unborn
  <2>3. Cardinality(Unborn) \in Nat
    BY <2>2, FiniteAssumption, FS_Subset, FS_CardinalityType DEF FiniteAssumption
  <2>4. QED
    BY <2>1, <2>3, FS_EmptySet DEF Room
<1>4. ASSUME NEW r \in Reqs PROVE Held(r) /\ TodoOf(req[r]) /\ RemoveOk(r)
  BY FiniteAssumption DEF FiniteAssumption, Held, TodoOf, RemoveOk, Idle
<1>5. QED
  BY <1>1, <1>2, <1>3, <1>4 DEF Store

Promoting(q) == (q.op = "create" /\ q.primary) \/ (q.op = "update" /\ q.column = "primary")

-----------------------------------------------------------------------------
\* Of a block that makes a wallet primary and that no create overtook: every
\* other wallet is locked and cleared, or is going to be.
SweepOk(r) ==
    Promoting(req[r]) /\ <<r, "begin">> \notin missed =>
        \A v \in Live : \/ lock[v] = r /\ ~draft[v].primary
                        \/ req[r].pc = "block" /\ Change(v, "primary", FALSE) \in Pending(req[r])
                        \/ req[r].op = "update" /\ v = req[r].wallet

\* A block that promotes a wallet, when it begins, has every other live wallet
\* before it.
LEMMA SweepEnters ==
  ASSUME Store, NEW r \in Reqs, SweepOk(r), Enters(r)
  PROVE  SweepOk(r)'
<1> DEFINE p == req'[r]
<1>1. TypeOK /\ Held(r) /\ EntersAs(r) /\ UNCHANGED <<table, draft, lock, missed>> /\ Live' = Live
  BY HowEnters, EnteredType DEF Store, Live
<1>2. p \in Request /\ RequestFields(p)
  BY <1>1, EnteredType, RequestHas
<1> SUFFICES ASSUME Promoting(p), <<r, "begin">> \notin missed, NEW v \in Live
             PROVE  \/ lock[v] = r /\ ~draft[v].primary
                    \/ p.pc = "block" /\ Change(v, "primary", FALSE) \in Pending(p)
                    \/ p.op = "update" /\ v = p.wallet
  BY <1>1 DEF SweepOk
<1>3. (p.op = "create" /\ p.primary) \/ (p.op = "update" /\ p.column = "primary")
  BY DEF Promoting
<1>4. CASE p.op = "create" /\ p.pc = "block" /\ p.todo \in Sweep(Live)
  <2>1. Live \in SUBSET Wallets
    BY LiveFinite
  <2>2. \E i \in 1 .. Len(p.todo) : p.todo[i] = Change(v, "primary", FALSE)
    BY <1>4, <2>1, SweepType
  <2>3. QED
    BY <1>4, <2>2 DEF Pending
<1>5. CASE p.op = "update" /\ p.pc = "block"
           /\ \E sweep \in Sweep(Live \ {p.wallet}) : p.todo = Append(sweep, Change(p.wallet, "primary", TRUE))
  <2>1. PICK sweep \in Sweep(Live \ {p.wallet}) : p.todo = Append(sweep, Change(p.wallet, "primary", TRUE))
    BY <1>5
  <2>2. Live \ {p.wallet} \in SUBSET Wallets
    BY LiveFinite
  <2>3. /\ sweep \in Seq(Update)
        /\ \A w \in Live \ {p.wallet} : \E i \in 1 .. Len(sweep) : sweep[i] = Change(w, "primary", FALSE)
    BY <2>2, SweepType
  <2>4. p.wallet \in Wallets
    BY <1>2, <1>5 DEF RequestFields
  <2>5. Change(p.wallet, "primary", TRUE) \in Update
    BY <2>4 DEF Change, Update
  <2>6. Pending(p) = {sweep[i] : i \in 1 .. Len(sweep)} \cup {Change(p.wallet, "primary", TRUE)}
    BY <2>1, <2>3, <2>5, PendingAppend
  <2> HIDE DEF p
  <2>7. CASE v = p.wallet
    BY <1>5, <2>7
  <2>8. CASE v # p.wallet
    <3>1. \E i \in 1 .. Len(sweep) : sweep[i] = Change(v, "primary", FALSE)
      BY <2>3, <2>8
    <3>2. QED
      BY <1>5, <2>6, <3>1
  <2>9. QED
    BY <2>7, <2>8
<1>6. CASE ReadMax(r) /\ p.op = "create" /\ p.pc = "insert" /\ p.primary = req[r].primary
           /\ req[r].op = "create" /\ req[r].pc = "block" /\ req[r].todo = <<>>
  <2>1. Promoting(req[r])
    BY <1>3, <1>6 DEF Promoting
  <2>2. Pending(req[r]) = {}
    BY <1>6, PendingFew
  <2>3. QED
    BY <1>6, <2>1, <2>2 DEF SweepOk
<1> HIDE DEF p
<1>7. \/ p.op = "create" /\ p.pc = "block" /\ p.todo \in IF p.primary THEN Sweep(Live) ELSE {<<>>}
      \/ /\ p.op = "update" /\ p.pc = "block" /\ p.column = "balance"
      \/ /\ p.op = "update" /\ p.pc = "block"
         /\ \E sweep \in Sweep(Live \ {p.wallet}) : p.todo = Append(sweep, Change(p.wallet, "primary", TRUE))
      \/ /\ ReadMax(r) /\ p.op = "create" /\ p.pc = "insert" /\ p.primary = req[r].primary
         /\ req[r].op = "create" /\ req[r].pc = "block" /\ req[r].todo = <<>>
  <2>1. p.op \in {"create", "update"}
    BY <1>3
  <2>2. p.op # "transfer" /\ p.op # "reorder" /\ p.op \notin {"idle", "transfer", "remove"}
    BY <2>1
  <2>3. QED
    BY <1>1, <2>2, Zenon DEF EntersAs, p
<1>8. QED
  BY <1>3, <1>4, <1>5, <1>6, <1>7

\* Clearing one row keeps the sweep of the block complete.
LEMMA SweepOfStep ==
  ASSUME Store, NEW r \in Reqs, SweepOk(r), Step(r)
  PROVE  SweepOk(r)'
<1> DEFINE c == Head(req[r].todo)
           w == c.wallet
           q == req[r]
           p == req'[r]
<1>0. TypeOK /\ Free /\ Held(r) /\ TodoOf(q)
  BY DEF Store
<1>1. /\ c \in Update /\ w \in Wallets /\ lock[w] \in {NoOne, r}
      /\ q.todo \in Seq(Update) /\ q.todo # <<>> /\ q.pc = "block"
      /\ \/ /\ draft[w].state = "live"
            /\ lock' = [lock EXCEPT ![w] = r] /\ draft' = [draft EXCEPT ![w] = Changed(draft[w], c)]
         \/ draft[w].state # "live" /\ UNCHANGED <<lock, draft>>
      /\ UNCHANGED <<table, moved, missed>>
  BY <1>0, StepFacts, Zenon
<1>2. /\ p.pc = "block" /\ p.todo = Tail(q.todo) /\ p.op = q.op
      /\ q.op = "create" => p.primary = q.primary
      /\ q.op = "update" => p.wallet = q.wallet /\ p.column = q.column
  BY <1>0, SameColumn
<1>3. Pending(q) = {c} \cup Pending(p)
  BY <1>1, <1>2, PendingStep
<1> HIDE DEF c, w, q, p
<1> SUFFICES ASSUME Promoting(p), <<r, "begin">> \notin missed', NEW v \in Live'
             PROVE  \/ lock'[v] = r /\ ~draft'[v].primary
                    \/ p.pc = "block" /\ Change(v, "primary", FALSE) \in Pending(p)
                    \/ p.op = "update" /\ v = p.wallet
  BY DEF SweepOk, p
<1>4. Promoting(q) /\ v \in Live /\ v \in Wallets
  BY <1>1, <1>2 DEF Promoting, Live
<1>5. CASE p.op = "update" /\ v = p.wallet
  BY <1>5
<1>6. CASE Change(v, "primary", FALSE) \in Pending(p)
  BY <1>2, <1>6
<1>7. CASE lock[v] = r /\ ~draft[v].primary /\ ~(p.op = "update" /\ v = p.wallet)
  <2>1. CASE lock'[v] = lock[v] /\ draft'[v] = draft[v]
    BY <1>7, <2>1
  <2>2. CASE ~(lock'[v] = lock[v] /\ draft'[v] = draft[v])
    <3>1. v = w /\ lock'[v] = r /\ draft'[v] = Changed(draft[v], c)
      BY <1>0, <1>1, <1>4, <2>2 DEF TypeOK
    <3>2. c.column = "primary" => c.value = FALSE
      <4>1. c.column = "primary" => c.value = (q.op = "update" /\ c.wallet = q.wallet)
        BY <1>0, <1>1, <1>3 DEF TodoOf
      <4>2. ~(q.op = "update" /\ c.wallet = q.wallet)
        BY <1>2, <1>7, <3>1 DEF w
      <4>3. QED
        BY <4>1, <4>2
    <3>3. draft[v] \in Row
      BY <1>0, <1>4 DEF TypeOK
    <3>4. ~Changed(draft[v], c).primary
      BY <1>1, <1>7, <3>2, <3>3, ChangedRow
    <3>5. QED
      BY <3>1, <3>4
  <2>3. QED
    BY <2>1, <2>2
<1>8. CASE c = Change(v, "primary", FALSE)
  <2>1. c.wallet = v /\ c.column = "primary" /\ c.value = FALSE
    BY <1>8 DEF Change
  <2>2. w = v
    BY <2>1 DEF w
  <2>3. draft[v].state = "live" /\ draft[v] \in Row
    <3>1. table[v].state = "live"
      BY <1>4 DEF Live
    <3>2. QED
      BY <1>0, <1>1, <1>4, <2>2, <3>1 DEF Held, Free, TypeOK
  <2>4. lock'[v] = r /\ draft'[v] = Changed(draft[v], c)
    BY <1>0, <1>1, <1>4, <2>2, <2>3 DEF TypeOK
  <2>5. Changed(draft[v], c).primary = FALSE
    BY <1>1, <2>1, <2>3, ChangedRow
  <2>6. QED
    BY <2>4, <2>5
<1>9. QED
  <2>1. \/ lock[v] = r /\ ~draft[v].primary
        \/ q.pc = "block" /\ Change(v, "primary", FALSE) \in Pending(q)
        \/ q.op = "update" /\ v = q.wallet
    BY <1>1, <1>4 DEF SweepOk, q
  <2>2. q.op = "update" /\ v = q.wallet => p.op = "update" /\ v = p.wallet
    BY <1>2
  <2>3. QED
    BY <1>3, <1>5, <1>6, <1>7, <1>8, <2>1, <2>2

\* A sweep stays complete while others commit, unless a create is among them,
\* which marks the block as overtaken.
LEMMA SweepStep == ASSUME Store, NEW q \in Reqs, SweepOk(q), NEW r \in Reqs, Turn(r) PROVE SweepOk(q)'
<1>0. TypeOK /\ Free /\ Room /\ Held(r) /\ Held(q) /\ RemoveOk(r)
  BY DEF Store
<1>1. CASE q = r
  <2>1. ASSUME req'[r] = Idle PROVE SweepOk(r)'
    BY <2>1 DEF SweepOk, Promoting, Idle
  <2>2. Rollback(r) \/ Commit(r) \/ CommitCreate(r) \/ DeleteWallet(r) => req'[r] = Idle
    BY <1>0, RollbackFacts, CommitFacts, CreateFacts, DeleteFacts DEF TypeOK
  <2>3. QED
    BY <1>1, <2>1, <2>2, SweepEnters, SweepOfStep, TurnCases
<1>2. CASE q # r
  <2>1. /\ req'[q] = req[q]
        /\ \A w \in Wallets : lock'[w] = q <=> lock[w] = q
        /\ \A w \in Wallets : lock[w] = q => draft'[w] = draft[w]
        /\ <<q, "begin">> \in missed => <<q, "begin">> \in missed'
    BY <1>0, <1>2, OthersKept
  <2> SUFFICES ASSUME Promoting(req[q]), <<q, "begin">> \notin missed', NEW v \in Live'
               PROVE  \/ lock'[v] = q /\ ~draft'[v].primary
                      \/ req[q].pc = "block" /\ Change(v, "primary", FALSE) \in Pending(req[q])
                      \/ req[q].op = "update" /\ v = req[q].wallet
    BY <2>1 DEF SweepOk
  <2>2. v \in Wallets /\ table'[v].state = "live"
    BY DEF Live
  <2>3. ~CommitCreate(r)
    <3>1. SUFFICES ASSUME CommitCreate(r) PROVE FALSE
      OBVIOUS
    <3>2. missed' = Overtake(r, "begin") \cup Overtake(r, "max")
      BY <3>1 DEF CommitCreate
    <3>3. req[q].op \in {"create", "update"}
      BY DEF Promoting
    <3>4. <<q, "begin">> \in Overtake(r, "begin")
      BY <1>2, <3>3 DEF Overtake
    <3>5. QED
      BY <3>2, <3>4
  <2>4. v \in Live
    <3>1. \/ table'[v].state = table[v].state
          \/ /\ CommitCreate(r) /\ v = NewId /\ table[v].state = "unborn" /\ table'[v].state = "live"
          \/ /\ DeleteWallet(r) /\ v = req[r].wallet /\ table'[v].state = "gone"
      BY <1>0, <2>2, Lives
    <3>2. QED
      BY <2>2, <2>3, <3>1 DEF Live
  <2>5. QED
    BY <2>1, <2>2, <2>4 DEF SweepOk
<1>3. QED
  BY <1>1, <1>2

\* The COMMIT of a block that no create overtook leaves its wallet the only
\* primary one (wallets.service.ts, create and update).
LEMMA TakesPrimary ==
  ASSUME Store, \A q \in Reqs : SweepOk(q), NEW r \in Reqs, NEW w \in Wallets,
         Promotes(r, w), <<r, "begin">> \notin missed, NEW v \in Live', table'[v].primary
  PROVE  v = w
<1>0. TypeOK /\ Free /\ Room /\ Held(r) /\ SweepOk(r)
  BY DEF Store
<1>1. v \in Wallets /\ table'[v].state = "live"
  BY DEF Live
<1>2. CASE CommitCreate(r) /\ req[r].primary /\ w = NewId
  <2> SUFFICES ASSUME v # NewId PROVE FALSE
    BY <1>2
  <2>1. table'[v] = IF lock[v] = r THEN draft[v] ELSE table[v]
    BY <1>0, <1>1, <1>2, CreateFacts
  <2>2. v \in Live
    BY <1>0, <1>1, <2>1 DEF Held, Live
  <2>3. req[r].op = "create" /\ req[r].pc = "insert"
    BY <1>0, <1>2, CreateFacts
  <2>4. lock[v] = r /\ ~draft[v].primary
    BY <1>0, <1>2, <2>2, <2>3 DEF SweepOk, Promoting
  <2>5. QED
    BY <2>1, <2>4
<1>3. CASE Commit(r) /\ req[r].op = "update" /\ req[r].wallet = w /\ req[r].column = "primary"
  <2> SUFFICES ASSUME v # w PROVE FALSE
    OBVIOUS
  <2>1. table'[v] = IF lock[v] = r THEN draft[v] ELSE table[v]
    BY <1>0, <1>1, <1>3, CommitFacts
  <2>2. v \in Live
    BY <1>0, <1>1, <2>1 DEF Held, Live
  <2>3. Pending(req[r]) = {}
    BY <1>0, <1>3, CommitFacts, PendingFew
  <2>4. lock[v] = r /\ ~draft[v].primary
    BY <1>0, <1>3, <2>2, <2>3 DEF SweepOk, Promoting
  <2>5. QED
    BY <2>1, <2>4
<1>4. QED
  BY <1>2, <1>3 DEF Promotes

-----------------------------------------------------------------------------
\* How many wallets of its list a reorder has placed.
Placed(q) == Cardinality(q.ids) - Len(q.todo)

\* A reorder gives its wallets the positions from 0 on, one each, and none of
\* those that are still there is left out.
OrderOk(r) ==
    req[r].op = "reorder" =>
        /\ Placed(req[r]) \in Nat
        /\ \A i \in 1 .. Len(req[r].todo) : req[r].todo[i].value = Placed(req[r]) + i - 1
        /\ \A w \in Wallets : lock[w] = r => draft[w].position < Placed(req[r])
        /\ \A v, w \in Wallets : lock[v] = r /\ lock[w] = r /\ draft[v].position = draft[w].position => v = w
        /\ \A w \in req[r].ids : /\ table[w].state # "unborn"
                                 /\ w \in Live => \/ lock[w] = r
                                                  \/ \E c \in Pending(req[r]) : c.wallet = w

\* The list of a reorder is finite.
LEMMA IdsFinite ==
  ASSUME NEW q \in Request, q.op = "reorder"
  PROVE  q.ids \subseteq Wallets /\ IsFiniteSet(q.ids) /\ Cardinality(q.ids) \in Nat /\ Len(q.todo) \in Nat
<1>1. q.ids \subseteq Wallets /\ q.todo \in Seq(Update)
  BY RequestHas DEF RequestFields
<1>2. QED
  BY <1>1, FiniteAssumption, FS_Subset, FS_CardinalityType, LenProperties DEF FiniteAssumption

\* A reorder begins with its list in order, from position 0.
LEMMA OrderEnters ==
  ASSUME Store, NEW r \in Reqs, Enters(r)
  PROVE  OrderOk(r)'
<1> DEFINE p == req'[r]
<1>1. TypeOK /\ Held(r) /\ EntersAs(r) /\ UNCHANGED <<table, draft, lock, missed>> /\ Live' = Live
  BY HowEnters, EnteredType DEF Store, Live
<1> HIDE DEF p
<1> SUFFICES ASSUME p.op = "reorder"
             PROVE  /\ Placed(p) \in Nat
                    /\ \A i \in 1 .. Len(p.todo) : p.todo[i].value = Placed(p) + i - 1
                    /\ \A w \in Wallets : lock[w] # r
                    /\ \A w \in p.ids : /\ table[w].state # "unborn"
                                        /\ \E c \in Pending(p) : c.wallet = w
  BY <1>1 DEF OrderOk, p
<1>2. PICK ids \in UNION {Orders(S) : S \in (SUBSET Live) \ {{}}} :
         p.ids = Range(ids) /\ p.todo = [i \in DOMAIN ids |-> Change(ids[i], "position", i - 1)]
  BY <1>1, Zenon DEF EntersAs, p
<1> DEFINE n == Cardinality(Range(ids))
<1>3. /\ Range(ids) \subseteq Live /\ DOMAIN ids = 1 .. n /\ n \in Nat /\ Len(p.todo) = n
      /\ \A w \in Range(ids) : \E i \in DOMAIN ids : ids[i] = w
  BY <1>2, ReorderType
<1>4. \A i \in 1 .. n : p.todo[i].value = i - 1 /\ p.todo[i].wallet = ids[i]
  <2>1. \A i \in 1 .. n : p.todo[i] = Change(ids[i], "position", i - 1)
    BY <1>2, <1>3
  <2>2. \A w, x : Change(w, "position", x).value = x /\ Change(w, "position", x).wallet = w
    BY DEF Change
  <2>3. QED
    BY <2>1, <2>2
<1>5. Placed(p) = 0
  <2>1. Cardinality(p.ids) = n
    BY <1>2
  <2> HIDE DEF n
  <2>2. QED
    BY <1>3, <2>1 DEF Placed
<1>6. \A w \in Wallets : lock[w] # r
  <2>1. ~ReadMax(r)
    BY <1>1 DEF ReadMax, TypeOK, p
  <2>2. QED
    BY <1>1, <2>1, EntersBare
<1>7. ASSUME NEW w \in p.ids PROVE table[w].state # "unborn" /\ \E c \in Pending(p) : c.wallet = w
  <2>1. PICK i \in 1 .. n : ids[i] = w
    BY <1>2, <1>3
  <2>2. p.todo[i] \in Pending(p) /\ p.todo[i].wallet = w
    BY <1>3, <1>4, <2>1 DEF Pending
  <2>3. table[w].state = "live"
    BY <1>2, <1>3 DEF Live
  <2>4. QED
    BY <2>2, <2>3
<1> HIDE DEF n
<1>8. QED
  BY <1>3, <1>4, <1>5, <1>6, <1>7

\* One UPDATE of a reorder gives the next wallet of the list the next position.
LEMMA OrderOfStep ==
  ASSUME Store, NEW r \in Reqs, OrderOk(r), Step(r)
  PROVE  OrderOk(r)'
<1> DEFINE c == Head(req[r].todo)
           w == c.wallet
           q == req[r]
           p == req'[r]
           k == Placed(q)
<1>0. TypeOK /\ Free /\ Held(r) /\ TodoOf(q) /\ q \in Request
  BY DEF Store, TypeOK
<1>1. /\ c \in Update /\ w \in Wallets /\ lock[w] \in {NoOne, r}
      /\ q.todo \in Seq(Update) /\ q.todo # <<>> /\ q.pc = "block"
      /\ \/ /\ draft[w].state = "live"
            /\ lock' = [lock EXCEPT ![w] = r] /\ draft' = [draft EXCEPT ![w] = Changed(draft[w], c)]
         \/ draft[w].state # "live" /\ UNCHANGED <<lock, draft>>
      /\ UNCHANGED <<table, moved, missed>>
  BY <1>0, StepFacts, Zenon
<1>2. p.pc = "block" /\ p.todo = Tail(q.todo) /\ p.op = q.op /\ (q.op = "reorder" => p.ids = q.ids)
      /\ Column(q) = Column(p)
  BY <1>0, SameColumn
<1>3. c \in Pending(q) /\ Pending(q) = {c} \cup Pending(p)
  BY <1>1, <1>2, PendingStep
<1>4. /\ Len(q.todo) \in Nat \ {0} /\ c = q.todo[1] /\ Len(p.todo) = Len(q.todo) - 1
      /\ \A i \in 1 .. Len(p.todo) : p.todo[i] = q.todo[i + 1]
  BY <1>1, <1>2, EmptySeq, HeadTailProperties, LenProperties
<1> SUFFICES ASSUME p.op = "reorder" PROVE OrderOk(r)'
  BY DEF OrderOk
<1>5. c.column = "position"
  BY <1>0, <1>1, <1>2, <1>3 DEF TodoOf, Column
<1>6. Cardinality(q.ids) \in Nat /\ q.ids \subseteq Wallets
  BY <1>0, <1>2, IdsFinite
<1>7. /\ k \in Nat /\ \A i \in 1 .. Len(q.todo) : q.todo[i].value = k + i - 1
      /\ \A v \in Wallets : lock[v] = r => draft[v].position < k
      /\ \A u, v \in Wallets : lock[u] = r /\ lock[v] = r /\ draft[u].position = draft[v].position => u = v
      /\ \A v \in q.ids : /\ table[v].state # "unborn"
                          /\ v \in Live => lock[v] = r \/ \E d \in Pending(q) : d.wallet = v
  BY <1>2 DEF OrderOk
<1>8. Placed(p) = k + 1
  BY <1>2, <1>4, <1>6 DEF Placed
<1>9. c.value = k
  BY <1>4, <1>7
<1>10. \A v \in Wallets : draft[v] \in Row
  BY <1>0 DEF TypeOK
<1>11. c.column = "position" => Changed(draft[w], c).position = c.value
  BY <1>1, <1>10, ChangedRow
<1> HIDE DEF c, w, q, p, k
<1>12. \A v \in Wallets : \/ lock'[v] = lock[v] /\ draft'[v] = draft[v]
                          \/ v = w /\ lock'[v] = r /\ draft'[v].position = k
  BY <1>0, <1>1, <1>5, <1>9, <1>11 DEF TypeOK
<1>13. \A v \in Wallets : lock'[v] = r => draft'[v].position < k + 1
  BY <1>7, <1>10, <1>12 DEF Row
<1>14. \A u, v \in Wallets : lock'[u] = r /\ lock'[v] = r /\ draft'[u].position = draft'[v].position => u = v
  <2> SUFFICES ASSUME NEW u \in Wallets, NEW v \in Wallets, lock'[u] = r, lock'[v] = r,
                      draft'[u].position = draft'[v].position, u # v
               PROVE  FALSE
    OBVIOUS
  <2>1. CASE u = w /\ draft'[u].position = k /\ lock'[v] = lock[v] /\ draft'[v] = draft[v]
    BY <1>7, <1>10, <2>1 DEF Row
  <2>2. CASE v = w /\ draft'[v].position = k /\ lock'[u] = lock[u] /\ draft'[u] = draft[u]
    BY <1>7, <1>10, <2>2 DEF Row
  <2>3. CASE lock'[u] = lock[u] /\ draft'[u] = draft[u] /\ lock'[v] = lock[v] /\ draft'[v] = draft[v]
    BY <1>7, <2>3
  <2>4. QED
    BY <1>12, <2>1, <2>2, <2>3
<1>15. ASSUME NEW v \in q.ids, v \in Live PROVE lock'[v] = r \/ \E d \in Pending(p) : d.wallet = v
  <2>1. v \in Wallets /\ table[v].state = "live"
    BY <1>15 DEF Live
  <2>2. CASE lock[v] = r
    BY <1>12, <2>1, <2>2
  <2>3. CASE \E d \in Pending(q) : d.wallet = v /\ d # c
    BY <1>3, <2>3
  <2>4. CASE c.wallet = v
    <3>1. v = w /\ draft[w].state = "live"
      BY <1>0, <1>1, <2>1, <2>4 DEF Held, Free, w
    <3>2. QED
      BY <1>0, <1>1, <3>1 DEF TypeOK
  <2>5. QED
    BY <1>7, <1>15, <2>2, <2>3, <2>4
<1>16. Live' = Live
  BY <1>1 DEF Live
<1>17. \A i \in 1 .. Len(p.todo) : p.todo[i].value = k + 1 + i - 1
  <2> SUFFICES ASSUME NEW i \in 1 .. Len(p.todo) PROVE p.todo[i].value = k + 1 + i - 1
    OBVIOUS
  <2>1. i + 1 \in 1 .. Len(q.todo) /\ p.todo[i] = q.todo[i + 1]
    BY <1>4
  <2>2. q.todo[i + 1].value = k + (i + 1) - 1
    BY <1>7, <2>1
  <2>3. QED
    BY <1>7, <2>1, <2>2
<1>18. k + 1 \in Nat
  BY <1>7
<1>19. \A v \in p.ids : /\ table'[v].state # "unborn"
                        /\ v \in Live' => lock'[v] = r \/ \E d \in Pending(p) : d.wallet = v
  BY <1>1, <1>2, <1>7, <1>15, <1>16
<1>20. QED
  BY <1>8, <1>13, <1>14, <1>17, <1>18, <1>19, Zenon DEF OrderOk, p

\* A reorder stays in order while other blocks run.
LEMMA OrderStep == ASSUME Store, NEW q \in Reqs, OrderOk(q), NEW r \in Reqs, Turn(r) PROVE OrderOk(q)'
<1>0. TypeOK /\ Free /\ Room /\ Held(r) /\ Held(q) /\ RemoveOk(r)
  BY DEF Store
<1>1. CASE q = r
  <2>1. ASSUME req'[r] = Idle PROVE OrderOk(r)'
    BY <2>1 DEF OrderOk, Idle
  <2>2. Rollback(r) \/ Commit(r) \/ CommitCreate(r) \/ DeleteWallet(r) => req'[r] = Idle
    BY <1>0, RollbackFacts, CommitFacts, CreateFacts, DeleteFacts DEF TypeOK
  <2>3. QED
    BY <1>1, <2>1, <2>2, OrderEnters, OrderOfStep, TurnCases
<1>2. CASE q # r
  <2>1. /\ req'[q] = req[q]
        /\ \A w \in Wallets : lock'[w] = q <=> lock[w] = q
        /\ \A w \in Wallets : lock[w] = q => draft'[w] = draft[w]
    BY <1>0, <1>2, OthersKept
  <2>2. ASSUME req[q].op = "reorder", NEW w \in req[q].ids, table[w].state # "unborn"
        PROVE  table'[w].state # "unborn" /\ (w \in Live' => w \in Live)
    <3>1. w \in Wallets
      <4>1. req[q] \in Request
        BY <1>0 DEF TypeOK
      <4>2. req[q].ids \subseteq Wallets
        BY <2>2, <4>1, IdsFinite
      <4>3. QED
        BY <2>2, <4>2
    <3>2. \/ table'[w].state = table[w].state
          \/ /\ CommitCreate(r) /\ w = NewId /\ table[w].state = "unborn" /\ table'[w].state = "live"
          \/ /\ DeleteWallet(r) /\ w = req[r].wallet /\ table'[w].state = "gone"
      BY <1>0, <3>1, Lives
    <3>3. QED
      BY <2>2, <3>1, <3>2 DEF Live
  <2> SUFFICES ASSUME req[q].op = "reorder" PROVE OrderOk(q)'
    BY <2>1 DEF OrderOk
  <2>3. /\ Placed(req[q]) \in Nat
        /\ \A i \in 1 .. Len(req[q].todo) : req[q].todo[i].value = Placed(req[q]) + i - 1
        /\ \A w \in Wallets : lock'[w] = q => draft'[w].position < Placed(req[q])
        /\ \A v, w \in Wallets : lock'[v] = q /\ lock'[w] = q /\ draft'[v].position = draft'[w].position => v = w
    BY <2>1 DEF OrderOk
  <2>4. \A w \in req[q].ids : /\ table'[w].state # "unborn"
                              /\ w \in Live' => lock'[w] = q \/ \E c \in Pending(req[q]) : c.wallet = w
    <3> SUFFICES ASSUME NEW w \in req[q].ids
                 PROVE  /\ table'[w].state # "unborn"
                        /\ w \in Live' => lock'[w] = q \/ \E c \in Pending(req[q]) : c.wallet = w
      OBVIOUS
    <3>1. /\ table[w].state # "unborn"
          /\ w \in Live => lock[w] = q \/ \E c \in Pending(req[q]) : c.wallet = w
      BY DEF OrderOk
    <3>2. w \in Live => w \in Wallets
      BY DEF Live
    <3>3. QED
      BY <2>1, <2>2, <3>1, <3>2
  <2>5. QED
    BY <2>1, <2>3, <2>4 DEF OrderOk
<1>3. QED
  BY <1>1, <1>2

-----------------------------------------------------------------------------
\* Of a create that was not overtaken since it read the highest position: the
\* position it read is beyond those in use.
MaxOk(r) ==
    req[r].pc = "insert" /\ <<r, "max">> \notin missed => \A w \in Live : table[w].position < req[r].position

\* Wallets at distinct positions below p are at most p.
LEMMA BelowAreFew ==
  ASSUME TypeOK, Distinct, NEW p \in Nat, \A w \in Live : table[w].position < p
  PROVE  Cardinality(Live) <= p
<1> DEFINE n == Cardinality(Live)
           Below == 0 .. (p - 1)
<1>1. IsFiniteSet(Live) /\ n \in Nat
  BY LiveFinite
<1>2. IsFiniteSet(Below) /\ Cardinality(Below) = p
  BY FS_Interval
<1> DEFINE f == [w \in Live |-> table[w].position]
<1>3. f \in [Live -> Below]
  BY DEF TypeOK, Row, Live
<1>4. \A v, w \in Live : f[v] = f[w] => v = w
  BY DEF Distinct
<1> HIDE DEF f, Below
<1>5. f \in Injection(Live, Below)
  BY <1>3, <1>4 DEF Injection, IsInjective
<1>6. QED
  BY <1>1, <1>2, <1>5, FS_Injection

\* The positions a reorder hands out are fewer than its wallets.
LEMMA Reordered ==
  ASSUME Store, NEW r \in Reqs, OrderOk(r), Commit(r)
  PROVE  \A w \in Wallets : table'[w].position = table[w].position
                            \/ (req[r].op = "reorder" /\ table'[w].position < Cardinality(req[r].ids))
<1> SUFFICES ASSUME NEW w \in Wallets, table'[w].position # table[w].position
             PROVE  req[r].op = "reorder" /\ table'[w].position < Cardinality(req[r].ids)
  OBVIOUS
<1>0. TypeOK /\ Held(r) /\ req[r] \in Request
  BY DEF Store, TypeOK
<1>1. lock[w] = r /\ table'[w] = draft[w]
  BY <1>0, CommitFacts
<1>2. Column(req[r]) = "position"
  BY <1>1 DEF Held, Store
<1>3. RequestFields(req[r])
  BY <1>0, RequestHas
<1>4. req[r].op = "reorder"
  BY <1>0, <1>2, <1>3, CommitFacts DEF Column, RequestFields
<1>5. draft[w].position < Placed(req[r])
  BY <1>1, <1>4 DEF OrderOk
<1>6. Placed(req[r]) = Cardinality(req[r].ids)
  <2>1. req[r].todo = <<>> /\ Cardinality(req[r].ids) \in Nat
    BY <1>0, <1>4, CommitFacts, IdsFinite
  <2>2. QED
    BY <2>1 DEF Placed
<1>7. QED
  BY <1>1, <1>4, <1>5, <1>6

\* The position a create has read stays beyond the others, unless what commits
\* meanwhile marks the create as overtaken.
LEMMA MaxStep == ASSUME Store, NEW q \in Reqs, MaxOk(q), NEW r \in Reqs, OrderOk(r), Turn(r) PROVE MaxOk(q)'
<1>0. TypeOK /\ Free /\ Room /\ Held(r) /\ Held(q) /\ RemoveOk(r)
  BY DEF Store
<1>1. CASE q = r
  <2> SUFFICES ASSUME req'[r].pc = "insert"
               PROVE  \A w \in Live' : table'[w].position < req'[r].position
    BY <1>1 DEF MaxOk
  <2>1. Enters(r)
    <3>1. Rollback(r) \/ Commit(r) \/ CommitCreate(r) \/ DeleteWallet(r) => req'[r] = Idle
      BY <1>0, RollbackFacts, CommitFacts, CreateFacts, DeleteFacts DEF TypeOK
    <3>2. Step(r) => req'[r].pc = "block"
      BY <1>0, SameColumn
    <3>3. Idle.pc = "idle"
      BY DEF Idle
    <3>4. QED
      BY <3>1, <3>2, <3>3, TurnCases
  <2>2. EntersAs(r) /\ UNCHANGED table /\ Live' = Live
    BY <1>0, <2>1, HowEnters, EnteredType DEF Live
  <2>3. req'[r].position = NewPosition
    BY <2>2, Zenon DEF EntersAs
  <2>4. QED
    BY <1>0, <2>2, <2>3, NewPositionBeyond
<1>2. CASE q # r
  <2>1. /\ req'[q] = req[q]
        /\ <<q, "max">> \in missed => <<q, "max">> \in missed'
    BY <1>0, <1>2, OthersKept
  <2> SUFFICES ASSUME req[q].pc = "insert", <<q, "max">> \notin missed', NEW w \in Live'
               PROVE  table'[w].position < req[q].position
    BY <2>1 DEF MaxOk
  <2>2. \A v \in Live : table[v].position < req[q].position
    BY <2>1 DEF MaxOk
  <2>3. w \in Wallets /\ table'[w].state = "live"
    BY DEF Live
  <2>4. missed' # Overtake(r, "max") /\ ~CommitCreate(r)
    <3>1. <<q, "max">> \in Overtake(r, "max")
      BY <1>2 DEF Overtake
    <3>2. CommitCreate(r) => missed' = Overtake(r, "begin") \cup Overtake(r, "max")
      BY DEF CommitCreate
    <3>3. QED
      BY <3>1, <3>2
  <2>5. w \in Live
    <3>1. \/ table'[w].state = table[w].state
          \/ /\ CommitCreate(r) /\ w = NewId /\ table[w].state = "unborn" /\ table'[w].state = "live"
          \/ /\ DeleteWallet(r) /\ w = req[r].wallet /\ table'[w].state = "gone"
      BY <1>0, <2>3, Lives
    <3>2. QED
      BY <2>3, <2>4, <3>1 DEF Live
  <2>6. CASE table'[w].position = table[w].position
    BY <2>2, <2>5, <2>6
  <2>7. CASE table'[w].position # table[w].position
    <3>1. Commit(r)
      <4>1. Enters(r) \/ Step(r) \/ Rollback(r) => table' = table
        BY <1>0, EnteredType, StepFacts, RollbackFacts
      <4>2. DeleteWallet(r) => w = req[r].wallet \/ table'[w] = table[w]
        BY <1>0, <2>3, DeleteFacts DEF TypeOK
      <4>3. DeleteWallet(r) => table'[req[r].wallet].state = "gone"
        BY <1>0, DeleteFacts, GoneRow DEF TypeOK
      <4>4. QED
        BY <2>3, <2>4, <2>7, <4>1, <4>2, <4>3, TurnCases
    <3>2. req[r].op = "reorder" /\ table'[w].position < Cardinality(req[r].ids)
      BY <2>3, <2>7, <3>1, Reordered
    <3>3. Distinct /\ req[r].ids \subseteq Live
      BY <2>4, <3>1, <3>2 DEF Commit
    <3>4. req[q].position \in Nat
      BY <1>0, RequestHas DEF RequestFields, TypeOK
    <3>5. Cardinality(Live) <= req[q].position
      BY <1>0, <2>2, <3>3, <3>4, BelowAreFew
    <3>6. /\ Cardinality(req[r].ids) <= Cardinality(Live)
          /\ Cardinality(req[r].ids) \in Nat /\ Cardinality(Live) \in Nat
      BY <3>3, LiveFinite, FS_Subset, FS_CardinalityType
    <3>7. table'[w].position \in Nat
      BY <2>3, TypeStep DEF Store, TypeOK, Row, Turn, Next
    <3>8. QED
      BY <3>2, <3>4, <3>5, <3>6, <3>7
  <2>8. QED
    BY <2>6, <2>7
<1>3. QED
  BY <1>1, <1>2

\* Positions stay distinct, except for a create that was overtaken and a reorder
\* of a list that no longer has every wallet.
LEMMA StaysDistinct ==
  ASSUME Store, \A q \in Reqs : OrderOk(q) /\ MaxOk(q), NEW r \in Reqs, Turn(r), Distinct
  PROVE  \/ Distinct'
         \/ CommitCreate(r) /\ <<r, "max">> \in missed
         \/ Commit(r) /\ req[r].op = "reorder" /\ req[r].ids # Live
<1>0. TypeOK /\ Free /\ Room /\ Held(r) /\ RemoveOk(r)
  BY DEF Store
<1>1. ASSUME \A w \in Live' : w \in Live /\ table'[w].position = table[w].position PROVE Distinct'
  BY <1>1 DEF Distinct
<1>2. CASE Enters(r) \/ Step(r) \/ Rollback(r)
  <2>1. table' = table
    BY <1>0, <1>2, EnteredType, StepFacts, RollbackFacts
  <2>2. QED
    BY <1>1, <2>1 DEF Live
<1>3. CASE DeleteWallet(r)
  <2>1. \A w \in Wallets : w # req[r].wallet => table'[w] = table[w]
    BY <1>0, <1>3, DeleteFacts DEF TypeOK
  <2>2. table'[req[r].wallet].state = "gone"
    BY <1>0, <1>3, DeleteFacts, GoneRow DEF TypeOK
  <2>3. QED
    BY <1>1, <2>1, <2>2 DEF Live
<1>4. CASE CommitCreate(r) /\ <<r, "max">> \notin missed
  <2>1. req[r].op = "create" /\ req[r].pc = "insert" /\ req[r].position \in Nat
    BY <1>0, <1>4, CreateFacts
  <2>2. NewId \in Wallets /\ table[NewId].state = "unborn"
    BY <1>0, <2>1, NewIdUnborn
  <2>3. \A w \in Live : table[w].position < req[r].position /\ table[w].position \in Nat
    BY <1>0, <1>4, <2>1 DEF MaxOk, TypeOK, Row, Live
  <2>4. Column(req[r]) = "primary"
    BY <2>1 DEF Column
  <2>5. \A w \in Live' : w = NewId \/ (w \in Live /\ table'[w].position = table[w].position)
    BY <1>0, <1>4, <2>2, <2>4, CreateFacts DEF Live, Held
  <2>6. table'[NewId].position = req[r].position
    <3>1. NewRow(req[r]).position = req[r].position
      BY DEF NewRow
    <3>2. table'[NewId] = NewRow(req[r])
      BY <1>0, <1>4, <2>2, CreateFacts
    <3>3. QED
      BY <3>1, <3>2
  <2> SUFFICES ASSUME NEW v \in Live', NEW w \in Live', table'[v].position = table'[w].position PROVE v = w
    BY DEF Distinct
  <2>7. CASE v \in Live /\ w \in Live /\ table'[v].position = table[v].position /\ table'[w].position = table[w].position
    BY <2>7 DEF Distinct
  <2>8. CASE v = NewId /\ w \in Live /\ table'[w].position = table[w].position
    BY <2>1, <2>3, <2>6, <2>8
  <2>9. CASE w = NewId /\ v \in Live /\ table'[v].position = table[v].position
    BY <2>1, <2>3, <2>6, <2>9
  <2>10. QED
    BY <2>5, <2>7, <2>8, <2>9
<1>5. CASE Commit(r) /\ req[r].op # "reorder"
  <2>1. \A w \in Wallets : table'[w].position = table[w].position
    BY <1>5, Reordered
  <2>2. \A w \in Wallets : table'[w].state = table[w].state
    BY <1>0, <1>5, CommitFacts DEF Held
  <2>3. QED
    BY <1>1, <2>1, <2>2 DEF Live
<1>6. CASE Commit(r) /\ req[r].op = "reorder" /\ req[r].ids = Live
  <2>1. Pending(req[r]) = {}
    BY <1>0, <1>6, CommitFacts, PendingFew
  <2>2. \A w \in Live : lock[w] = r
    BY <1>6, <2>1 DEF OrderOk
  <2>3. \A v, w \in Wallets : lock[v] = r /\ lock[w] = r /\ draft[v].position = draft[w].position => v = w
    BY <1>6 DEF OrderOk
  <2>4. \A w \in Live' : w \in Live /\ w \in Wallets /\ lock[w] = r /\ table'[w] = draft[w]
    BY <1>0, <1>6, <2>2, CommitFacts DEF Live, Held
  <2>5. QED
    BY <2>3, <2>4 DEF Distinct
<1>7. QED
  BY <1>2, <1>3, <1>4, <1>5, <1>6, TurnCases

-----------------------------------------------------------------------------
\* The rows a transfer has changed and has still to change.
TransferOk(r) ==
    LET f == req[r].from
        t == req[r].to
        a == req[r].amount
    IN  req[r].op = "transfer" =>
            /\ f # t
            /\ req[r].pc = "block" =>
                 /\ f \in Live /\ t \in Live
                 /\ \A w \in Wallets : lock[w] = r => w \in {f, t}
                 /\ \/ /\ req[r].todo = <<Change(f, "credit", -a), Change(t, "credit", a)>>
                       /\ lock[f] # r /\ lock[t] # r
                    \/ /\ req[r].todo = <<Change(t, "credit", a)>> /\ lock[f] = r /\ lock[t] # r
                       /\ draft[f].balance = table[f].balance - a
                    \/ /\ req[r].todo = <<>> /\ lock[f] = r /\ lock[t] = r
                       /\ draft[f].balance = table[f].balance - a /\ draft[t].balance = table[t].balance + a

\* The row an edit of a balance has changed, if it has.
EditOk(r) ==
    req[r].op = "update" /\ req[r].column = "balance" =>
        \/ /\ req[r].todo = <<Change(req[r].wallet, "balance", req[r].value)>>
           /\ \A w \in Wallets : lock[w] # r
        \/ /\ req[r].todo = <<>>
           /\ \A w \in Wallets : lock[w] = r => w = req[r].wallet /\ draft[w].balance = req[r].value

\* The effect of a step on the row of its head, for every row.
LEMMA StepRows ==
  ASSUME Store, NEW r \in Reqs, Step(r), NEW c, c = Head(req[r].todo)
  PROVE  /\ c \in Update /\ c.wallet \in Wallets /\ lock[c.wallet] \in {NoOne, r}
         /\ \A v \in Wallets \ {c.wallet} : lock'[v] = lock[v] /\ draft'[v] = draft[v]
         /\ draft[c.wallet].state = "live" => lock'[c.wallet] = r /\ draft'[c.wallet] = Changed(draft[c.wallet], c)
         /\ draft[c.wallet].state # "live" => lock'[c.wallet] = lock[c.wallet] /\ draft'[c.wallet] = draft[c.wallet]
         /\ UNCHANGED <<table, moved, missed>>
<1>0. TypeOK
  BY DEF Store
<1> DEFINE w == c.wallet
<1>1. /\ c \in Update /\ w \in Wallets /\ lock[w] \in {NoOne, r}
      /\ \/ /\ draft[w].state = "live"
            /\ lock' = [lock EXCEPT ![w] = r] /\ draft' = [draft EXCEPT ![w] = Changed(draft[w], c)]
         \/ draft[w].state # "live" /\ UNCHANGED <<lock, draft>>
      /\ UNCHANGED <<table, moved, missed>>
  BY <1>0, StepFacts, Zenon
<1> HIDE DEF w
<1>2. QED
  BY <1>0, <1>1 DEF TypeOK, w

\* A transfer begins with both of its wallets before it.
LEMMA TransferEnters ==
  ASSUME Store, NEW r \in Reqs, TransferOk(r), Enters(r)
  PROVE  TransferOk(r)'
<1> DEFINE q == req[r]
           p == req'[r]
<1>1. TypeOK /\ Held(r) /\ EntersAs(r) /\ UNCHANGED <<table, draft, lock, missed>> /\ Live' = Live
  BY HowEnters, EnteredType DEF Store, Live
<1>2. p \in Request /\ RequestFields(p) /\ RequestFields(q)
  BY <1>1, EnteredType, RequestHas DEF TypeOK
<1> HIDE DEF p, q
<1> SUFFICES ASSUME p.op = "transfer" PROVE TransferOk(r)'
  BY DEF TransferOk, p
<1>3. \/ p.pc \in {"idle", "checked"} /\ p.from # p.to
      \/ /\ p.pc = "block" /\ q.op = "transfer" /\ q.pc = "checked"
         /\ p.from = q.from /\ p.to = q.to
         /\ p.from \in Live /\ p.to \in Live
         /\ p.todo = <<Change(p.from, "credit", -p.amount), Change(p.to, "credit", p.amount)>>
  BY <1>1, Zenon DEF EntersAs, p, q
<1>4. CASE p.pc # "block"
  <2>1. p.from # p.to
    BY <1>3, <1>4
  <2>2. QED
    BY <1>4, <2>1 DEF TransferOk, p
<1>5. CASE p.pc = "block"
  <2>1. /\ q.op = "transfer" /\ q.pc = "checked" /\ p.from = q.from /\ p.to = q.to
        /\ p.from \in Live /\ p.to \in Live
        /\ p.todo = <<Change(p.from, "credit", -p.amount), Change(p.to, "credit", p.amount)>>
    BY <1>3, <1>5
  <2>2. p.from # p.to
    BY <2>1 DEF TransferOk, q
  <2>3. \A w \in Wallets : lock[w] # r
    BY <1>1, <2>1 DEF Held, q
  <2>4. p.from \in Wallets /\ p.to \in Wallets
    BY <2>1 DEF Live
  <2>5. QED
    BY <1>1, <2>1, <2>2, <2>3, <2>4 DEF TransferOk, p
<1>6. QED
  BY <1>4, <1>5

\* Debit, then credit, each on the newest version of its row.
LEMMA TransferOfStep ==
  ASSUME Store, NEW r \in Reqs, TransferOk(r), Step(r), req[r].op = "transfer"
  PROVE  TransferOk(r)'
<1> DEFINE q == req[r]
           p == req'[r]
           f == q.from
           t == q.to
           a == q.amount
           c == Head(q.todo)
<1>0. TypeOK /\ Free /\ Held(r)
  BY DEF Store
<1>1. p.pc = "block" /\ p.todo = Tail(q.todo) /\ p.op = "transfer" /\ p.from = f /\ p.to = t /\ p.amount = a
  BY <1>0, SameColumn
<1>2. q.pc = "block" /\ q.todo # <<>>
  BY <1>0, StepFacts
<1>3. /\ c.wallet \in Wallets /\ lock[c.wallet] \in {NoOne, r}
      /\ \A v \in Wallets \ {c.wallet} : lock'[v] = lock[v] /\ draft'[v] = draft[v]
      /\ draft[c.wallet].state = "live" => lock'[c.wallet] = r /\ draft'[c.wallet] = Changed(draft[c.wallet], c)
      /\ UNCHANGED table
  BY StepRows
<1>4. f \in Wallets /\ t \in Wallets /\ a \in Int
  <2>1. RequestFields(q)
    BY <1>0, RequestHas DEF TypeOK
  <2>2. f \in Wallets /\ t \in Wallets /\ a \in Amounts
    BY <2>1 DEF RequestFields
  <2>3. QED
    BY <2>2, MoneyTypes
<1>5. /\ f # t /\ f \in Live /\ t \in Live
      /\ \A w \in Wallets : lock[w] = r => w \in {f, t}
      /\ \/ q.todo = <<Change(f, "credit", -a), Change(t, "credit", a)>> /\ lock[f] # r /\ lock[t] # r
         \/ /\ q.todo = <<Change(t, "credit", a)>> /\ lock[f] = r /\ lock[t] # r
            /\ draft[f].balance = table[f].balance - a
  BY <1>2 DEF TransferOk
<1>6. Live' = Live
  BY <1>3 DEF Live
<1>7. ASSUME c.wallet \in Live
      PROVE  /\ lock'[c.wallet] = r /\ draft'[c.wallet] = Changed(draft[c.wallet], c)
             /\ draft[c.wallet] \in Row /\ (lock[c.wallet] # r => draft[c.wallet] = table[c.wallet])
  <2>1. draft[c.wallet].state = "live"
    BY <1>0, <1>3, <1>7 DEF Held, Free, Live
  <2>2. QED
    BY <1>0, <1>3, <2>1 DEF TypeOK, Free
<1>8. \A w, x : Change(w, "credit", x).wallet = w /\ Change(w, "credit", x).column = "credit" /\ Change(w, "credit", x).value = x
  BY DEF Change
<1>9. \A row \in Row : c.column = "credit" => Changed(row, c).balance = row.balance + c.value
  BY DEF Changed, Row
<1> HIDE DEF q, p, f, t, a
<1> SUFFICES
      /\ \A w \in Wallets : lock'[w] = r => w \in {f, t}
      /\ \/ /\ p.todo = <<Change(t, "credit", a)>> /\ lock'[f] = r /\ lock'[t] # r
            /\ draft'[f].balance = table[f].balance - a
         \/ /\ p.todo = <<>> /\ lock'[f] = r /\ lock'[t] = r
            /\ draft'[f].balance = table[f].balance - a /\ draft'[t].balance = table[t].balance + a
  BY <1>1, <1>3, <1>5, <1>6 DEF TransferOk, p
<1>10. CASE q.todo = <<Change(f, "credit", -a), Change(t, "credit", a)>> /\ lock[f] # r /\ lock[t] # r
  <2>1. c = Change(f, "credit", -a) /\ p.todo = <<Change(t, "credit", a)>>
    BY <1>1, <1>10
  <2> HIDE DEF c
  <2>2. c.wallet = f /\ c.column = "credit" /\ c.value = -a
    BY <1>8, <2>1
  <2>3. lock'[f] = r /\ draft'[f] = Changed(table[f], c) /\ table[f] \in Row
    BY <1>5, <1>7, <1>10, <2>2
  <2>4. draft'[f].balance = table[f].balance - a
    BY <1>4, <1>9, <2>2, <2>3 DEF Row
  <2>5. QED
    BY <1>3, <1>4, <1>5, <1>10, <2>1, <2>2, <2>3, <2>4
<1>11. CASE /\ q.todo = <<Change(t, "credit", a)>> /\ lock[f] = r /\ lock[t] # r
            /\ draft[f].balance = table[f].balance - a
  <2>1. c = Change(t, "credit", a) /\ p.todo = <<>>
    BY <1>1, <1>11
  <2> HIDE DEF c
  <2>2. c.wallet = t /\ c.column = "credit" /\ c.value = a
    BY <1>8, <2>1
  <2>3. lock'[t] = r /\ draft'[t] = Changed(table[t], c) /\ table[t] \in Row
    BY <1>5, <1>7, <1>11, <2>2
  <2>4. draft'[t].balance = table[t].balance + a
    BY <1>4, <1>9, <2>2, <2>3 DEF Row
  <2>5. QED
    BY <1>3, <1>4, <1>5, <1>11, <2>1, <2>2, <2>3, <2>4
<1>12. QED
  BY <1>5, <1>10, <1>11

\* What a transfer has done and has still to do is kept by the others.
LEMMA TransferStep ==
  ASSUME Store, NEW q \in Reqs, TransferOk(q), NEW r \in Reqs, Turn(r)
  PROVE  TransferOk(q)'
<1>0. TypeOK /\ Free /\ Room /\ Held(r) /\ Held(q) /\ RemoveOk(r)
  BY DEF Store
<1>1. CASE q = r
  <2>1. ASSUME req'[r].op # "transfer" PROVE TransferOk(r)'
    BY <2>1 DEF TransferOk
  <2>2. Rollback(r) \/ Commit(r) \/ CommitCreate(r) \/ DeleteWallet(r) => req'[r].op # "transfer"
    BY <1>0, RollbackFacts, CommitFacts, CreateFacts, DeleteFacts DEF TypeOK, Idle
  <2>3. Step(r) => req'[r].op = req[r].op
    BY <1>0, SameColumn
  <2>4. QED
    BY <1>1, <2>1, <2>2, <2>3, TransferEnters, TransferOfStep, TurnCases
<1>2. CASE q # r
  <2>1. /\ req'[q] = req[q]
        /\ \A w \in Wallets : lock'[w] = q <=> lock[w] = q
        /\ \A w \in Wallets : lock[w] = q => draft'[w] = draft[w] /\ table'[w] = table[w]
    BY <1>0, <1>2, OthersKept
  <2> DEFINE f == req[q].from
             t == req[q].to
  <2> SUFFICES ASSUME req[q].op = "transfer" PROVE TransferOk(q)'
    BY <2>1 DEF TransferOk
  <2>2. f \in Wallets /\ t \in Wallets
    BY <1>0, RequestHas DEF RequestFields, TypeOK
  <2>3. ASSUME req[q].pc = "block", NEW w \in {f, t}, w \in Live PROVE w \in Live'
    <3>1. \/ table'[w].state = table[w].state
          \/ /\ CommitCreate(r) /\ w = NewId /\ table[w].state = "unborn" /\ table'[w].state = "live"
          \/ /\ DeleteWallet(r) /\ w = req[r].wallet /\ table'[w].state = "gone"
      BY <1>0, <2>2, Lives
    <3>2. Shares(q, w)
      BY <2>3 DEF Shares
    <3>3. ~(DeleteWallet(r) /\ w = req[r].wallet)
      BY <1>0, <3>2, DeleteFacts
    <3>4. QED
      BY <2>2, <2>3, <3>1, <3>3 DEF Live
  <2>4. /\ f # t
        /\ req[q].pc = "block" =>
             /\ f \in Live' /\ t \in Live'
             /\ \A w \in Wallets : lock[w] = q => w \in {f, t}
             /\ \/ /\ req[q].todo = <<Change(f, "credit", -req[q].amount), Change(t, "credit", req[q].amount)>>
                   /\ lock[f] # q /\ lock[t] # q
                \/ /\ req[q].todo = <<Change(t, "credit", req[q].amount)>> /\ lock[f] = q /\ lock[t] # q
                   /\ draft[f].balance = table[f].balance - req[q].amount
                \/ /\ req[q].todo = <<>> /\ lock[f] = q /\ lock[t] = q
                   /\ draft[f].balance = table[f].balance - req[q].amount
                   /\ draft[t].balance = table[t].balance + req[q].amount
    BY <2>3 DEF TransferOk
  <2>5. QED
    BY <2>1, <2>2, <2>4 DEF TransferOk
<1>3. QED
  BY <1>1, <1>2

\* A block that sets a balance has it to do, or has done it.
LEMMA EditStep ==
  ASSUME Store, NEW q \in Reqs, EditOk(q), NEW r \in Reqs, Turn(r)
  PROVE  EditOk(q)'
<1>0. TypeOK /\ Free /\ Room /\ Held(r) /\ Held(q) /\ RemoveOk(r)
  BY DEF Store
<1>1. CASE q # r
  <2>1. /\ req'[q] = req[q]
        /\ \A w \in Wallets : lock'[w] = q <=> lock[w] = q
        /\ \A w \in Wallets : lock[w] = q => draft'[w] = draft[w]
    BY <1>0, <1>1, OthersKept
  <2>2. QED
    BY <2>1 DEF EditOk
<1>2. CASE q = r
  <2> DEFINE p == req'[r]
             o == req[r]
             c == Head(o.todo)
  <2>1. CASE Enters(r)
    <3>1. EntersAs(r) /\ UNCHANGED lock
      BY <1>0, <2>1, HowEnters, EnteredType
    <3>2. SUFFICES ASSUME p.op = "update", p.column = "balance"
                   PROVE  p.todo = <<Change(p.wallet, "balance", p.value)>> /\ \A w \in Wallets : lock[w] # r
      BY <1>2, <3>1 DEF EditOk
    <3>3. p.todo = <<Change(p.wallet, "balance", p.value)>>
      <4>1. p.op # "transfer" /\ p.op # "reorder" /\ p.op # "create" /\ p.op \notin {"idle", "transfer", "remove"}
            /\ p.column # "primary"
        BY <3>2
      <4> HIDE DEF p
      <4>2. QED
        BY <3>1, <4>1, Zenon DEF EntersAs, p
    <3>4. ~ReadMax(r)
      BY <1>0, <3>2 DEF ReadMax, TypeOK
    <3>5. QED
      BY <1>0, <2>1, <3>3, <3>4, EntersBare
  <2>2. CASE Step(r)
    <3> SUFFICES ASSUME p.op = "update", p.column = "balance"
                 PROVE  p.todo = <<>> /\ \A w \in Wallets : lock'[w] = r => w = p.wallet /\ draft'[w].balance = p.value
      BY <1>2 DEF EditOk
    <3>1. /\ p.todo = Tail(o.todo) /\ o.op = "update" /\ o.column = "balance"
          /\ p.wallet = o.wallet /\ p.value = o.value
      BY <1>0, <2>2, SameColumn
    <3>2. o.todo # <<>>
      BY <1>0, <2>2, StepFacts
    <3>3. o.todo = <<Change(o.wallet, "balance", o.value)>> /\ \A w \in Wallets : lock[w] # r
      BY <1>2, <3>1, <3>2 DEF EditOk
    <3>4. c = Change(o.wallet, "balance", o.value) /\ p.todo = <<>>
      BY <3>1, <3>3
    <3>5. /\ c \in Update /\ c.wallet \in Wallets
          /\ \A v \in Wallets \ {c.wallet} : lock'[v] = lock[v] /\ draft'[v] = draft[v]
          /\ draft[c.wallet].state = "live" => lock'[c.wallet] = r /\ draft'[c.wallet] = Changed(draft[c.wallet], c)
          /\ draft[c.wallet].state # "live" => lock'[c.wallet] = lock[c.wallet] /\ draft'[c.wallet] = draft[c.wallet]
      BY <2>2, StepRows
    <3> HIDE DEF c, p, o
    <3>6. c.wallet = o.wallet /\ c.column = "balance" /\ c.value = o.value
      BY <3>4 DEF Change
    <3>7. draft[c.wallet] \in Row
      BY <1>0, <3>5 DEF TypeOK
    <3>8. Changed(draft[c.wallet], c).balance = o.value
      BY <3>5, <3>6, <3>7, ChangedRow
    <3>9. QED
      BY <3>1, <3>3, <3>4, <3>5, <3>6, <3>8
  <2>3. CASE Rollback(r) \/ Commit(r) \/ CommitCreate(r) \/ DeleteWallet(r)
    <3>1. req'[r] = Idle
      BY <1>0, <2>3, RollbackFacts, CommitFacts, CreateFacts, DeleteFacts DEF TypeOK
    <3>2. QED
      BY <1>2, <3>1 DEF EditOk, Idle
  <2>4. QED
    BY <2>1, <2>2, <2>3, TurnCases
<1>3. QED
  BY <1>1, <1>2

-----------------------------------------------------------------------------
\* Balances are in the range of their column.
RangeOk == \A w \in Wallets : Fits(table[w]) /\ Fits(draft[w])

\* Money has moved between wallets that exist, or did.
MovedOk == \A v, w \in Wallets : moved[<<v, w>>] # 0 => table[v].state # "unborn" /\ table[w].state # "unborn"

\* What was and what is being sent from one wallet to another is bounded.
Sent(f, t) == SumFunction([q \in Reqs |-> Sending(q, f, t)])
Space == \A f, t \in Wallets : moved[<<f, t>>] + Sent(f, t) <= MaxMoved

\* An UPDATE out of the range of bigint fails its block: no balance overflows.
LEMMA RangeStep == ASSUME Store, RangeOk, NEW r \in Reqs, Turn(r) PROVE RangeOk'
<1>0. TypeOK
  BY DEF Store
<1> SUFFICES ASSUME NEW w \in Wallets PROVE Fits(table'[w]) /\ Fits(draft'[w])
  BY DEF RangeOk, Fits
<1>1. Fits(table[w]) /\ Fits(draft[w])
  BY DEF RangeOk
<1>2. CASE Enters(r)
  BY <1>0, <1>1, <1>2, EnteredType
<1>3. CASE Step(r)
  <2> DEFINE c == Head(req[r].todo)
  <2>1. /\ \A v \in Wallets \ {c.wallet} : lock'[v] = lock[v] /\ draft'[v] = draft[v]
        /\ draft[c.wallet].state = "live" => lock'[c.wallet] = r /\ draft'[c.wallet] = Changed(draft[c.wallet], c)
        /\ draft[c.wallet].state # "live" => lock'[c.wallet] = lock[c.wallet] /\ draft'[c.wallet] = draft[c.wallet]
        /\ UNCHANGED table
    BY <1>3, StepRows
  <2>2. draft[c.wallet].state = "live" => Fits(Changed(draft[c.wallet], c))
    BY <1>0, <1>3, StepFacts
  <2> HIDE DEF c
  <2>3. QED
    BY <1>1, <2>1, <2>2
<1>4. CASE Rollback(r)
  BY <1>0, <1>1, <1>4, RollbackFacts
<1>5. CASE Commit(r)
  BY <1>0, <1>1, <1>5, CommitFacts
<1>6. CASE CommitCreate(r)
  <2>1. req[r].balance \in 0 .. MaxKhr
    BY <1>0, <1>6, CreateFacts, MoneyTypes
  <2>2. NewRow(req[r]).balance = req[r].balance
    BY DEF NewRow
  <2>3. Fits(NewRow(req[r]))
    BY <2>1, <2>2, MoneyTypes DEF Fits
  <2>4. QED
    BY <1>0, <1>1, <1>6, <2>3, CreateFacts
<1>7. CASE DeleteWallet(r)
  <2>1. req[r].wallet \in Wallets
    BY <1>0, <1>7, DeleteFacts
  <2>2. Gone(table[req[r].wallet]).balance = table[req[r].wallet].balance
        /\ Gone(draft[req[r].wallet]).balance = draft[req[r].wallet].balance
    BY <1>0, <2>1, GoneRow DEF TypeOK
  <2>3. table'[w].balance = table[w].balance /\ draft'[w].balance = draft[w].balance
    BY <1>0, <1>7, <2>2, DeleteFacts DEF TypeOK
  <2>4. QED
    BY <1>1, <2>3 DEF Fits
<1>8. QED
  BY <1>2, <1>3, <1>4, <1>5, <1>6, <1>7, TurnCases

\* What a commit and a removal leave of the transfers.
LEMMA MovedCases ==
  ASSUME Store, NEW r \in Reqs, Turn(r)
  PROVE  \/ moved' = moved
         \/ /\ Commit(r) /\ req[r].op = "transfer" /\ req[r].pc = "block"
            /\ req[r].from \in Wallets /\ req[r].to \in Wallets /\ req[r].amount \in Nat
            /\ \A v, w \in Wallets : moved'[<<v, w>>] =
                  IF v = req[r].from /\ w = req[r].to THEN moved[<<v, w>>] + req[r].amount ELSE moved[<<v, w>>]
         \/ /\ DeleteWallet(r) /\ req[r].op = "remove"
            /\ \A v, w \in Wallets : moved'[<<v, w>>] = IF req[r].wallet \in {v, w} THEN 0 ELSE moved[<<v, w>>]
<1>0. TypeOK
  BY DEF Store
<1>1. CASE Enters(r) \/ Step(r) \/ Rollback(r) \/ CommitCreate(r)
  BY <1>0, <1>1, EnteredType, StepFacts, RollbackFacts, CreateFacts
<1>2. CASE Commit(r) /\ req[r].op # "transfer"
  BY <1>2 DEF Commit
<1>3. CASE Commit(r) /\ req[r].op = "transfer"
  <2> DEFINE f == req[r].from
             t == req[r].to
             a == req[r].amount
             p == <<f, t>>
  <2>1. RequestFields(req[r])
    BY <1>0, RequestHas DEF TypeOK
  <2>2. f \in Wallets /\ t \in Wallets /\ a \in Amounts
    BY <1>3, <2>1 DEF RequestFields
  <2>3. a \in Nat /\ req[r].pc = "block"
    BY <1>0, <1>3, <2>2, MoneyTypes, CommitFacts
  <2>4. moved' = [moved EXCEPT ![p] = @ + a] /\ p \in Wallets \X Wallets
    BY <1>3, <2>2 DEF Commit
  <2>5. \A x \in Wallets \X Wallets : moved'[x] = IF x = p THEN moved[x] + a ELSE moved[x]
    BY <1>0, <2>4 DEF TypeOK
  <2>6. \A v, w \in Wallets : moved'[<<v, w>>] = IF v = f /\ w = t THEN moved[<<v, w>>] + a ELSE moved[<<v, w>>]
    BY <2>5
  <2>7. QED
    BY <1>3, <2>2, <2>3, <2>6
<1>4. CASE DeleteWallet(r)
  <2>1. moved' = [p \in Wallets \X Wallets |-> IF req[r].wallet \in {p[1], p[2]} THEN 0 ELSE moved[p]]
        /\ req[r].op = "remove"
    BY <1>0, <1>4, DeleteFacts
  <2>2. \A v, w \in Wallets : moved'[<<v, w>>] = IF req[r].wallet \in {v, w} THEN 0 ELSE moved[<<v, w>>]
    BY <2>1
  <2>3. QED
    BY <1>4, <2>1, <2>2
<1>5. QED
  BY <1>1, <1>2, <1>3, <1>4, TurnCases

\* Money moves between wallets that exist.
LEMMA MovedStep ==
  ASSUME Store, MovedOk, NEW r \in Reqs, TransferOk(r), Turn(r)
  PROVE  MovedOk'
<1>0. TypeOK /\ Room /\ Held(r) /\ RemoveOk(r)
  BY DEF Store
<1> SUFFICES ASSUME NEW v \in Wallets, NEW w \in Wallets, moved'[<<v, w>>] # 0
             PROVE  table'[v].state # "unborn" /\ table'[w].state # "unborn"
  BY DEF MovedOk
<1>1. moved[<<v, w>>] # 0 \/ (req[r].op = "transfer" /\ req[r].pc = "block" /\ v = req[r].from /\ w = req[r].to)
  BY MovedCases
<1>2. table[v].state # "unborn" /\ table[w].state # "unborn"
  BY <1>1 DEF MovedOk, TransferOk, Live
<1>3. QED
  BY <1>0, <1>2, BornStays

\* What one request is sending is a number.
LEMMA SendingType == ASSUME TypeOK, NEW q \in Reqs, NEW f, NEW t PROVE Sending(q, f, t) \in Nat
<1>1. RequestFields(req[q])
  BY RequestHas DEF TypeOK
<1>2. req[q].op = "transfer" => req[q].amount \in Nat
  BY <1>1, MoneyTypes DEF RequestFields
<1>3. QED
  BY <1>2 DEF Sending

\* What is being sent changes by what one request sends.
LEMMA SentChange ==
  ASSUME TypeOK, TypeOK', NEW r \in Reqs, \A q \in Reqs \ {r} : req'[q] = req[q], NEW f, NEW t
  PROVE  Sent(f, t)' = Sent(f, t) + (Sending(r, f, t)' - Sending(r, f, t)) /\ Sent(f, t) \in Nat
<1> DEFINE g == [q \in Reqs |-> Sending(q, f, t)]
           h == [q \in Reqs |-> Sending(q, f, t)']
<1>1. \A q \in Reqs : Sending(q, f, t) \in Nat
  BY SendingType
<1>2. \A q \in Reqs : Sending(q, f, t)' \in Nat
  <2>1. ASSUME NEW q \in Reqs PROVE Sending(q, f, t)' \in Nat
    <3>1. RequestFields(req'[q])
      BY RequestHas DEF TypeOK
    <3>2. req'[q].op = "transfer" => req'[q].amount \in Nat
      BY <3>1, MoneyTypes DEF RequestFields
    <3>3. QED
      BY <3>2 DEF Sending
  <2>2. QED
    BY <2>1
<1>3. g \in [Reqs -> Nat] /\ g \in [Reqs -> Int] /\ h \in [Reqs -> Int]
  BY <1>1, <1>2
<1>4. \A q \in Reqs : q # r => h[q] = g[q]
  BY DEF Sending
<1>5. IsFiniteSet(Reqs)
  BY FiniteAssumption DEF FiniteAssumption
<1>6. g[r] = Sending(r, f, t) /\ h[r] = Sending(r, f, t)'
  OBVIOUS
<1>7. Sent(f, t) = SumFunction(g) /\ Sent(f, t)' = SumFunction(h)
  BY DEF Sent
<1> HIDE DEF g, h
<1>8. SumFunction(h) = SumFunction(g) + (h[r] - g[r])
  BY <1>3, <1>4, <1>5, SumChange
<1>9. SumFunction(g) \in Nat
  BY <1>3, <1>5, SumCovers
<1>10. QED
  BY <1>6, <1>7, <1>8, <1>9

\* Whatever is being sent can be recorded when it commits.
LEMMA SpaceStep == ASSUME Store, Space, NEW r \in Reqs, Turn(r) PROVE Space'
<1>0. TypeOK /\ TypeOK' /\ Free /\ Room /\ \A q \in Reqs : Held(q)
  BY TypeStep DEF Store, Turn, Next
<1>1. \A q \in Reqs \ {r} : req'[q] = req[q]
  BY <1>0, OthersKept
<1> SUFFICES ASSUME NEW f \in Wallets, NEW t \in Wallets PROVE moved'[<<f, t>>] + Sent(f, t)' <= MaxMoved
  BY DEF Space
<1> DEFINE m == moved[<<f, t>>]
           m2 == moved'[<<f, t>>]
           s == Sending(r, f, t)
           s2 == Sending(r, f, t)'
<1>2. /\ Sent(f, t)' = Sent(f, t) + (s2 - s) /\ Sent(f, t) \in Nat
      /\ s \in Nat /\ s2 \in Nat /\ m \in Nat /\ m2 \in Nat /\ MaxMoved \in Nat
  <2>1. s \in Nat
    BY <1>0, SendingType
  <2>2. s2 \in Nat
    <3>1. RequestFields(req'[r])
      BY <1>0, RequestHas DEF TypeOK
    <3>2. req'[r].op = "transfer" => req'[r].amount \in Nat
      BY <3>1, MoneyTypes DEF RequestFields
    <3>3. QED
      BY <3>2 DEF Sending
  <2>3. <<f, t>> \in Wallets \X Wallets
    OBVIOUS
  <2>4. m \in Nat /\ m2 \in Nat
    BY <1>0, <2>3 DEF TypeOK
  <2>5. Sent(f, t)' = Sent(f, t) + (s2 - s) /\ Sent(f, t) \in Nat
    BY <1>0, <1>1, SentChange
  <2>6. QED
    BY <2>1, <2>2, <2>4, <2>5, MoneyTypes
<1>3. m + Sent(f, t) <= MaxMoved
  BY DEF Space
<1> HIDE DEF m, m2, s, s2
<1>4. CASE m2 + s2 <= m + s
  BY <1>2, <1>3, <1>4 DEF m2
<1>5. CASE m2 = m /\ m + Sent(f, t) + s2 <= MaxMoved
  BY <1>2, <1>5 DEF m2
<1>6. CASE \E f1, t1 \in Wallets, a \in Amounts : CheckTransfer(r, f1, t1, a)
  <2>1. PICK f1 \in Wallets, t1 \in Wallets, a \in Amounts : CheckTransfer(r, f1, t1, a)
    BY <1>6
  <2>2. /\ req'[r] = [op |-> "transfer", pc |-> "checked", from |-> f1, to |-> t1, amount |-> a]
        /\ moved' = moved /\ req[r] = Idle
        /\ moved[<<f1, t1>>] + SumFunction([q \in Reqs |-> Sending(q, f1, t1)]) + a <= MaxMoved
    BY <1>0, <2>1 DEF CheckTransfer, TypeOK
  <2>3. moved[<<f1, t1>>] + Sent(f1, t1) + a <= MaxMoved
    BY <2>2 DEF Sent
  <2>4. s2 = IF f1 = f /\ t1 = t THEN a ELSE 0
    BY <2>2 DEF s2, Sending
  <2>5. m2 = m
    BY <2>2 DEF m, m2
  <2>6. CASE f1 = f /\ t1 = t
    BY <1>5, <2>3, <2>4, <2>5, <2>6 DEF m
  <2>7. CASE ~(f1 = f /\ t1 = t)
    BY <1>2, <1>4, <2>4, <2>5, <2>7
  <2>8. QED
    BY <2>6, <2>7
<1>7. CASE moved' = moved /\ ~\E f1, t1 \in Wallets, a \in Amounts : CheckTransfer(r, f1, t1, a)
  <2>1. req'[r].op = "transfer" => /\ req[r].op = "transfer" /\ req'[r].from = req[r].from
                                  /\ req'[r].to = req[r].to /\ req'[r].amount = req[r].amount
    <3>1. CASE Enters(r)
      <4>1. EntersAs(r)
        BY <1>0, <3>1, HowEnters
      <4> SUFFICES ASSUME req'[r].op = "transfer"
                   PROVE  /\ req[r].op = "transfer" /\ req'[r].from = req[r].from
                          /\ req'[r].to = req[r].to /\ req'[r].amount = req[r].amount
        OBVIOUS
      <4>2. QED
        BY <1>7, <4>1, Zenon DEF EntersAs
    <3>2. CASE Step(r)
      BY <1>0, <3>2, SameColumn
    <3>3. CASE Rollback(r) \/ Commit(r) \/ CommitCreate(r) \/ DeleteWallet(r)
      BY <1>0, <3>3, RollbackFacts, CommitFacts, CreateFacts, DeleteFacts DEF TypeOK, Idle
    <3>4. QED
      BY <3>1, <3>2, <3>3, TurnCases
  <2>2. s2 <= s
    BY <1>2, <2>1 DEF s, s2, Sending
  <2>3. QED
    BY <1>2, <1>4, <1>7, <2>2 DEF m, m2
<1>8. CASE moved' # moved
  <2>1. req'[r] = Idle
    <3>1. Commit(r) \/ DeleteWallet(r)
      BY <1>8, MovedCases
    <3>2. QED
      BY <1>0, <3>1, CommitFacts, DeleteFacts DEF TypeOK
  <2>2. s2 = 0
    BY <2>1 DEF s2, Sending, Idle
  <2>3. CASE req[r].op = "transfer" /\ req[r].amount \in Nat
             /\ \A v, w \in Wallets : moved'[<<v, w>>] =
                  IF v = req[r].from /\ w = req[r].to THEN moved[<<v, w>>] + req[r].amount ELSE moved[<<v, w>>]
    <3>1. m2 = m + s
      BY <1>2, <2>3 DEF m, m2, s, Sending
    <3>2. QED
      BY <1>2, <1>4, <2>2, <3>1
  <2>4. CASE \A v, w \in Wallets : moved'[<<v, w>>] = IF req[r].wallet \in {v, w} THEN 0 ELSE moved[<<v, w>>]
    <3>1. m2 <= m
      BY <1>2, <2>4 DEF m, m2
    <3>2. QED
      BY <1>2, <1>4, <2>2, <3>1
  <2>5. QED
    BY <1>8, <2>3, <2>4, MovedCases
<1>9. QED
  BY <1>6, <1>7, <1>8

-----------------------------------------------------------------------------
\* A step that leaves what Ledger sees is no step of Ledger.
LEMMA LedgerStutters ==
  ASSUME \A w \in Wallets : table'[w].state = table[w].state /\ table'[w].balance = table[w].balance,
         moved' = moved, \A q \in Reqs : LedgerRequest(req'[q]) = LedgerRequest(req[q])
  PROVE  UNCHANGED L!vars
<1>1. \A w \in Wallets : Received(w)' = Received(w)
  BY DEF Received
<1>2. [w \in Wallets |-> table[w].state]' = [w \in Wallets |-> table[w].state]
  OBVIOUS
<1>3. [w \in Wallets |-> table[w].balance]' = [w \in Wallets |-> table[w].balance]
  OBVIOUS
<1>4. [w \in Wallets |-> table[w].balance - Received(w)]' = [w \in Wallets |-> table[w].balance - Received(w)]
  BY <1>1
<1>5. [q \in Reqs |-> LedgerRequest(req[q])]' = [q \in Reqs |-> LedgerRequest(req[q])]
  OBVIOUS
<1>6. QED
  BY <1>2, <1>3, <1>4, <1>5 DEF L!vars

\* What a wallet has received, less what it has sent, is a number.
LEMMA ReceivedType == ASSUME TypeOK, NEW w \in Wallets PROVE Received(w) \in Int
<1> DEFINE g == [v \in Wallets |-> moved[<<v, w>>] - moved[<<w, v>>]]
<1>1. \A v \in Wallets : <<v, w>> \in Wallets \X Wallets /\ <<w, v>> \in Wallets \X Wallets
  OBVIOUS
<1>2. \A v \in Wallets : moved[<<v, w>>] \in Nat /\ moved[<<w, v>>] \in Nat
  BY <1>1 DEF TypeOK
<1>3. g \in [Wallets -> Int]
  BY <1>2
<1> HIDE DEF g
<1>4. SumFunction(g) \in Int
  BY <1>3, FiniteAssumption, SumType DEF FiniteAssumption
<1>5. QED
  BY <1>4 DEF Received, g

\* The start of the wallets is a start of Ledger.
LEMMA AsLedgerInit == Init => L!Init
<1> SUFFICES ASSUME Init PROVE L!Init
  OBVIOUS
<1>1. \A w \in Wallets : Received(w) = 0
  <2> SUFFICES ASSUME NEW w \in Wallets PROVE Received(w) = 0
    OBVIOUS
  <2>1. \A v \in Wallets : moved[<<v, w>>] - moved[<<w, v>>] = 0
    BY DEF Init
  <2>2. [v \in Wallets |-> moved[<<v, w>>] - moved[<<w, v>>]] = [v \in Wallets |-> 0]
    BY <2>1
  <2>3. QED
    BY <2>2, FiniteAssumption, SumOfNoughts DEF Received, FiniteAssumption
<1>2. \A w \in Wallets : table[w].state = "unborn" /\ table[w].balance = 0
  BY DEF Init
<1>3. \A q \in Reqs : LedgerRequest(req[q]) = [op |-> "idle"]
  BY DEF Init, Idle, LedgerRequest
<1>4. [w \in Wallets |-> table[w].state] = [w \in Wallets |-> "unborn"]
  BY <1>2
<1>5. [w \in Wallets |-> table[w].balance] = [w \in Wallets |-> 0]
  BY <1>2
<1>6. [w \in Wallets |-> table[w].balance - Received(w)] = [w \in Wallets |-> 0]
  BY <1>1, <1>2
<1>7. [q \in Reqs |-> LedgerRequest(req[q])] = [q \in Reqs |-> [op |-> "idle"]]
  BY <1>3
<1>8. moved = [p \in Wallets \X Wallets |-> 0]
  BY DEF Init
<1>9. <<>> = [t \in {} |-> "unissued"]
  OBVIOUS
<1>10. QED
  BY <1>4, <1>5, <1>6, <1>7, <1>8, <1>9 DEF L!Init, L!Idle

\* What Ledger sees of the requests.
Seen == [q \in Reqs |-> LedgerRequest(req[q])]

\* What Ledger sees when one request changes.
LEMMA SeenEnters ==
  ASSUME TypeOK, NEW r \in Reqs, NEW n, req' = [req EXCEPT ![r] = n]
  PROVE  Seen' = [Seen EXCEPT ![r] = LedgerRequest(n)]
<1>1. \A q \in Reqs : req'[q] = IF q = r THEN n ELSE req[q]
  BY DEF TypeOK
<1>2. Seen' = [q \in Reqs |-> LedgerRequest(req'[q])]
  BY DEF Seen
<1>3. ASSUME NEW q \in Reqs
      PROVE  LedgerRequest(req'[q]) = IF q = r THEN LedgerRequest(n) ELSE LedgerRequest(req[q])
  <2>1. CASE q = r
    <3>1. req'[q] = n
      BY <1>1, <2>1
    <3>2. QED
      BY <2>1, <3>1
  <2>2. CASE q # r
    <3>1. req'[q] = req[q]
      BY <1>1, <2>2
    <3>2. QED
      BY <2>2, <3>1
  <2>3. QED
    BY <2>1, <2>2
<1>4. Seen' = [q \in Reqs |-> IF q = r THEN LedgerRequest(n) ELSE LedgerRequest(req[q])]
  BY <1>2, <1>3
<1>5. QED
  BY <1>4 DEF Seen

\* What Ledger sees when a request ends.
LEMMA SeenDone ==
  ASSUME TypeOK, NEW r \in Reqs, req' = [req EXCEPT ![r] = Idle]
  PROVE  Seen' = [Seen EXCEPT ![r] = L!Idle]
<1>1. LedgerRequest(Idle) = L!Idle
  BY DEF LedgerRequest, Idle, L!Idle
<1>2. QED
  BY <1>1, SeenEnters

\* What Ledger sees of an idle request and of one that it does not know.
LEMMA SeenIdle ==
  ASSUME NEW r \in Reqs
  PROVE  /\ req[r].op \notin {"transfer", "remove"} => Seen[r] = L!Idle
         /\ req[r].op = "transfer" => Seen[r] = [op |-> "transfer", from |-> req[r].from, to |-> req[r].to,
                                                  amount |-> req[r].amount]
         /\ req[r].op = "remove" => Seen[r] = [op |-> "removeWallet", wallet |-> req[r].wallet]
  BY DEF Seen, LedgerRequest, L!Idle

\* Nobody receives anything while the transfers are the same.
LEMMA ReceivedSame ==
  ASSUME moved' = moved
  PROVE  \A w \in Wallets : Received(w)' = Received(w)
  BY DEF Received

\* The checks of a transfer are Ledger's TransferCheck.
LEMMA MapCheckTransfer ==
  ASSUME TypeOK, NEW r \in Reqs, NEW f \in Wallets, NEW t \in Wallets, NEW a \in Amounts, CheckTransfer(r, f, t, a)
  PROVE  L!TransferCheck(r, f, t, a)
<1>1. /\ req[r] = Idle /\ f # t /\ table[f].state = "live" /\ table[t].state = "live" /\ table[f].balance >= a
      /\ req' = [req EXCEPT ![r] = [op |-> "transfer", pc |-> "checked", from |-> f, to |-> t, amount |-> a]]
      /\ table' = table /\ moved' = moved
  BY DEF CheckTransfer, Live
<1>2. LedgerRequest([op |-> "transfer", pc |-> "checked", from |-> f, to |-> t, amount |-> a])
      = [op |-> "transfer", from |-> f, to |-> t, amount |-> a]
  BY DEF LedgerRequest
<1>3. Seen' = [Seen EXCEPT ![r] = [op |-> "transfer", from |-> f, to |-> t, amount |-> a]]
  BY <1>1, <1>2, SeenEnters
<1>4. Seen[r] = L!Idle
  <2>1. req[r].op = "idle"
    BY <1>1 DEF Idle
  <2>2. QED
    BY <2>1, SeenIdle
<1>5. [w \in Wallets |-> table[w].balance - Received(w)]' = [w \in Wallets |-> table[w].balance - Received(w)]
  BY <1>1, ReceivedSame
<1>6. QED
  BY <1>1, <1>3, <1>4, <1>5 DEF L!TransferCheck, L!Owned, Seen

\* The check of a removal is Ledger's RemoveWalletCheck.
LEMMA MapCheckRemove ==
  ASSUME TypeOK, NEW r \in Reqs, NEW w \in Wallets, CheckRemove(r, w)
  PROVE  L!RemoveWalletCheck(r, w)
<1>1. /\ req[r] = Idle /\ table[w].state = "live"
      /\ req' = [req EXCEPT ![r] = [op |-> "remove", pc |-> "checked", wallet |-> w]]
      /\ table' = table /\ moved' = moved
  BY DEF CheckRemove, Live
<1>2. LedgerRequest([op |-> "remove", pc |-> "checked", wallet |-> w]) = [op |-> "removeWallet", wallet |-> w]
  BY DEF LedgerRequest
<1>3. Seen' = [Seen EXCEPT ![r] = [op |-> "removeWallet", wallet |-> w]]
  BY <1>1, <1>2, SeenEnters
<1>4. Seen[r] = L!Idle
  <2>1. req[r].op = "idle"
    BY <1>1 DEF Idle
  <2>2. QED
    BY <2>1, SeenIdle
<1>5. [v \in Wallets |-> table[v].balance - Received(v)]' = [v \in Wallets |-> table[v].balance - Received(v)]
  BY <1>1, ReceivedSame
<1>6. QED
  BY <1>1, <1>3, <1>4, <1>5 DEF L!RemoveWalletCheck, L!Owned, L!Referenced, Seen

\* A request that Ledger knows and that fails is aborted.
LEMMA MapAbort ==
  ASSUME TypeOK, NEW r \in Reqs, req[r].op \in {"transfer", "remove"}, req' = [req EXCEPT ![r] = Idle],
         table' = table, moved' = moved
  PROVE  L!Abort(r)
<1>1. Seen' = [Seen EXCEPT ![r] = L!Idle]
  BY SeenDone
<1>2. Seen[r] # L!Idle
  <2>1. Seen[r].op \in {"transfer", "removeWallet"}
    <3>1. CASE req[r].op = "transfer"
      <4>1. Seen[r] = [op |-> "transfer", from |-> req[r].from, to |-> req[r].to, amount |-> req[r].amount]
        BY <3>1, SeenIdle, Zenon
      <4>2. QED
        BY <4>1
    <3>2. CASE req[r].op = "remove"
      <4>1. Seen[r] = [op |-> "removeWallet", wallet |-> req[r].wallet]
        BY <3>2, SeenIdle, Zenon
      <4>2. QED
        BY <4>1
    <3>3. QED
      BY <3>1, <3>2
  <2>2. L!Idle.op = "idle"
    BY DEF L!Idle
  <2>3. QED
    BY <2>1, <2>2
<1>3. [w \in Wallets |-> table[w].balance - Received(w)]' = [w \in Wallets |-> table[w].balance - Received(w)]
  BY ReceivedSame
<1>4. QED
  BY <1>1, <1>2, <1>3 DEF L!Abort, L!Done, Seen

\* The COMMIT of a block that sets a balance is Ledger's EditBalance, or nothing
\* when its row was deleted before it wrote it.
LEMMA MapEdit ==
  ASSUME Store, RangeOk, NEW r \in Reqs, EditOk(r), Commit(r), req[r].op = "update", req[r].column = "balance",
         NEW w \in Wallets, NEW b \in Edits, req[r].wallet = w, req[r].value = b
  PROVE  L!EditBalance(r, w, b) \/ UNCHANGED L!vars
<1>0. TypeOK /\ Held(r)
  BY DEF Store
<1>1. req[r].todo = <<>> /\ req' = [req EXCEPT ![r] = Idle]
      /\ \A v \in Wallets : table'[v] = IF lock[v] = r THEN draft[v] ELSE table[v]
  BY <1>0, CommitFacts
<1>2. \A v \in Wallets : lock[v] = r => v = w /\ draft[v].balance = b
  BY <1>1 DEF EditOk
<1>3. moved' = moved
  BY DEF Commit
<1>4. \A v \in Wallets : table'[v].state = table[v].state
  BY <1>0, <1>1 DEF Held
<1>5. CASE \A v \in Wallets : lock[v] # r
  <2>1. \A q \in Reqs : LedgerRequest(req'[q]) = LedgerRequest(req[q])
    <3>1. \A q \in Reqs : q # r => req'[q] = req[q]
      BY <1>0, <1>1 DEF TypeOK
    <3>2. req'[r] = Idle
      BY <1>0, <1>1 DEF TypeOK
    <3>3. LedgerRequest(Idle) = [op |-> "idle"] /\ LedgerRequest(req[r]) = [op |-> "idle"]
      BY DEF LedgerRequest, Idle
    <3>4. QED
      BY <3>1, <3>2, <3>3
  <2>2. QED
    BY <1>1, <1>3, <1>5, <2>1, LedgerStutters
<1>6. CASE \E v \in Wallets : lock[v] = r
  <2>1. w \in Wallets /\ lock[w] = r /\ draft[w].balance = b
    BY <1>2, <1>6
  <2>2. table[w].state = "live"
    BY <1>0, <2>1 DEF Held
  <2>3. Seen' = [Seen EXCEPT ![r] = L!Idle]
    BY <1>0, <1>1, SeenDone
  <2>4. Seen[r] = L!Idle /\ Seen' = Seen
    <3>1. Seen[r] = L!Idle
      BY SeenIdle
    <3>2. QED
      BY <2>3, <3>1 DEF Seen
  <2>5. [v \in Wallets |-> table[v].state]' = [v \in Wallets |-> table[v].state]
    BY <1>4
  <2>6. \A v \in Wallets : table'[v].balance = IF v = w THEN b ELSE table[v].balance
    BY <1>1, <1>2, <2>1
  <2>7. \A v \in Wallets : Received(v) \in Int /\ table[v].balance \in Int /\ Received(v)' = Received(v)
    BY <1>0, <1>3, ReceivedType, ReceivedSame DEF TypeOK, Row
  <2>8. b \in Int
    BY <1>0, <2>1 DEF TypeOK, Row
  <2>9. [v \in Wallets |-> table[v].balance]' = [[v \in Wallets |-> table[v].balance] EXCEPT ![w] = b]
    BY <2>1, <2>6
  <2>10. [v \in Wallets |-> table[v].balance - Received(v)]'
         = [[v \in Wallets |-> table[v].balance - Received(v)] EXCEPT ![w] = @ + (b - table[w].balance)]
    <3>1. \A v \in Wallets : table'[v].balance - Received(v)' =
             IF v = w THEN (table[w].balance - Received(w)) + (b - table[w].balance) ELSE table[v].balance - Received(v)
      BY <2>1, <2>6, <2>7, <2>8
    <3> DEFINE g == [v \in Wallets |-> table[v].balance - Received(v)]
    <3>2. \A v \in Wallets : g[v] = table[v].balance - Received(v)
      OBVIOUS
    <3>3. g' = [v \in Wallets |-> IF v = w THEN g[w] + (b - table[w].balance) ELSE g[v]]
      BY <2>1, <3>1
    <3>4. QED
      BY <2>1, <3>3
  <2>11. L!EditBalance(r, w, b)
    BY <1>3, <2>1, <2>2, <2>4, <2>5, <2>9, <2>10 DEF L!EditBalance, L!Owned, Seen
  <2>12. QED
    BY <2>11
<1>7. QED
  BY <1>5, <1>6

\* What a wallet has received when what one other wallet sent it changes.
LEMMA ReceivedChange ==
  ASSUME TypeOK, TypeOK', NEW w \in Wallets, NEW k \in Wallets,
         \A v \in Wallets \ {k} : moved'[<<v, w>>] - moved'[<<w, v>>] = moved[<<v, w>>] - moved[<<w, v>>]
  PROVE  Received(w)' = Received(w) + ((moved'[<<k, w>>] - moved'[<<w, k>>]) - (moved[<<k, w>>] - moved[<<w, k>>]))
<1> DEFINE g == [v \in Wallets |-> moved[<<v, w>>] - moved[<<w, v>>]]
           h == [v \in Wallets |-> moved'[<<v, w>>] - moved'[<<w, v>>]]
<1>1. \A v \in Wallets : <<v, w>> \in Wallets \X Wallets /\ <<w, v>> \in Wallets \X Wallets
  OBVIOUS
<1>2. \A v \in Wallets : /\ moved[<<v, w>>] \in Nat /\ moved[<<w, v>>] \in Nat
                         /\ moved'[<<v, w>>] \in Nat /\ moved'[<<w, v>>] \in Nat
  BY <1>1 DEF TypeOK
<1>3. g \in [Wallets -> Int] /\ h \in [Wallets -> Int]
  BY <1>2
<1>4. \A v \in Wallets : v # k => h[v] = g[v]
  OBVIOUS
<1>5. /\ g[k] = moved[<<k, w>>] - moved[<<w, k>>]
      /\ h[k] = moved'[<<k, w>>] - moved'[<<w, k>>]
      /\ Received(w) = SumFunction(g) /\ Received(w)' = SumFunction(h)
  BY DEF Received
<1> HIDE DEF g, h
<1>6. SumFunction(h) = SumFunction(g) + (h[k] - g[k])
  BY <1>3, <1>4, FiniteAssumption, SumChange DEF FiniteAssumption
<1>7. QED
  BY <1>5, <1>6

\* A wallet of which no money moved has received none.
LEMMA ReceivedNothing ==
  ASSUME NEW w, \A v \in Wallets : moved[<<v, w>>] = 0 /\ moved[<<w, v>>] = 0
  PROVE  Received(w) = 0
<1>1. [v \in Wallets |-> moved[<<v, w>>] - moved[<<w, v>>]] = [v \in Wallets |-> 0]
  OBVIOUS
<1>2. QED
  BY <1>1, FiniteAssumption, SumOfNoughts DEF Received, FiniteAssumption

\* Balances in range are so for Ledger.
LEMMA LedgerFits ==
  ASSUME RangeOk
  PROVE  L!Fits([w \in Wallets |-> table[w].balance])
  BY DEF RangeOk, Fits, L!Fits

\* The COMMIT of a transfer is Ledger's TransferCommit: debit and credit at once.
LEMMA MapTransfer ==
  ASSUME Store, Store', RangeOk', Space, NEW r \in Reqs, TransferOk(r), Commit(r), Turn(r), req[r].op = "transfer"
  PROVE  L!TransferCommit(r)
<1>0. TypeOK /\ TypeOK' /\ Held(r)
  BY DEF Store
<1> PICK f, t, a : f = req[r].from /\ t = req[r].to /\ a = req[r].amount
  OBVIOUS
<1>1. req[r].pc = "block" /\ req[r].todo = <<>> /\ req' = [req EXCEPT ![r] = Idle]
      /\ \A v \in Wallets : table'[v] = IF lock[v] = r THEN draft[v] ELSE table[v]
  BY <1>0, CommitFacts
<1>2. /\ f # t /\ f \in Live /\ t \in Live
      /\ \A w \in Wallets : lock[w] = r => w \in {f, t}
      /\ lock[f] = r /\ lock[t] = r
      /\ draft[f].balance = table[f].balance - a /\ draft[t].balance = table[t].balance + a
  BY <1>1 DEF TransferOk
<1>3. /\ f \in Wallets /\ t \in Wallets /\ table[f].state = "live" /\ table[t].state = "live"
  BY <1>2 DEF Live
<1>4. a \in Nat /\ moved' = [moved EXCEPT ![<<f, t>>] = @ + a]
  <2>1. RequestFields(req[r])
    BY <1>0, RequestHas DEF TypeOK
  <2>2. a \in Amounts
    BY <2>1 DEF RequestFields
  <2>3. QED
    BY <2>2, MoneyTypes DEF Commit
<1>5. \A v \in Wallets : table'[v].state = table[v].state
  BY <1>0, <1>1 DEF Held
<1>6. \A v \in Wallets : table'[v].balance = IF v = f THEN table[f].balance - a
                                             ELSE IF v = t THEN table[t].balance + a ELSE table[v].balance
  BY <1>1, <1>2
<1>7. \A v, w \in Wallets : /\ moved'[<<v, w>>] = IF v = f /\ w = t THEN moved[<<v, w>>] + a ELSE moved[<<v, w>>]
                            /\ moved[<<v, w>>] \in Nat
  <2>1. \A p \in Wallets \X Wallets : moved'[p] = (IF p = <<f, t>> THEN moved[p] + a ELSE moved[p]) /\ moved[p] \in Nat
    BY <1>0, <1>3, <1>4 DEF TypeOK
  <2>2. QED
    BY <2>1
<1>8. Seen' = [Seen EXCEPT ![r] = L!Idle] /\ Seen[r] = [op |-> "transfer", from |-> f, to |-> t, amount |-> a]
  <2>1. Seen[r] = [op |-> "transfer", from |-> f, to |-> t, amount |-> a]
    BY SeenIdle, Zenon
  <2>2. QED
    BY <1>0, <1>1, <2>1, SeenDone
<1>9. moved[<<f, t>>] + a <= MaxMoved
  <2> DEFINE g == [q \in Reqs |-> Sending(q, f, t)]
  <2>1. g \in [Reqs -> Nat]
    BY <1>0, SendingType
  <2>2. g[r] = a
    BY DEF Sending
  <2>3. Sent(f, t) = SumFunction(g)
    BY DEF Sent
  <2> HIDE DEF g
  <2>4. SumFunction(g) \in Nat /\ g[r] <= SumFunction(g)
    BY <2>1, FiniteAssumption, SumCovers DEF FiniteAssumption
  <2>5. moved[<<f, t>>] + Sent(f, t) <= MaxMoved
    BY <1>3 DEF Space
  <2>6. moved[<<f, t>>] \in Nat
    BY <1>3, <1>7
  <2>7. QED
    BY <1>4, <2>2, <2>3, <2>4, <2>5, <2>6, MoneyTypes
<1>10. \A w \in Wallets : Received(w) \in Int /\ table[w].balance \in Int
  BY <1>0, ReceivedType DEF TypeOK, Row
<1>11. Received(f)' = Received(f) - a
  <2>1. \A v \in Wallets \ {t} : moved'[<<v, f>>] - moved'[<<f, v>>] = moved[<<v, f>>] - moved[<<f, v>>]
    BY <1>2, <1>3, <1>7
  <2>2. Received(f)' = Received(f) + ((moved'[<<t, f>>] - moved'[<<f, t>>]) - (moved[<<t, f>>] - moved[<<f, t>>]))
    BY <1>0, <1>3, <2>1, ReceivedChange
  <2>3. /\ moved'[<<t, f>>] = moved[<<t, f>>] /\ moved'[<<f, t>>] = moved[<<f, t>>] + a
        /\ moved[<<t, f>>] \in Nat /\ moved[<<f, t>>] \in Nat
    BY <1>2, <1>3, <1>7
  <2>4. QED
    BY <1>3, <1>4, <1>10, <2>2, <2>3
<1>12. Received(t)' = Received(t) + a
  <2>1. \A v \in Wallets \ {f} : moved'[<<v, t>>] - moved'[<<t, v>>] = moved[<<v, t>>] - moved[<<t, v>>]
    BY <1>2, <1>3, <1>7
  <2>2. Received(t)' = Received(t) + ((moved'[<<f, t>>] - moved'[<<t, f>>]) - (moved[<<f, t>>] - moved[<<t, f>>]))
    BY <1>0, <1>3, <2>1, ReceivedChange
  <2>3. /\ moved'[<<t, f>>] = moved[<<t, f>>] /\ moved'[<<f, t>>] = moved[<<f, t>>] + a
        /\ moved[<<t, f>>] \in Nat /\ moved[<<f, t>>] \in Nat
    BY <1>2, <1>3, <1>7
  <2>4. QED
    BY <1>3, <1>4, <1>10, <2>2, <2>3
<1>13. \A w \in Wallets : w # f /\ w # t => Received(w)' = Received(w)
  <2> SUFFICES ASSUME NEW w \in Wallets, w # f, w # t PROVE Received(w)' = Received(w)
    OBVIOUS
  <2>1. \A v \in Wallets : moved'[<<v, w>>] = moved[<<v, w>>] /\ moved'[<<w, v>>] = moved[<<w, v>>]
    BY <1>7
  <2>2. QED
    BY <2>1 DEF Received
<1>14. \A w \in Wallets : table'[w].balance - Received(w)' = table[w].balance - Received(w)
  <2> SUFFICES ASSUME NEW w \in Wallets PROVE table'[w].balance - Received(w)' = table[w].balance - Received(w)
    OBVIOUS
  <2>1. CASE w = f
    BY <1>3, <1>4, <1>6, <1>10, <1>11, <2>1
  <2>2. CASE w = t
    BY <1>2, <1>3, <1>4, <1>6, <1>10, <1>12, <2>2
  <2>3. CASE w # f /\ w # t
    BY <1>6, <1>13, <2>3
  <2>4. QED
    BY <2>1, <2>2, <2>3
<1>15. [w \in Wallets |-> table[w].balance - Received(w)]' = [w \in Wallets |-> table[w].balance - Received(w)]
  BY <1>14
<1>16. [w \in Wallets |-> table[w].state]' = [w \in Wallets |-> table[w].state]
  BY <1>5
<1>17. [w \in Wallets |-> table[w].balance]' = [[w \in Wallets |-> table[w].balance] EXCEPT ![f] = @ - a, ![t] = @ + a]
  BY <1>2, <1>3, <1>6
<1>18. L!Fits([w \in Wallets |-> table[w].balance]')
  BY LedgerFits DEF RangeOk, L!Fits, Fits
<1>19. Seen[r].op = "transfer" /\ Seen[r].from = f /\ Seen[r].to = t /\ Seen[r].amount = a
  BY <1>8
<1>20. QED
  BY <1>3, <1>4, <1>8, <1>9, <1>15, <1>16, <1>17, <1>18, <1>19 DEF L!TransferCommit, L!Done, Seen

\* The COMMIT of a create is Ledger's CreateWallet.
LEMMA MapCreate ==
  ASSUME Store, MovedOk, NEW r \in Reqs, CommitCreate(r)
  PROVE  \E w \in Wallets, b \in Openings : L!CreateWallet(r, w, b)
<1>0. TypeOK /\ Held(r) /\ Room
  BY DEF Store
<1>1. /\ req[r].op = "create" /\ req' = [req EXCEPT ![r] = Idle] /\ moved' = moved
      /\ NewId \in Wallets /\ table[NewId].state = "unborn"
  BY <1>0, CreateFacts, NewIdUnborn
<1> PICK n, b : n = NewId /\ b = req[r].balance
  OBVIOUS
<1>2. n \in Wallets /\ table[n].state = "unborn" /\ b \in Openings
  BY <1>0, <1>1, CreateFacts
<1>3. /\ table'[n].state = "live" /\ table'[n].balance = b
      /\ \A v \in Wallets : v # n => table'[v].state = table[v].state /\ table'[v].balance = table[v].balance
  <2>1. NewRow(req[r]).state = "live" /\ NewRow(req[r]).balance = b
    BY DEF NewRow
  <2>2. Column(req[r]) = "primary"
    BY <1>1 DEF Column
  <2>3. \A v \in Wallets : table'[v] = IF v = n THEN NewRow(req[r]) ELSE IF lock[v] = r THEN draft[v] ELSE table[v]
    BY <1>0, CreateFacts
  <2>4. \A v \in Wallets : lock[v] = r => draft[v].state = table[v].state /\ draft[v].balance = table[v].balance
    BY <1>0, <2>2 DEF Held
  <2>5. QED
    BY <1>2, <2>1, <2>3, <2>4
<1>4. Seen[r] = L!Idle /\ Seen' = Seen
  <2>1. Seen[r] = L!Idle
    BY <1>1, SeenIdle
  <2>2. Seen' = [Seen EXCEPT ![r] = L!Idle]
    BY <1>0, <1>1, SeenDone
  <2>3. QED
    BY <2>1, <2>2 DEF Seen
<1>5. \A v \in Wallets : Received(v)' = Received(v) /\ Received(v) \in Int
  BY <1>0, <1>1, ReceivedSame, ReceivedType
<1>6. Received(n) = 0
  BY <1>2, ReceivedNothing DEF MovedOk
<1>7. b \in Int
  BY <1>2, MoneyTypes
<1>8. [v \in Wallets |-> table[v].state]' = [[v \in Wallets |-> table[v].state] EXCEPT ![n] = "live"]
  BY <1>2, <1>3
<1>9. [v \in Wallets |-> table[v].balance]' = [[v \in Wallets |-> table[v].balance] EXCEPT ![n] = b]
  BY <1>2, <1>3
<1>10. [v \in Wallets |-> table[v].balance - Received(v)]' = [[v \in Wallets |-> table[v].balance - Received(v)] EXCEPT ![n] = b]
  <2>1. \A v \in Wallets : table'[v].balance - Received(v)' = IF v = n THEN b ELSE table[v].balance - Received(v)
    BY <1>2, <1>3, <1>5, <1>6, <1>7
  <2>2. QED
    BY <1>2, <2>1
<1>11. L!CreateWallet(r, n, b)
  BY <1>1, <1>2, <1>4, <1>8, <1>9, <1>10 DEF L!CreateWallet, Seen
<1>12. QED
  BY <1>2, <1>11

\* The DELETE is Ledger's RemoveWalletCommit: the transfers go with the wallet,
\* and the balances of the others stay.
LEMMA MapRemove ==
  ASSUME Store, Store', NEW r \in Reqs, DeleteWallet(r)
  PROVE  L!RemoveWalletCommit(r)
<1>0. TypeOK /\ TypeOK'
  BY DEF Store
<1> PICK w : w = req[r].wallet
  OBVIOUS
<1>1. /\ req' = [req EXCEPT ![r] = Idle] /\ req[r].op = "remove" /\ w \in Wallets
      /\ table' = [table EXCEPT ![w] = Gone(table[w])]
      /\ moved' = [p \in Wallets \X Wallets |-> IF w \in {p[1], p[2]} THEN 0 ELSE moved[p]]
  <2>1. /\ req' = [req EXCEPT ![r] = Idle] /\ req[r].op = "remove" /\ req[r].wallet \in Wallets
        /\ table' = [table EXCEPT ![req[r].wallet] = Gone(table[req[r].wallet])]
        /\ moved' = [p \in Wallets \X Wallets |-> IF req[r].wallet \in {p[1], p[2]} THEN 0 ELSE moved[p]]
    BY <1>0, DeleteFacts, Zenon
  <2>2. QED
    BY <2>1, Zenon
<1>a. w \in Wallets
  BY <1>1
<1>2. Seen' = [Seen EXCEPT ![r] = L!Idle] /\ Seen[r].op = "removeWallet" /\ Seen[r].wallet = w
  <2>1. Seen[r] = [op |-> "removeWallet", wallet |-> w]
    BY <1>1, SeenIdle, Zenon
  <2>2. Seen[r].op = "removeWallet" /\ Seen[r].wallet = w
    BY <2>1
  <2>3. Seen' = [Seen EXCEPT ![r] = L!Idle]
    BY <1>0, <1>1, SeenDone
  <2>4. QED
    BY <2>2, <2>3
<1>3. /\ table'[w].state = "gone" /\ table'[w].balance = table[w].balance
      /\ \A v \in Wallets : v # w => table'[v] = table[v]
  <2>1. table[w] \in Row
    BY <1>0, <1>1 DEF TypeOK
  <2>2. Gone(table[w]).state = "gone" /\ Gone(table[w]).balance = table[w].balance
    BY <2>1, GoneRow
  <2>3. QED
    BY <1>0, <1>1, <2>2 DEF TypeOK
<1>4. \A v, u \in Wallets : /\ moved'[<<v, u>>] = IF w \in {v, u} THEN 0 ELSE moved[<<v, u>>]
                            /\ moved[<<v, u>>] \in Nat
  <2>1. \A p \in Wallets \X Wallets : moved[p] \in Nat
    BY <1>0 DEF TypeOK
  <2>2. QED
    BY <1>1, <2>1
<1>5. Received(w)' = 0
  <2>1. \A v \in Wallets : moved'[<<v, w>>] = 0 /\ moved'[<<w, v>>] = 0
    BY <1>1, <1>4
  <2>2. [v \in Wallets |-> moved'[<<v, w>>] - moved'[<<w, v>>]] = [v \in Wallets |-> 0]
    BY <2>1
  <2>3. Received(w)' = SumFunction([v \in Wallets |-> moved'[<<v, w>>] - moved'[<<w, v>>]])
    BY DEF Received
  <2>4. QED
    BY <2>2, <2>3, FiniteAssumption, SumOfNoughts DEF FiniteAssumption
<1>6. ASSUME NEW v \in Wallets, v # w
      PROVE  Received(v)' = Received(v) - (moved[<<w, v>>] - moved[<<v, w>>])
  <2>1. \A u \in Wallets \ {w} : moved'[<<u, v>>] - moved'[<<v, u>>] = moved[<<u, v>>] - moved[<<v, u>>]
    BY <1>4, <1>6
  <2>2. Received(v)' = Received(v) + ((moved'[<<w, v>>] - moved'[<<v, w>>]) - (moved[<<w, v>>] - moved[<<v, w>>]))
    BY <1>0, <1>a, <2>1, ReceivedChange
  <2>3. /\ moved'[<<w, v>>] = 0 /\ moved'[<<v, w>>] = 0
        /\ moved[<<w, v>>] \in Nat /\ moved[<<v, w>>] \in Nat /\ Received(v) \in Int
    BY <1>0, <1>a, <1>4, ReceivedType
  <2>4. QED
    BY <2>2, <2>3
<1>7. \A v \in Wallets : table[v].balance \in Int /\ Received(v) \in Int
  BY <1>0, ReceivedType DEF TypeOK, Row
<1>8. \A v \in Wallets : table'[v].balance - Received(v)' =
         IF v = w THEN table[w].balance ELSE (table[v].balance - Received(v)) + moved[<<w, v>>] - moved[<<v, w>>]
  <2> SUFFICES ASSUME NEW v \in Wallets
               PROVE  table'[v].balance - Received(v)' =
                         IF v = w THEN table[w].balance
                         ELSE (table[v].balance - Received(v)) + moved[<<w, v>>] - moved[<<v, w>>]
    OBVIOUS
  <2>1. CASE v = w
    BY <1>a, <1>3, <1>5, <1>7, <2>1
  <2>2. CASE v # w
    <3>1. moved[<<w, v>>] \in Nat /\ moved[<<v, w>>] \in Nat
      BY <1>a, <1>4
    <3>2. QED
      BY <1>3, <1>6, <1>7, <2>2, <3>1
  <2>3. QED
    BY <2>1, <2>2
<1>9. [v \in Wallets |-> table[v].balance - Received(v)]' =
         [v \in Wallets |-> IF v = w THEN [u \in Wallets |-> table[u].balance][w]
                            ELSE [u \in Wallets |-> table[u].balance - Received(u)][v] + moved[<<w, v>>] - moved[<<v, w>>]]
  BY <1>a, <1>8
<1>10. [v \in Wallets |-> table[v].state]' = [[v \in Wallets |-> table[v].state] EXCEPT ![w] = "gone"]
  BY <1>a, <1>3
<1>11. [v \in Wallets |-> table[v].balance]' = [v \in Wallets |-> table[v].balance]
  BY <1>a, <1>3
<1>12. /\ [q \in Reqs |-> LedgerRequest(req[q])][r].op = "removeWallet"
       /\ [q \in Reqs |-> LedgerRequest(req[q])][r].wallet = w
       /\ [q \in Reqs |-> LedgerRequest(req[q])]' = [[q \in Reqs |-> LedgerRequest(req[q])] EXCEPT ![r] = L!Idle]
  BY <1>2 DEF Seen
<1>13. moved' = [p \in Wallets \X Wallets |-> IF w \in {p[1], p[2]} THEN 0 ELSE moved[p]]
  BY <1>1
<1>14. L!Done(r)
  BY <1>12 DEF L!Done
<1>15. ~L!Referenced(w)
  BY DEF L!Referenced
<1> DEFINE R == [q \in Reqs |-> LedgerRequest(req[q])]
           B == [v \in Wallets |-> table[v].balance]
           E == [v \in Wallets |-> table[v].balance - Received(v)]
           S == [v \in Wallets |-> table[v].state]
<1>16. /\ R[r].op = "removeWallet"
       /\ ~L!Referenced(R[r].wallet)
       /\ S' = [S EXCEPT ![R[r].wallet] = "gone"]
       /\ moved' = [p \in Wallets \X Wallets |-> IF R[r].wallet \in {p[1], p[2]} THEN 0 ELSE moved[p]]
       /\ E' = [v \in Wallets |-> IF v = R[r].wallet THEN B[R[r].wallet]
                                  ELSE E[v] + moved[<<R[r].wallet, v>>] - moved[<<v, R[r].wallet>>]]
       /\ L!Done(r)
       /\ B' = B
  <2>1. R[r].op = "removeWallet" /\ R[r].wallet = w /\ S' = [S EXCEPT ![w] = "gone"] /\ B' = B
        /\ E' = [v \in Wallets |-> IF v = w THEN B[w] ELSE E[v] + moved[<<w, v>>] - moved[<<v, w>>]]
    BY <1>9, <1>10, <1>11, <1>12, Zenon
  <2> HIDE DEF R, S, B, E
  <2>2. /\ R[r].op = "removeWallet" /\ ~L!Referenced(R[r].wallet) /\ L!Done(r) /\ B' = B
        /\ S' = [S EXCEPT ![R[r].wallet] = "gone"]
    BY <1>14, <1>15, <2>1
  <2>3. moved' = [p \in Wallets \X Wallets |-> IF R[r].wallet \in {p[1], p[2]} THEN 0 ELSE moved[p]]
    BY <1>13, <2>1
  <2>4. E' = [v \in Wallets |-> IF v = R[r].wallet THEN B[R[r].wallet]
                               ELSE E[v] + moved[<<R[r].wallet, v>>] - moved[<<v, R[r].wallet>>]]
    BY <2>1
  <2>5. QED
    BY <2>2, <2>3, <2>4
<1>17. QED
  BY <1>16 DEF L!RemoveWalletCommit

\* A step that changes no balance, transfer or request Ledger sees stutters.
LEMMA MapStutter ==
  ASSUME TypeOK, NEW r \in Reqs, \A q \in Reqs \ {r} : req'[q] = req[q],
         LedgerRequest(req'[r]) = LedgerRequest(req[r]),
         \A w \in Wallets : table'[w].state = table[w].state /\ table'[w].balance = table[w].balance,
         moved' = moved
  PROVE  UNCHANGED L!vars
<1>1. \A q \in Reqs : LedgerRequest(req'[q]) = LedgerRequest(req[q])
  <2> SUFFICES ASSUME NEW q \in Reqs PROVE LedgerRequest(req'[q]) = LedgerRequest(req[q])
    OBVIOUS
  <2>1. CASE q = r
    BY <2>1
  <2>2. CASE q # r
    <3>1. req'[q] = req[q]
      BY <2>2
    <3>2. QED
      BY <3>1
  <2>3. QED
    BY <2>1, <2>2
<1>2. QED
  BY <1>1, LedgerStutters

-----------------------------------------------------------------------------
\* The inductive invariant.
IInv ==
    /\ Store /\ RangeOk /\ MovedOk /\ Space
    /\ \A r \in Reqs : SweepOk(r) /\ OrderOk(r) /\ MaxOk(r) /\ TransferOk(r) /\ EditOk(r)

\* Every step of every request keeps the inductive invariant.
LEMMA Inductive ==
  /\ Init => IInv
  /\ IInv /\ [Next]_vars => IInv'
<1>1. ASSUME Init PROVE IInv
  <2>1. Store
    BY <1>1, StoreInit
  <2>2. RangeOk /\ MovedOk
    BY <1>1, MoneyTypes DEF Init, RangeOk, MovedOk, Fits
  <2>3. Space
    <3> SUFFICES ASSUME NEW f \in Wallets, NEW t \in Wallets PROVE moved[<<f, t>>] + Sent(f, t) <= MaxMoved
      BY DEF Space
    <3>1. \A q \in Reqs : Sending(q, f, t) = 0
      BY <1>1 DEF Init, Idle, Sending
    <3>2. [q \in Reqs |-> Sending(q, f, t)] = [q \in Reqs |-> 0]
      BY <3>1
    <3>3. Sent(f, t) = 0
      BY <3>2, FiniteAssumption, SumOfNoughts DEF Sent, FiniteAssumption
    <3>4. moved[<<f, t>>] = 0
      BY <1>1 DEF Init
    <3>5. QED
      BY <3>3, <3>4, MoneyTypes
  <2>4. \A r \in Reqs : req[r] = Idle
    BY <1>1 DEF Init
  <2>5. ASSUME NEW r \in Reqs PROVE SweepOk(r) /\ OrderOk(r) /\ MaxOk(r) /\ TransferOk(r) /\ EditOk(r)
    <3>1. req[r].op = "idle" /\ req[r].pc = "idle"
      BY <2>4 DEF Idle
    <3>2. SweepOk(r) /\ OrderOk(r)
      BY <3>1 DEF SweepOk, Promoting, OrderOk
    <3>3. MaxOk(r) /\ TransferOk(r)
      BY <3>1 DEF MaxOk, TransferOk
    <3>4. EditOk(r)
      BY <3>1 DEF EditOk
    <3>5. QED
      BY <3>2, <3>3, <3>4
  <2>6. QED
    BY <2>1, <2>2, <2>3, <2>5 DEF IInv
<1>2. ASSUME IInv, UNCHANGED vars PROVE IInv'
  <2>1. /\ Live' = Live /\ \A f, t : Sent(f, t)' = Sent(f, t)
        /\ Creates' = Creates /\ Unborn' = Unborn
    BY <1>2 DEF vars, Live, Sent, Sending, Creates, Unborn
  <2>2. Store'
    BY <1>2, <2>1 DEF vars, IInv, Store, TypeOK, Free, Room, Held, RemoveOk
  <2>3. RangeOk' /\ MovedOk' /\ Space'
    BY <1>2, <2>1 DEF vars, IInv, RangeOk, MovedOk, Space
  <2>4. ASSUME NEW r \in Reqs PROVE SweepOk(r)' /\ OrderOk(r)' /\ MaxOk(r)' /\ TransferOk(r)' /\ EditOk(r)'
    <3>1. SweepOk(r) /\ OrderOk(r) /\ MaxOk(r) /\ TransferOk(r) /\ EditOk(r)
      BY <1>2 DEF IInv
    <3>2. SweepOk(r)'
      BY <1>2, <2>1, <3>1 DEF vars, SweepOk, Promoting
    <3>3. OrderOk(r)'
      BY <1>2, <2>1, <3>1 DEF vars, OrderOk, Placed
    <3>4. MaxOk(r)'
      BY <1>2, <2>1, <3>1 DEF vars, MaxOk
    <3>5. TransferOk(r)'
      BY <1>2, <2>1, <3>1 DEF vars, TransferOk
    <3>6. EditOk(r)'
      BY <1>2, <2>1, <3>1 DEF vars, EditOk
    <3>7. QED
      BY <3>2, <3>3, <3>4, <3>5, <3>6
  <2>5. QED
    BY <2>2, <2>3, <2>4 DEF IInv
<1>3. ASSUME IInv, Next PROVE IInv'
  <2>1. PICK r \in Reqs : Turn(r)
    BY <1>3 DEF Next, Turn
  <2>2. Store'
    BY <1>3, <2>1, StoreStep DEF IInv
  <2>3. RangeOk' /\ MovedOk' /\ Space'
    BY <1>3, <2>1, RangeStep, MovedStep, SpaceStep DEF IInv
  <2>4. ASSUME NEW q \in Reqs PROVE SweepOk(q)' /\ OrderOk(q)' /\ MaxOk(q)' /\ TransferOk(q)' /\ EditOk(q)'
    BY <1>3, <2>1, SweepStep, OrderStep, MaxStep, TransferStep, EditStep DEF IInv
  <2>5. QED
    BY <2>2, <2>3, <2>4 DEF IInv
<1>4. QED
  BY <1>1, <1>2, <1>3

\* It is an invariant.
LEMMA AlwaysInductive == Spec => []IInv
  BY Inductive, PTL DEF Spec

\* Rows, locks and requests keep their types; a position is never negative.
THEOREM TypeCorrect == Spec => []TypeOK
<1>1. IInv => TypeOK
  BY DEF IInv, Store
<1>2. QED
  BY <1>1, AlwaysInductive, PTL

\* Positions that are distinct stay so (wallets.service.ts: nextPosition and
\* reorder), except through the two races the code has: a create that another
\* create or a reorder overtook since it read the highest position, and a reorder
\* of a list that misses a wallet.
THEOREM PositionsStayDistinct == Spec => DistinctPositions
<1>1. IInv /\ [Next]_vars =>
        [Distinct => \/ Distinct'
                     \/ \E r \in Reqs : CommitCreate(r) /\ <<r, "max">> \in missed
                     \/ \E r \in Reqs : Commit(r) /\ req[r].op = "reorder" /\ req[r].ids # Live]_vars
  <2> SUFFICES ASSUME IInv, Next, Distinct
               PROVE  \/ Distinct'
                      \/ \E r \in Reqs : CommitCreate(r) /\ <<r, "max">> \in missed
                      \/ \E r \in Reqs : Commit(r) /\ req[r].op = "reorder" /\ req[r].ids # Live
    OBVIOUS
  <2>1. PICK r \in Reqs : Turn(r)
    BY DEF Next, Turn
  <2>2. QED
    BY <2>1, StaysDistinct DEF IInv
<1>2. QED
  BY <1>1, AlwaysInductive, PTL DEF Spec, DistinctPositions

\* The COMMIT of a block that makes a wallet primary leaves it the only primary
\* wallet, whatever was deleted, edited or promoted meanwhile, unless a create
\* committed since the block began (wallets.service.ts, create and update).
THEOREM PrimaryIsTaken == Spec => PrimaryTaken
<1>1. IInv /\ [Next]_vars =>
        [\A r \in Reqs, w \in Wallets :
            Promotes(r, w) /\ <<r, "begin">> \notin missed => \A v \in Live' : table'[v].primary => v = w]_vars
  BY TakesPrimary DEF IInv
<1>2. QED
  BY <1>1, AlwaysInductive, PTL DEF Spec, PrimaryTaken

\* Each step is a step of Ledger, or one that Ledger does not see.
LEMMA AsLedgerStep == ASSUME IInv, IInv', NEW r \in Reqs, Turn(r) PROVE L!Next \/ UNCHANGED L!vars
<1>0. /\ TypeOK /\ TypeOK' /\ Free /\ Room /\ Store /\ Store' /\ RangeOk /\ RangeOk' /\ MovedOk /\ Space
      /\ Held(r) /\ TransferOk(r) /\ EditOk(r) /\ \A q \in Reqs : Held(q)
  BY DEF IInv, Store
<1>1. ASSUME L!Handler(r) PROVE L!Next
  BY <1>1 DEF L!Next
<1>2. \A q \in Reqs \ {r} : req'[q] = req[q]
  BY <1>0, OthersKept
<1>3. RequestFields(req[r]) /\ RequestFields(req'[r])
  BY <1>0, RequestHas DEF TypeOK
<1>4. \A q : q.op \notin {"transfer", "remove"} => LedgerRequest(q) = [op |-> "idle"]
  BY DEF LedgerRequest
<1>5. CASE Enters(r)
  <2>1. EntersAs(r) /\ table' = table /\ moved' = moved
    BY <1>0, <1>5, HowEnters, EnteredType
  <2>2. CASE LedgerRequest(req'[r]) = LedgerRequest(req[r])
    BY <1>0, <1>2, <2>1, <2>2, MapStutter
  <2>3. CASE \E f, t \in Wallets, a \in Amounts : CheckTransfer(r, f, t, a)
    BY <1>0, <1>1, <2>3, MapCheckTransfer, Zenon DEF L!Handler
  <2>4. CASE \E w \in Wallets : CheckRemove(r, w)
    BY <1>0, <1>1, <2>4, MapCheckRemove, Zenon DEF L!Handler
  <2>5. CASE req'[r].op = "idle"
    <3>1. req'[r] = Idle
      BY <1>3, <2>5 DEF RequestFields
    <3>2. CASE req[r].op \in {"transfer", "remove"}
      <4>1. req' = [req EXCEPT ![r] = Idle]
        BY <1>0, <1>2, <3>1 DEF TypeOK
      <4>2. L!Abort(r)
        BY <1>0, <2>1, <3>2, <4>1, MapAbort
      <4>3. QED
        BY <1>1, <4>2, Zenon DEF L!Handler
    <3>3. CASE req[r].op \notin {"transfer", "remove"}
      BY <1>4, <2>2, <2>5, <3>3
    <3>4. QED
      BY <3>2, <3>3
  <2>6. CASE req[r] = Idle /\ req'[r].op \in {"create", "update", "reorder"}
    <3>1. req[r].op = "idle"
      BY <2>6 DEF Idle
    <3>2. QED
      BY <1>4, <2>2, <2>6, <3>1
  <2>7. CASE req[r].op = "create" /\ req'[r].op = "create"
    BY <1>4, <2>2, <2>7
  <2>8. CASE req[r].op = "transfer" /\ req'[r].op = "transfer" /\ req'[r].from = req[r].from
             /\ req'[r].to = req[r].to /\ req'[r].amount = req[r].amount
    BY <2>2, <2>8 DEF LedgerRequest
  <2>9. QED
    <3>1. \/ req'[r].op \in {"idle", "transfer", "remove"}
             /\ (req'[r].op = "transfer" => \E f, t \in Wallets, a \in Amounts : CheckTransfer(r, f, t, a))
             /\ (req'[r].op = "remove" => \E w \in Wallets : CheckRemove(r, w))
          \/ req[r].op = "transfer" /\ req'[r].op = "transfer" /\ req'[r].from = req[r].from
             /\ req'[r].to = req[r].to /\ req'[r].amount = req[r].amount
          \/ req[r] = Idle /\ req'[r].op \in {"create", "update", "reorder"}
          \/ req[r].op = "create" /\ req'[r].op = "create"
      <4>1. \A x : x \in {"create", "update", "reorder"} <=> x = "create" \/ x = "update" \/ x = "reorder"
        OBVIOUS
      <4>2. QED
        BY <2>1, <4>1, Zenon DEF EntersAs
    <3>2. QED
      BY <2>3, <2>4, <2>5, <2>6, <2>7, <2>8, <3>1
<1>6. CASE Step(r)
  <2>1. /\ req'[r].op = req[r].op
        /\ req[r].op = "transfer" => req'[r].from = req[r].from /\ req'[r].to = req[r].to /\ req'[r].amount = req[r].amount
    BY <1>0, <1>6, SameColumn
  <2>2. req[r].op # "remove"
    BY <1>0, <1>3, <1>6, StepFacts DEF RequestFields
  <2>3. LedgerRequest(req'[r]) = LedgerRequest(req[r])
    BY <2>1, <2>2 DEF LedgerRequest
  <2>4. table' = table /\ moved' = moved
    BY <1>0, <1>6, StepFacts
  <2>5. QED
    BY <1>0, <1>2, <2>3, <2>4, MapStutter
<1>7. CASE Rollback(r)
  <2>1. req' = [req EXCEPT ![r] = Idle] /\ table' = table /\ moved' = moved
    BY <1>0, <1>7, RollbackFacts
  <2>2. CASE req[r].op \in {"transfer", "remove"}
    <3>1. L!Abort(r)
      BY <1>0, <2>1, <2>2, MapAbort
    <3>2. QED
      BY <1>1, <3>1, Zenon DEF L!Handler
  <2>3. CASE req[r].op \notin {"transfer", "remove"}
    <3>1. req'[r].op \notin {"transfer", "remove"}
      BY <1>0, <2>1 DEF Idle, TypeOK
    <3>2. LedgerRequest(req'[r]) = LedgerRequest(req[r])
      BY <1>4, <2>3, <3>1
    <3>3. QED
      BY <1>0, <1>2, <2>1, <3>2, MapStutter
  <2>4. QED
    BY <2>2, <2>3
<1>8. CASE Commit(r)
  <2>1. /\ req[r].op \in {"transfer", "update", "reorder"} /\ req' = [req EXCEPT ![r] = Idle]
        /\ \A w \in Wallets : table'[w] = IF lock[w] = r THEN draft[w] ELSE table[w]
    BY <1>0, <1>8, CommitFacts
  <2>2. CASE req[r].op = "transfer"
    <3>1. L!TransferCommit(r)
      BY <1>0, <1>8, <2>2, MapTransfer
    <3>2. QED
      BY <1>1, <3>1, Zenon DEF L!Handler
  <2>3. CASE req[r].op = "update" /\ req[r].column = "balance"
    <3>1. req[r].wallet \in Wallets /\ req[r].value \in Edits
      BY <1>3, <2>3 DEF RequestFields
    <3>2. PICK w \in Wallets, b \in Edits : req[r].wallet = w /\ req[r].value = b
      BY <3>1
    <3>3. L!EditBalance(r, w, b) \/ UNCHANGED L!vars
      BY <1>0, <1>8, <2>3, <3>2, MapEdit
    <3>4. b \in Openings \cup Edits
      OBVIOUS
    <3>5. L!EditBalance(r, w, b) => L!Handler(r)
      BY <3>4, Zenon DEF L!Handler
    <3>6. QED
      BY <1>1, <3>3, <3>5
  <2>4. CASE req[r].op # "transfer" /\ ~(req[r].op = "update" /\ req[r].column = "balance")
    <3>1. Column(req[r]) \notin {"credit", "balance"}
      BY <1>3, <2>1, <2>4 DEF Column, RequestFields
    <3>2. \A w \in Wallets : table'[w].state = table[w].state /\ table'[w].balance = table[w].balance
      BY <1>0, <2>1, <3>1 DEF Held
    <3>3. req'[r].op = "idle" /\ req[r].op \notin {"transfer", "remove"}
      BY <1>0, <2>1, <2>4 DEF Idle, TypeOK
    <3>4. LedgerRequest(req'[r]) = LedgerRequest(req[r])
      BY <1>4, <3>3
    <3>5. moved' = moved
      BY <1>8, <2>4 DEF Commit
    <3>6. QED
      BY <1>0, <1>2, <3>2, <3>4, <3>5, MapStutter
  <2>5. QED
    BY <2>2, <2>3, <2>4
<1>9. CASE CommitCreate(r)
  <2>1. PICK w \in Wallets, b \in Openings : L!CreateWallet(r, w, b)
    BY <1>0, <1>9, MapCreate
  <2>2. b \in Openings \cup Edits
    OBVIOUS
  <2>3. QED
    BY <1>1, <2>1, <2>2, Zenon DEF L!Handler
<1>10. CASE DeleteWallet(r)
  <2>1. L!RemoveWalletCommit(r)
    BY <1>0, <1>10, MapRemove
  <2>2. QED
    BY <1>1, <2>1, Zenon DEF L!Handler
<1>11. QED
  BY <1>5, <1>6, <1>7, <1>8, <1>9, <1>10, TurnCases

\* Statement by statement, with locks, waits, deadlocks and rollbacks, balances
\* and transfers behave as in Ledger, where each db.transaction is one step: what
\* is proved of Ledger's single steps holds of the interleaved statements.
THEOREM BlocksAreSteps == Spec => AsLedger
<1>1. Init => L!Init
  BY AsLedgerInit
<1>2. IInv /\ IInv' /\ [Next]_vars => [L!Next]_L!vars
  <2>1. ASSUME IInv, IInv', Next PROVE L!Next \/ UNCHANGED L!vars
    <3>1. PICK r \in Reqs : Turn(r)
      BY <2>1 DEF Next, Turn
    <3>2. QED
      BY <2>1, <3>1, AsLedgerStep
  <2>2. ASSUME UNCHANGED vars PROVE UNCHANGED L!vars
    BY <2>2, LedgerStutters DEF vars
  <2>3. QED
    BY <2>1, <2>2
<1>3. QED
  BY <1>1, <1>2, AlwaysInductive, PTL DEF Spec, AsLedger, L!Spec

=============================================================================
