---------------------------- MODULE LedgerProofs ----------------------------
(***************************************************************************)
(* Proofs about Ledger, LedgerRaces and LedgerDrift for every set of       *)
(* users, wallets, devices, amounts and patches.                           *)
(***************************************************************************)
EXTENDS LedgerRaces, LedgerDrift, SumProofs, TLAPS

-----------------------------------------------------------------------------
\* The wallet of a row is a wallet, its user a user, its amount positive.
LEMMA AmountType == \A a \in Amounts : a \in Nat /\ a > 0
  BY AmountAssumption DEF AmountAssumption

LEMMA RowFields == ASSUME NEW row \in Row
                   PROVE  row.user \in Users /\ row.wallet \in Wallets /\ row.amount \in Amounts
  BY DEF Row

\* The effect of a row on a balance is an integer.
LEMMA SignedAmountType ==
  ASSUME NEW row \in Row PROVE SignedAmount(row) \in Int /\ -SignedAmount(row) \in Int
<1>1. row.amount \in Int
  BY RowFields, AmountType
<1>2. QED
  BY <1>1 DEF SignedAmount

\* Applying a dto to a row gives a row of the same user, on the dto's wallet if
\* it names one and on the row's own otherwise.
LEMMA PatchedRow ==
  ASSUME NEW row \in Row, NEW p \in Patch
  PROVE  /\ Patched(row, p) \in Row
         /\ Patched(row, p).user = row.user
         /\ Patched(row, p).wallet = IF p.wallet = Keep THEN row.wallet ELSE p.wallet
  BY DEF Row, Patch, Patched

\* ApplyToWallet is a function on balances that moves at most the named wallet.
LEMMA ApplyType ==
  ASSUME NEW b \in [Wallets -> Int], NEW u, NEW w \in Wallets, NEW d \in Int
  PROVE  /\ ApplyToWallet(b, u, w, d) \in [Wallets -> Int]
         /\ \A v \in Wallets : ApplyToWallet(b, u, w, d)[v] =
                IF v = w /\ Owned(u, w) THEN b[v] + d ELSE b[v]
  BY DEF ApplyToWallet

\* What a pending request holds, by handler.
LEMMA RequestFields ==
  ASSUME TypeOK, NEW r \in Reqs
  PROVE  /\ req[r].op = "create" => req[r].row \in Row
         /\ req[r].op = "update" => req[r].tx \in TxIds /\ req[r].old \in Row /\ req[r].patch \in Patch
         /\ req[r].op = "remove" => req[r].tx \in TxIds /\ req[r].old \in Row
         /\ req[r].op = "transfer" => req[r].from \in Wallets /\ req[r].to \in Wallets /\ req[r].amount \in Amounts
         /\ req[r].op = "removeWallet" => req[r].wallet \in Wallets
  BY DEF TypeOK, Request

-----------------------------------------------------------------------------
\* Every variable keeps its type.
LEMMA TypeStep == TypeOK /\ [Next]_vars => TypeOK'
<1> SUFFICES ASSUME TypeOK, [Next]_vars PROVE TypeOK'
  OBVIOUS
<1> USE DEF TypeOK
<1>0. Idle \in Request
  BY DEF Idle, Request
<1>1. ASSUME NEW r \in Reqs, NEW w \in Wallets, NEW b \in Openings,
             CreateWallet(r, w, b) \/ EditBalance(r, w, b)
      PROVE  TypeOK'
  <2>1. b \in Int
    BY AmountAssumption DEF AmountAssumption
  <2>2. QED
    BY <1>1, <2>1 DEF CreateWallet, EditBalance
<1>2. ASSUME NEW r \in Reqs, NEW row \in Row, CreateCheck(r, row) PROVE TypeOK'
  BY <1>2 DEF CreateCheck, Request
<1>3. ASSUME NEW row \in Row, NEW t \in TxIds, Insert(row, t)
      PROVE  /\ wallet' \in [Wallets -> {"unborn", "live", "gone"}]
             /\ balance' \in [Wallets -> Int] /\ base' \in [Wallets -> Int]
             /\ rows' \in [TxIds -> Row \cup {Unissued, Deleted}]
             /\ moved' \in [Wallets \X Wallets -> Nat]
             /\ ruled' \in SUBSET Wallets /\ due' \in SUBSET Wallets
  BY <1>3, SignedAmountType, RowFields, ApplyType DEF Insert
<1>4. ASSUME NEW r \in Reqs, NEW t \in TxIds, CreateCommit(r, t) PROVE TypeOK'
  BY <1>0, <1>3, <1>4, RequestFields DEF CreateCommit, Done
<1>5. ASSUME NEW r \in Reqs, NEW t \in TxIds, NEW p \in Patches, UpdateRead(r, t, p) PROVE TypeOK'
  BY <1>5, PatchAssumption DEF PatchAssumption, UpdateRead, Visible, Request
<1>6. ASSUME NEW r \in Reqs, UpdateCommit(r) PROVE TypeOK'
  <2> DEFINE t    == req[r].tx
             old  == req[r].old
             new  == Patched(old, req[r].patch)
             back == ApplyToWallet(balance, ReqUser[r], old.wallet, -SignedAmount(old))
  <2>1. t \in TxIds /\ old \in Row /\ req[r].patch \in Patch /\ new \in Row
    BY <1>6, RequestFields, PatchedRow DEF UpdateCommit
  <2>2. back \in [Wallets -> Int]
    BY <2>1, ApplyType, SignedAmountType, RowFields
  <2>3. ApplyToWallet(back, ReqUser[r], new.wallet, SignedAmount(new)) \in [Wallets -> Int]
    BY <2>1, <2>2, ApplyType, SignedAmountType, RowFields
  <2>4. balance' \in [Wallets -> Int]
    BY <1>6, <2>3 DEF UpdateCommit
  <2>5. rows' \in [TxIds -> Row \cup {Unissued, Deleted}]
    BY <1>6, <2>1, PatchedRow DEF UpdateCommit
  <2>6. QED
    BY <1>0, <1>6, <2>4, <2>5 DEF UpdateCommit, Done
<1>7. ASSUME NEW r \in Reqs, NEW t \in TxIds, RemoveRead(r, t) PROVE TypeOK'
  BY <1>7 DEF RemoveRead, Visible, Request
<1>8. ASSUME NEW r \in Reqs, RemoveCommit(r) PROVE TypeOK'
  <2>1. req[r].tx \in TxIds /\ req[r].old \in Row
    BY <1>8, RequestFields DEF RemoveCommit
  <2>2. balance' \in [Wallets -> Int]
    BY <1>8, <2>1, ApplyType, SignedAmountType, RowFields DEF RemoveCommit
  <2>3. QED
    BY <1>0, <1>8, <2>1, <2>2 DEF RemoveCommit, Done
<1>9. ASSUME NEW r \in Reqs, NEW f \in Wallets, NEW t \in Wallets, NEW a \in Amounts,
             TransferCheck(r, f, t, a)
      PROVE  TypeOK'
  BY <1>9 DEF TransferCheck, Request
<1>10. ASSUME NEW r \in Reqs, TransferCommit(r) PROVE TypeOK'
  <2>1. req[r].from \in Wallets /\ req[r].to \in Wallets /\ req[r].amount \in Nat
    BY <1>10, RequestFields, AmountType DEF TransferCommit
  <2>2. QED
    BY <1>0, <1>10, <2>1 DEF TransferCommit, Done
<1>11. ASSUME NEW r \in Reqs, NEW w \in Wallets,
              RemoveWalletCheck(r, w) \/ AddRule(r, w) \/ DropRule(r, w)
       PROVE  TypeOK'
  BY <1>11 DEF RemoveWalletCheck, AddRule, DropRule, Request
<1>12. ASSUME NEW r \in Reqs, RemoveWalletCommit(r) PROVE TypeOK'
  BY <1>0, <1>12, RequestFields DEF RemoveWalletCommit, Done
<1>13. ASSUME NEW r \in Reqs, Abort(r) PROVE TypeOK'
  BY <1>0, <1>13 DEF Abort, Done
<1>14. ASSUME SelectDue PROVE TypeOK'
  BY <1>14 DEF SelectDue
<1>15. ASSUME NEW t \in TxIds, NEW row \in Row, Post(t, row) PROVE TypeOK'
  BY <1>3, <1>15 DEF Post
<1>16. CASE UNCHANGED vars
  BY <1>16 DEF vars
<1>17. QED
  BY <1>1, <1>2, <1>4, <1>5, <1>6, <1>7, <1>8, <1>9, <1>10, <1>11, <1>12, <1>13,
     <1>14, <1>15, <1>16 DEF Next, Handler

\* In every reachable state every variable has its type.
THEOREM TypeCorrect == Spec => []TypeOK
<1>1. Init => TypeOK
  BY DEF Init, TypeOK, Idle, Request
<1>2. QED
  BY <1>1, TypeStep, PTL DEF Spec

-----------------------------------------------------------------------------
(***************************************************************************)
(* What the reads of a request guarantee until its commit: the rows and    *)
(* wallets it holds are its own user's, and the row it is about to write,  *)
(* if it still exists, is too.                                             *)
(***************************************************************************)
HeldRowIsOwn(r) ==
    /\ req[r].old.user = ReqUser[r]
    /\ Owner[req[r].old.wallet] = ReqUser[r]
    /\ rows[req[r].tx] # Unissued
    /\ rows[req[r].tx] \in Row => rows[req[r].tx].user = ReqUser[r]

PendingIsOwn(r) ==
    /\ req[r].op = "create" =>
          req[r].row.user = ReqUser[r] /\ Owner[req[r].row.wallet] = ReqUser[r]
    /\ req[r].op \in {"update", "remove"} => HeldRowIsOwn(r)
    /\ req[r].op = "update" /\ req[r].patch.wallet # Keep =>
          Owner[req[r].patch.wallet] = ReqUser[r]
    /\ req[r].op = "transfer" =>
          Owner[req[r].from] = ReqUser[r] /\ Owner[req[r].to] = ReqUser[r]
    /\ req[r].op = "removeWallet" => Owner[req[r].wallet] = ReqUser[r]

PendingOwn == \A r \in Reqs : PendingIsOwn(r)

OwnInv == TypeOK /\ PendingOwn /\ RowsInOwnWallet

\* How a step changes one ledger row: it is inserted under a fresh identifier,
\* deleted, or stays the same user's row; an issued identifier stays issued.
RowStep(t) ==
    \/ rows'[t] = rows[t]
    \/ rows[t] = Unissued /\ rows'[t] \in Row
    \/ rows[t] \in Row /\ rows'[t] = Deleted
    \/ rows[t] \in Row /\ rows'[t] \in Row /\ rows'[t].user = rows[t].user

LEMMA RowsStep == TypeOK /\ [Next]_vars => \A t \in TxIds : RowStep(t)
<1> SUFFICES ASSUME TypeOK, [Next]_vars, NEW t \in TxIds PROVE RowStep(t)
  OBVIOUS
<1>0. ASSUME rows' = rows PROVE RowStep(t)
  BY <1>0 DEF RowStep
<1>1. ASSUME NEW row \in Row, NEW s \in TxIds, Insert(row, s) PROVE RowStep(t)
  BY <1>1 DEF Insert, RowStep, TypeOK
<1>2. ASSUME NEW r \in Reqs, UpdateCommit(r) PROVE RowStep(t)
  <2>1. req[r].tx \in TxIds /\ req[r].patch \in Patch
    BY <1>2, RequestFields DEF UpdateCommit
  <2>2. rows' = [rows EXCEPT ![req[r].tx] = IF @ \in Row THEN Patched(@, req[r].patch) ELSE @]
    BY <1>2 DEF UpdateCommit
  <2>3. CASE t # req[r].tx \/ rows[t] \notin Row
    BY <2>1, <2>2, <2>3 DEF TypeOK, RowStep
  <2>4. CASE t = req[r].tx /\ rows[t] \in Row
    <3>1. rows'[t] = Patched(rows[t], req[r].patch)
      BY <2>1, <2>2, <2>4 DEF TypeOK
    <3>2. QED
      BY <2>1, <2>4, <3>1, PatchedRow DEF RowStep
  <2>5. QED
    BY <2>3, <2>4
<1>3. ASSUME NEW r \in Reqs, RemoveCommit(r) PROVE RowStep(t)
  BY <1>3, RequestFields DEF RemoveCommit, RowStep, TypeOK
<1>4. ASSUME NEW r \in Reqs, NEW w \in Wallets, NEW b \in Openings,
             CreateWallet(r, w, b) \/ EditBalance(r, w, b)
      PROVE  rows' = rows
  BY <1>4 DEF CreateWallet, EditBalance
<1>5. ASSUME NEW r \in Reqs, NEW row, CreateCheck(r, row) PROVE rows' = rows
  BY <1>5 DEF CreateCheck
<1>6. ASSUME NEW r \in Reqs, NEW s, NEW p, UpdateRead(r, s, p) PROVE rows' = rows
  BY <1>6 DEF UpdateRead
<1>7. ASSUME NEW r \in Reqs, NEW s, RemoveRead(r, s) PROVE rows' = rows
  BY <1>7 DEF RemoveRead
<1>8. ASSUME NEW r \in Reqs, NEW f, NEW g, NEW a, TransferCheck(r, f, g, a) PROVE rows' = rows
  BY <1>8 DEF TransferCheck
<1>9. ASSUME NEW r \in Reqs, NEW w, RemoveWalletCheck(r, w) \/ AddRule(r, w) \/ DropRule(r, w)
      PROVE  rows' = rows
  BY <1>9 DEF RemoveWalletCheck, AddRule, DropRule
<1>10. ASSUME NEW r \in Reqs, TransferCommit(r) \/ RemoveWalletCommit(r) \/ Abort(r)
       PROVE  rows' = rows
  BY <1>10 DEF TransferCommit, RemoveWalletCommit, Abort
<1>11. ASSUME SelectDue PROVE rows' = rows
  BY <1>11 DEF SelectDue
<1>12. ASSUME NEW r \in Reqs, NEW s \in TxIds, CreateCommit(r, s) PROVE RowStep(t)
  BY <1>1, <1>12, RequestFields DEF CreateCommit
<1>13. ASSUME NEW s \in TxIds, NEW row \in Row, Post(s, row) PROVE RowStep(t)
  BY <1>1, <1>13 DEF Post
<1>14. CASE UNCHANGED vars
  BY <1>0, <1>14 DEF vars
<1>15. QED
  BY <1>0, <1>2, <1>3, <1>4, <1>5, <1>6, <1>7, <1>8, <1>9, <1>10, <1>11, <1>12, <1>13,
     <1>14 DEF Next, Handler

\* The steps in which request r reads, with what they read.
Reads(r) ==
    \/ \E row \in Row : CreateCheck(r, row)
    \/ \E t \in TxIds, p \in Patches : UpdateRead(r, t, p)
    \/ \E t \in TxIds : RemoveRead(r, t)
    \/ \E f, t \in Wallets, a \in Amounts : TransferCheck(r, f, t, a)
    \/ \E w \in Wallets : RemoveWalletCheck(r, w)

\* A request keeps what it holds until it ends, and holds nothing new but what
\* it reads itself.
LEMMA ReqStep ==
  TypeOK /\ [Next]_vars => \A r \in Reqs : req'[r] = req[r] \/ req'[r] = Idle \/ Reads(r)
<1> SUFFICES ASSUME TypeOK, [Next]_vars, NEW r \in Reqs
             PROVE  req'[r] = req[r] \/ req'[r] = Idle \/ Reads(r)
  OBVIOUS
<1>0. ASSUME req' = req PROVE req'[r] = req[r]
  BY <1>0
<1>1. ASSUME NEW q \in Reqs, Done(q) PROVE req'[r] = req[r] \/ req'[r] = Idle
  BY <1>1 DEF Done, TypeOK
<1>2. ASSUME NEW q \in Reqs, Reads(q) PROVE req'[r] = req[r] \/ Reads(r)
  <2>1. CASE q = r
    BY <1>2, <2>1
  <2>2. CASE q # r
    <3>1. \E x : req' = [req EXCEPT ![q] = x]
      BY <1>2 DEF Reads, CreateCheck, UpdateRead, RemoveRead, TransferCheck, RemoveWalletCheck
    <3>2. QED
      BY <2>2, <3>1 DEF TypeOK
  <2>3. QED
    BY <2>1, <2>2
<1>3. ASSUME NEW q \in Reqs, NEW w \in Wallets, NEW b \in Openings,
             CreateWallet(q, w, b) \/ EditBalance(q, w, b)
      PROVE  req' = req
  BY <1>3 DEF CreateWallet, EditBalance
<1>4. ASSUME NEW q \in Reqs, NEW w \in Wallets, AddRule(q, w) \/ DropRule(q, w) PROVE req' = req
  BY <1>4 DEF AddRule, DropRule
<1>5. ASSUME SelectDue \/ (\E t \in TxIds, row \in Row : Post(t, row)) PROVE req' = req
  BY <1>5 DEF SelectDue, Post
<1>6. ASSUME NEW q \in Reqs,
             (\E t \in TxIds : CreateCommit(q, t)) \/ UpdateCommit(q) \/ RemoveCommit(q)
             \/ TransferCommit(q) \/ RemoveWalletCommit(q) \/ Abort(q)
      PROVE  Done(q)
  BY <1>6 DEF CreateCommit, UpdateCommit, RemoveCommit, TransferCommit, RemoveWalletCommit, Abort
<1>7. CASE UNCHANGED vars
  BY <1>7 DEF vars
<1>8. ASSUME NEW q \in Reqs, Handler(q) PROVE req' = req \/ Done(q) \/ Reads(q)
  BY <1>3, <1>4, <1>6, <1>8 DEF Handler, Reads
<1>9. QED
  BY <1>0, <1>1, <1>2, <1>5, <1>7, <1>8 DEF Next

\* What a request reads is its own user's.
LEMMA ReadsOwn ==
  ASSUME TypeOK, RowsInOwnWallet, NEW r \in Reqs, Reads(r)
  PROVE  PendingIsOwn(r)'
<1>1. ASSUME NEW row \in Row, CreateCheck(r, row) PROVE PendingIsOwn(r)'
  <2>1. req'[r] = [op |-> "create", row |-> row] /\ row.user = ReqUser[r] /\ Owner[row.wallet] = ReqUser[r]
    BY <1>1 DEF CreateCheck, Owned, TypeOK
  <2>2. QED
    BY <2>1 DEF PendingIsOwn
<1>2. ASSUME NEW t \in TxIds, NEW p \in Patches, UpdateRead(r, t, p) PROVE PendingIsOwn(r)'
  <2>1. req'[r] = [op |-> "update", tx |-> t, old |-> rows[t], patch |-> p] /\ rows' = rows
    BY <1>2 DEF UpdateRead, TypeOK
  <2>2. rows[t] \in Row /\ rows[t].user = ReqUser[r] /\ Owner[rows[t].wallet] = ReqUser[r]
    BY <1>2 DEF UpdateRead, Visible, RowsInOwnWallet, Owned
  <2>3. p.wallet # Keep => Owner[p.wallet] = ReqUser[r]
    BY <1>2 DEF UpdateRead, Owned
  <2>4. QED
    BY <2>1, <2>2, <2>3, NoRowAssumption DEF NoRowAssumption, PendingIsOwn, HeldRowIsOwn
<1>3. ASSUME NEW t \in TxIds, RemoveRead(r, t) PROVE PendingIsOwn(r)'
  <2>1. req'[r] = [op |-> "remove", tx |-> t, old |-> rows[t]] /\ rows' = rows
    BY <1>3 DEF RemoveRead, TypeOK
  <2>2. rows[t] \in Row /\ rows[t].user = ReqUser[r] /\ Owner[rows[t].wallet] = ReqUser[r]
    BY <1>3 DEF RemoveRead, Visible, RowsInOwnWallet, Owned
  <2>3. QED
    BY <2>1, <2>2, NoRowAssumption DEF NoRowAssumption, PendingIsOwn, HeldRowIsOwn
<1>4. ASSUME NEW f \in Wallets, NEW t \in Wallets, NEW a \in Amounts, TransferCheck(r, f, t, a)
      PROVE  PendingIsOwn(r)'
  <2>1. /\ req'[r] = [op |-> "transfer", from |-> f, to |-> t, amount |-> a]
        /\ Owner[f] = ReqUser[r] /\ Owner[t] = ReqUser[r]
    BY <1>4 DEF TransferCheck, Owned, TypeOK
  <2>2. QED
    BY <2>1 DEF PendingIsOwn
<1>5. ASSUME NEW w \in Wallets, RemoveWalletCheck(r, w) PROVE PendingIsOwn(r)'
  <2>1. req'[r] = [op |-> "removeWallet", wallet |-> w] /\ Owner[w] = ReqUser[r]
    BY <1>5 DEF RemoveWalletCheck, Owned, TypeOK
  <2>2. QED
    BY <2>1 DEF PendingIsOwn
<1>6. QED
  BY <1>1, <1>2, <1>3, <1>4, <1>5 DEF Reads

LEMMA PendingStep == OwnInv /\ [Next]_vars => PendingOwn'
<1> SUFFICES ASSUME OwnInv, [Next]_vars, NEW r \in Reqs PROVE PendingIsOwn(r)'
  BY DEF PendingOwn
<1> USE DEF OwnInv
<1>1. CASE req'[r] = req[r]
  <2>1. PendingIsOwn(r)
    BY DEF PendingOwn
  <2>2. ASSUME req[r].op \in {"update", "remove"} PROVE HeldRowIsOwn(r)'
    <3>1. HeldRowIsOwn(r) /\ req[r].tx \in TxIds
      BY <2>1, <2>2, RequestFields DEF PendingIsOwn
    <3>2. RowStep(req[r].tx)
      BY <3>1, RowsStep
    <3>3. QED
      BY <1>1, <3>1, <3>2, NoRowAssumption DEF NoRowAssumption, HeldRowIsOwn, RowStep
  <2>3. QED
    BY <1>1, <2>1, <2>2 DEF PendingIsOwn
<1>2. CASE req'[r] = Idle
  BY <1>2 DEF PendingIsOwn, Idle
<1>3. CASE Reads(r)
  BY <1>3, ReadsOwn
<1>4. QED
  BY <1>1, <1>2, <1>3, ReqStep

-----------------------------------------------------------------------------
\* A wallet that is live stays live unless a removal of it commits, which the
\* foreign keys allow only when no row is on it.
LEMMA WalletStep ==
  TypeOK /\ [Next]_vars => \A w \in Wallets : wallet[w] = "live" => wallet'[w] = "live" \/ (~Referenced(w) /\ rows' = rows)
<1> SUFFICES ASSUME TypeOK, [Next]_vars, NEW w \in Wallets, wallet[w] = "live"
             PROVE  wallet'[w] = "live" \/ (~Referenced(w) /\ rows' = rows)
  OBVIOUS
<1>0. ASSUME wallet' = wallet PROVE wallet'[w] = "live"
  BY <1>0
<1>1. ASSUME NEW r \in Reqs, NEW v \in Wallets, NEW b \in Openings, CreateWallet(r, v, b)
      PROVE  wallet'[w] = "live"
  BY <1>1 DEF CreateWallet, TypeOK
<1>2. ASSUME NEW r \in Reqs, NEW v \in Wallets, NEW b \in Openings, EditBalance(r, v, b)
      PROVE  wallet' = wallet
  BY <1>2 DEF EditBalance
<1>3. ASSUME NEW r \in Reqs, NEW v \in Wallets, AddRule(r, v) \/ DropRule(r, v) PROVE wallet' = wallet
  BY <1>3 DEF AddRule, DropRule
<1>4. ASSUME NEW r \in Reqs, Reads(r) PROVE wallet' = wallet
  BY <1>4 DEF Reads, CreateCheck, UpdateRead, RemoveRead, TransferCheck, RemoveWalletCheck
<1>5. ASSUME NEW r \in Reqs, RemoveWalletCommit(r)
      PROVE  wallet'[w] = "live" \/ (~Referenced(w) /\ rows' = rows)
  BY <1>5 DEF RemoveWalletCommit, TypeOK
<1>6. ASSUME NEW r \in Reqs,
             (\E t \in TxIds : CreateCommit(r, t)) \/ UpdateCommit(r) \/ RemoveCommit(r)
             \/ TransferCommit(r) \/ Abort(r)
      PROVE  wallet' = wallet
  BY <1>6 DEF CreateCommit, Insert, UpdateCommit, RemoveCommit, TransferCommit, Abort
<1>7. ASSUME SelectDue \/ (\E t \in TxIds, row \in Row : Post(t, row)) PROVE wallet' = wallet
  BY <1>7 DEF SelectDue, Post, Insert
<1>8. CASE UNCHANGED vars
  BY <1>8 DEF vars
<1>9. QED
  BY <1>0, <1>1, <1>2, <1>3, <1>4, <1>5, <1>6, <1>7, <1>8 DEF Next, Handler, Reads

\* A row a step writes is on a live wallet of its user.
LEMMA WrittenRow ==
  ASSUME OwnInv, [Next]_vars, NEW t \in TxIds, rows'[t] # rows[t], rows'[t] \in Row
  PROVE  Owned(rows'[t].user, rows'[t].wallet)
<1> USE DEF OwnInv
<1>1. ASSUME NEW r \in Reqs, NEW s \in TxIds, CreateCommit(r, s) PROVE Owned(rows'[t].user, rows'[t].wallet)
  <2>1. req[r].row \in Row /\ PendingIsOwn(r) /\ req[r].op = "create"
    BY <1>1, RequestFields DEF PendingOwn, CreateCommit
  <2>2. rows'[t] = req[r].row /\ wallet[req[r].row.wallet] = "live"
    BY <1>1 DEF CreateCommit, Insert, TypeOK
  <2>3. QED
    BY <2>1, <2>2 DEF PendingIsOwn, Owned
<1>2. ASSUME NEW s \in TxIds, NEW row \in Row, Post(s, row) PROVE Owned(rows'[t].user, rows'[t].wallet)
  BY <1>2 DEF Post, Insert, TypeOK, Owned
<1>3. ASSUME NEW r \in Reqs, UpdateCommit(r) PROVE Owned(rows'[t].user, rows'[t].wallet)
  <2>1. /\ req[r].tx \in TxIds /\ req[r].patch \in Patch /\ req[r].op = "update"
        /\ PendingIsOwn(r) /\ HeldRowIsOwn(r)
    BY <1>3, RequestFields DEF UpdateCommit, PendingOwn, PendingIsOwn
  <2>2. t = req[r].tx /\ rows[t] \in Row /\ rows'[t] = Patched(rows[t], req[r].patch)
    BY <1>3, <2>1 DEF UpdateCommit, TypeOK
  <2>3. wallet[rows'[t].wallet] = "live"
    BY <1>3, <2>2 DEF UpdateCommit
  <2>4. rows'[t].user = ReqUser[r] /\ rows[t].user = ReqUser[r]
    BY <2>1, <2>2, PatchedRow DEF HeldRowIsOwn
  <2>5. Owner[rows'[t].wallet] = ReqUser[r]
    <3>1. CASE req[r].patch.wallet = Keep
      BY <2>1, <2>2, <2>4, <3>1, PatchedRow DEF RowsInOwnWallet, Owned
    <3>2. CASE req[r].patch.wallet # Keep
      BY <2>1, <2>2, <3>2, PatchedRow DEF PendingIsOwn
    <3>3. QED
      BY <3>1, <3>2
  <2>6. QED
    BY <2>3, <2>4, <2>5 DEF Owned
<1>4. ASSUME NEW r \in Reqs, RemoveCommit(r) PROVE FALSE
  BY <1>4, RequestFields, NoRowAssumption DEF NoRowAssumption, RemoveCommit, TypeOK
<1>5. ASSUME rows' = rows PROVE FALSE
  BY <1>5
<1>6. ASSUME NEW r \in Reqs, NEW w \in Wallets, NEW b \in Openings,
             CreateWallet(r, w, b) \/ EditBalance(r, w, b) \/ AddRule(r, w) \/ DropRule(r, w)
      PROVE  rows' = rows
  BY <1>6 DEF CreateWallet, EditBalance, AddRule, DropRule
<1>7. ASSUME NEW r \in Reqs, Reads(r) PROVE rows' = rows
  BY <1>7 DEF Reads, CreateCheck, UpdateRead, RemoveRead, TransferCheck, RemoveWalletCheck
<1>8. ASSUME NEW r \in Reqs, TransferCommit(r) \/ RemoveWalletCommit(r) \/ Abort(r) PROVE rows' = rows
  BY <1>8 DEF TransferCommit, RemoveWalletCommit, Abort
<1>9. CASE SelectDue \/ UNCHANGED vars
  BY <1>5, <1>9 DEF SelectDue, vars
<1>10. ASSUME NEW r \in Reqs, Handler(r) PROVE Owned(rows'[t].user, rows'[t].wallet)
  <2>1. CASE Reads(r)
    BY <2>1, <1>5, <1>7
  <2>2. CASE \E w \in Wallets, b \in Openings : CreateWallet(r, w, b) \/ EditBalance(r, w, b)
    BY <2>2, <1>5, <1>6
  <2>3. CASE (\E w \in Wallets : AddRule(r, w) \/ DropRule(r, w))
    BY <2>3, <1>5 DEF AddRule, DropRule
  <2>4. QED
    BY <1>1, <1>3, <1>4, <1>5, <1>8, <1>10, <2>1, <2>2, <2>3 DEF Handler, Reads
<1>11. QED
  BY <1>2, <1>9, <1>10 DEF Next

LEMMA OwnStep == OwnInv /\ [Next]_vars => OwnInv'
<1> SUFFICES ASSUME OwnInv, [Next]_vars PROVE OwnInv'
  OBVIOUS
<1>1. TypeOK' /\ PendingOwn'
  BY TypeStep, PendingStep DEF OwnInv
<1>2. ASSUME NEW t \in TxIds, rows'[t] \in Row
      PROVE  wallet'[rows'[t].wallet] = "live" /\ Owner[rows'[t].wallet] = rows'[t].user
  <2> DEFINE w == rows'[t].wallet
  <2>1. w \in Wallets
    BY <1>2, RowFields
  <2>2. Owned(rows'[t].user, w)
    BY <1>2, WrittenRow DEF OwnInv, RowsInOwnWallet
  <2>3. wallet'[w] = "live" \/ (~Referenced(w) /\ rows' = rows)
    BY <2>1, <2>2, WalletStep DEF OwnInv, Owned
  <2>4. rows' = rows => Referenced(w)
    BY <1>2 DEF Referenced
  <2>5. QED
    BY <2>2, <2>3, <2>4 DEF Owned
<1>3. QED
  BY <1>1, <1>2 DEF OwnInv, RowsInOwnWallet, Owned

LEMMA OwnInit == Init => OwnInv
<1> SUFFICES ASSUME Init PROVE OwnInv
  OBVIOUS
<1>1. TypeOK
  BY DEF Init, TypeOK, Idle, Request
<1>2. PendingOwn
  BY DEF Init, PendingOwn, PendingIsOwn, Idle
<1>3. RowsInOwnWallet
  BY NoRowAssumption DEF NoRowAssumption, Init, RowsInOwnWallet
<1>4. QED
  BY <1>1, <1>2, <1>3 DEF OwnInv

LEMMA OwnAlways == Spec => []OwnInv
  BY OwnInit, OwnStep, PTL DEF Spec

\* In every reachable state each transaction is on an existing wallet of its own
\* user, however many devices a user has and whatever the scheduler posts.
THEOREM RowsStayInOwnWallet == Spec => []RowsInOwnWallet
<1>1. OwnInv => RowsInOwnWallet
  BY DEF OwnInv
<1>2. QED
  BY <1>1, OwnAlways, PTL

-----------------------------------------------------------------------------
\* One step explains the balances by the rows, transfers and manual balances.
Explained ==
    /\ \A t \in TxIds : rows'[t] # rows[t] =>
          \A w \in Wallets : balance'[w] - balance[w] = Effect(rows'[t], w) - Effect(rows[t], w)
    /\ rows' = rows /\ moved' = moved /\ base' = base =>
          \A w \in Wallets : wallet[w] = "live" => balance'[w] = balance[w]

LEMMA InsertExplained ==
  ASSUME TypeOK, NEW row \in Row, NEW s \in TxIds, Insert(row, s), Owner[row.wallet] = row.user
  PROVE  Explained
<1>1. /\ row.wallet \in Wallets /\ SignedAmount(row) \in Int
      /\ rows'[s] = row /\ rows[s] = Unissued /\ \A t \in TxIds \ {s} : rows'[t] = rows[t]
  BY RowFields, SignedAmountType DEF Insert, TypeOK
<1>2. Unissued \notin Row
  BY NoRowAssumption DEF NoRowAssumption
<1>3. Owned(row.user, row.wallet)
  BY DEF Insert, Owned
<1>4. \A w \in Wallets : balance'[w] = IF w = row.wallet THEN balance[w] + SignedAmount(row) ELSE balance[w]
  <2>1. balance' = ApplyToWallet(balance, row.user, row.wallet, SignedAmount(row))
    BY DEF Insert
  <2>2. balance \in [Wallets -> Int]
    BY DEF TypeOK
  <2>3. QED
    BY <1>1, <1>3, <2>1, <2>2, ApplyType
<1>5. \A w \in Wallets : balance'[w] - balance[w] = Effect(rows'[s], w) - Effect(rows[s], w)
  BY <1>1, <1>2, <1>4 DEF Effect, TypeOK
<1>6. rows' # rows
  BY <1>1, <1>2
<1>7. QED
  BY <1>1, <1>5, <1>6 DEF Explained

LEMMA UpdateExplained ==
  ASSUME OwnInv, NEW r \in Reqs, UpdateCommit(r), ~Stale(r)
  PROVE  Explained
<1> DEFINE t    == req[r].tx
           u    == ReqUser[r]
           old  == req[r].old
           new  == Patched(old, req[r].patch)
           back == ApplyToWallet(balance, u, old.wallet, -SignedAmount(old))
<1> USE DEF OwnInv
<1>1. /\ t \in TxIds /\ old \in Row /\ req[r].patch \in Patch /\ req[r].op = "update"
      /\ PendingIsOwn(r) /\ rows[t] = old
  BY RequestFields DEF UpdateCommit, PendingOwn, Stale
<1>2. new \in Row /\ new.wallet = IF req[r].patch.wallet = Keep THEN old.wallet ELSE req[r].patch.wallet
  BY <1>1, PatchedRow
<1>3. rows'[t] = new /\ \A s \in TxIds \ {t} : rows'[s] = rows[s]
  BY <1>1 DEF UpdateCommit, TypeOK
<1>4. Owned(u, old.wallet)
  BY <1>1 DEF PendingIsOwn, HeldRowIsOwn, RowsInOwnWallet
<1>5. Owned(u, new.wallet)
  <2>1. wallet[new.wallet] = "live"
    BY <1>1 DEF UpdateCommit
  <2>2. Owner[new.wallet] = u
    BY <1>1, <1>2, <1>4 DEF PendingIsOwn, Owned
  <2>3. QED
    BY <2>1, <2>2 DEF Owned
<1>6. /\ SignedAmount(old) \in Int /\ SignedAmount(new) \in Int /\ -SignedAmount(old) \in Int
      /\ old.wallet \in Wallets /\ new.wallet \in Wallets
  BY <1>1, <1>2, SignedAmountType, RowFields
<1>7. back \in [Wallets -> Int]
      /\ \A w \in Wallets : back[w] = IF w = old.wallet THEN balance[w] + (-SignedAmount(old)) ELSE balance[w]
  BY <1>4, <1>6, ApplyType DEF TypeOK
<1>8. \A w \in Wallets : balance'[w] = IF w = new.wallet THEN back[w] + SignedAmount(new) ELSE back[w]
  <2>1. balance' = ApplyToWallet(back, u, new.wallet, SignedAmount(new))
    BY DEF UpdateCommit
  <2>2. QED
    BY <1>5, <1>6, <1>7, <2>1, ApplyType
<1>9. \A w \in Wallets : balance'[w] - balance[w] = Effect(new, w) - Effect(old, w)
  <2> SUFFICES ASSUME NEW w \in Wallets PROVE balance'[w] - balance[w] = Effect(new, w) - Effect(old, w)
    OBVIOUS
  <2>1. balance[w] \in Int
    BY DEF TypeOK
  <2>2. /\ Effect(old, w) = IF w = old.wallet THEN SignedAmount(old) ELSE 0
        /\ Effect(new, w) = IF w = new.wallet THEN SignedAmount(new) ELSE 0
    BY <1>1, <1>2 DEF Effect
  <2> HIDE DEF old, new, back
  <2>3. QED
    BY <1>6, <1>7, <1>8, <2>1, <2>2
<1>10. rows' = rows => new = old
  BY <1>1, <1>3
<1>11. QED
  <2>1. \A s \in TxIds : rows'[s] # rows[s] =>
           \A w \in Wallets : balance'[w] - balance[w] = Effect(rows'[s], w) - Effect(rows[s], w)
    BY <1>1, <1>3, <1>9
  <2>2. ASSUME rows' = rows, NEW w \in Wallets PROVE balance'[w] = balance[w]
    <3>1. balance'[w] - balance[w] = 0
      BY <1>9, <1>10, <2>2, <1>1, <1>6 DEF Effect
    <3>2. balance'[w] \in Int /\ balance[w] \in Int
      BY <1>6, <1>7, <1>8 DEF TypeOK
    <3>3. QED
      BY <3>1, <3>2
  <2>3. QED
    BY <2>1, <2>2 DEF Explained

LEMMA RemoveExplained ==
  ASSUME OwnInv, NEW r \in Reqs, RemoveCommit(r), ~Stale(r)
  PROVE  Explained
<1> DEFINE t   == req[r].tx
           old == req[r].old
<1> USE DEF OwnInv
<1>1. /\ t \in TxIds /\ old \in Row /\ req[r].op = "remove"
      /\ PendingIsOwn(r) /\ rows[t] = old
  BY RequestFields DEF RemoveCommit, PendingOwn, Stale
<1>2. rows'[t] = Deleted /\ \A s \in TxIds \ {t} : rows'[s] = rows[s]
  BY <1>1 DEF RemoveCommit, TypeOK
<1>3. Deleted \notin Row
  BY NoRowAssumption DEF NoRowAssumption
<1>4. Owned(ReqUser[r], old.wallet)
  BY <1>1 DEF PendingIsOwn, HeldRowIsOwn, RowsInOwnWallet
<1>5. SignedAmount(old) \in Int /\ -SignedAmount(old) \in Int /\ old.wallet \in Wallets
  BY <1>1, SignedAmountType, RowFields
<1>6. \A w \in Wallets : balance'[w] = IF w = old.wallet THEN balance[w] + (-SignedAmount(old)) ELSE balance[w]
  BY <1>4, <1>5, ApplyType DEF RemoveCommit, TypeOK
<1>7. \A w \in Wallets : balance'[w] - balance[w] = Effect(Deleted, w) - Effect(old, w)
  BY <1>1, <1>3, <1>5, <1>6 DEF Effect, TypeOK
<1>8. rows' # rows
  BY <1>1, <1>2, <1>3
<1>9. QED
  BY <1>1, <1>2, <1>7, <1>8 DEF Explained

\* The other steps touch no row, and money only with a transfer or a manual
\* balance.
LEMMA OtherExplained ==
  ASSUME TypeOK, NEW r \in Reqs,
         \/ \E w \in Wallets, b \in Openings : CreateWallet(r, w, b) \/ EditBalance(r, w, b)
         \/ \E w \in Wallets : AddRule(r, w) \/ DropRule(r, w)
         \/ TransferCommit(r) \/ RemoveWalletCommit(r) \/ Abort(r) \/ Reads(r)
  PROVE  Explained
<1>1. ASSUME balance' = balance, rows' = rows PROVE Explained
  BY <1>1 DEF Explained
<1>2. ASSUME NEW w \in Wallets, NEW b \in Openings, CreateWallet(r, w, b) PROVE Explained
  BY <1>2 DEF CreateWallet, Explained, TypeOK
<1>3. ASSUME NEW w \in Wallets, NEW b \in Openings, EditBalance(r, w, b) PROVE Explained
  <2>1. b \in Int
    BY AmountAssumption DEF AmountAssumption
  <2>2. base' = base => b = balance[w]
    BY <1>3, <2>1 DEF EditBalance, TypeOK
  <2>3. QED
    BY <1>3, <2>2 DEF EditBalance, Explained, TypeOK
<1>4. ASSUME TransferCommit(r) PROVE Explained
  <2>1. req[r].from \in Wallets /\ req[r].to \in Wallets /\ req[r].amount \in Nat /\ req[r].amount > 0
    BY <1>4, RequestFields, AmountType DEF TransferCommit
  <2>2. moved'[<<req[r].from, req[r].to>>] # moved[<<req[r].from, req[r].to>>]
    BY <1>4, <2>1 DEF TransferCommit, TypeOK
  <2>3. QED
    BY <1>4, <2>2 DEF TransferCommit, Explained
<1>5. ASSUME \/ \E w \in Wallets : AddRule(r, w) \/ DropRule(r, w)
             \/ RemoveWalletCommit(r) \/ Abort(r) \/ Reads(r)
      PROVE  balance' = balance /\ rows' = rows
  BY <1>5 DEF AddRule, DropRule, RemoveWalletCommit, Abort, Reads, CreateCheck, UpdateRead,
     RemoveRead, TransferCheck, RemoveWalletCheck
<1>6. QED
  BY <1>1, <1>2, <1>3, <1>4, <1>5

LEMMA StepExplained == OwnInv /\ [Next]_vars /\ ~StaleCommit => Explained
<1> SUFFICES ASSUME OwnInv, [Next]_vars, ~StaleCommit PROVE Explained
  OBVIOUS
<1>0. TypeOK
  BY DEF OwnInv
<1>1. ASSUME NEW r \in Reqs, NEW t \in TxIds, CreateCommit(r, t) PROVE Explained
  <2>1. /\ req[r].row \in Row /\ Insert(req[r].row, t)
        /\ Owner[req[r].row.wallet] = req[r].row.user
    BY <1>0, <1>1, RequestFields DEF CreateCommit, OwnInv, PendingOwn, PendingIsOwn
  <2>2. QED
    BY <1>0, <2>1, InsertExplained
<1>2. ASSUME NEW t \in TxIds, NEW row \in Row, Post(t, row) PROVE Explained
  BY <1>0, <1>2, InsertExplained DEF Post
<1>3. ASSUME NEW r \in Reqs, UpdateCommit(r) PROVE Explained
  BY <1>3, UpdateExplained DEF StaleCommit
<1>4. ASSUME NEW r \in Reqs, RemoveCommit(r) PROVE Explained
  BY <1>4, RemoveExplained DEF StaleCommit
<1>5. CASE SelectDue \/ UNCHANGED vars
  BY <1>5 DEF SelectDue, vars, Explained
<1>6. ASSUME NEW r \in Reqs, Handler(r) PROVE Explained
  BY <1>0, <1>1, <1>3, <1>4, <1>6, OtherExplained DEF Handler, Reads
<1>7. QED
  BY <1>2, <1>5, <1>6 DEF Next

\* However many devices a user has, only the commit of an update or remove whose
\* row changed since it was read can move money the ledger does not explain.
THEOREM MoneyFollowsRowsAlways == Spec => MoneyFollowsRows
<1>1. OwnInv /\ [Next]_vars => [~StaleCommit => Explained]_vars
  BY StepExplained
<1>2. QED
  BY <1>1, OwnAlways, PTL DEF Spec, MoneyFollowsRows, Explained

-----------------------------------------------------------------------------
\* With one device per user nothing touches a row between the read of an update
\* or remove and its commit: the scheduler only inserts.
NeverStale == \A r \in Reqs : ~Stale(r)

LEMMA NeverStaleStep ==
  ASSUME OneDevice PROVE OwnInv /\ NeverStale /\ [Next]_vars => NeverStale'
<1> SUFFICES ASSUME OwnInv, NeverStale, [Next]_vars, NEW r \in Reqs,
                    req'[r].op \in {"update", "remove"}
             PROVE  rows'[req'[r].tx] = req'[r].old
  BY DEF NeverStale, Stale
<1> USE DEF OwnInv
<1>1. CASE Reads(r)
  <2>1. ASSUME NEW t \in TxIds, NEW p \in Patches, UpdateRead(r, t, p) PROVE rows'[req'[r].tx] = req'[r].old
    BY <2>1 DEF UpdateRead, TypeOK
  <2>2. ASSUME NEW t \in TxIds, RemoveRead(r, t) PROVE rows'[req'[r].tx] = req'[r].old
    BY <2>2 DEF RemoveRead, TypeOK
  <2>3. ASSUME NEW row, CreateCheck(r, row) PROVE FALSE
    BY <2>3 DEF CreateCheck, TypeOK
  <2>4. ASSUME NEW f, NEW t, NEW a, TransferCheck(r, f, t, a) PROVE FALSE
    BY <2>4 DEF TransferCheck, TypeOK
  <2>5. ASSUME NEW w, RemoveWalletCheck(r, w) PROVE FALSE
    BY <2>5 DEF RemoveWalletCheck, TypeOK
  <2>6. QED
    BY <1>1, <2>1, <2>2, <2>3, <2>4, <2>5 DEF Reads
<1>2. CASE req'[r] = Idle
  BY <1>2 DEF Idle
<1>3. CASE req'[r] = req[r] /\ req[r] # Idle
  <2> DEFINE t == req[r].tx
  <2>1. /\ t \in TxIds /\ rows[t] = req[r].old /\ rows[t] \in Row /\ rows[t].user = ReqUser[r]
    BY <1>3, RequestFields DEF NeverStale, Stale, PendingOwn, PendingIsOwn, HeldRowIsOwn
  <2>2. ASSUME NEW row \in Row, NEW s \in TxIds, Insert(row, s) PROVE rows'[t] = rows[t]
    BY <2>1, <2>2, NoRowAssumption DEF NoRowAssumption, Insert, TypeOK
  <2>3. ASSUME NEW q \in Reqs, UpdateCommit(q) \/ RemoveCommit(q) PROVE rows'[t] = rows[t]
    <3>1. q # r
      BY <1>3, <2>3 DEF UpdateCommit, RemoveCommit, Done, TypeOK
    <3>2. req[q].tx \in TxIds /\ HeldRowIsOwn(q)
      BY <2>3, RequestFields DEF UpdateCommit, RemoveCommit, PendingOwn, PendingIsOwn
    <3>3. req[q].tx # t
      BY <2>1, <3>1, <3>2 DEF HeldRowIsOwn, OneDevice
    <3>4. QED
      BY <2>1, <2>3, <3>2, <3>3 DEF UpdateCommit, RemoveCommit, TypeOK
  <2>4. rows'[t] = rows[t]
    <3>1. ASSUME NEW q \in Reqs, NEW s \in TxIds, CreateCommit(q, s) PROVE rows'[t] = rows[t]
      BY <2>2, <3>1, RequestFields DEF CreateCommit
    <3>2. ASSUME NEW row \in Row, NEW s \in TxIds, Post(s, row) PROVE rows'[t] = rows[t]
      BY <2>2, <3>2 DEF Post
    <3>3. ASSUME NEW q \in Reqs, NEW w \in Wallets, NEW b \in Openings,
                 CreateWallet(q, w, b) \/ EditBalance(q, w, b)
          PROVE  rows' = rows
      BY <3>3 DEF CreateWallet, EditBalance
    <3>4. ASSUME NEW q \in Reqs,
                 \/ \E w \in Wallets : AddRule(q, w) \/ DropRule(q, w)
                 \/ TransferCommit(q) \/ RemoveWalletCommit(q) \/ Abort(q) \/ Reads(q)
          PROVE  rows' = rows
      BY <3>4 DEF AddRule, DropRule, TransferCommit, RemoveWalletCommit, Abort, Reads,
         CreateCheck, UpdateRead, RemoveRead, TransferCheck, RemoveWalletCheck
    <3>5. CASE SelectDue \/ UNCHANGED vars
      BY <3>5 DEF SelectDue, vars
    <3>6. ASSUME NEW q \in Reqs, Handler(q) PROVE rows'[t] = rows[t]
      BY <2>3, <3>1, <3>3, <3>4, <3>6 DEF Handler, Reads
    <3>7. QED
      BY <3>2, <3>5, <3>6 DEF Next
  <2>5. QED
    BY <1>3, <2>1, <2>4
<1>4. QED
  BY <1>1, <1>2, <1>3, ReqStep

LEMMA OneDeviceNeverStale == ASSUME OneDevice PROVE Spec => []NeverStale
<1>1. Init => NeverStale
  BY DEF Init, NeverStale, Stale, Idle
<1>2. OwnInv /\ NeverStale /\ [Next]_vars => NeverStale'
  BY NeverStaleStep
<1>3. QED
  BY <1>1, <1>2, OwnAlways, PTL DEF Spec

-----------------------------------------------------------------------------
\* Whose money a step moves.
Authorised(w) ==
    \/ \E r \in Reqs : ReqUser[r] = Owner[w] /\ Handler(r)
    \/ w \in due /\ \E t \in TxIds : rows'[t] # rows[t] /\ rows'[t].wallet = w

\* A handler moves balances of its own user's wallets only.
LEMMA HandlerOwnMoney ==
  ASSUME OwnInv, NEW r \in Reqs, Handler(r), NEW w \in Wallets, balance'[w] # balance[w]
  PROVE  Owner[w] = ReqUser[r]
<1> USE DEF OwnInv
<1>1. ASSUME NEW v \in Wallets, NEW b \in Openings, CreateWallet(r, v, b) \/ EditBalance(r, v, b)
      PROVE  Owner[w] = ReqUser[r]
  BY <1>1 DEF CreateWallet, EditBalance, Owned, TypeOK
<1>2. ASSUME NEW t \in TxIds, CreateCommit(r, t) PROVE Owner[w] = ReqUser[r]
  <2>1. req[r].row \in Row /\ Owner[req[r].row.wallet] = ReqUser[r]
    BY <1>2, RequestFields DEF CreateCommit, PendingOwn, PendingIsOwn
  <2>2. \E d : balance' = ApplyToWallet(balance, req[r].row.user, req[r].row.wallet, d)
    BY <1>2 DEF CreateCommit, Insert
  <2>3. QED
    BY <2>1, <2>2 DEF ApplyToWallet, TypeOK
<1>3. ASSUME UpdateCommit(r) PROVE Owner[w] = ReqUser[r]
  <2>1. \E v1, v2, d1, d2 : balance' = ApplyToWallet(ApplyToWallet(balance, ReqUser[r], v1, d1), ReqUser[r], v2, d2)
    BY <1>3 DEF UpdateCommit
  <2>2. QED
    BY <2>1 DEF ApplyToWallet, Owned, TypeOK
<1>4. ASSUME RemoveCommit(r) PROVE Owner[w] = ReqUser[r]
  <2>1. \E v, d : balance' = ApplyToWallet(balance, ReqUser[r], v, d)
    BY <1>4 DEF RemoveCommit
  <2>2. QED
    BY <2>1 DEF ApplyToWallet, Owned, TypeOK
<1>5. ASSUME TransferCommit(r) PROVE Owner[w] = ReqUser[r]
  <2>1. /\ req[r].from \in Wallets /\ req[r].to \in Wallets
        /\ Owner[req[r].from] = ReqUser[r] /\ Owner[req[r].to] = ReqUser[r]
    BY <1>5, RequestFields DEF TransferCommit, PendingOwn, PendingIsOwn
  <2>2. QED
    BY <1>5, <2>1 DEF TransferCommit, TypeOK
<1>6. ASSUME \/ \E v \in Wallets : AddRule(r, v) \/ DropRule(r, v)
             \/ RemoveWalletCommit(r) \/ Abort(r) \/ Reads(r)
      PROVE  FALSE
  BY <1>6 DEF AddRule, DropRule, RemoveWalletCommit, Abort, Reads, CreateCheck, UpdateRead,
     RemoveRead, TransferCheck, RemoveWalletCheck
<1>7. QED
  BY <1>1, <1>2, <1>3, <1>4, <1>5, <1>6 DEF Handler, Reads

LEMMA StepAuthorised ==
  OwnInv /\ [Next]_vars => \A w \in Wallets : balance'[w] # balance[w] => Authorised(w)
<1> SUFFICES ASSUME OwnInv, [Next]_vars, NEW w \in Wallets, balance'[w] # balance[w]
             PROVE  Authorised(w)
  OBVIOUS
<1>1. ASSUME NEW r \in Reqs, Handler(r) PROVE Authorised(w)
  BY <1>1, HandlerOwnMoney DEF Authorised
<1>2. ASSUME NEW t \in TxIds, NEW row \in Row, Post(t, row) PROVE Authorised(w)
  <2>1. balance' = ApplyToWallet(balance, row.user, row.wallet, SignedAmount(row))
    BY <1>2 DEF Post, Insert
  <2>2. w = row.wallet
    BY <2>1 DEF ApplyToWallet, OwnInv, TypeOK
  <2>3. rows'[t] = row /\ rows[t] = Unissued
    BY <1>2 DEF Post, Insert, OwnInv, TypeOK
  <2>4. QED
    BY <1>2, <2>2, <2>3, NoRowAssumption DEF NoRowAssumption, Post, Authorised
<1>3. CASE SelectDue \/ UNCHANGED vars
  BY <1>3 DEF SelectDue, vars
<1>4. QED
  BY <1>1, <1>2, <1>3 DEF Next

\* No request moves the money of another user's wallet, whatever identifiers it
\* sends.
THEOREM OnlyOwnMoneyAlways == Spec => OnlyOwnMoney
<1>1. OwnInv /\ [Next]_vars => [\A w \in Wallets : balance'[w] # balance[w] => Authorised(w)]_vars
  BY StepAuthorised
<1>2. QED
  BY <1>1, OwnAlways, PTL DEF Spec, OnlyOwnMoney, Authorised

-----------------------------------------------------------------------------
\* A request that holds something is ended by its own steps.
LEMMA HandlerEnds ==
  ASSUME TypeOK, NEW r \in Reqs, req[r] # Idle, Handler(r) PROVE req'[r] = Idle
<1>1. ASSUME Done(r) PROVE req'[r] = Idle
  BY <1>1 DEF Done, TypeOK
<1>2. ~Reads(r)
  BY DEF Reads, CreateCheck, UpdateRead, RemoveRead, TransferCheck, RemoveWalletCheck
<1>3. ASSUME NEW w \in Wallets, NEW b \in Openings,
             CreateWallet(r, w, b) \/ EditBalance(r, w, b) \/ AddRule(r, w) \/ DropRule(r, w)
      PROVE  FALSE
  BY <1>3 DEF CreateWallet, EditBalance, AddRule, DropRule
<1>4. ASSUME NEW w \in Wallets, AddRule(r, w) \/ DropRule(r, w) PROVE FALSE
  BY <1>4 DEF AddRule, DropRule
<1>5. ASSUME (\E t \in TxIds : CreateCommit(r, t)) \/ UpdateCommit(r) \/ RemoveCommit(r)
             \/ TransferCommit(r) \/ RemoveWalletCommit(r) \/ Abort(r)
      PROVE  Done(r)
  BY <1>5 DEF CreateCommit, UpdateCommit, RemoveCommit, TransferCommit, RemoveWalletCommit, Abort
<1>6. QED
  BY <1>1, <1>2, <1>3, <1>4, <1>5 DEF Handler, Reads

\* A handler inserts and changes rows of its own user only.
LEMMA HandlerOwnRows ==
  ASSUME OwnInv, NEW r \in Reqs, Handler(r), NEW t \in TxIds, rows'[t] # rows[t], rows'[t] \in Row
  PROVE  rows'[t].user = ReqUser[r]
<1> USE DEF OwnInv
<1>1. ASSUME NEW s \in TxIds, CreateCommit(r, s) PROVE rows'[t].user = ReqUser[r]
  <2>1. req[r].row \in Row /\ req[r].row.user = ReqUser[r]
    BY <1>1, RequestFields DEF CreateCommit, PendingOwn, PendingIsOwn
  <2>2. rows'[t] = req[r].row
    BY <1>1 DEF CreateCommit, Insert, TypeOK
  <2>3. QED
    BY <2>1, <2>2
<1>2. ASSUME UpdateCommit(r) PROVE rows'[t].user = ReqUser[r]
  <2>1. req[r].tx \in TxIds /\ req[r].patch \in Patch /\ HeldRowIsOwn(r)
    BY <1>2, RequestFields DEF UpdateCommit, PendingOwn, PendingIsOwn
  <2>2. t = req[r].tx /\ rows[t] \in Row /\ rows'[t] = Patched(rows[t], req[r].patch)
    BY <1>2, <2>1 DEF UpdateCommit, TypeOK
  <2>3. QED
    BY <2>1, <2>2, PatchedRow DEF HeldRowIsOwn
<1>3. ASSUME RemoveCommit(r) PROVE FALSE
  <2>1. req[r].tx \in TxIds
    BY <1>3, RequestFields DEF RemoveCommit
  <2>2. QED
    BY <1>3, <2>1, NoRowAssumption DEF NoRowAssumption, RemoveCommit, TypeOK
<1>4. ASSUME NEW w \in Wallets, NEW b \in Openings, CreateWallet(r, w, b) \/ EditBalance(r, w, b)
      PROVE  FALSE
  BY <1>4 DEF CreateWallet, EditBalance
<1>5. ASSUME \/ \E w \in Wallets : AddRule(r, w) \/ DropRule(r, w)
             \/ TransferCommit(r) \/ RemoveWalletCommit(r) \/ Abort(r) \/ Reads(r)
      PROVE  FALSE
  BY <1>5 DEF AddRule, DropRule, TransferCommit, RemoveWalletCommit, Abort, Reads, CreateCheck,
     UpdateRead, RemoveRead, TransferCheck, RemoveWalletCheck
<1>6. QED
  BY <1>1, <1>2, <1>3, <1>4, <1>5 DEF Handler, Reads

-----------------------------------------------------------------------------
(***************************************************************************)
(* The stored balances.  A wallet that is not there has no transfers, so a *)
(* new one starts from what its owner puts in; every step moves a balance  *)
(* and one term of the sums that explain it, by the same amount.           *)
(***************************************************************************)
MovedBetweenLive ==
    \A p \in Wallets \X Wallets : moved[p] # 0 => wallet[p[1]] = "live" /\ wallet[p[2]] = "live"

ExactInv == OwnInv /\ MovedBetweenLive /\ LedgerExact

ExactAt(w) == balance[w] = base[w] + LedgerSum(w) + TransferSum(w)

\* One step explains the balance of w.
ExplainedAt(w) ==
    /\ \A t \in TxIds : rows'[t] # rows[t] =>
          balance'[w] - balance[w] = Effect(rows'[t], w) - Effect(rows[t], w)
    /\ rows' = rows /\ moved' = moved /\ base' = base /\ wallet[w] = "live" => balance'[w] = balance[w]

LEMMA EffectType == ASSUME TypeOK, NEW w \in Wallets
                    PROVE  [t \in TxIds |-> Effect(rows[t], w)] \in [TxIds -> Int]
  BY SignedAmountType DEF Effect

LEMMA NetType == ASSUME TypeOK, NEW w \in Wallets
                 PROVE  [v \in Wallets |-> moved[<<v, w>>] - moved[<<w, v>>]] \in [Wallets -> Int]
  BY DEF TypeOK

LEMMA SumsType == ASSUME TypeOK, NEW w \in Wallets
                  PROVE  LedgerSum(w) \in Int /\ TransferSum(w) \in Int
  BY EffectType, NetType, SumType, FiniteAssumption DEF FiniteAssumption, LedgerSum, TransferSum

\* One changed row changes the ledger of a wallet by the change of its effect.
LEMMA LedgerSumChange ==
  ASSUME TypeOK, TypeOK', NEW t \in TxIds, \A s \in TxIds : s # t => rows'[s] = rows[s], NEW w \in Wallets
  PROVE  LedgerSum(w)' = LedgerSum(w) + (Effect(rows'[t], w) - Effect(rows[t], w))
<1> DEFINE f == [s \in TxIds |-> Effect(rows[s], w)]
           h == [s \in TxIds |-> Effect(rows'[s], w)]
<1>1. f \in [TxIds -> Int]
  BY EffectType
<1>2. h \in [TxIds -> Int]
  BY SignedAmountType DEF Effect
<1>3. \A s \in TxIds : s # t => h[s] = f[s]
  OBVIOUS
<1>4. h[t] = Effect(rows'[t], w) /\ f[t] = Effect(rows[t], w)
  OBVIOUS
<1>5. LedgerSum(w) = SumFunction(f) /\ LedgerSum(w)' = SumFunction(h)
  BY DEF LedgerSum, Effect
<1> HIDE DEF f, h
<1>6. SumFunction(h) = SumFunction(f) + (h[t] - f[t])
  BY <1>1, <1>2, <1>3, SumChange, FiniteAssumption DEF FiniteAssumption
<1>7. QED
  BY <1>4, <1>5, <1>6

\* A changed net flow to one wallet changes what transfers brought by as much.
LEMMA TransferSumChange ==
  ASSUME TypeOK, TypeOK', NEW w \in Wallets, NEW k \in Wallets,
         \A v \in Wallets : v # k => moved'[<<v, w>>] - moved'[<<w, v>>] = moved[<<v, w>>] - moved[<<w, v>>]
  PROVE  TransferSum(w)' = TransferSum(w) + ((moved'[<<k, w>>] - moved'[<<w, k>>])
                                             - (moved[<<k, w>>] - moved[<<w, k>>]))
<1> DEFINE f == [v \in Wallets |-> moved[<<v, w>>] - moved[<<w, v>>]]
           h == [v \in Wallets |-> moved'[<<v, w>>] - moved'[<<w, v>>]]
<1>1. f \in [Wallets -> Int]
  BY NetType
<1>2. h \in [Wallets -> Int]
  BY DEF TypeOK
<1>3. \A v \in Wallets : v # k => h[v] = f[v]
  OBVIOUS
<1>4. h[k] = moved'[<<k, w>>] - moved'[<<w, k>>] /\ f[k] = moved[<<k, w>>] - moved[<<w, k>>]
  OBVIOUS
<1>5. TransferSum(w) = SumFunction(f) /\ TransferSum(w)' = SumFunction(h)
  BY DEF TransferSum
<1> HIDE DEF f, h
<1>6. SumFunction(h) = SumFunction(f) + (h[k] - f[k])
  BY <1>1, <1>2, <1>3, SumChange, FiniteAssumption DEF FiniteAssumption
<1>7. QED
  BY <1>4, <1>5, <1>6

\* A wallet that is not there has no transactions and no transfers.
LEMMA NothingThere ==
  ASSUME OwnInv, MovedBetweenLive, NEW w \in Wallets, wallet[w] # "live"
  PROVE  LedgerSum(w) = 0 /\ TransferSum(w) = 0
<1>1. [t \in TxIds |-> Effect(rows[t], w)] = [t \in TxIds |-> 0]
  BY DEF Effect, OwnInv, RowsInOwnWallet, Owned
<1>2. [v \in Wallets |-> moved[<<v, w>>] - moved[<<w, v>>]] = [v \in Wallets |-> 0]
  <2>1. \A v \in Wallets : moved[<<v, w>>] = 0 /\ moved[<<w, v>>] = 0
    BY DEF MovedBetweenLive
  <2>2. QED
    BY <2>1
<1>3. QED
  BY <1>1, <1>2, SumOfNoughts, FiniteAssumption DEF FiniteAssumption, LedgerSum, TransferSum

\* What a step changes of wallets, transfers, manual balances and rows.
LEMMA StepShape ==
  ASSUME OwnInv, [Next]_vars
  PROVE  \/ /\ UNCHANGED <<wallet, moved, base>>
            /\ rows' = rows \/ \E t \in TxIds : \A s \in TxIds : s # t => rows'[s] = rows[s]
         \/ \E r \in Reqs, w \in Wallets, b \in Openings : CreateWallet(r, w, b) \/ EditBalance(r, w, b)
         \/ \E r \in Reqs : TransferCommit(r) \/ RemoveWalletCommit(r)
<1> DEFINE Shape == /\ UNCHANGED <<wallet, moved, base>>
                    /\ rows' = rows \/ \E t \in TxIds : \A s \in TxIds : s # t => rows'[s] = rows[s]
<1>1. ASSUME NEW row, NEW t \in TxIds, Insert(row, t) PROVE Shape
  BY <1>1 DEF Insert, OwnInv, TypeOK
<1>2. ASSUME NEW r \in Reqs, UpdateCommit(r) PROVE Shape
  <2>1. req[r].tx \in TxIds
    BY <1>2, RequestFields DEF UpdateCommit, OwnInv
  <2>2. QED
    BY <1>2, <2>1 DEF UpdateCommit, OwnInv, TypeOK
<1>3. ASSUME NEW r \in Reqs, RemoveCommit(r) PROVE Shape
  <2>1. req[r].tx \in TxIds
    BY <1>3, RequestFields DEF RemoveCommit, OwnInv
  <2>2. QED
    BY <1>3, <2>1 DEF RemoveCommit, OwnInv, TypeOK
<1>4. ASSUME NEW r \in Reqs, (\E w \in Wallets : AddRule(r, w) \/ DropRule(r, w)) \/ Abort(r) \/ Reads(r)
      PROVE  Shape
  BY <1>4 DEF AddRule, DropRule, Abort, Reads, CreateCheck, UpdateRead, RemoveRead, TransferCheck,
     RemoveWalletCheck
<1>5. ASSUME SelectDue \/ UNCHANGED vars PROVE Shape
  BY <1>5 DEF SelectDue, vars
<1>6. ASSUME NEW t \in TxIds, NEW row \in Row, Post(t, row) PROVE Shape
  BY <1>1, <1>6 DEF Post
<1>7. ASSUME NEW r \in Reqs, NEW t \in TxIds, CreateCommit(r, t) PROVE Shape
  BY <1>1, <1>7 DEF CreateCommit
<1> HIDE DEF Shape
<1>8. ASSUME NEW r \in Reqs, Handler(r)
      PROVE  \/ Shape
             \/ \E w \in Wallets, b \in Openings : CreateWallet(r, w, b) \/ EditBalance(r, w, b)
             \/ TransferCommit(r) \/ RemoveWalletCommit(r)
  BY <1>2, <1>3, <1>4, <1>7, <1>8 DEF Handler, Reads
<1>9. Shape \/ \E r \in Reqs : Handler(r)
  BY <1>5, <1>6 DEF Next
<1>10. QED
  BY <1>8, <1>9 DEF Shape

\* Transfers stay between wallets that exist.
LEMMA MovedStep == ASSUME OwnInv, MovedBetweenLive, [Next]_vars PROVE MovedBetweenLive'
<1> USE DEF OwnInv
<1>1. CASE UNCHANGED <<wallet, moved, base>>
  BY <1>1 DEF MovedBetweenLive
<1>2. ASSUME NEW r \in Reqs, NEW w \in Wallets, NEW b \in Openings,
             CreateWallet(r, w, b) \/ EditBalance(r, w, b)
      PROVE  MovedBetweenLive'
  BY <1>2 DEF CreateWallet, EditBalance, MovedBetweenLive, TypeOK
<1>3. ASSUME NEW r \in Reqs, TransferCommit(r) PROVE MovedBetweenLive'
  BY <1>3 DEF TransferCommit, MovedBetweenLive, TypeOK
<1>4. ASSUME NEW r \in Reqs, RemoveWalletCommit(r) PROVE MovedBetweenLive'
  BY <1>4 DEF RemoveWalletCommit, MovedBetweenLive, TypeOK
<1>5. QED
  BY <1>1, <1>2, <1>3, <1>4, StepShape

\* A step that explains the balance of a wallet leaves it exact.
LEMMA ExactAtStep ==
  ASSUME OwnInv, MovedBetweenLive, [Next]_vars, NEW w \in Wallets, ExplainedAt(w),
         wallet[w] = "live" => ExactAt(w), wallet'[w] = "live"
  PROVE  ExactAt(w)'
<1> USE DEF OwnInv, ExactAt
<1>1. TypeOK' /\ OwnInv'
  BY OwnStep
<1>2. /\ balance[w] \in Int /\ balance'[w] \in Int /\ base[w] \in Int /\ base'[w] \in Int
      /\ LedgerSum(w) \in Int /\ TransferSum(w) \in Int
  BY <1>1, SumsType DEF TypeOK
<1>3. ASSUME rows' = rows PROVE LedgerSum(w)' = LedgerSum(w)
  BY <1>3 DEF LedgerSum, Effect
<1>4. ASSUME UNCHANGED <<wallet, moved, base>>, wallet[w] = "live",
             rows' = rows \/ \E t \in TxIds : \A s \in TxIds : s # t => rows'[s] = rows[s]
      PROVE  ExactAt(w)'
  <2>1. TransferSum(w)' = TransferSum(w)
    BY <1>4 DEF TransferSum
  <2>2. balance[w] = base[w] + LedgerSum(w) + TransferSum(w)
    BY <1>4
  <2>3. CASE rows' = rows
    <3>1. balance'[w] = balance[w]
      BY <1>4, <2>3 DEF ExplainedAt
    <3>2. QED
      BY <1>3, <1>4, <2>1, <2>2, <2>3, <3>1
  <2>4. CASE rows' # rows
    <3>1. PICK t \in TxIds : \A s \in TxIds : s # t => rows'[s] = rows[s]
      BY <1>4, <2>4
    <3>2. rows'[t] # rows[t]
      BY <1>1, <2>4, <3>1 DEF TypeOK
    <3>3. balance'[w] - balance[w] = Effect(rows'[t], w) - Effect(rows[t], w)
      BY <3>2 DEF ExplainedAt
    <3>4. LedgerSum(w)' = LedgerSum(w) + (Effect(rows'[t], w) - Effect(rows[t], w))
      BY <1>1, <3>1, LedgerSumChange
    <3>5. LedgerSum(w)' = LedgerSum(w) + (balance'[w] - balance[w])
      BY <3>3, <3>4
    <3>6. QED
      BY <1>2, <1>4, <2>1, <2>2, <3>5
  <2>5. QED
    BY <2>3, <2>4
<1>5. ASSUME NEW r \in Reqs, NEW v \in Wallets, NEW b \in Openings, CreateWallet(r, v, b)
      PROVE  ExactAt(w)'
  <2>1. /\ LedgerSum(w)' = LedgerSum(w)
        /\ TransferSum(w)' = TransferSum(w)
    BY <1>3, <1>5 DEF CreateWallet, TransferSum
  <2>2. CASE w = v
    <3>1. wallet[w] # "live" /\ balance'[w] = b /\ base'[w] = b /\ b \in Int
      BY <1>5, <2>2, AmountAssumption DEF AmountAssumption, CreateWallet, TypeOK
    <3>2. LedgerSum(w) = 0 /\ TransferSum(w) = 0
      BY <3>1, NothingThere
    <3>3. QED
      BY <2>1, <3>1, <3>2
  <2>3. CASE w # v
    <3>1. wallet[w] = "live" /\ balance'[w] = balance[w] /\ base'[w] = base[w]
      BY <1>5, <2>3 DEF CreateWallet, TypeOK
    <3>2. QED
      BY <2>1, <3>1
  <2>4. QED
    BY <2>2, <2>3
<1>6. ASSUME NEW r \in Reqs, NEW v \in Wallets, NEW b \in Openings, EditBalance(r, v, b)
      PROVE  ExactAt(w)'
  <2>1. /\ LedgerSum(w)' = LedgerSum(w)
        /\ TransferSum(w)' = TransferSum(w)
        /\ wallet[w] = "live"
    BY <1>3, <1>6 DEF EditBalance, TransferSum
  <2>2. balance'[w] - balance[w] = base'[w] - base[w]
    <3>1. b \in Int
      BY AmountAssumption DEF AmountAssumption
    <3>2. balance' = [balance EXCEPT ![v] = b] /\ base' = [base EXCEPT ![v] = @ + (b - balance[v])]
      BY <1>6 DEF EditBalance
    <3>3. QED
      BY <1>2, <3>1, <3>2 DEF TypeOK
  <2>3. balance[w] = base[w] + LedgerSum(w) + TransferSum(w)
    BY <2>1
  <2>4. balance'[w] = base'[w] + LedgerSum(w) + TransferSum(w)
    BY <1>2, <2>2, <2>3
  <2>5. QED
    BY <2>1, <2>4
<1>7. ASSUME NEW r \in Reqs, TransferCommit(r)
      PROVE  ExactAt(w)'
  <2> DEFINE f == req[r].from
             t == req[r].to
             a == req[r].amount
  <2>1. f \in Wallets /\ t \in Wallets /\ a \in Nat
    BY <1>7, RequestFields, AmountType DEF TransferCommit
  <2>2. /\ moved'   = [moved EXCEPT ![<<f, t>>] = @ + a]
        /\ balance' = [balance EXCEPT ![f] = @ - a, ![t] = @ + a]
        /\ UNCHANGED <<wallet, rows, base>>
    BY <1>7 DEF TransferCommit
  <2> HIDE DEF f, t, a
  <2>3. LedgerSum(w)' = LedgerSum(w) /\ balance[w] = base[w] + LedgerSum(w) + TransferSum(w) /\ base'[w] = base[w]
    BY <1>3, <1>7, <2>2
  <2>4. moved \in [Wallets \X Wallets -> Nat] /\ balance \in [Wallets -> Int]
    BY DEF TypeOK
  <2>5. \A p \in Wallets \X Wallets : moved'[p] = IF p = <<f, t>> THEN moved[p] + a ELSE moved[p]
    BY <2>1, <2>2, <2>4
  <2>6. ASSUME NEW k \in Wallets, \A v \in Wallets : v # k => <<v, w>> # <<f, t>> /\ <<w, v>> # <<f, t>>
        PROVE  TransferSum(w)' = TransferSum(w) + ((moved'[<<k, w>>] - moved'[<<w, k>>])
                                                   - (moved[<<k, w>>] - moved[<<w, k>>]))
    BY <1>1, <2>5, <2>6, TransferSumChange
  <2>7. CASE f = t \/ w \notin {f, t}
    <3>1. balance'[w] = balance[w]
      BY <2>1, <2>2, <2>4, <2>7
    <3>2. (moved'[<<w, w>>] - moved'[<<w, w>>]) - (moved[<<w, w>>] - moved[<<w, w>>]) = 0
      BY <1>1, <2>4 DEF TypeOK
    <3>3. TransferSum(w)' = TransferSum(w) + 0
      BY <2>6, <2>7, <3>2
    <3>4. QED
      BY <1>2, <2>3, <3>1, <3>3
  <2>8. CASE f # t /\ w = f
    <3>1. balance'[w] = balance[w] - a
      BY <2>1, <2>2, <2>4, <2>8
    <3>2. moved'[<<t, w>>] = moved[<<t, w>>] /\ moved'[<<w, t>>] = moved[<<w, t>>] + a
      BY <2>1, <2>5, <2>8
    <3>3. TransferSum(w)' = TransferSum(w) + ((moved'[<<t, w>>] - moved'[<<w, t>>])
                                              - (moved[<<t, w>>] - moved[<<w, t>>]))
      BY <2>1, <2>6, <2>8
    <3>4. moved[<<t, w>>] \in Int /\ moved[<<w, t>>] \in Int
      BY <2>1, <2>4
    <3>5. TransferSum(w)' = TransferSum(w) - a
      BY <1>2, <2>1, <3>2, <3>3, <3>4
    <3>6. QED
      BY <1>2, <2>1, <2>3, <3>1, <3>5
  <2>9. CASE f # t /\ w = t
    <3>1. balance'[w] = balance[w] + a
      BY <2>1, <2>2, <2>4, <2>9
    <3>2. moved'[<<f, w>>] = moved[<<f, w>>] + a /\ moved'[<<w, f>>] = moved[<<w, f>>]
      BY <2>1, <2>5, <2>9
    <3>3. TransferSum(w)' = TransferSum(w) + ((moved'[<<f, w>>] - moved'[<<w, f>>])
                                              - (moved[<<f, w>>] - moved[<<w, f>>]))
      BY <2>1, <2>6, <2>9
    <3>4. moved[<<f, w>>] \in Int /\ moved[<<w, f>>] \in Int
      BY <2>1, <2>4
    <3>5. TransferSum(w)' = TransferSum(w) + a
      BY <1>2, <2>1, <3>2, <3>3, <3>4
    <3>6. QED
      BY <1>2, <2>1, <2>3, <3>1, <3>5
  <2>10. QED
    BY <2>7, <2>8, <2>9
<1>8. ASSUME NEW r \in Reqs, RemoveWalletCommit(r)
      PROVE  ExactAt(w)'
  <2> DEFINE v == req[r].wallet
  <2>1. v \in Wallets /\ w # v /\ wallet[w] = "live"
    BY <1>8, RequestFields DEF RemoveWalletCommit, TypeOK
  <2>2. /\ moved' = [p \in Wallets \X Wallets |-> IF v \in {p[1], p[2]} THEN 0 ELSE moved[p]]
        /\ base'[w] = base[w] + moved[<<v, w>>] - moved[<<w, v>>]
        /\ balance' = balance /\ rows' = rows
    BY <1>8, <2>1 DEF RemoveWalletCommit
  <2> HIDE DEF v
  <2>3. moved[<<v, w>>] \in Nat /\ moved[<<w, v>>] \in Nat /\ moved'[<<v, w>>] = 0 /\ moved'[<<w, v>>] = 0
    BY <2>1, <2>2 DEF TypeOK
  <2>4. \A k \in Wallets : k # v => moved'[<<k, w>>] = moved[<<k, w>>] /\ moved'[<<w, k>>] = moved[<<w, k>>]
    BY <2>1, <2>2
  <2>5. TransferSum(w)' = TransferSum(w) + ((moved'[<<v, w>>] - moved'[<<w, v>>])
                                            - (moved[<<v, w>>] - moved[<<w, v>>]))
    BY <1>1, <2>1, <2>4, TransferSumChange
  <2>6. balance[w] = base[w] + LedgerSum(w) + TransferSum(w) /\ LedgerSum(w)' = LedgerSum(w)
    BY <1>3, <2>1, <2>2
  <2>7. QED
    BY <1>2, <2>2, <2>3, <2>5, <2>6
<1>9. QED
  BY <1>4, <1>5, <1>6, <1>7, <1>8, StepShape

LEMMA LedgerExactStep ==
  ASSUME ExactInv, [Next]_vars, ~StaleCommit PROVE LedgerExact'
<1>1. \A w \in Wallets : ExplainedAt(w)
  BY StepExplained DEF ExactInv, Explained, ExplainedAt
<1>2. QED
  BY <1>1, ExactAtStep DEF ExactInv, LedgerExact, ExactAt

\* With one device per user every stored balance is, in every reachable state,
\* what its owner put in it plus what its transactions and transfers explain.
THEOREM OneDeviceLedgerExact == ASSUME OneDevice PROVE Spec => []LedgerExact
<1>1. Init => MovedBetweenLive /\ LedgerExact
  BY DEF Init, MovedBetweenLive, LedgerExact
<1>2. OwnInv /\ NeverStale /\ MovedBetweenLive /\ LedgerExact /\ [Next]_vars
      => (MovedBetweenLive /\ LedgerExact)'
  <2>1. NeverStale => ~StaleCommit
    BY DEF NeverStale, StaleCommit
  <2>2. QED
    BY <2>1, MovedStep, LedgerExactStep DEF ExactInv
<1>3. QED
  BY <1>1, <1>2, OwnAlways, OneDeviceNeverStale, PTL DEF Spec

-----------------------------------------------------------------------------
(***************************************************************************)
(* LedgerDrift: any number of devices.  A stale commit leaves the balances *)
(* and the ledger of the wallets that it does not name alone.              *)
(***************************************************************************)
LEMMA DriftIsLedger == [DriftNext]_driftVars => [Next]_vars
  BY DEF DriftNext, driftVars, Next, Handler

LEMMA ApplyElsewhere ==
  ASSUME NEW b \in [Wallets -> Int], NEW u, NEW v \in Wallets, NEW d \in Int, NEW w \in Wallets, w # v
  PROVE  ApplyToWallet(b, u, v, d) \in [Wallets -> Int] /\ ApplyToWallet(b, u, v, d)[w] = b[w]
  BY ApplyType

LEMMA StaleElsewhere ==
  ASSUME OwnInv, NEW r \in Reqs, UpdateCommit(r) \/ RemoveCommit(r), NEW w \in Wallets, w \notin Named(r)
  PROVE  ExplainedAt(w)
<1> DEFINE t    == req[r].tx
           old  == req[r].old
           d    == -SignedAmount(old)
           v    == old.wallet
           u    == ReqUser[r]
<1> USE DEF OwnInv
<1>1. t \in TxIds /\ old \in Row /\ d \in Int /\ v \in Wallets
  BY RequestFields, SignedAmountType, RowFields DEF UpdateCommit, RemoveCommit
<1>2. w # v /\ (rows[t] \in Row => w # rows[t].wallet)
  BY <1>1 DEF Named
<1>3. \A s \in TxIds : s # t => rows'[s] = rows[s]
  BY <1>1 DEF UpdateCommit, RemoveCommit, TypeOK
<1>4. Effect(rows[t], w) = 0
  BY <1>2 DEF Effect
<1>5. CASE RemoveCommit(r)
  <2>1. Effect(rows'[t], w) = 0
    BY <1>1, <1>4, <1>5, NoRowAssumption DEF RemoveCommit, TypeOK, Effect, NoRowAssumption
  <2>2. balance' = ApplyToWallet(balance, u, v, d) /\ balance \in [Wallets -> Int]
    BY <1>5 DEF RemoveCommit, TypeOK
  <2> HIDE DEF old, d, u, v
  <2>3. balance'[w] = balance[w]
    BY <1>2, <2>2 DEF ApplyToWallet
  <2>4. QED
    BY <1>1, <1>3, <1>4, <2>1, <2>3 DEF ExplainedAt, TypeOK
<1>6. CASE UpdateCommit(r)
  <2> DEFINE p    == req[r].patch
             new  == Patched(old, p)
             back == ApplyToWallet(balance, u, v, d)
  <2>1. p \in Patch /\ (p.wallet # Keep => w # p.wallet)
    BY <1>6, RequestFields DEF UpdateCommit, Named
  <2>2. new \in Row /\ SignedAmount(new) \in Int /\ new.wallet \in Wallets /\ new.wallet # w
    BY <1>1, <1>2, <2>1, PatchedRow, SignedAmountType, RowFields
  <2>3. rows'[t] = IF rows[t] \in Row THEN Patched(rows[t], p) ELSE rows[t]
    BY <1>1, <1>6 DEF UpdateCommit, TypeOK
  <2>4. rows[t] \in Row => Patched(rows[t], p).wallet # w
    BY <1>2, <2>1, PatchedRow
  <2>5. Effect(rows'[t], w) = 0
    BY <1>4, <2>3, <2>4 DEF Effect
  <2>6. back \in [Wallets -> Int] /\ back[w] = balance[w]
    <3>1. balance \in [Wallets -> Int]
      BY DEF TypeOK
    <3> HIDE DEF old, d, u, v
    <3>2. back \in [Wallets -> Int]
      BY <1>1, <3>1, ApplyType
    <3>3. back[w] = balance[w]
      BY <1>2, <3>1 DEF ApplyToWallet
    <3>4. QED
      BY <3>2, <3>3
  <2>7. balance' = ApplyToWallet(back, u, new.wallet, SignedAmount(new))
    BY <1>6 DEF UpdateCommit
  <2> HIDE DEF new, back, p
  <2>8. balance'[w] = balance[w]
    BY <2>2, <2>6, <2>7, ApplyElsewhere
  <2>9. QED
    BY <1>1, <1>3, <1>4, <2>5, <2>8 DEF ExplainedAt, TypeOK
<1>7. QED
  BY <1>5, <1>6

LEMMA DriftStep ==
  ASSUME OwnInv, MovedBetweenLive, ExactUnlessStale, [DriftNext]_driftVars PROVE ExactUnlessStale'
<1>1. [Next]_vars
  BY DriftIsLedger
<1>2. SUFFICES ASSUME NEW w \in Wallets, wallet'[w] = "live", w \notin drifted' PROVE ExactAt(w)'
  BY DEF ExactUnlessStale, ExactAt
<1>3. drifted \subseteq drifted' /\ w \notin drifted
  BY <1>2 DEF DriftNext, driftVars
<1>4. wallet[w] = "live" => ExactAt(w)
  BY <1>3 DEF ExactUnlessStale, ExactAt
<1>5. ExplainedAt(w)
  <2>1. CASE ~StaleCommit
    BY <1>1, <2>1, StepExplained DEF Explained, ExplainedAt
  <2>2. CASE StaleCommit
    <3>1. CASE UNCHANGED driftVars
      BY <3>1 DEF driftVars, vars, ExplainedAt
    <3>2. CASE DriftNext
      BY <1>2, <2>2, <3>2, StaleElsewhere DEF DriftNext
    <3>3. QED
      BY <3>1, <3>2
  <2>3. QED
    BY <2>1, <2>2
<1>6. QED
  BY <1>1, <1>2, <1>4, <1>5, ExactAtStep

\* However many devices a user has, a stored balance is what its owner put in it
\* plus what its transactions and transfers explain, unless the commit of an
\* update or remove whose row had changed since it was read has named its wallet.
THEOREM BalancesExactUnlessStale == DriftSpec => []ExactUnlessStale
<1>1. DriftInit => Init /\ MovedBetweenLive /\ ExactUnlessStale
  BY DEF DriftInit, Init, MovedBetweenLive, ExactUnlessStale
<1>2. OwnInv /\ MovedBetweenLive /\ ExactUnlessStale /\ [DriftNext]_driftVars
      => (MovedBetweenLive /\ ExactUnlessStale)'
  BY DriftIsLedger, MovedStep, DriftStep
<1>3. DriftSpec => []OwnInv
  BY <1>1, DriftIsLedger, OwnAlways, PTL DEF DriftSpec, Spec
<1>4. QED
  BY <1>1, <1>2, <1>3, PTL DEF DriftSpec

-----------------------------------------------------------------------------
(***************************************************************************)
(* LedgerRaces: what the scheduler can do to a request between its read    *)
(* and its commit.                                                         *)
(***************************************************************************)
\* What a pending transfer compared is still there, but for what was posted.
Promised ==
    \A r \in Reqs : req[r].op = "transfer" =>
        balance[req[r].from] >= req[r].amount + PostedSum(r)

RacesInv == /\ posts \in [Reqs -> SUBSET TxIds]
            /\ Promised
            /\ RefusalIsPosted

\* A step with the history variable is a step of the ledger.
LEMMA RacesIsLedger == [RacesNext]_racesVars => [Next]_vars
  BY DEF RacesNext, racesVars, Next

\* A handler leaves the other requests alone.
LEMMA HandlerKeeps ==
  ASSUME TypeOK, NEW q \in Reqs, Handler(q), NEW r \in Reqs, r # q PROVE req'[r] = req[r]
<1>1. ASSUME Reads(q) PROVE req'[r] = req[r]
  <2>1. \E x : req' = [req EXCEPT ![q] = x]
    BY <1>1 DEF Reads, CreateCheck, UpdateRead, RemoveRead, TransferCheck, RemoveWalletCheck
  <2>2. QED
    BY <2>1 DEF TypeOK
<1>2. ASSUME NEW w \in Wallets, NEW b \in Openings, CreateWallet(q, w, b) \/ EditBalance(q, w, b)
      PROVE  req' = req
  BY <1>2 DEF CreateWallet, EditBalance
<1>3. ASSUME NEW w \in Wallets, AddRule(q, w) \/ DropRule(q, w) PROVE req' = req
  BY <1>3 DEF AddRule, DropRule
<1>4. ASSUME (\E t \in TxIds : CreateCommit(q, t)) \/ UpdateCommit(q) \/ RemoveCommit(q)
             \/ TransferCommit(q) \/ RemoveWalletCommit(q) \/ Abort(q)
      PROVE  req'[r] = req[r]
  <2>1. Done(q)
    BY <1>4 DEF CreateCommit, UpdateCommit, RemoveCommit, TransferCommit, RemoveWalletCommit, Abort
  <2>2. QED
    BY <2>1 DEF Done, TypeOK
<1>5. QED
  BY <1>1, <1>2, <1>3, <1>4 DEF Handler, Reads

\* Only the owner of a wallet gives it a rule.
LEMMA HandlerOwnRules ==
  ASSUME TypeOK, NEW q \in Reqs, Handler(q), NEW w \in Wallets, w \in ruled', w \notin ruled
  PROVE  Owner[w] = ReqUser[q]
<1>1. ASSUME NEW v \in Wallets, AddRule(q, v) PROVE Owner[w] = ReqUser[q]
  BY <1>1 DEF AddRule, Owned
<1>2. ASSUME NEW v \in Wallets, DropRule(q, v) PROVE FALSE
  BY <1>2 DEF DropRule
<1>3. ASSUME NEW v \in Wallets, NEW b \in Openings, CreateWallet(q, v, b) \/ EditBalance(q, v, b)
      PROVE  FALSE
  BY <1>3 DEF CreateWallet, EditBalance
<1>4. ASSUME (\E t \in TxIds : CreateCommit(q, t)) \/ UpdateCommit(q) \/ RemoveCommit(q)
             \/ TransferCommit(q) \/ RemoveWalletCommit(q) \/ Abort(q) \/ Reads(q)
      PROVE  ruled' = ruled
  BY <1>4 DEF CreateCommit, Insert, UpdateCommit, RemoveCommit, TransferCommit, RemoveWalletCommit,
     Abort, Reads, CreateCheck, UpdateRead, RemoveRead, TransferCheck, RemoveWalletCheck
<1>5. QED
  BY <1>1, <1>2, <1>3, <1>4 DEF Handler, Reads

\* The net amount of the posted rows is an integer.
LEMMA PostedSumType ==
  ASSUME TypeOK, NEW r \in Reqs, req[r].op = "transfer" PROVE PostedSum(r) \in Int
<1>1. req[r].from \in Wallets
  BY RequestFields
<1>2. [t \in TxIds |-> IF t \in posts[r] THEN Effect(rows[t], req[r].from) ELSE 0] \in [TxIds -> Int]
  BY <1>1, EffectType, SignedAmountType DEF Effect
<1>3. QED
  BY <1>2, SumType, FiniteAssumption DEF FiniteAssumption, PostedSum

\* A transfer that has only just read has its whole amount there.
LEMMA OwnStepPromised ==
  ASSUME TypeOK, RacesInv, NEW r \in Reqs, Handler(r), posts' = [posts EXCEPT ![r] = {}],
         req'[r].op = "transfer"
  PROVE  balance'[req'[r].from] >= req'[r].amount + PostedSum(r)'
<1>1. posts'[r] = {}
  BY DEF RacesInv
<1>2. PostedSum(r)' = 0
  <2>1. [t \in TxIds |-> IF t \in posts'[r] THEN Effect(rows'[t], req'[r].from) ELSE 0] = [t \in TxIds |-> 0]
    BY <1>1
  <2>2. PostedSum(r)' = SumFunction([t \in TxIds |-> 0])
    BY <2>1 DEF PostedSum, Effect
  <2>3. QED
    BY <2>2, SumOfNoughts, FiniteAssumption DEF FiniteAssumption
<1>3. CASE Reads(r)
  <2>1. ASSUME NEW f \in Wallets, NEW t \in Wallets, NEW a \in Amounts, TransferCheck(r, f, t, a)
        PROVE  balance'[req'[r].from] >= req'[r].amount /\ req'[r].amount \in Nat
    BY <2>1, AmountType DEF TransferCheck, TypeOK
  <2>2. ASSUME NEW t \in TxIds, NEW p \in Patches, UpdateRead(r, t, p) PROVE FALSE
    BY <2>2 DEF UpdateRead, TypeOK
  <2>3. ASSUME NEW t \in TxIds, RemoveRead(r, t) PROVE FALSE
    BY <2>3 DEF RemoveRead, TypeOK
  <2>4. ASSUME NEW row \in Row, CreateCheck(r, row) PROVE FALSE
    BY <2>4 DEF CreateCheck, TypeOK
  <2>5. ASSUME NEW w \in Wallets, RemoveWalletCheck(r, w) PROVE FALSE
    BY <2>5 DEF RemoveWalletCheck, TypeOK
  <2>6. balance'[req'[r].from] >= req'[r].amount /\ req'[r].amount \in Nat
    BY <1>3, <2>1, <2>2, <2>3, <2>4, <2>5 DEF Reads
  <2>7. QED
    BY <1>2, <2>6
<1>4. CASE req'[r] = Idle
  BY <1>4 DEF Idle
<1>5. CASE req'[r] = req[r]
  <2>1. req[r] # Idle
    BY <1>5 DEF Idle
  <2>2. QED
    BY <1>4, <2>1, HandlerEnds
<1>6. [Next]_vars
  BY DEF Next
<1>7. QED
  BY <1>3, <1>4, <1>5, <1>6, ReqStep

\* With one device per user another device's step leaves a pending transfer's
\* source, and what was posted there, alone.
LEMMA OtherStepPromised ==
  ASSUME OneDevice, OwnInv, NeverStale, RacesInv, NEW q \in Reqs, Handler(q),
         posts' = [posts EXCEPT ![q] = {}], NEW r \in Reqs, r # q, req[r].op = "transfer"
  PROVE  balance'[req[r].from] = balance[req[r].from] /\ PostedSum(r)' = PostedSum(r)
<1> DEFINE f == req[r].from
<1> USE DEF OwnInv
<1>1. f \in Wallets /\ Owner[f] = ReqUser[r] /\ req'[r] = req[r] /\ posts'[r] = posts[r]
  BY RequestFields, HandlerKeeps DEF PendingOwn, PendingIsOwn, RacesInv
<1>2. balance'[f] = balance[f]
  <2>1. ReqUser[q] # ReqUser[r]
    BY DEF OneDevice
  <2>2. QED
    BY <1>1, <2>1, HandlerOwnMoney
<1>3. [Next]_vars /\ TypeOK' /\ ~StaleCommit
  BY TypeStep DEF Next, NeverStale, StaleCommit
<1>4. ASSUME NEW t \in TxIds PROVE Effect(rows'[t], f) = Effect(rows[t], f)
  <2>1. CASE rows'[t] = rows[t]
    BY <2>1
  <2>2. CASE rows'[t] # rows[t]
    <3>1. balance'[f] - balance[f] = Effect(rows'[t], f) - Effect(rows[t], f)
      BY <1>1, <1>3, <2>2, StepExplained DEF Explained
    <3>2. balance[f] \in Int /\ Effect(rows'[t], f) \in Int /\ Effect(rows[t], f) \in Int
      BY <1>1, SignedAmountType DEF TypeOK, Effect
    <3>3. QED
      BY <1>2, <3>1, <3>2
  <2>3. QED
    BY <2>1, <2>2
<1>5. [t \in TxIds |-> IF t \in posts'[r] THEN Effect(rows'[t], req'[r].from) ELSE 0]
      = [t \in TxIds |-> IF t \in posts[r] THEN Effect(rows[t], req[r].from) ELSE 0]
  BY <1>1, <1>4
<1>6. PostedSum(r)' = PostedSum(r)
  BY <1>5 DEF PostedSum, Effect
<1>7. QED
  BY <1>2, <1>6

\* A posting moves the source of a pending transfer and the sum alike.
LEMMA PostPromised ==
  ASSUME TypeOK, RacesInv, NEW t \in TxIds, NEW row \in Row, Post(t, row),
         posts' = [r \in Reqs |-> IF row.wallet \in LookedAt(r) THEN posts[r] \cup {t} ELSE posts[r]],
         NEW r \in Reqs, req[r].op = "transfer"
  PROVE  balance'[req[r].from] - balance[req[r].from] = PostedSum(r)' - PostedSum(r)
<1> DEFINE w == req[r].from
           f == [s \in TxIds |-> IF s \in posts[r] THEN Effect(rows[s], w) ELSE 0]
           h == [s \in TxIds |-> IF s \in posts'[r] THEN Effect(rows'[s], w) ELSE 0]
<1>1. /\ w \in Wallets /\ LookedAt(r) = {w} /\ req' = req
      /\ posts'[r] = IF row.wallet = w THEN posts[r] \cup {t} ELSE posts[r]
  BY RequestFields DEF LookedAt, Post, RacesInv
<1>2. /\ rows[t] = Unissued /\ rows' = [rows EXCEPT ![t] = row] /\ Owned(row.user, row.wallet)
      /\ balance' = ApplyToWallet(balance, row.user, row.wallet, SignedAmount(row))
  BY DEF Post, Insert, Owned
<1>3. /\ rows'[t] = row /\ \A s \in TxIds : s # t => rows'[s] = rows[s]
      /\ Unissued \notin Row
  BY <1>2, NoRowAssumption DEF NoRowAssumption, TypeOK
<1>4. SignedAmount(row) \in Int /\ row.wallet \in Wallets
  BY SignedAmountType, RowFields
<1>5. balance'[w] = balance[w] + Effect(row, w) /\ Effect(row, w) \in Int /\ balance[w] \in Int
  <2>1. Explained
    BY InsertExplained DEF Post
  <2>2. rows'[t] # rows[t] /\ Effect(rows'[t], w) = Effect(row, w) /\ Effect(rows[t], w) = 0
    BY <1>2, <1>3 DEF Effect
  <2>3. balance'[w] - balance[w] = Effect(row, w) - 0
    BY <1>1, <2>1, <2>2 DEF Explained
  <2>4. balance[w] \in Int /\ balance'[w] \in Int
    <3>1. TypeOK'
      BY TypeStep DEF Next
    <3>2. QED
      BY <1>1, <3>1 DEF TypeOK
  <2>5. Effect(row, w) \in Int
    BY <1>4 DEF Effect
  <2>6. QED
    BY <2>3, <2>4, <2>5
<1>6. f \in [TxIds -> Int] /\ h \in [TxIds -> Int]
  <2>1. \A s \in TxIds : Effect(rows[s], w) \in Int /\ Effect(rows'[s], w) \in Int
    BY SignedAmountType DEF Effect
  <2>2. QED
    BY <2>1
<1>7. \A s \in TxIds : s # t => h[s] = f[s]
  BY <1>1, <1>3
<1>8. f[t] = 0
  BY <1>2, <1>3 DEF Effect
<1>9. h[t] = Effect(row, w)
  BY <1>1, <1>3, <1>8, <1>2 DEF Effect
<1>10. PostedSum(r) = SumFunction(f) /\ PostedSum(r)' = SumFunction(h)
  BY <1>1 DEF PostedSum, Effect
<1> HIDE DEF f, h
<1>11. SumFunction(h) = SumFunction(f) + (h[t] - f[t]) /\ SumFunction(f) \in Int
  BY <1>6, <1>7, SumChange, SumType, FiniteAssumption DEF FiniteAssumption
<1>12. QED
  BY <1>5, <1>8, <1>9, <1>10, <1>11

\* Every step keeps what pending transfers were promised.
LEMMA PromisedStep ==
  ASSUME OneDevice, OwnInv, NeverStale, RacesInv, [RacesNext]_racesVars PROVE Promised'
<1> SUFFICES ASSUME NEW r \in Reqs, req'[r].op = "transfer"
             PROVE  balance'[req'[r].from] >= req'[r].amount + PostedSum(r)'
  BY DEF Promised
<1> USE DEF OwnInv
<1>1. ASSUME req'[r] = req[r]
      PROVE  /\ req[r].op = "transfer" /\ req[r].from \in Wallets /\ req[r].amount \in Nat
             /\ PostedSum(r) \in Int /\ balance[req[r].from] \in Int
             /\ balance[req[r].from] >= req[r].amount + PostedSum(r)
  BY <1>1, RequestFields, AmountType, PostedSumType DEF RacesInv, Promised, TypeOK
<1>2. ASSUME NEW q \in Reqs, Handler(q), posts' = [posts EXCEPT ![q] = {}]
      PROVE  balance'[req'[r].from] >= req'[r].amount + PostedSum(r)'
  <2>1. CASE q = r
    BY <1>2, <2>1, OwnStepPromised
  <2>2. CASE q # r
    <3>1. req'[r] = req[r]
      BY <1>2, <2>2, HandlerKeeps
    <3>2. balance'[req[r].from] = balance[req[r].from] /\ PostedSum(r)' = PostedSum(r)
      BY <1>1, <1>2, <2>2, <3>1, OtherStepPromised
    <3>3. QED
      BY <1>1, <3>1, <3>2
  <2>3. QED
    BY <2>1, <2>2
<1>3. ASSUME NEW t \in TxIds, NEW row \in Row, Post(t, row),
             posts' = [x \in Reqs |-> IF row.wallet \in LookedAt(x) THEN posts[x] \cup {t} ELSE posts[x]]
      PROVE  balance'[req'[r].from] >= req'[r].amount + PostedSum(r)'
  <2>1. req'[r] = req[r]
    BY <1>3 DEF Post
  <2>2. balance'[req[r].from] - balance[req[r].from] = PostedSum(r)' - PostedSum(r)
    BY <1>1, <1>3, <2>1, PostPromised
  <2>3. PostedSum(r)' \in Int /\ balance'[req[r].from] \in Int
    <3>1. TypeOK' /\ req'[r].op = "transfer"
      BY RacesIsLedger, TypeStep
    <3>2. [k \in TxIds |-> IF k \in posts'[r] THEN Effect(rows'[k], req'[r].from) ELSE 0] \in [TxIds -> Int]
      BY SignedAmountType DEF Effect
    <3>3. PostedSum(r)' \in Int
      BY <3>2, SumType, FiniteAssumption DEF FiniteAssumption, PostedSum, Effect
    <3>4. QED
      BY <1>1, <2>1, <3>1, <3>3 DEF TypeOK
  <2>4. QED
    BY <1>1, <2>1, <2>2, <2>3
<1>4. CASE (SelectDue /\ UNCHANGED posts) \/ UNCHANGED racesVars
  <2>1. UNCHANGED <<balance, rows, req, posts>>
    BY <1>4 DEF SelectDue, racesVars, vars
  <2>2. PostedSum(r)' = PostedSum(r)
    BY <2>1 DEF PostedSum, Effect
  <2>3. QED
    BY <1>1, <2>1, <2>2
<1>5. QED
  BY <1>2, <1>3, <1>4 DEF RacesNext

\* Nothing but a posting comes to refer to a wallet between the counts of its
\* removal and the delete.
LEMMA RefusalStep ==
  ASSUME OneDevice, OwnInv, RacesInv, [RacesNext]_racesVars PROVE RefusalIsPosted'
<1> SUFFICES ASSUME NEW r \in Reqs, req'[r].op = "removeWallet"
             PROVE  /\ req'[r].wallet \notin ruled'
                    /\ \A t \in TxIds : rows'[t] \in Row /\ rows'[t].wallet = req'[r].wallet => t \in posts'[r]
  BY DEF RefusalIsPosted
<1> USE DEF OwnInv
<1> DEFINE w == req'[r].wallet
           Good == /\ w \notin ruled'
                   /\ \A t \in TxIds : rows'[t] \in Row /\ rows'[t].wallet = w => t \in posts'[r]
<1>0. OwnInv'
  BY RacesIsLedger, OwnStep
<1>1. ASSUME req'[r] = req[r]
      PROVE  /\ w \in Wallets /\ Owner[w] = ReqUser[r] /\ w \notin ruled /\ req[r] # Idle
             /\ \A t \in TxIds : rows[t] \in Row /\ rows[t].wallet = w => t \in posts[r]
  BY <1>1, RequestFields DEF PendingOwn, PendingIsOwn, RacesInv, RefusalIsPosted, Idle
<1>2. ASSUME NEW q \in Reqs, Handler(q), posts' = [posts EXCEPT ![q] = {}], q # r PROVE Good
  <2>1. req'[r] = req[r] /\ posts'[r] = posts[r] /\ ReqUser[q] # ReqUser[r]
    BY <1>2, HandlerKeeps DEF RacesInv, OneDevice
  <2>2. w \notin ruled'
    BY <1>1, <1>2, <2>1, HandlerOwnRules
  <2>3. ASSUME NEW t \in TxIds, rows'[t] \in Row, rows'[t].wallet = w PROVE t \in posts'[r]
    <3>1. rows'[t].user = ReqUser[r]
      BY <1>0, <1>1, <2>1, <2>3 DEF RowsInOwnWallet, Owned
    <3>2. rows'[t] = rows[t]
      BY <1>2, <2>1, <2>3, <3>1, HandlerOwnRows
    <3>3. QED
      BY <1>1, <2>1, <2>3, <3>2
  <2>4. QED
    BY <2>2, <2>3
<1>3. ASSUME Handler(r) PROVE Good
  <2>1. ASSUME NEW v \in Wallets, RemoveWalletCheck(r, v) PROVE Good
    BY <2>1 DEF RemoveWalletCheck, Referenced, TypeOK
  <2>2. ASSUME NEW t \in TxIds, NEW p \in Patches, UpdateRead(r, t, p) PROVE FALSE
    BY <2>2 DEF UpdateRead, TypeOK
  <2>3. ASSUME NEW t \in TxIds, RemoveRead(r, t) PROVE FALSE
    BY <2>3 DEF RemoveRead, TypeOK
  <2>4. ASSUME NEW row \in Row, CreateCheck(r, row) PROVE FALSE
    BY <2>4 DEF CreateCheck, TypeOK
  <2>5. ASSUME NEW f \in Wallets, NEW t \in Wallets, NEW a \in Amounts, TransferCheck(r, f, t, a)
        PROVE  FALSE
    BY <2>5 DEF TransferCheck, TypeOK
  <2>6. req'[r] # Idle
    BY DEF Idle
  <2>7. Reads(r)
    <3>1. [Next]_vars
      BY <1>3 DEF Next
    <3>2. req'[r] # req[r]
      BY <1>3, <2>6, HandlerEnds
    <3>3. QED
      BY <2>6, <3>1, <3>2, ReqStep
  <2>8. QED
    BY <2>1, <2>2, <2>3, <2>4, <2>5, <2>7 DEF Reads
<1>4. ASSUME NEW t \in TxIds, NEW row \in Row, Post(t, row),
             posts' = [x \in Reqs |-> IF row.wallet \in LookedAt(x) THEN posts[x] \cup {t} ELSE posts[x]]
      PROVE  Good
  <2>1. req'[r] = req[r] /\ ruled' = ruled
    BY <1>4 DEF Post, Insert
  <2>2. rows' = [rows EXCEPT ![t] = row]
    BY <1>4 DEF Post, Insert
  <2>3. LookedAt(r) = {w}
    BY <2>1 DEF LookedAt
  <2>4. posts'[r] = IF row.wallet = w THEN posts[r] \cup {t} ELSE posts[r]
    BY <1>4, <2>3
  <2>5. QED
    BY <1>1, <2>1, <2>2, <2>4 DEF TypeOK
<1>5. CASE (SelectDue /\ UNCHANGED posts) \/ UNCHANGED racesVars
  BY <1>1, <1>5 DEF SelectDue, racesVars, vars
<1>6. QED
  BY <1>2, <1>3, <1>4, <1>5 DEF RacesNext

LEMMA RacesInvStep ==
  ASSUME OneDevice PROVE OwnInv /\ NeverStale /\ RacesInv /\ [RacesNext]_racesVars => RacesInv'
<1> SUFFICES ASSUME OwnInv, NeverStale, RacesInv, [RacesNext]_racesVars PROVE RacesInv'
  OBVIOUS
<1>1. posts' \in [Reqs -> SUBSET TxIds]
  BY DEF RacesInv, RacesNext, racesVars
<1>2. QED
  BY <1>1, PromisedStep, RefusalStep DEF RacesInv

LEMMA RacesInitInv == RacesInit => RacesInv
  BY DEF RacesInit, Init, Idle, RacesInv, Promised, RefusalIsPosted

\* The history variable restricts nothing: it only watches.
LEMMA RacesAlways ==
  ASSUME OneDevice PROVE RacesSpec => [](OwnInv /\ NeverStale /\ RacesInv)
<1>1. RacesInit => Init
  BY DEF RacesInit
<1>2. OwnInv /\ NeverStale /\ RacesInv /\ [RacesNext]_racesVars => RacesInv'
  BY RacesInvStep
<1>3. QED
  BY <1>1, <1>2, RacesInitInv, RacesIsLedger, OwnAlways, OneDeviceNeverStale, PTL DEF RacesSpec, Spec

\* With one device per user a transfer overdraws its source by no more than the
\* scheduler posted there after the balance was compared.
THEOREM OneDeviceOverdraftIsPosted ==
  ASSUME OneDevice PROVE RacesSpec => OverdraftIsPosted
<1>1. ASSUME OwnInv, RacesInv, NEW r \in Reqs, TransferCommit(r)
      PROVE  balance'[req[r].from] >= PostedSum(r)
  <2> DEFINE w == req[r].from
             a == req[r].amount
  <2>1. /\ w \in Wallets /\ req[r].to \in Wallets /\ a \in Nat /\ PostedSum(r) \in Int
        /\ balance[w] >= a + PostedSum(r)
    BY <1>1, RequestFields, AmountType, PostedSumType DEF OwnInv, TransferCommit, RacesInv, Promised
  <2>2. balance[w] \in Int /\ balance'[w] \in {balance[w] - a, balance[w] - a + a}
    BY <1>1, <2>1 DEF TransferCommit, OwnInv, TypeOK
  <2>3. QED
    BY <2>1, <2>2
<1>2. OwnInv /\ RacesInv => [\A r \in Reqs : TransferCommit(r) => balance'[req[r].from] >= PostedSum(r)]_racesVars
  BY <1>1
<1>3. QED
  BY <1>2, RacesAlways, PTL DEF OverdraftIsPosted

\* With one device per user a removal that passed its counts meets no rule of
\* its user, and only rows the scheduler posted since.
THEOREM OneDeviceRefusalIsPosted ==
  ASSUME OneDevice PROVE RacesSpec => []RefusalIsPosted
<1>1. RacesInv => RefusalIsPosted
  BY DEF RacesInv
<1>2. QED
  BY <1>1, RacesAlways, PTL
=============================================================================
