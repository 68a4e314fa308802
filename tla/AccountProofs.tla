--------------------------- MODULE AccountProofs ---------------------------
(***************************************************************************)
(* Proofs about Account for every set of users, categories, rows and       *)
(* requests.                                                               *)
(***************************************************************************)
EXTENDS Account, TLAPS

-----------------------------------------------------------------------------
\* What a request that has begun holds.
LEMMA RequestFields ==
  ASSUME NEW q \in Request
  PROVE  /\ q.op = "add" => q.row \in Row
         /\ q.op = "move" => q.item \in Items /\ q.to \in Categories
         /\ q.op = "budget" => q.user \in Users /\ q.category \in Categories
         /\ q.op = "removeCategory" =>
               q.user \in Users /\ q.category \in Categories /\ q.counted \in SUBSET Kinds
         /\ q.op = "deleteAccount" =>
               q.user \in Users /\ q.cleared \in SUBSET Kinds /\ q.rows \in SUBSET Items
  BY DEF Request, Kinds

\* What a count makes of them.
LEMMA CountedRequest ==
  ASSUME NEW q \in Request, q.op = "removeCategory", NEW K \in SUBSET Kinds,
         NEW n, n = [q EXCEPT !.counted = K]
  PROVE  n \in Request /\ n.op = q.op /\ n.user = q.user /\ n.category = q.category /\ n.counted = K
  BY DEF Request

\* What a stored row holds, and what moving and posting it make.
LEMMA ItemFields ==
  ASSUME NEW row \in Row \cup {Unused, Gone}, row.kind \in Kinds
  PROVE  /\ row \in Row /\ row.user \in Users /\ row.category \in Categories
         /\ \A c \in Categories :
               /\ [row EXCEPT !.category = c] \in Row
               /\ [row EXCEPT !.category = c].kind = row.kind
               /\ [row EXCEPT !.category = c].user = row.user
               /\ [row EXCEPT !.category = c].category = c
         /\ [row EXCEPT !.kind = "transaction"] \in Row
         /\ [row EXCEPT !.kind = "transaction"].user = row.user
         /\ [row EXCEPT !.kind = "transaction"].category = row.category
<1>1. row \in Row
  BY DEF Unused, Gone, Kinds
<1>2. QED
  BY <1>1 DEF Row, Kinds

LEMMA IdleTyped == Idle \in Request /\ Idle.op = "idle"
  BY DEF Idle, Request

LEMMA NoRows == Gone.kind \notin Kinds /\ Unused.kind \notin Kinds
  BY DEF Gone, Unused, Kinds

\* A statement of a deletion adds the rows it found, and its kind.
LEMMA ClearStep ==
  ASSUME TypeOK, NEW r \in Reqs, NEW kind \in Kinds, NEW before \in SUBSET Kinds, Clear(r, kind, before)
  PROVE  /\ req' \in [Reqs -> Request]
         /\ req'[r].op = "deleteAccount" /\ req'[r].user = req[r].user
         /\ req'[r].cleared = before \cup {kind}
         /\ req'[r].rows = req[r].rows \cup OfKind(ItemsOf(req[r].user), {kind})
<1> DEFINE K == before \cup {kind}
           S == req[r].rows \cup OfKind(ItemsOf(req[r].user), {kind})
           q == [req[r] EXCEPT !.cleared = K, !.rows = S]
<1>1. req' = [req EXCEPT ![r] = q]
  BY DEF Clear, Goto
<1>2. req[r].op = "deleteAccount"
  BY DEF Clear
<1>3. S \in SUBSET Items /\ K \in SUBSET Kinds
  BY <1>2, RequestFields DEF OfKind, ItemsOf, TypeOK
<1>4. req[r] \in Request
  BY DEF TypeOK
<1> HIDE DEF K, S
<1>5. \A n : n = q => n \in Request /\ n.op = "deleteAccount" /\ n.user = req[r].user
                      /\ n.cleared = K /\ n.rows = S
  BY <1>2, <1>3, <1>4 DEF Request
<1> HIDE DEF q
<1>6. req'[r] = q /\ req' \in [Reqs -> Request]
  BY <1>1, <1>5 DEF TypeOK
<1>7. QED
  BY <1>5, <1>6 DEF K, S

\* Every variable keeps its type.
LEMMA TypeStep == TypeOK /\ [Next]_vars => TypeOK'
<1> SUFFICES ASSUME TypeOK, [Next]_vars PROVE TypeOK'
  OBVIOUS
<1> USE DEF TypeOK
<1>1. ASSUME NEW u \in Users, NEW c \in Categories, CreateCategory(u, c) \/ RemoveBudget(<<u, c>>)
      PROVE  TypeOK'
  BY <1>1 DEF CreateCategory, RemoveBudget
<1>2. ASSUME NEW i \in Items, RemoveItem(i) PROVE TypeOK'
  BY <1>2 DEF RemoveItem
<1>3. ASSUME NEW r \in Reqs, NEW kind \in Kinds, NEW u \in Users, NEW c \in Categories,
             AddCheck(r, kind, u, c)
      PROVE  TypeOK'
  BY <1>3 DEF AddCheck, Goto, Request, Row
<1>4. ASSUME NEW r \in Reqs, NEW u \in Users, NEW c \in Categories,
             BudgetCheck(r, u, c) \/ FindOwned(r, u, c)
      PROVE  TypeOK'
  BY <1>4 DEF BudgetCheck, FindOwned, Goto, Request
<1>5. ASSUME NEW r \in Reqs, NEW u \in Users, DeleteBegin(r, u) PROVE TypeOK'
  BY <1>5 DEF DeleteBegin, Goto, Request
<1>6. ASSUME NEW r \in Reqs, NEW i \in Items, SelectRule(r, i) PROVE TypeOK'
  <2>1. item[i].kind \in Kinds
    BY <1>6 DEF SelectRule, Kinds
  <2>2. [op |-> "add", row |-> [item[i] EXCEPT !.kind = "transaction"]] \in Request
    BY <2>1, ItemFields DEF Request
  <2>3. QED
    BY <1>6, <2>2 DEF SelectRule, Goto
<1>7. ASSUME NEW r \in Reqs, NEW i \in Items, AddInsert(r, i) PROVE TypeOK'
  <2>1. req[r].row \in Row
    BY <1>7, RequestFields DEF AddInsert
  <2>2. QED
    BY <1>7, <2>1, IdleTyped DEF AddInsert, Goto, Overtaken
<1>8. ASSUME NEW r \in Reqs, NEW i \in Items, NEW c \in Categories, MoveCheck(r, i, c) PROVE TypeOK'
  BY <1>8 DEF MoveCheck, Goto, Request
<1>9. ASSUME NEW r \in Reqs, MoveUpdate(r) PROVE TypeOK'
  <2>1. req[r].item \in Items /\ req[r].to \in Categories
    BY <1>9, RequestFields DEF MoveUpdate
  <2> DEFINE i == req[r].item
             c == req[r].to
  <2>2. [item[i] EXCEPT !.category = c] \in Row \cup {Unused, Gone}
    <3>1. CASE item[i].kind \in Kinds
      BY <2>1, <3>1, ItemFields
    <3>2. CASE item[i].kind \notin Kinds
      BY <2>1, <3>2 DEF Row, Unused, Gone
    <3>3. QED
      BY <3>1, <3>2
  <2>3. QED
    BY <1>9, <2>1, <2>2, IdleTyped DEF MoveUpdate, Goto, Overtaken
<1>10. ASSUME NEW r \in Reqs, BudgetUpsert(r) PROVE TypeOK'
  <2>1. <<req[r].user, req[r].category>> \in Budget
    BY <1>10, RequestFields DEF BudgetUpsert, Budget
  <2>2. QED
    BY <1>10, <2>1, IdleTyped DEF BudgetUpsert, Goto
<1>11. ASSUME NEW r \in Reqs, NEW kind \in Kinds, Count(r, kind) PROVE TypeOK'
  <2>1. req' = [req EXCEPT ![r] = [req[r] EXCEPT !.counted = req[r].counted \cup {kind}]] \/ req' = [req EXCEPT ![r] = Idle]
    BY <1>11 DEF Count, Goto, End
  <2>2. [req[r] EXCEPT !.counted = req[r].counted \cup {kind}] \in Request
    <3>1. req[r].counted \cup {kind} \in SUBSET Kinds
      BY <1>11, RequestFields DEF Count
    <3>2. QED
      BY <1>11, <3>1, CountedRequest DEF Count
  <2>3. req' \in [Reqs -> Request]
    BY <2>1, <2>2, IdleTyped
  <2>4. UNCHANGED <<account, category, item, budget>> /\ raced' \subseteq Reqs
    BY <1>11 DEF Count, End
  <2>5. QED
    BY <2>3, <2>4
<1>12. ASSUME NEW r \in Reqs, DeleteCategory(r) PROVE TypeOK'
  BY <1>12, IdleTyped DEF DeleteCategory, Goto, End
<1>13. ASSUME NEW r \in Reqs, DeleteTransactions(r) \/ DeleteRules(r) PROVE TypeOK'
  <2>1. ASSUME NEW kind \in Kinds, NEW before \in SUBSET Kinds, Clear(r, kind, before) PROVE TypeOK'
    <3>1. req' \in [Reqs -> Request]
      BY <2>1, ClearStep
    <3>2. QED
      BY <2>1, <3>1 DEF Clear
  <2>2. QED
    BY <1>13, <2>1 DEF DeleteTransactions, DeleteRules, Kinds
<1>14. ASSUME NEW r \in Reqs, DeleteUser(r) PROVE TypeOK'
  BY <1>14, IdleTyped DEF DeleteUser, Goto, End
<1>15. ASSUME NEW r \in Reqs, Fail(r) PROVE TypeOK'
  BY <1>15, IdleTyped DEF Fail, Goto, End
<1>16. CASE UNCHANGED vars
  BY <1>16 DEF vars
<1>17. QED
  BY <1>1, <1>2, <1>3, <1>4, <1>5, <1>6, <1>7, <1>8, <1>9, <1>10, <1>11, <1>12, <1>13, <1>14,
     <1>15, <1>16 DEF Next, Handler

\* Every reachable state of Account is well typed.
THEOREM TypeCorrect == Spec => []TypeOK
<1>1. Init => TypeOK
  BY IdleTyped, OwnerAssumption DEF Init, TypeOK
<1>2. QED
  BY <1>1, TypeStep, PTL DEF Spec

-----------------------------------------------------------------------------
\* A pending request's category is one its user may see, and the row that a
\* pending update names has been stored.
Proper(u, c) == CatOwner[c] \in {System, u}

RequestsChecked ==
    \A r \in Reqs :
        /\ req[r].op = "add" => Proper(req[r].row.user, req[r].row.category)
        /\ req[r].op = "budget" => Proper(req[r].user, req[r].category)
        /\ req[r].op = "move" =>
              LET row == item[req[r].item]
              IN  row = Gone \/ (row.kind \in Kinds /\ Proper(row.user, req[r].to))

IInv == TypeOK /\ FiledUnderUsable /\ RequestsChecked

\* A stored row stays its user's and of its kind, until it is gone for good.
LEMMA ItemStep ==
  ASSUME TypeOK, [Next]_vars, NEW i \in Items, item[i].kind \in Kinds
  PROVE  \/ item'[i] = Gone
         \/ item'[i].kind = item[i].kind /\ item'[i].user = item[i].user
<1> DEFINE Kept == item'[i] = Gone \/ (item'[i].kind = item[i].kind /\ item'[i].user = item[i].user)
<1>1. ASSUME NEW r \in Reqs, NEW j \in Items, AddInsert(r, j) PROVE Kept
  BY <1>1, NoRows DEF AddInsert, TypeOK
<1>2. ASSUME NEW r \in Reqs, MoveUpdate(r) PROVE Kept
  <2>1. req[r].item \in Items /\ req[r].to \in Categories
    BY <1>2, RequestFields DEF MoveUpdate, TypeOK
  <2>2. CASE item' = item
    BY <2>2
  <2>3. CASE item' = [item EXCEPT ![req[r].item].category = req[r].to]
    BY <2>1, <2>3, ItemFields DEF TypeOK
  <2>4. QED
    BY <1>2, <2>2, <2>3 DEF MoveUpdate
<1>3. ASSUME NEW j \in Items, RemoveItem(j) PROVE Kept
  BY <1>3 DEF RemoveItem, TypeOK
<1>4. ASSUME NEW r \in Reqs, DeleteUser(r) PROVE Kept
  BY <1>4 DEF DeleteUser, TypeOK
<1>5. ASSUME UNCHANGED item PROVE Kept
  BY <1>5
<1> HIDE DEF Kept
<1>6. Kept
  BY <1>1, <1>2, <1>3, <1>4, <1>5
     DEF Next, Handler, CreateCategory, RemoveBudget, AddCheck, BudgetCheck, FindOwned, DeleteBegin,
         SelectRule, MoveCheck, Count, BudgetUpsert, DeleteCategory, DeleteTransactions, DeleteRules,
         Clear, Fail, vars
<1>7. QED
  BY <1>6 DEF Kept

LEMMA GoneForGood ==
  ASSUME TypeOK, [Next]_vars, NEW i \in Items, item[i] = Gone
  PROVE  item'[i] = Gone
<1> USE DEF TypeOK
<1>1. ASSUME NEW r \in Reqs, NEW j \in Items, AddInsert(r, j) PROVE item'[i] = Gone
  BY <1>1 DEF AddInsert, Gone, Unused
<1>2. ASSUME NEW r \in Reqs, MoveUpdate(r) PROVE item'[i] = Gone
  <2>1. item' = item \/ (req[r].item # i /\ item' = [item EXCEPT ![req[r].item].category = req[r].to])
    BY <1>2 DEF MoveUpdate
  <2>2. QED
    BY <2>1
<1>3. ASSUME NEW j \in Items, RemoveItem(j) PROVE item'[i] = Gone
  BY <1>3 DEF RemoveItem
<1>4. ASSUME NEW r \in Reqs, DeleteUser(r) PROVE item'[i] = Gone
  BY <1>4 DEF DeleteUser
<1>5. CASE UNCHANGED item
  BY <1>5
<1>6. QED
  BY <1>1, <1>2, <1>3, <1>4, <1>5
     DEF Next, Handler, CreateCategory, RemoveBudget, AddCheck, BudgetCheck, FindOwned, DeleteBegin,
         SelectRule, MoveCheck, Count, BudgetUpsert, DeleteCategory, DeleteTransactions, DeleteRules,
         Clear, Fail, vars

\* A step of one request leaves the others where they are.
LEMMA OthersStep ==
  ASSUME TypeOK, [Next]_vars, NEW r \in Reqs
  PROVE  req'[r] = req[r] \/ Handler(r)
<1>1. ASSUME NEW s \in Reqs, s # r, Handler(s) PROVE req'[r] = req[r]
  <2>1. ASSUME NEW q, req' = [req EXCEPT ![s] = q] PROVE req'[r] = req[r]
    BY <1>1, <2>1 DEF TypeOK
  <2>2. \E q : req' = [req EXCEPT ![s] = q]
    <3>1. ASSUME NEW i \in Items, SelectRule(s, i) \/ AddInsert(s, i) PROVE \E q : req' = [req EXCEPT ![s] = q]
      BY <3>1 DEF SelectRule, AddInsert, Goto
    <3>2. ASSUME NEW kind \in Kinds, Count(s, kind) PROVE \E q : req' = [req EXCEPT ![s] = q]
      BY <3>2 DEF Count, Goto, End
    <3>3. ASSUME NEW kind, NEW before, Clear(s, kind, before) PROVE \E q : req' = [req EXCEPT ![s] = q]
      BY <3>3 DEF Clear, Goto
    <3>4. QED
      BY <1>1, <3>1, <3>2, <3>3
         DEF Handler, AddCheck, BudgetCheck, FindOwned, DeleteBegin, MoveCheck, MoveUpdate, BudgetUpsert,
             DeleteCategory, DeleteTransactions, DeleteRules, DeleteUser, Fail, Goto, End
  <2>3. QED
    BY <2>1, <2>2
<1>2. CASE UNCHANGED req
  BY <1>2
<1>3. QED
  BY <1>1, <1>2 DEF Next, CreateCategory, RemoveBudget, RemoveItem, vars

\* A request only holds what its user may see, which does not change.
LEMMA CheckedStep == TypeOK /\ FiledUnderUsable /\ RequestsChecked /\ [Next]_vars => RequestsChecked'
<1> SUFFICES ASSUME TypeOK, FiledUnderUsable, RequestsChecked, [Next]_vars, NEW r \in Reqs
             PROVE  /\ req'[r].op = "add" => Proper(req'[r].row.user, req'[r].row.category)
                    /\ req'[r].op = "budget" => Proper(req'[r].user, req'[r].category)
                    /\ req'[r].op = "move" =>
                          \/ item'[req'[r].item] = Gone
                          \/ /\ item'[req'[r].item].kind \in Kinds
                             /\ Proper(item'[req'[r].item].user, req'[r].to)
  BY DEF RequestsChecked, Proper
<1> DEFINE Ok(q) == /\ q.op = "add" => Proper(q.row.user, q.row.category)
                    /\ q.op = "budget" => Proper(q.user, q.category)
                    /\ q.op = "move" => \/ item'[q.item] = Gone
                                        \/ /\ item'[q.item].kind \in Kinds
                                           /\ Proper(item'[q.item].user, q.to)
<1>1. ASSUME req'[r] = req[r] PROVE Ok(req'[r])
  <2>1. CASE req[r].op = "move"
    <3>1. req[r].item \in Items
      BY <2>1, RequestFields DEF TypeOK
    <3> DEFINE i == req[r].item
    <3>2. CASE item[i] = Gone
      BY <1>1, <2>1, <3>1, <3>2, GoneForGood
    <3>3. CASE item[i].kind \in Kinds /\ Proper(item[i].user, req[r].to)
      BY <1>1, <2>1, <3>1, <3>3, ItemStep
    <3>4. QED
      BY <2>1, <3>2, <3>3 DEF RequestsChecked
  <2>2. CASE req[r].op # "move"
    BY <1>1, <2>2 DEF RequestsChecked
  <2>3. QED
    BY <2>1, <2>2
<1>2. ASSUME NEW kind \in Kinds, NEW u \in Users, NEW c \in Categories, AddCheck(r, kind, u, c)
      PROVE  Ok(req'[r])
  BY <1>2 DEF AddCheck, Goto, Usable, Proper, TypeOK
<1>3. ASSUME NEW u \in Users, NEW c \in Categories, BudgetCheck(r, u, c) \/ FindOwned(r, u, c)
      PROVE  Ok(req'[r])
  BY <1>3 DEF BudgetCheck, FindOwned, Goto, Usable, Proper, TypeOK
<1>4. ASSUME NEW i \in Items, SelectRule(r, i) PROVE Ok(req'[r])
  <2>1. item[i].kind \in Kinds
    BY <1>4 DEF SelectRule, Kinds
  <2>2. Proper(item[i].user, item[i].category)
    BY <2>1 DEF FiledUnderUsable, Proper
  <2> DEFINE row == [item[i] EXCEPT !.kind = "transaction"]
  <2>3. row.user = item[i].user /\ row.category = item[i].category
    BY <2>1, ItemFields DEF TypeOK
  <2>4. req'[r] = [op |-> "add", row |-> row]
    BY <1>4 DEF SelectRule, Goto, TypeOK
  <2> HIDE DEF row
  <2>5. QED
    BY <2>2, <2>3, <2>4
<1>5. ASSUME NEW i \in Items, NEW c \in Categories, MoveCheck(r, i, c) PROVE Ok(req'[r])
  BY <1>5 DEF MoveCheck, Goto, Usable, Proper, TypeOK
<1>6. ASSUME req'[r].op \in {"idle", "removeCategory", "deleteAccount"} PROVE Ok(req'[r])
  BY <1>6
<1>7. ASSUME NEW u \in Users, DeleteBegin(r, u) PROVE req'[r].op = "deleteAccount"
  BY <1>7 DEF DeleteBegin, Goto, TypeOK
<1>8. ASSUME NEW kind \in Kinds, Count(r, kind) PROVE req'[r].op \in {"idle", "removeCategory"}
  <2>1. req'[r] = Idle \/ req'[r] = [req[r] EXCEPT !.counted = req[r].counted \cup {kind}]
    BY <1>8 DEF Count, Goto, End, TypeOK
  <2>2. req[r].op = "removeCategory" /\ req[r].counted \cup {kind} \in SUBSET Kinds
    BY <1>8, RequestFields DEF Count, TypeOK
  <2>3. [req[r] EXCEPT !.counted = req[r].counted \cup {kind}].op = "removeCategory"
    BY <2>2, CountedRequest DEF TypeOK
  <2>4. QED
    BY <2>1, <2>3, IdleTyped
<1>9. ASSUME NEW kind \in Kinds, NEW before \in SUBSET Kinds, Clear(r, kind, before)
      PROVE  req'[r].op = "deleteAccount"
  BY <1>9, ClearStep DEF TypeOK
<1>10. ASSUME req' = [req EXCEPT ![r] = Idle] PROVE req'[r].op = "idle"
  BY <1>10, IdleTyped DEF TypeOK
<1> HIDE DEF Ok
<1>11. Ok(req'[r])
  <2>1. ASSUME NEW i \in Items, AddInsert(r, i) PROVE req'[r].op = "idle"
    BY <2>1, <1>10 DEF AddInsert, Goto
  <2>2. ASSUME MoveUpdate(r) \/ BudgetUpsert(r) \/ DeleteCategory(r) \/ DeleteUser(r) \/ Fail(r)
        PROVE  req'[r].op = "idle"
    BY <2>2, <1>10 DEF MoveUpdate, BudgetUpsert, DeleteCategory, DeleteUser, Fail, Goto, End
  <2>3. QED
    BY <1>1, <1>2, <1>3, <1>4, <1>5, <1>6, <1>7, <1>8, <1>9, <2>1, <2>2, OthersStep
       DEF Handler, DeleteTransactions, DeleteRules, Kinds
<1>12. QED
  BY <1>11 DEF Ok

\* Each action keeps what is stored filed under what its user may see.
LEMMA FiledStep == IInv /\ [Next]_vars => FiledUnderUsable'
<1> SUFFICES ASSUME IInv, [Next]_vars PROVE FiledUnderUsable'
  OBVIOUS
<1> USE DEF IInv
<1> DEFINE Item(row) == row.kind \in Kinds =>
                           /\ account'[row.user] = "active" /\ category'[row.category] = "live"
                           /\ Proper(row.user, row.category)
           Bud(b)    == /\ account'[b[1]] = "active" /\ category'[b[2]] = "live"
                        /\ Proper(b[1], b[2])
           Goal      == (\A i \in Items : Item(item'[i])) /\ (\A b \in budget' : Bud(b))
<1>1. /\ \A i \in Items : item[i].kind \in Kinds =>
            /\ account[item[i].user] = "active" /\ category[item[i].category] = "live"
            /\ Proper(item[i].user, item[i].category)
      /\ \A b \in budget : /\ account[b[1]] = "active" /\ category[b[2]] = "live"
                           /\ Proper(b[1], b[2])
  BY DEF FiledUnderUsable, Parents, Proper
<1>2. ASSUME UNCHANGED <<account, category, item, budget>> PROVE Goal
  BY <1>1, <1>2
<1>3. ASSUME NEW u \in Users, NEW c \in Categories, CreateCategory(u, c) PROVE Goal
  <2>1. \A d \in Categories : category[d] = "live" => category'[d] = "live"
    BY <1>3 DEF CreateCategory, TypeOK
  <2>2. UNCHANGED <<account, item, budget>>
    BY <1>3 DEF CreateCategory
  <2>3. ASSUME NEW i \in Items, item[i].kind \in Kinds PROVE item[i].category \in Categories
    BY <2>3, ItemFields DEF TypeOK
  <2>4. \A b \in budget : b[2] \in Categories
    BY DEF TypeOK, Budget
  <2>5. QED
    BY <1>1, <2>1, <2>2, <2>3, <2>4
<1>4. ASSUME NEW b, RemoveBudget(b) PROVE Goal
  BY <1>1, <1>4 DEF RemoveBudget
<1>5. ASSUME NEW r \in Reqs, NEW i \in Items, AddInsert(r, i) PROVE Goal
  <2>1. UNCHANGED <<account, category, budget>> /\ item' = [item EXCEPT ![i] = req[r].row]
    BY <1>5 DEF AddInsert
  <2>2. /\ account[req[r].row.user] = "active" /\ category[req[r].row.category] = "live"
        /\ Proper(req[r].row.user, req[r].row.category)
    BY <1>5 DEF AddInsert, Parents, RequestsChecked
  <2>3. \A j \in Items : item'[j] = IF j = i THEN req[r].row ELSE item[j]
    BY <2>1 DEF TypeOK
  <2>4. QED
    BY <1>1, <2>1, <2>2, <2>3
<1>6. ASSUME NEW r \in Reqs, MoveUpdate(r) PROVE Goal
  <2> DEFINE i == req[r].item
             c == req[r].to
  <2>1. UNCHANGED <<account, category, budget>>
    BY <1>6 DEF MoveUpdate
  <2>2. CASE item' = item
    BY <1>1, <2>1, <2>2
  <2>3. CASE item[i] # Gone
    <3>1. i \in Items /\ c \in Categories
      BY <1>6, RequestFields DEF MoveUpdate, TypeOK
    <3>2. item[i].kind \in Kinds /\ Proper(item[i].user, c)
      BY <1>6, <2>3 DEF MoveUpdate, RequestsChecked
    <3>3. category[c] = "live" /\ item' = [item EXCEPT ![i].category = c]
      BY <1>6, <2>3, <3>2 DEF MoveUpdate
    <3>4. item'[i].user = item[i].user /\ item'[i].category = c
      BY <3>1, <3>2, <3>3, ItemFields DEF TypeOK
    <3>5. Item(item'[i])
      BY <1>1, <2>1, <3>1, <3>2, <3>3, <3>4
    <3>6. \A j \in Items : j # i => item'[j] = item[j]
      BY <3>3 DEF TypeOK
    <3> HIDE DEF i, c
    <3>7. QED
      BY <1>1, <2>1, <3>5, <3>6
  <2>4. QED
    BY <1>6, <2>2, <2>3 DEF MoveUpdate
<1>7. ASSUME NEW i \in Items, RemoveItem(i) PROVE Goal
  BY <1>1, <1>7, NoRows DEF RemoveItem, TypeOK
<1>8. ASSUME NEW r \in Reqs, BudgetUpsert(r) PROVE Goal
  <2>1. UNCHANGED <<account, category, item>> /\ budget' = budget \cup {<<req[r].user, req[r].category>>}
    BY <1>8 DEF BudgetUpsert
  <2>2. /\ account[req[r].user] = "active" /\ category[req[r].category] = "live"
        /\ Proper(req[r].user, req[r].category)
    BY <1>8 DEF BudgetUpsert, Parents, RequestsChecked
  <2>3. QED
    BY <1>1, <2>1, <2>2
<1>9. ASSUME NEW r \in Reqs, DeleteCategory(r) PROVE Goal
  <2> DEFINE c == req[r].category
  <2>1. /\ UNCHANGED <<account, item>> /\ budget' = {b \in budget : b[2] # c}
        /\ \A i \in Items : item[i].kind \in Kinds => item[i].category # c
        /\ category' = [category EXCEPT ![c] = "gone"]
    BY <1>9 DEF DeleteCategory, ItemsIn
  <2>2. \A d \in Categories : d # c => category'[d] = category[d]
    BY <2>1 DEF TypeOK
  <2>3. ASSUME NEW i \in Items, item[i].kind \in Kinds PROVE item[i].category \in Categories
    BY <2>3, ItemFields DEF TypeOK
  <2>4. \A b \in budget : b[2] \in Categories
    BY DEF TypeOK, Budget
  <2> HIDE DEF c
  <2>5. QED
    BY <1>1, <2>1, <2>2, <2>3, <2>4
<1>10. ASSUME NEW r \in Reqs, DeleteUser(r) PROVE Goal
  <2> DEFINE u == req[r].user
  <2>1. /\ \A i \in Items : item[i].kind \in Kinds /\ item[i].user = u => i \in req[r].rows
        /\ account' = [account EXCEPT ![u] = "gone"]
        /\ item' = [i \in Items |-> IF i \in req[r].rows THEN Gone ELSE item[i]]
        /\ category' = [c \in Categories |-> IF CatOwner[c] = u /\ category[c] = "live"
                                             THEN "gone" ELSE category[c]]
        /\ budget' = {b \in budget : b[1] # u /\ CatOwner[b[2]] # u}
    BY <1>10 DEF DeleteUser, ItemsOf
  <2>2. \A v \in Users : v # u => account'[v] = account[v]
    BY <2>1 DEF TypeOK
  <2>3. \A c \in Categories : CatOwner[c] # u => category'[c] = category[c]
    BY <2>1
  <2>4. ASSUME NEW i \in Items, item'[i].kind \in Kinds PROVE Item(item'[i])
    <3>1. item'[i] = item[i] /\ item[i].kind \in Kinds /\ item[i].user # u
      BY <2>1, <2>4, NoRows
    <3>2. item[i].user \in Users /\ item[i].category \in Categories
      BY <3>1, ItemFields DEF TypeOK
    <3>3. CatOwner[item[i].category] # u
      <4>1. Proper(item[i].user, item[i].category)
        BY <1>1, <3>1
      <4>2. u \in Users
        BY <1>10, RequestFields DEF DeleteUser, Cleared, TypeOK
      <4>3. QED
        BY <3>1, <4>1, <4>2, OwnerAssumption DEF OwnerAssumption, Proper
    <3>4. QED
      BY <1>1, <2>2, <2>3, <3>1, <3>2, <3>3
  <2>5. ASSUME NEW b \in budget' PROVE Bud(b)
    <3>1. b \in budget /\ b[1] # u /\ CatOwner[b[2]] # u /\ b[1] \in Users /\ b[2] \in Categories
      BY <2>1, <2>5 DEF TypeOK, Budget
    <3>2. QED
      BY <1>1, <2>2, <2>3, <3>1
  <2>6. QED
    BY <2>4, <2>5
<1> HIDE DEF Goal
<1>11. Goal
  <2>1. CASE UNCHANGED <<account, category, item, budget>>
    BY <1>2, <2>1 DEF Goal
  <2>2. QED
    BY <1>3, <1>4, <1>5, <1>6, <1>7, <1>8, <1>9, <1>10, <2>1
       DEF Next, Handler, AddCheck, BudgetCheck, FindOwned, DeleteBegin, SelectRule, MoveCheck, Count,
           DeleteTransactions, DeleteRules, Clear, Fail, vars
<1>12. QED
  BY <1>11 DEF Goal, FiledUnderUsable, Parents, Proper

\* However old a check is when its row is stored: what is stored belongs to an
\* account that exists and is filed under a category that exists and that its
\* user may see.
THEOREM StoredIsFiled == Spec => []FiledUnderUsable
<1>1. Init => IInv
  <2>1. Init => TypeOK
    BY IdleTyped, OwnerAssumption DEF Init, TypeOK
  <2>2. Init => FiledUnderUsable
    BY NoRows DEF Init, FiledUnderUsable
  <2>3. Init => RequestsChecked
    BY IdleTyped DEF Init, RequestsChecked
  <2>4. QED
    BY <2>1, <2>2, <2>3 DEF IInv
<1>2. IInv /\ [Next]_vars => IInv'
  BY TypeStep, FiledStep, CheckedStep DEF IInv
<1>3. IInv => FiledUnderUsable
  BY DEF IInv
<1>4. QED
  BY <1>1, <1>2, <1>3, PTL DEF Spec

-----------------------------------------------------------------------------
\* What a removal of a category or an account has looked at: no row it would
\* meet is missing unless one was stored since, and what it takes is its user's.
Looked(q) ==
    /\ q.op = "removeCategory" =>
          \A i \in Items : item[i].kind \in q.counted => item[i].category # q.category
    /\ q.op = "deleteAccount" =>
          \A i \in Items : item[i].kind \in q.cleared /\ item[i].user = q.user => i \in q.rows

Owned(q) ==
    /\ q.op = "removeCategory" => CatOwner[q.category] = q.user
    /\ q.op = "deleteAccount" =>
          \A i \in q.rows : item[i] = Gone \/ (item[i].kind \in Kinds /\ item[i].user = q.user)

RemovalsLooked == \A r \in Reqs : (r \notin raced => Looked(req[r])) /\ Owned(req[r])

\* A request that removes: it begins, looks once more, or waits.
LEMMA RemovalStep ==
  ASSUME TypeOK, [Next]_vars, NEW r \in Reqs, req'[r].op \in {"removeCategory", "deleteAccount"}
  PROVE  \/ req'[r] = req[r]
         \/ \E u \in Users, c \in Categories : FindOwned(r, u, c)
         \/ \E u \in Users : DeleteBegin(r, u)
         \/ \E kind \in Kinds : Count(r, kind)
         \/ \E kind \in Kinds, before \in SUBSET Kinds : Clear(r, kind, before)
<1>1. ASSUME NEW kind \in Kinds, NEW u \in Users, NEW c \in Categories, AddCheck(r, kind, u, c) PROVE FALSE
  BY <1>1 DEF AddCheck, Goto, TypeOK
<1>2. ASSUME NEW u \in Users, NEW c \in Categories, BudgetCheck(r, u, c) PROVE FALSE
  BY <1>2 DEF BudgetCheck, Goto, TypeOK
<1>3. ASSUME NEW i \in Items, SelectRule(r, i) PROVE FALSE
  BY <1>3 DEF SelectRule, Goto, TypeOK
<1>4. ASSUME NEW i \in Items, NEW c \in Categories, MoveCheck(r, i, c) PROVE FALSE
  BY <1>4 DEF MoveCheck, Goto, TypeOK
<1>5. ASSUME req' = [req EXCEPT ![r] = Idle] PROVE FALSE
  BY <1>5, IdleTyped DEF TypeOK
<1>6. ASSUME NEW i \in Items, AddInsert(r, i) PROVE FALSE
  BY <1>5, <1>6 DEF AddInsert, Goto
<1>7. ASSUME MoveUpdate(r) \/ BudgetUpsert(r) \/ DeleteCategory(r) \/ DeleteUser(r) \/ Fail(r) PROVE FALSE
  BY <1>5, <1>7 DEF MoveUpdate, BudgetUpsert, DeleteCategory, DeleteUser, Fail, Goto, End
<1>8. QED
  BY <1>1, <1>2, <1>3, <1>4, <1>6, <1>7, OthersStep
     DEF Handler, DeleteTransactions, DeleteRules, Kinds

\* The rows change under a removal only in ways it has been told of.
LEMMA ItemsStep ==
  ASSUME TypeOK, RemovalsLooked, [Next]_vars, NEW r \in Reqs, req'[r] = req[r], r \notin raced'
  PROVE  r \in raced \/ \A i \in Items :
            \/ item'[i] = item[i] \/ item'[i] = Gone
            \/ /\ req[r].op = "removeCategory" /\ item'[i].kind \in req[r].counted
                     => item'[i].category # req[r].category
               /\ req[r].op = "deleteAccount" /\ item'[i].kind \in req[r].cleared
                     => item'[i].user # req[r].user
<1> DEFINE Told == \A i \in Items :
            \/ item'[i] = item[i] \/ item'[i] = Gone
            \/ /\ req[r].op = "removeCategory" /\ item'[i].kind \in req[r].counted
                     => item'[i].category # req[r].category
               /\ req[r].op = "deleteAccount" /\ item'[i].kind \in req[r].cleared
                     => item'[i].user # req[r].user
<1>1. ASSUME NEW s \in Reqs, NEW j \in Items, AddInsert(s, j) PROVE Told
  <2>1. r \notin Overtaken(req[s].row.kind, req[s].row.user, req[s].row.category)
    BY <1>1 DEF AddInsert
  <2>2. \A i \in Items : item'[i] = IF i = j THEN req[s].row ELSE item[i]
    BY <1>1 DEF AddInsert, TypeOK
  <2>3. QED
    BY <2>1, <2>2 DEF Overtaken
<1>2. ASSUME NEW s \in Reqs, MoveUpdate(s) PROVE Told
  <2> DEFINE j == req[s].item
             c == req[s].to
  <2>1. j \in Items /\ c \in Categories
    BY <1>2, RequestFields DEF MoveUpdate, TypeOK
  <2>2. CASE item' = item
    BY <2>2
  <2>3. CASE item' = [item EXCEPT ![j].category = c] /\ item[j].kind \notin Kinds
    <3>1. item[j].category = item[j].category /\ item'[j] = [item[j] EXCEPT !.category = c]
      BY <2>1, <2>3 DEF TypeOK
    <3>2. item[j] \in {Unused, Gone}
      BY <2>1, <2>3 DEF TypeOK, Row
    <3>3. item'[j] = item[j]
      BY <3>1, <3>2 DEF Unused, Gone
    <3>4. QED
      BY <2>1, <2>3, <3>3 DEF TypeOK
  <2>4. CASE item' = [item EXCEPT ![j].category = c] /\ item[j].kind \in Kinds /\ item[j] # Gone
    <3>1. r \notin Overtaken(item[j].kind, item[j].user, c)
      BY <1>2, <2>4 DEF MoveUpdate
    <3>2. item'[j].kind = item[j].kind /\ item'[j].user = item[j].user /\ item'[j].category = c
      BY <2>1, <2>4, ItemFields DEF TypeOK
    <3>3. \A i \in Items : i # j => item'[i] = item[i]
      BY <2>4 DEF TypeOK
    <3> HIDE DEF j, c
    <3>4. QED
      BY <3>1, <3>2, <3>3 DEF Overtaken
  <2>5. QED
    BY <1>2, <2>2, <2>3, <2>4 DEF MoveUpdate
<1>3. ASSUME NEW j \in Items, RemoveItem(j) PROVE Told
  BY <1>3 DEF RemoveItem, TypeOK
<1>4. ASSUME NEW s \in Reqs, DeleteUser(s) PROVE Told
  BY <1>4 DEF DeleteUser
<1>5. ASSUME UNCHANGED item PROVE Told
  BY <1>5
<1> HIDE DEF Told
<1>6. Told
  BY <1>1, <1>2, <1>3, <1>4, <1>5
     DEF Next, Handler, CreateCategory, RemoveBudget, AddCheck, BudgetCheck, FindOwned, DeleteBegin,
         SelectRule, MoveCheck, Count, BudgetUpsert, DeleteCategory, DeleteTransactions, DeleteRules,
         Clear, Fail, vars
<1>7. QED
  BY <1>6 DEF Told

\* Only a request that ends is forgotten to have been overtaken.
LEMMA RacedStep ==
  ASSUME [Next]_vars
  PROVE  raced \subseteq raced' \/ \E s \in Reqs : raced' = raced \ {s} /\ req' = [req EXCEPT ![s] = Idle]
<1> DEFINE Goal == raced \subseteq raced' \/ \E s \in Reqs : raced' = raced \ {s} /\ req' = [req EXCEPT ![s] = Idle]
<1>1. ASSUME NEW r \in Reqs, End(r) PROVE Goal
  BY <1>1 DEF End, Goto
<1>2. ASSUME raced' = raced PROVE Goal
  BY <1>2
<1>3. ASSUME NEW r \in Reqs, NEW i \in Items, AddInsert(r, i) PROVE Goal
  BY <1>3 DEF AddInsert
<1>4. ASSUME NEW r \in Reqs, MoveUpdate(r) PROVE Goal
  BY <1>4 DEF MoveUpdate
<1> HIDE DEF Goal
<1>5. ASSUME NEW r \in Reqs, NEW kind \in Kinds, Count(r, kind) PROVE Goal
  BY <1>1, <1>2, <1>5 DEF Count
<1>6. ASSUME NEW r \in Reqs, DeleteCategory(r) \/ DeleteUser(r) \/ Fail(r) PROVE Goal
  BY <1>1, <1>6 DEF DeleteCategory, DeleteUser, Fail
<1>7. Goal
  BY <1>2, <1>3, <1>4, <1>5, <1>6
     DEF Next, Handler, CreateCategory, RemoveBudget, RemoveItem, AddCheck, BudgetCheck, FindOwned,
         DeleteBegin, SelectRule, MoveCheck, BudgetUpsert, DeleteTransactions, DeleteRules, Clear, vars
<1>8. QED
  BY <1>7 DEF Goal

LEMMA LookedStep == TypeOK /\ RemovalsLooked /\ [Next]_vars => RemovalsLooked'
<1> SUFFICES ASSUME TypeOK, RemovalsLooked, [Next]_vars, NEW r \in Reqs
             PROVE  (r \notin raced' => Looked(req[r])') /\ Owned(req[r])'
  BY DEF RemovalsLooked
<1> DEFINE Goal == (r \notin raced' => Looked(req[r])') /\ Owned(req[r])'
<1>1. ASSUME req'[r].op \notin {"removeCategory", "deleteAccount"} PROVE Goal
  BY <1>1 DEF Looked, Owned
<1>2. ASSUME req'[r] = req[r] PROVE Goal
  <2>1. ASSUME r \notin raced' PROVE Looked(req[r])'
    <3>1. CASE r \in raced
      <4>1. req'[r] = Idle
        <5>1. ASSUME NEW s \in Reqs, raced' = raced \ {s}, req' = [req EXCEPT ![s] = Idle] PROVE req'[r] = Idle
          BY <2>1, <3>1, <5>1 DEF TypeOK
        <5>2. raced \subseteq raced' \/ \E s \in Reqs : raced' = raced \ {s} /\ req' = [req EXCEPT ![s] = Idle]
          BY RacedStep
        <5>3. QED
          BY <2>1, <3>1, <5>1, <5>2
      <4>2. QED
        BY <4>1, IdleTyped DEF Looked
    <3>2. CASE r \notin raced
      <4>1. Looked(req[r])
        BY <3>2 DEF RemovalsLooked
      <4>2. req[r].op = "removeCategory" => req[r].counted \subseteq Kinds
        BY RequestFields DEF TypeOK
      <4>3. req[r].op = "deleteAccount" => req[r].cleared \subseteq Kinds
        BY RequestFields DEF TypeOK
      <4>4. QED
        BY <1>2, <2>1, <3>2, <4>1, <4>2, <4>3, ItemsStep, NoRows DEF Looked
    <3>3. QED
      BY <3>1, <3>2
  <2>2. Owned(req[r])'
    <3>1. ASSUME req[r].op = "deleteAccount", NEW i \in req[r].rows
          PROVE  item'[i] = Gone \/ (item'[i].kind \in Kinds /\ item'[i].user = req[r].user)
      <4>1. i \in Items
        BY <3>1, RequestFields DEF TypeOK
      <4>2. CASE item[i] = Gone
        BY <4>1, <4>2, GoneForGood
      <4>3. CASE item[i].kind \in Kinds /\ item[i].user = req[r].user
        BY <4>1, <4>3, ItemStep
      <4>4. QED
        BY <3>1, <4>2, <4>3 DEF RemovalsLooked, Owned
    <3>2. req[r].op = "removeCategory" => CatOwner[req[r].category] = req[r].user
      BY DEF RemovalsLooked, Owned
    <3>3. QED
      BY <1>2, <3>1, <3>2 DEF Owned
  <2>3. QED
    BY <2>1, <2>2
<1>3. ASSUME NEW u \in Users, NEW c \in Categories, FindOwned(r, u, c) PROVE Goal
  <2>1. /\ req'[r] = [op |-> "removeCategory", user |-> u, category |-> c, counted |-> {}]
        /\ CatOwner[c] = u
    BY <1>3 DEF FindOwned, Goto, TypeOK
  <2>2. QED
    BY <2>1 DEF Looked, Owned
<1>4. ASSUME NEW u \in Users, DeleteBegin(r, u) PROVE Goal
  <2>1. req'[r] = [op |-> "deleteAccount", user |-> u, cleared |-> {}, rows |-> {}]
    BY <1>4 DEF DeleteBegin, Goto, TypeOK
  <2>2. QED
    BY <2>1 DEF Looked, Owned
<1>5. ASSUME NEW kind \in Kinds, Count(r, kind), req'[r].op = "removeCategory" PROVE Goal
  <2> DEFINE K == req[r].counted \cup {kind}
  <2>1. req[r].op = "removeCategory" /\ K \in SUBSET Kinds
    BY <1>5, RequestFields DEF Count, TypeOK
  <2>2. /\ req'[r] = [req[r] EXCEPT !.counted = K] /\ UNCHANGED <<raced, item>>
        /\ OfKind(ItemsIn(req[r].category), {kind}) = {}
    BY <1>5, IdleTyped DEF Count, Goto, End, TypeOK
  <2> HIDE DEF K
  <2>3. req'[r].op = "removeCategory" /\ req'[r].category = req[r].category
        /\ req'[r].user = req[r].user /\ req'[r].counted = K
    BY <2>1, <2>2, CountedRequest DEF TypeOK
  <2>4. \A i \in Items : item[i].kind = kind => item[i].category # req[r].category
    BY <2>2 DEF OfKind, ItemsIn
  <2>5. /\ CatOwner[req[r].category] = req[r].user
        /\ r \notin raced => \A i \in Items : item[i].kind \in req[r].counted => item[i].category # req[r].category
    BY <2>1 DEF RemovalsLooked, Looked, Owned
  <2>6. QED
    BY <2>2, <2>3, <2>4, <2>5 DEF Looked, Owned, K
<1>6. ASSUME NEW kind \in Kinds, NEW before \in SUBSET Kinds, Clear(r, kind, before) PROVE Goal
  <2>1. /\ req'[r].op = "deleteAccount" /\ req'[r].user = req[r].user
        /\ req'[r].cleared = before \cup {kind}
        /\ req'[r].rows = req[r].rows \cup OfKind(ItemsOf(req[r].user), {kind})
    BY <1>6, ClearStep
  <2>3. UNCHANGED <<raced, item>> /\ req[r].op = "deleteAccount" /\ req[r].cleared = before
    BY <1>6 DEF Clear
  <2>4. OfKind(ItemsOf(req[r].user), {kind}) = {i \in Items : item[i].kind = kind /\ item[i].user = req[r].user}
    BY DEF OfKind, ItemsOf
  <2>5. /\ \A i \in req[r].rows : item[i] = Gone \/ (item[i].kind \in Kinds /\ item[i].user = req[r].user)
        /\ r \notin raced => \A i \in Items :
              item[i].kind \in before /\ item[i].user = req[r].user => i \in req[r].rows
    BY <2>3 DEF RemovalsLooked, Looked, Owned
  <2>6. QED
    BY <2>1, <2>3, <2>4, <2>5 DEF Looked, Owned
<1> HIDE DEF Goal
<1>7. ASSUME req'[r].op \in {"removeCategory", "deleteAccount"} PROVE Goal
  <2>1. ASSUME NEW kind \in Kinds, Count(r, kind) PROVE req'[r].op = "removeCategory"
    <3>1. req[r].op = "removeCategory" /\ req[r].counted \cup {kind} \in SUBSET Kinds
      BY <2>1, RequestFields DEF Count, TypeOK
    <3>2. req'[r] = Idle \/ req'[r] = [req[r] EXCEPT !.counted = req[r].counted \cup {kind}]
      BY <2>1 DEF Count, Goto, End, TypeOK
    <3>3. [req[r] EXCEPT !.counted = req[r].counted \cup {kind}].op = "removeCategory"
      BY <3>1, CountedRequest DEF TypeOK
    <3>4. QED
      BY <1>7, <3>2, <3>3, IdleTyped
  <2>2. QED
    BY <1>2, <1>3, <1>4, <1>5, <1>6, <1>7, <2>1, RemovalStep
<1>8. QED
  BY <1>1, <1>7 DEF Goal

\* Only a row stored after a removal has looked makes the database refuse it.
THEOREM RefusedOnlyByARace == Spec => []RefusedOnlyIfRaced
<1>1. Init => TypeOK /\ RemovalsLooked
  <2>1. Init => TypeOK
    BY IdleTyped, OwnerAssumption DEF Init, TypeOK
  <2>2. Init => RemovalsLooked
    BY IdleTyped DEF Init, RemovalsLooked, Looked, Owned
  <2>3. QED
    BY <2>1, <2>2
<1>2. TypeOK /\ RemovalsLooked => RefusedOnlyIfRaced
  BY DEF RemovalsLooked, Looked, RefusedOnlyIfRaced, Counted, Cleared, ItemsIn, ItemsOf
<1>3. QED
  BY <1>1, <1>2, TypeStep, LookedStep, PTL DEF Spec

\* A removal that fails takes nothing, and a shared category stays.
THEOREM RemovalsAreWhole == Spec => AllOrNothing
<1> DEFINE Whole == /\ \A i \in Items : item[i].kind \in Kinds /\ item'[i] = Gone =>
                          RemoveItem(i) \/ account'[item[i].user] = "gone"
                    /\ \A c \in Categories : category[c] = "live" /\ category'[c] = "gone" =>
                          /\ CatOwner[c] # System
                          /\ account'[CatOwner[c]] = "gone" \/ \E r \in Reqs : req[r] # Idle /\ DeleteCategory(r)
                    /\ \A u \in Users : account'[u] = "gone" => ItemsOf(u)' = {}
<1> DEFINE Inv == IInv /\ RemovalsLooked
<1>1. Inv /\ Inv' /\ [Next]_vars => [Whole]_vars
  <2> SUFFICES ASSUME IInv, RemovalsLooked, FiledUnderUsable', [Next]_vars PROVE Whole
    BY DEF IInv
  <2> USE DEF IInv
  <2>1. ASSUME NEW r \in Reqs, DeleteUser(r)
        PROVE  /\ req[r].user \in Users /\ account'[req[r].user] = "gone"
               /\ \A i \in Items : item'[i] = IF i \in req[r].rows THEN Gone ELSE item[i]
               /\ \A c \in Categories : category'[c] # category[c] => CatOwner[c] = req[r].user
               /\ \A i \in req[r].rows : item[i] = Gone \/ item[i].user = req[r].user
    <3>1. req[r].user \in Users /\ req[r].op = "deleteAccount"
      BY <2>1, RequestFields DEF DeleteUser, Cleared, TypeOK
    <3>2. QED
      BY <2>1, <3>1 DEF DeleteUser, TypeOK, RemovalsLooked, Owned
  <2>2. ASSUME NEW i \in Items, item[i].kind \in Kinds, item'[i] = Gone
        PROVE  RemoveItem(i) \/ account'[item[i].user] = "gone"
    <3>1. item[i] # Gone
      BY <2>2, NoRows
    <3>2. ASSUME NEW r \in Reqs, NEW j \in Items, AddInsert(r, j) PROVE FALSE
      BY <2>2, <3>1, <3>2, NoRows, RequestFields DEF AddInsert, TypeOK, Gone, Row, Kinds
    <3>3. ASSUME NEW r \in Reqs, MoveUpdate(r) PROVE FALSE
      <4>1. item' = item \/ item' = [item EXCEPT ![req[r].item].category = req[r].to]
        BY <3>3 DEF MoveUpdate
      <4>2. req[r].to \in Categories
        BY <3>3, RequestFields DEF MoveUpdate, TypeOK
      <4>3. item'[i] = item[i] \/ item'[i] = [item[i] EXCEPT !.category = req[r].to]
        BY <4>1 DEF TypeOK
      <4>4. [item[i] EXCEPT !.category = req[r].to].kind = item[i].kind
        BY <2>2, <4>2, ItemFields DEF TypeOK
      <4>5. QED
        BY <2>2, <3>1, <4>3, <4>4, NoRows
    <3>4. ASSUME NEW j \in Items, RemoveItem(j) PROVE RemoveItem(i)
      BY <2>2, <3>1, <3>4 DEF RemoveItem, TypeOK
    <3>5. ASSUME NEW r \in Reqs, DeleteUser(r) PROVE account'[item[i].user] = "gone"
      BY <2>1, <2>2, <3>1, <3>5
    <3>6. ~UNCHANGED item
      BY <2>2, <3>1
    <3>7. QED
      BY <3>2, <3>3, <3>4, <3>5, <3>6
         DEF Next, Handler, CreateCategory, RemoveBudget, AddCheck, BudgetCheck, FindOwned, DeleteBegin,
             SelectRule, MoveCheck, Count, BudgetUpsert, DeleteCategory, DeleteTransactions,
             DeleteRules, Clear, Fail, vars
  <2>3. ASSUME NEW c \in Categories, category[c] = "live", category'[c] = "gone"
        PROVE  /\ CatOwner[c] # System
               /\ \/ account'[CatOwner[c]] = "gone"
                  \/ \E r \in Reqs : req[r] # Idle /\ DeleteCategory(r)
    <3> DEFINE Goal == /\ CatOwner[c] # System
                       /\ \/ account'[CatOwner[c]] = "gone"
                          \/ \E r \in Reqs : req[r] # Idle /\ DeleteCategory(r)
    <3>1. ASSUME NEW r \in Reqs, DeleteCategory(r) PROVE Goal
      <4>1. req[r].op = "removeCategory" /\ category' = [category EXCEPT ![req[r].category] = "gone"]
        BY <3>1 DEF DeleteCategory, Counted
      <4>2. c = req[r].category
        BY <2>3, <4>1 DEF TypeOK
      <4>3. CatOwner[c] \in Users
        BY <4>1, <4>2, RequestFields DEF TypeOK, RemovalsLooked, Owned
      <4>4. QED
        BY <3>1, <4>1, <4>3, IdleTyped, OwnerAssumption DEF OwnerAssumption
    <3>2. ASSUME NEW r \in Reqs, DeleteUser(r) PROVE Goal
      BY <2>1, <2>3, <3>2, OwnerAssumption DEF OwnerAssumption
    <3>3. ASSUME NEW u \in Users, NEW d \in Categories, CreateCategory(u, d) PROVE FALSE
      BY <2>3, <3>3 DEF CreateCategory, TypeOK
    <3>4. ~UNCHANGED category
      BY <2>3
    <3> HIDE DEF Goal
    <3>5. Goal
      BY <3>1, <3>2, <3>3, <3>4
         DEF Next, Handler, RemoveBudget, RemoveItem, AddCheck, BudgetCheck, FindOwned, DeleteBegin,
             SelectRule, AddInsert, MoveCheck, MoveUpdate, Count, BudgetUpsert, DeleteTransactions,
             DeleteRules, Clear, Fail, vars
    <3>6. QED
      BY <3>5 DEF Goal
  <2>4. ASSUME NEW u \in Users, account'[u] = "gone" PROVE ItemsOf(u)' = {}
    BY <2>4 DEF FiledUnderUsable, Parents, ItemsOf
  <2>5. QED
    BY <2>2, <2>3, <2>4
<1>2. Init => Inv
  <2>1. Init => TypeOK
    BY IdleTyped, OwnerAssumption DEF Init, TypeOK
  <2>2. Init => FiledUnderUsable
    BY NoRows DEF Init, FiledUnderUsable
  <2>3. Init => RequestsChecked
    BY IdleTyped DEF Init, RequestsChecked
  <2>4. Init => RemovalsLooked
    BY IdleTyped DEF Init, RemovalsLooked, Looked, Owned
  <2>5. QED
    BY <2>1, <2>2, <2>3, <2>4 DEF IInv
<1>3. Inv /\ [Next]_vars => Inv'
  BY TypeStep, FiledStep, CheckedStep, LookedStep DEF IInv
<1> HIDE DEF Inv
<1>4. QED
  BY <1>1, <1>2, <1>3, PTL DEF Spec, AllOrNothing

=============================================================================
