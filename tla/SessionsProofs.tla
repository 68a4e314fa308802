--------------------------- MODULE SessionsProofs ---------------------------
(***************************************************************************)
(* Proofs about Sessions for every set of users, tokens and requests and   *)
(* every bound on password changes.                                        *)
(***************************************************************************)
EXTENDS Sessions, TLAPS

Issued(t)     == token[t] # Unissued
Rotates(r, t) == req[r].pc = "rotate" /\ req[r].token = t

\* A refresh deletes a row that exists or once did.
RotateKnown == \A r \in Reqs, t \in Tokens : Rotates(r, t) => Issued(t)

TypeInv == TypeOK /\ RotateKnown

-----------------------------------------------------------------------------
\* The record updates of the actions keep a token's row a row.
LEMMA RowUpdate ==
  ASSUME NEW row \in Row, NEW s \in {"blank", "valid", "expired", "gone"}
  PROVE  /\ [row EXCEPT !.state = s] \in Row
         /\ [row EXCEPT !.state = s].state = s
         /\ [row EXCEPT !.state = s].user = row.user
         /\ [row EXCEPT !.state = s].password = row.password
  BY DEF Row

LEMMA RowOrUnissued ==
  ASSUME TypeOK, NEW t \in Tokens
  PROVE  /\ token[t] \in Row <=> Issued(t)
         /\ InTable(t) => token[t] \in Row
  BY DEF TypeOK, Row, Unissued, Issued, InTable

\* DELETE leaves the rows it does not name alone and ends those it does.
LEMMA DeleteStep ==
  ASSUME TypeOK, NEW S, Delete(S)
  PROVE  /\ token' \in [Tokens -> Row \cup {Unissued}]
         /\ \A t \in Tokens :
               /\ t \in S => ~InTable(t)'
               /\ ~(t \in S /\ InTable(t)) => token'[t] = token[t]
               /\ t \in S /\ InTable(t) =>
                     /\ token'[t].state = "gone"
                     /\ token'[t].user = token[t].user
                     /\ token'[t].password = token[t].password
                     /\ Issued(t)'
<1>1. ASSUME NEW t \in Tokens, t \in S, InTable(t)
      PROVE  /\ token'[t] = [token[t] EXCEPT !.state = "gone"]
             /\ token[t] \in Row
  BY <1>1, RowOrUnissued DEF Delete
<1>2. ASSUME NEW t \in Tokens, t \in S, InTable(t)
      PROVE  /\ token'[t] \in Row
             /\ token'[t].state = "gone"
             /\ token'[t].user = token[t].user
             /\ token'[t].password = token[t].password
  BY <1>1, <1>2 DEF Row
<1>3. ASSUME NEW t \in Tokens, ~(t \in S /\ InTable(t))
      PROVE  token'[t] = token[t]
  BY <1>3 DEF Delete
<1>4. token' \in [Tokens -> Row \cup {Unissued}]
  BY <1>2, <1>3 DEF Delete, TypeOK
<1>5. ASSUME NEW t \in Tokens, t \in S PROVE ~InTable(t)'
  BY <1>2, <1>3, <1>5 DEF InTable
<1>6. QED
  BY <1>2, <1>3, <1>4, <1>5 DEF Issued, Row, Unissued

\* What the slot of a request that got so far holds.
LEMMA RequestFields ==
  ASSUME TypeOK, NEW r \in Reqs
  PROVE  /\ req[r].pc \in {"register", "session", "setPassword", "revoke", "delete"} =>
               req[r].user \in Users /\ req[r].password \in Nat
         /\ req[r].pc \in {"rotate", "hash"} => req[r].token \in Tokens
         /\ Idle.pc = "idle"
  BY DEF TypeOK, Request, Idle

-----------------------------------------------------------------------------
\* A token's row is written by the insert of its session, by the hash, by a
\* deletion and by time; none changes whose it is, none revives it.
LEMMA TokenStep ==
  ASSUME TypeOK, [Next]_vars, NEW t \in Tokens
  PROVE  \/ token'[t] = token[t]
         \/ /\ Issued(t) /\ Issued(t)'
            /\ InTable(t)
            /\ token'[t].user = token[t].user
            /\ token'[t].password = token[t].password
         \/ \E r \in Reqs : SessionInsert(r, t)
<1> DEFINE Same  == token'[t] = token[t]
           Moved == /\ Issued(t) /\ Issued(t)'
                    /\ InTable(t)
                    /\ token'[t].user = token[t].user
                    /\ token'[t].password = token[t].password
           New   == \E r \in Reqs : SessionInsert(r, t)
           Goal  == Same \/ Moved \/ New
<1>1. ASSUME NEW S, Delete(S) PROVE Goal
  BY <1>1, DeleteStep, RowOrUnissued
<1>2. ASSUME NEW r \in Reqs, SessionHash(r) PROVE Goal
  <2>1. CASE req[r].token = t /\ token[t].state = "blank"
    <3>1. token'[t] = [token[t] EXCEPT !.state = "valid"]
      BY <1>2, <2>1 DEF SessionHash, TypeOK
    <3>2. InTable(t) /\ token[t] \in Row
      BY <2>1, RowOrUnissued DEF InTable
    <3>3. token'[t].state = "valid" /\ token'[t].user = token[t].user
          /\ token'[t].password = token[t].password
      BY <3>1, <3>2, RowUpdate
    <3>4. QED
      BY <3>2, <3>3 DEF Issued, Row, Unissued
  <2>2. CASE req[r].token = t /\ token[t].state # "blank"
    BY <1>2, <2>2 DEF SessionHash, TypeOK, Row, Unissued
  <2>3. CASE req[r].token # t
    BY <1>2, <2>3 DEF SessionHash, TypeOK
  <2>4. QED
    BY <2>1, <2>2, <2>3
<1>3. ASSUME NEW x \in Tokens, ExpireToken(x) PROVE Goal
  <2>1. CASE x = t
    <3>1. token'[t] = [token[t] EXCEPT !.state = "expired"]
      BY <1>3, <2>1 DEF ExpireToken, TypeOK
    <3>2. InTable(t) /\ token[t] \in Row
      BY <1>3, <2>1, RowOrUnissued DEF ExpireToken, InTable
    <3>3. token'[t].state = "expired" /\ token'[t].user = token[t].user
          /\ token'[t].password = token[t].password
      BY <3>1, <3>2, RowUpdate
    <3>4. QED
      BY <3>2, <3>3 DEF Issued, Row, Unissued
  <2>2. CASE x # t
    BY <1>3, <2>2 DEF ExpireToken, TypeOK
  <2>3. QED
    BY <2>1, <2>2
<1>4. ASSUME NEW r \in Reqs, NEW x \in Tokens, SessionInsert(r, x) PROVE Goal
  BY <1>4 DEF SessionInsert, TypeOK
<1>5. ASSUME UNCHANGED token PROVE Goal
  BY <1>5
<1> HIDE DEF Goal
<1>6. ASSUME NEW r \in Reqs, Handler(r) PROVE Goal
  BY <1>1, <1>2, <1>4, <1>5, <1>6
     DEF Handler, RegisterCheck, Login, ResetVerify, ChangeVerify, DeleteVerify, RefreshRead, Logout,
         RegisterInsert, RefreshDelete, SetPassword, Revoke, DeleteCommit, Abort
<1>7. Goal
  BY <1>3, <1>5, <1>6 DEF Next, ForgotPassword, ExpireReset, vars
<1>8. QED
  BY <1>7 DEF Goal

\* Issued tokens stay issued, and a row that is gone stays gone.
LEMMA IssuedStep ==
  ASSUME TypeOK, [Next]_vars, NEW t \in Tokens
  PROVE  /\ Issued(t) => Issued(t)' /\ token'[t].user = token[t].user
                                    /\ token'[t].password = token[t].password
         /\ token[t].state = "gone" => token'[t] = token[t]
         /\ InTable(t)' => InTable(t) \/ \E r \in Reqs : SessionInsert(r, t)
<1>1. CASE token'[t] = token[t]
  BY <1>1 DEF Issued, InTable
<1>2. CASE /\ Issued(t) /\ Issued(t)'
           /\ InTable(t)
           /\ token'[t].user = token[t].user
           /\ token'[t].password = token[t].password
  BY <1>2 DEF InTable
<1>3. ASSUME NEW r \in Reqs, SessionInsert(r, t)
      PROVE  ~Issued(t) /\ token[t].state # "gone"
  BY <1>3 DEF SessionInsert, Issued, Unissued
<1>4. QED
  BY <1>1, <1>2, <1>3, TokenStep

\* The rows keep their type.
LEMMA TokenType ==
  ASSUME TypeOK, [Next]_vars
  PROVE  token' \in [Tokens -> Row \cup {Unissued}]
<1> DEFINE Goal == token' \in [Tokens -> Row \cup {Unissued}]
<1>1. ASSUME NEW S, Delete(S) PROVE Goal
  BY <1>1, DeleteStep
<1>2. ASSUME NEW r \in Reqs, SessionHash(r) PROVE Goal
  <2> DEFINE x == req[r].token
  <2>1. [token[x] EXCEPT !.state = IF @ = "blank" THEN "valid" ELSE @] \in Row \cup {Unissued}
    BY <1>2, RequestFields DEF SessionHash, TypeOK, Row, Unissued
  <2>2. QED
    BY <1>2, <2>1 DEF SessionHash, TypeOK
<1>3. ASSUME NEW x \in Tokens, ExpireToken(x) PROVE Goal
  <2>1. [token[x] EXCEPT !.state = "expired"] \in Row
    BY <1>3, RowOrUnissued, RowUpdate DEF ExpireToken, InTable
  <2>2. QED
    BY <1>3, <2>1 DEF ExpireToken, TypeOK
<1>4. ASSUME NEW r \in Reqs, NEW x \in Tokens, SessionInsert(r, x) PROVE Goal
  <2>1. [state |-> "blank", user |-> req[r].user, password |-> req[r].password] \in Row
    BY <1>4, RequestFields DEF SessionInsert, Row
  <2>2. QED
    BY <1>4, <2>1 DEF SessionInsert, TypeOK
<1>5. ASSUME UNCHANGED token PROVE Goal
  BY <1>5 DEF TypeOK
<1> HIDE DEF Goal
<1>6. ASSUME NEW r \in Reqs, Handler(r) PROVE Goal
  BY <1>1, <1>2, <1>4, <1>5, <1>6
     DEF Handler, RegisterCheck, Login, ResetVerify, ChangeVerify, DeleteVerify, RefreshRead, Logout,
         RegisterInsert, RefreshDelete, SetPassword, Revoke, DeleteCommit, Abort
<1>7. Goal
  BY <1>3, <1>5, <1>6 DEF Next, ForgotPassword, ExpireReset, vars
<1>8. QED
  BY <1>7 DEF Goal

\* Every variable but the rows keeps its type.
LEMMA OtherTypes ==
  ASSUME TypeInv, [Next]_vars
  PROVE  /\ account'  \in [Users -> {"none", "active", "gone"}]
         /\ password' \in [Users -> Nat]
         /\ given'    \in SUBSET Tokens
         /\ resets'   \in SUBSET Users
         /\ req'      \in [Reqs -> Request]
         /\ redeemed' \in [Tokens -> Nat]
         /\ shared'   \in SUBSET Tokens
         /\ revoked'  \in [Users -> Nat]
         /\ late'     \in SUBSET Tokens
<1> DEFINE Goal == /\ account'  \in [Users -> {"none", "active", "gone"}]
                   /\ password' \in [Users -> Nat]
                   /\ given'    \in SUBSET Tokens
                   /\ resets'   \in SUBSET Users
                   /\ req'      \in [Reqs -> Request]
                   /\ redeemed' \in [Tokens -> Nat]
                   /\ shared'   \in SUBSET Tokens
                   /\ revoked'  \in [Users -> Nat]
                   /\ late'     \in SUBSET Tokens
<1>1. TypeOK
  BY DEF TypeInv
<1>2. ASSUME NEW r \in Reqs, NEW pc \in {"register", "session", "setPassword", "revoke", "delete"},
             NEW u \in Users, NEW p \in Nat, Goto(r, pc, u, p)
      PROVE  req' \in [Reqs -> Request]
  <2>1. [pc |-> pc, user |-> u, password |-> p] \in Request
    BY <1>2 DEF Request
  <2>2. QED
    BY <1>1, <1>2, <2>1 DEF TypeOK, Goto
<1>3. ASSUME NEW r \in Reqs, Done(r) PROVE req' \in [Reqs -> Request]
  BY <1>1, <1>3 DEF TypeOK, Done, Idle, Request
<1>4. ASSUME NEW r \in Reqs, NEW pc \in {"rotate", "hash"}, NEW t \in Tokens,
             req' = [req EXCEPT ![r] = [pc |-> pc, token |-> t]]
      PROVE  req' \in [Reqs -> Request]
  BY <1>1, <1>4 DEF TypeOK, Request
<1>5. ASSUME NEW r \in Reqs, NEW u \in Users,
             \/ RegisterCheck(r, u) \/ Login(r, u) \/ ResetVerify(r, u)
             \/ ChangeVerify(r, u) \/ DeleteVerify(r, u)
      PROVE  Goal
  <2>1. password[u] \in Nat /\ 0 \in Nat
    BY <1>1 DEF TypeOK
  <2>2. req' \in [Reqs -> Request]
    BY <1>2, <1>5, <2>1 DEF RegisterCheck, Login, ResetVerify, ChangeVerify, DeleteVerify
  <2>3. QED
    BY <1>1, <1>5, <2>2 DEF TypeOK, RegisterCheck, Login, ResetVerify, ChangeVerify, DeleteVerify
<1>6. ASSUME NEW r \in Reqs, RegisterInsert(r) PROVE Goal
  <2>1. req[r].user \in Users /\ 0 \in Nat
    BY <1>1, <1>6, RequestFields DEF RegisterInsert
  <2>2. req' \in [Reqs -> Request]
    BY <1>2, <1>6, <2>1 DEF RegisterInsert
  <2>3. QED
    BY <1>1, <1>6, <2>1, <2>2 DEF TypeOK, RegisterInsert
<1>7. ASSUME NEW r \in Reqs, NEW t \in Tokens, SessionInsert(r, t) \/ RefreshRead(r, t) PROVE Goal
  <2>1. req' \in [Reqs -> Request]
    BY <1>4, <1>7 DEF SessionInsert, RefreshRead
  <2>2. QED
    BY <1>1, <1>7, <2>1 DEF TypeOK, SessionInsert, RefreshRead
<1>8. ASSUME NEW r \in Reqs, NEW t \in Tokens, Logout(r, t) PROVE Goal
  BY <1>1, <1>8 DEF TypeOK, Logout
<1>9. ASSUME NEW r \in Reqs, SessionHash(r) PROVE Goal
  <2>1. req[r].token \in Tokens
    BY <1>1, <1>9, RequestFields DEF SessionHash
  <2>2. QED
    BY <1>1, <1>3, <1>9, <2>1 DEF TypeOK, SessionHash
<1>10. ASSUME NEW r \in Reqs, RefreshDelete(r) PROVE Goal
  <2> DEFINE t == req[r].token
  <2>1. t \in Tokens /\ Issued(t)
    BY <1>1, <1>10, RequestFields DEF RefreshDelete, TypeInv, RotateKnown, Rotates
  <2>2. token[t].user \in Users /\ token[t].password \in Nat
    BY <1>1, <2>1, RowOrUnissued DEF Row
  <2>3. req' \in [Reqs -> Request]
    BY <1>2, <1>10, <2>2 DEF RefreshDelete
  <2>4. QED
    BY <1>1, <1>10, <2>1, <2>3 DEF TypeOK, RefreshDelete
<1>11. ASSUME NEW r \in Reqs, SetPassword(r) PROVE Goal
  <2> DEFINE u == req[r].user
  <2>1. u \in Users
    BY <1>1, <1>11, RequestFields DEF SetPassword
  <2>2. password' \in [Users -> Nat]
    BY <1>1, <1>11, <2>1 DEF SetPassword, TypeOK
  <2>3. password'[u] \in Nat
    BY <2>1, <2>2
  <2>4. req' \in [Reqs -> Request]
    BY <1>2, <1>11, <2>1, <2>3 DEF SetPassword
  <2>5. QED
    BY <1>1, <1>11, <2>2, <2>4 DEF TypeOK, SetPassword
<1>12. ASSUME NEW r \in Reqs, Revoke(r) PROVE Goal
  <2>1. req[r].user \in Users /\ req[r].password \in Nat
    BY <1>1, <1>12, RequestFields DEF Revoke
  <2>2. QED
    BY <1>1, <1>3, <1>12, <2>1 DEF TypeOK, Revoke
<1>13. ASSUME NEW r \in Reqs, DeleteCommit(r) \/ Abort(r) PROVE Goal
  <2>1. req' \in [Reqs -> Request]
    BY <1>3, <1>13 DEF DeleteCommit, Abort
  <2>2. account' \in [Users -> {"none", "active", "gone"}]
    BY <1>1, <1>13 DEF TypeOK, DeleteCommit, Abort
  <2>3. QED
    BY <1>1, <1>13, <2>1, <2>2 DEF TypeOK, DeleteCommit, Abort
<1>14. ASSUME NEW u \in Users, ForgotPassword(u) \/ ExpireReset(u) PROVE Goal
  BY <1>1, <1>14 DEF TypeOK, ForgotPassword, ExpireReset
<1>15. ASSUME NEW t \in Tokens, ExpireToken(t) PROVE Goal
  BY <1>1, <1>15 DEF TypeOK, ExpireToken
<1>16. ASSUME UNCHANGED vars PROVE Goal
  BY <1>1, <1>16 DEF TypeOK, vars
<1> HIDE DEF Goal
<1>17. ASSUME NEW r \in Reqs, Handler(r) PROVE Goal
  BY <1>5, <1>6, <1>7, <1>8, <1>9, <1>10, <1>11, <1>12, <1>13, <1>17 DEF Handler
<1>18. Goal
  BY <1>14, <1>15, <1>16, <1>17 DEF Next
<1>19. QED
  BY <1>18 DEF Goal

\* A request comes to rotate a token only by reading its row.
LEMMA RotateStep ==
  ASSUME TypeOK, [Next]_vars, NEW r \in Reqs, NEW t \in Tokens, Rotates(r, t)'
  PROVE  \/ Rotates(r, t)
         \/ RefreshRead(r, t)
<1> DEFINE Goal == Rotates(r, t) \/ RefreshRead(r, t)
<1>1. ASSUME req'[r] = req[r] PROVE Goal
  BY <1>1 DEF Rotates
<1>2. ASSUME NEW x \in Reqs, NEW y \in Tokens, RefreshRead(x, y) PROVE Goal
  BY <1>1, <1>2 DEF RefreshRead, TypeOK, Rotates
<1>4. ASSUME NEW x \in Reqs, NEW u, NEW p, NEW pc \in {"register", "session", "setPassword", "revoke", "delete"},
             Goto(x, pc, u, p)
      PROVE  Goal
  <2>1. CASE x = r
    <3>1. req'[r].pc = pc
      BY <1>4, <2>1 DEF Goto, TypeOK
    <3>2. QED
      BY <3>1 DEF Rotates
  <2>2. CASE x # r
    BY <1>1, <1>4, <2>2 DEF Goto, TypeOK
  <2>3. QED
    BY <2>1, <2>2
<1>5. ASSUME NEW x \in Reqs, Done(x) PROVE Goal
  <2>1. CASE x = r
    BY <1>5, <2>1 DEF Done, TypeOK, Idle, Rotates
  <2>2. CASE x # r
    BY <1>1, <1>5, <2>2 DEF Done, TypeOK
  <2>3. QED
    BY <2>1, <2>2
<1>6. ASSUME UNCHANGED req PROVE Goal
  BY <1>1, <1>6
<1>7. ASSUME NEW x \in Reqs, NEW y \in Tokens, SessionInsert(x, y) PROVE Goal
  <2>1. CASE x = r
    BY <1>7, <2>1 DEF SessionInsert, TypeOK, Rotates
  <2>2. CASE x # r
    BY <1>1, <1>7, <2>2 DEF SessionInsert, TypeOK
  <2>3. QED
    BY <2>1, <2>2
<1> HIDE DEF Goal
<1>8. ASSUME NEW x \in Reqs, Handler(x) PROVE Goal
  BY <1>2, <1>4, <1>5, <1>6, <1>7, <1>8
     DEF Handler, RegisterCheck, Login, ResetVerify, ChangeVerify, DeleteVerify, Logout, SessionHash,
         RegisterInsert, RefreshDelete, SetPassword, Revoke, DeleteCommit, Abort
<1>9. Goal
  BY <1>6, <1>8 DEF Next, ForgotPassword, ExpireReset, ExpireToken, vars
<1>10. QED
  BY <1>9 DEF Goal

LEMMA TypeStep == TypeInv /\ [Next]_vars => TypeInv'
<1> SUFFICES ASSUME TypeInv, [Next]_vars PROVE TypeInv'
  OBVIOUS
<1>1. TypeOK'
  BY TokenType, OtherTypes DEF TypeInv, TypeOK
<1>2. RotateKnown'
  <2> SUFFICES ASSUME NEW r \in Reqs, NEW t \in Tokens, Rotates(r, t)' PROVE Issued(t)'
    BY DEF RotateKnown
  <2>1. Issued(t)
    BY RotateStep DEF TypeInv, RotateKnown, RefreshRead, Issued, Unissued
  <2>2. QED
    BY <2>1, IssuedStep DEF TypeInv
<1>3. QED
  BY <1>1, <1>2 DEF TypeInv

\* Every reachable state of Sessions is well typed, and a refresh deletes only
\* a row that was there when it was read.
THEOREM TypeCorrect == Spec => []TypeInv
<1>1. Init => TypeInv
  BY DEF Init, TypeInv, TypeOK, RotateKnown, Rotates, Request, Idle
<1>2. QED
  BY <1>1, TypeStep, PTL DEF Spec

-----------------------------------------------------------------------------
\* A token that was exchanged is gone, and one that no two refreshes shared has
\* at most one refresh at work on it, or was exchanged once.
ExchangedIsGone == \A t \in Tokens : redeemed[t] > 0 => token[t].state = "gone"

AloneOnce ==
    \A t \in Tokens \ shared :
        /\ redeemed[t] <= 1
        /\ \A r \in Reqs : Rotates(r, t) => redeemed[t] = 0
        /\ \A q, r \in Reqs : Rotates(q, t) /\ Rotates(r, t) => q = r

RotationInv == ExchangedIsGone /\ AloneOnce

\* Only the delete of a refresh exchanges a token, and it ends its row.
LEMMA RedeemStep ==
  ASSUME TypeInv, [Next]_vars, NEW t \in Tokens
  PROVE  \/ redeemed'[t] = redeemed[t]
         \/ \E r \in Reqs : RefreshDelete(r) /\ Rotates(r, t) /\ ~Rotates(r, t)'
                            /\ redeemed'[t] = redeemed[t] + 1 /\ token'[t].state = "gone"
<1> DEFINE Exchanged(r) == RefreshDelete(r) /\ Rotates(r, t) /\ ~Rotates(r, t)'
                           /\ redeemed'[t] = redeemed[t] + 1 /\ token'[t].state = "gone"
           Goal == redeemed'[t] = redeemed[t] \/ \E r \in Reqs : Exchanged(r)
<1>1. TypeOK
  BY DEF TypeInv
<1>2. ASSUME NEW r \in Reqs, RefreshDelete(r) PROVE Goal
  <2>1. CASE req[r].token = t
    <3>1. Rotates(r, t) /\ redeemed'[t] = redeemed[t] + 1
      BY <1>1, <1>2, <2>1 DEF RefreshDelete, Rotates, TypeOK
    <3>2. req'[r].pc = "session"
      BY <1>1, <1>2 DEF RefreshDelete, Goto, TypeOK
    <3>3. Issued(t) /\ Delete({t})
      BY <1>2, <2>1, <3>1 DEF RefreshDelete, TypeInv, RotateKnown
    <3>4. token'[t].state = "gone"
      BY <1>1, <3>3, DeleteStep, RowOrUnissued DEF InTable, Row
    <3>5. QED
      BY <1>2, <3>1, <3>2, <3>4 DEF Rotates
  <2>2. CASE req[r].token # t
    BY <1>1, <1>2, <2>2 DEF RefreshDelete, TypeOK
  <2>3. QED
    BY <2>1, <2>2
<1>3. ASSUME UNCHANGED redeemed PROVE Goal
  BY <1>3
<1> HIDE DEF Goal
<1>4. ASSUME NEW r \in Reqs, Handler(r) PROVE Goal
  BY <1>2, <1>3, <1>4
     DEF Handler, RegisterCheck, Login, ResetVerify, ChangeVerify, DeleteVerify, SessionInsert, RefreshRead,
         Logout, RegisterInsert, SessionHash, SetPassword, Revoke, DeleteCommit, Abort
<1>5. Goal
  BY <1>3, <1>4 DEF Next, ForgotPassword, ExpireReset, ExpireToken, vars
<1>6. QED
  BY <1>5 DEF Goal

\* Tokens once shared stay marked; a refresh that reads a token another one is
\* rotating marks it.
LEMMA SharedStep ==
  ASSUME TypeOK, [Next]_vars, NEW t \in Tokens
  PROVE  /\ t \in shared => t \in shared'
         /\ \A r \in Reqs : RefreshRead(r, t) /\ (\E q \in Reqs : Rotates(q, t)) => t \in shared'
<1>1. ASSUME NEW r \in Reqs, RefreshRead(r, t), \E q \in Reqs : Rotates(q, t)
      PROVE  t \in shared'
  BY <1>1 DEF RefreshRead, Rotates
<1>2. ASSUME NEW r \in Reqs, NEW x \in Tokens, RefreshRead(r, x) PROVE shared \subseteq shared'
  BY <1>2 DEF RefreshRead
<1>3. shared \subseteq shared'
  <2>1. ASSUME UNCHANGED shared PROVE shared \subseteq shared'
    BY <2>1
  <2>2. ASSUME NEW r \in Reqs, Handler(r) PROVE shared \subseteq shared'
    BY <1>2, <2>1, <2>2
       DEF Handler, RegisterCheck, Login, ResetVerify, ChangeVerify, DeleteVerify, SessionInsert, Logout,
           RegisterInsert, SessionHash, RefreshDelete, SetPassword, Revoke, DeleteCommit, Abort
  <2>3. QED
    BY <2>1, <2>2 DEF Next, ForgotPassword, ExpireReset, ExpireToken, vars
<1>4. QED
  BY <1>1, <1>3

LEMMA RotationStep == TypeInv /\ RotationInv /\ [Next]_vars => RotationInv'
<1> SUFFICES ASSUME TypeInv, RotationInv, [Next]_vars PROVE RotationInv'
  OBVIOUS
<1>1. TypeOK
  BY DEF TypeInv
<1>2. ExchangedIsGone'
  <2> SUFFICES ASSUME NEW t \in Tokens, redeemed'[t] > 0 PROVE token'[t].state = "gone"
    BY DEF ExchangedIsGone
  <2>1. CASE redeemed'[t] = redeemed[t]
    BY <1>1, <2>1, IssuedStep DEF RotationInv, ExchangedIsGone
  <2>2. CASE redeemed'[t] # redeemed[t]
    BY <2>2, RedeemStep
  <2>3. QED
    BY <2>1, <2>2
<1>3. AloneOnce'
  <2> SUFFICES ASSUME NEW t \in Tokens, t \notin shared'
               PROVE  /\ redeemed'[t] <= 1
                      /\ \A r \in Reqs : Rotates(r, t)' => redeemed'[t] = 0
                      /\ \A q, r \in Reqs : Rotates(q, t)' /\ Rotates(r, t)' => q = r
    BY DEF AloneOnce, Rotates
  <2>1. t \notin shared
    BY <1>1, SharedStep
  <2>2. /\ redeemed[t] <= 1
        /\ \A r \in Reqs : Rotates(r, t) => redeemed[t] = 0
        /\ \A q, r \in Reqs : Rotates(q, t) /\ Rotates(r, t) => q = r
    BY <2>1 DEF RotationInv, AloneOnce
  <2>3. \A r \in Reqs : RefreshRead(r, t) => (\A q \in Reqs : ~Rotates(q, t)) /\ redeemed[t] = 0
    <3>1. ASSUME NEW r \in Reqs, RefreshRead(r, t) PROVE redeemed[t] = 0
      BY <1>1, <3>1 DEF RefreshRead, RotationInv, ExchangedIsGone, TypeOK
    <3>2. QED
      BY <1>1, <3>1, SharedStep
  <2>4. \A r \in Reqs : Rotates(r, t)' => Rotates(r, t) \/ RefreshRead(r, t)
    BY <1>1, RotateStep
  <2>5. CASE redeemed'[t] = redeemed[t]
    <3>1. \A r \in Reqs : Rotates(r, t)' => redeemed'[t] = 0
      BY <2>2, <2>3, <2>4, <2>5
    <3>2. \A q, r \in Reqs : RefreshRead(q, t) /\ RefreshRead(r, t) /\ q # r => ~(Rotates(q, t)' /\ Rotates(r, t)')
      BY <1>1, <2>3 DEF RefreshRead, TypeOK, Rotates
    <3>3. \A q, r \in Reqs : Rotates(q, t)' /\ Rotates(r, t)' => q = r
      BY <2>2, <2>3, <2>4, <3>2
    <3>4. QED
      BY <2>2, <2>5, <3>1, <3>3
  <2>6. CASE redeemed'[t] # redeemed[t]
    <3>1. PICK x \in Reqs : RefreshDelete(x) /\ Rotates(x, t) /\ ~Rotates(x, t)'
                            /\ redeemed'[t] = redeemed[t] + 1 /\ token'[t].state = "gone"
      BY <2>6, RedeemStep
    <3>2. redeemed[t] = 0 /\ redeemed'[t] = 1
      BY <2>2, <3>1
    <3>3. \A r \in Reqs : ~RefreshRead(r, t)
      BY <2>3, <3>1
    <3>4. \A r \in Reqs : ~Rotates(r, t)'
      BY <2>2, <2>4, <3>1, <3>3
    <3>5. QED
      BY <3>2, <3>4
  <2>7. QED
    BY <2>5, <2>6
<1>4. QED
  BY <1>2, <1>3 DEF RotationInv

LEMMA RotationAlways == Spec => []RotationInv
<1>1. Init => RotationInv
  BY DEF Init, RotationInv, ExchangedIsGone, AloneOnce, Rotates, Idle
<1>2. QED
  BY <1>1, RotationStep, TypeCorrect, PTL DEF Spec

\* For any number of overlapping requests, a token exchanged twice was read by
\* two refreshes before either deleted it.
THEOREM RotatedOnceAlways == Spec => []RotatedOnce
<1>1. TypeInv /\ RotationInv => RotatedOnce
  BY DEF RotationInv, AloneOnce, RotatedOnce, TypeInv, TypeOK
<1>2. QED
  BY <1>1, RotationAlways, TypeCorrect, PTL

\* No request and no race brings a dead token back.
THEOREM DeadForGood == Spec => DeadStaysDead
<1> DEFINE Dead == \A t \in Tokens : redeemed[t] > 0 \/ token[t].state = "gone" =>
                       ~InTable(t)' /\ \A r \in Reqs : ~RefreshRead(r, t)
<1>1. TypeInv /\ RotationInv /\ [Next]_vars => [Dead]_vars
  <2> SUFFICES ASSUME TypeInv, RotationInv, [Next]_vars, NEW t \in Tokens,
                      redeemed[t] > 0 \/ token[t].state = "gone"
               PROVE  ~InTable(t)' /\ \A r \in Reqs : ~RefreshRead(r, t)
    OBVIOUS
  <2>1. token[t].state = "gone"
    BY DEF RotationInv, ExchangedIsGone
  <2>2. token'[t].state = "gone"
    BY <2>1, IssuedStep DEF TypeInv
  <2>3. QED
    BY <2>1, <2>2 DEF InTable, RefreshRead
<1>2. QED
  BY <1>1, TypeCorrect, RotationAlways, PTL DEF Spec, DeadStaysDead

-----------------------------------------------------------------------------
\* A change revokes with a password that was set, and a session that was not
\* stored late descends from no password older than the newest such change.
RevokedWasSet ==
    /\ \A u \in Users : revoked[u] <= password[u]
    /\ \A r \in Reqs : req[r].pc = "revoke" => req[r].password <= password[req[r].user]

NewEnough == \A t \in Tokens \ late : InTable(t) => token[t].password >= revoked[token[t].user]

PasswordInv == RevokedWasSet /\ NewEnough

\* The password counter of a user only grows.
LEMMA PasswordGrows ==
  ASSUME TypeOK, [Next]_vars, NEW u \in Users
  PROVE  password'[u] >= password[u]
<1> DEFINE Goal == password'[u] >= password[u]
<1>1. ASSUME NEW r \in Reqs, SetPassword(r) PROVE Goal
  BY <1>1, RequestFields DEF SetPassword, TypeOK
<1>2. ASSUME UNCHANGED password PROVE Goal
  BY <1>2 DEF TypeOK
<1> HIDE DEF Goal
<1>3. ASSUME NEW r \in Reqs, Handler(r) PROVE Goal
  BY <1>1, <1>2, <1>3
     DEF Handler, RegisterCheck, Login, ResetVerify, ChangeVerify, DeleteVerify, SessionInsert, RefreshRead,
         Logout, RegisterInsert, SessionHash, RefreshDelete, Revoke, DeleteCommit, Abort
<1>4. Goal
  BY <1>2, <1>3 DEF Next, ForgotPassword, ExpireReset, ExpireToken, vars
<1>5. QED
  BY <1>4 DEF Goal

\* A request comes to revoke only by setting a password.
LEMMA RevokeRequestStep ==
  ASSUME TypeOK, [Next]_vars, NEW r \in Reqs, req'[r].pc = "revoke"
  PROVE  \/ req'[r] = req[r]
         \/ req'[r].user \in Users /\ req'[r].password = password'[req'[r].user]
<1> DEFINE Goal == \/ req'[r] = req[r]
                   \/ req'[r].user \in Users /\ req'[r].password = password'[req'[r].user]
<1>1. ASSUME req'[r] = req[r] PROVE Goal
  BY <1>1
<1>2. ASSUME NEW x \in Reqs, SetPassword(x) PROVE Goal
  <2>1. CASE x = r
    <3>1. req'[r] = [pc |-> "revoke", user |-> req[r].user, password |-> password'[req[r].user]]
      BY <1>2, <2>1 DEF SetPassword, Goto, TypeOK
    <3>2. req[r].user \in Users
      BY <1>2, <2>1, RequestFields DEF SetPassword
    <3>3. QED
      BY <3>1, <3>2
  <2>2. CASE x # r
    BY <1>1, <1>2, <2>2 DEF SetPassword, Goto, TypeOK
  <2>3. QED
    BY <2>1, <2>2
<1>3. ASSUME NEW x \in Reqs, NEW u, NEW p,
             NEW pc \in {"register", "session", "setPassword", "delete"}, Goto(x, pc, u, p)
      PROVE  Goal
  <2>1. CASE x = r
    <3>1. req'[r].pc = pc
      BY <1>3, <2>1 DEF Goto, TypeOK
    <3>2. QED
      BY <3>1
  <2>2. CASE x # r
    BY <1>1, <1>3, <2>2 DEF Goto, TypeOK
  <2>3. QED
    BY <2>1, <2>2
<1>4. ASSUME NEW x \in Reqs, Done(x) PROVE Goal
  BY <1>1, <1>4 DEF Done, TypeOK, Idle
<1>5. ASSUME NEW x \in Reqs, NEW t \in Tokens, SessionInsert(x, t) \/ RefreshRead(x, t) PROVE Goal
  BY <1>1, <1>5 DEF SessionInsert, RefreshRead, TypeOK
<1>6. ASSUME UNCHANGED req PROVE Goal
  BY <1>6
<1> HIDE DEF Goal
<1>7. ASSUME NEW x \in Reqs, Handler(x) PROVE Goal
  BY <1>2, <1>3, <1>4, <1>5, <1>6, <1>7
     DEF Handler, RegisterCheck, Login, ResetVerify, ChangeVerify, DeleteVerify, Logout, RegisterInsert,
         SessionHash, RefreshDelete, Revoke, DeleteCommit, Abort
<1>8. Goal
  BY <1>6, <1>7 DEF Next, ForgotPassword, ExpireReset, ExpireToken, vars
<1>9. QED
  BY <1>8 DEF Goal

\* Only a revocation raises what was revoked, and it clears the user's table.
LEMMA RevokedStep ==
  ASSUME TypeOK, [Next]_vars, NEW u \in Users
  PROVE  \/ revoked'[u] = revoked[u]
         \/ \E r \in Reqs : /\ req[r].pc = "revoke" /\ req[r].user = u
                            /\ revoked'[u] = req[r].password
                            /\ \A t \in Tokens : InTable(t)' => token'[t].user # u
<1> DEFINE Cleared(r) == /\ req[r].pc = "revoke" /\ req[r].user = u
                         /\ revoked'[u] = req[r].password
                         /\ \A t \in Tokens : InTable(t)' => token'[t].user # u
           Goal == revoked'[u] = revoked[u] \/ \E r \in Reqs : Cleared(r)
<1>1. ASSUME NEW r \in Reqs, Revoke(r) PROVE Goal
  <2>1. CASE req[r].user = u
    <3>1. revoked'[u] = revoked[u] \/ revoked'[u] = req[r].password
      BY <1>1, <2>1 DEF Revoke, TypeOK
    <3>2. Delete(TokensOf(u))
      BY <1>1, <2>1 DEF Revoke
    <3>3. \A t \in Tokens : InTable(t)' => token'[t].user # u
      BY <3>2, DeleteStep DEF TokensOf, InTable
    <3>4. req[r].pc = "revoke"
      BY <1>1 DEF Revoke
    <3>5. QED
      BY <2>1, <3>1, <3>3, <3>4
  <2>2. CASE req[r].user # u
    BY <1>1, <2>2 DEF Revoke, TypeOK
  <2>3. QED
    BY <2>1, <2>2
<1>2. ASSUME UNCHANGED revoked PROVE Goal
  BY <1>2
<1> HIDE DEF Goal
<1>3. ASSUME NEW r \in Reqs, Handler(r) PROVE Goal
  BY <1>1, <1>2, <1>3
     DEF Handler, RegisterCheck, Login, ResetVerify, ChangeVerify, DeleteVerify, SessionInsert, RefreshRead,
         Logout, RegisterInsert, SessionHash, RefreshDelete, SetPassword, DeleteCommit, Abort
<1>4. Goal
  BY <1>2, <1>3 DEF Next, ForgotPassword, ExpireReset, ExpireToken, vars
<1>5. QED
  BY <1>4 DEF Goal

\* A session that is stored is late or comes from the password of the moment.
LEMMA LateStep ==
  ASSUME TypeOK, [Next]_vars, NEW t \in Tokens
  PROVE  /\ t \in late => t \in late'
         /\ \A r \in Reqs : SessionInsert(r, t) =>
               \/ t \in late'
               \/ /\ token'[t].user \in Users /\ token'[t].password >= password[token'[t].user]
                  /\ UNCHANGED revoked
<1>1. ASSUME NEW r \in Reqs, NEW x \in Tokens, SessionInsert(r, x) PROVE late \subseteq late'
  BY <1>1 DEF SessionInsert
<1>2. late \subseteq late'
  <2>1. ASSUME UNCHANGED late PROVE late \subseteq late'
    BY <2>1
  <2>2. ASSUME NEW r \in Reqs, Handler(r) PROVE late \subseteq late'
    BY <1>1, <2>1, <2>2
       DEF Handler, RegisterCheck, Login, ResetVerify, ChangeVerify, DeleteVerify, RefreshRead, Logout,
           RegisterInsert, SessionHash, RefreshDelete, SetPassword, Revoke, DeleteCommit, Abort
  <2>3. QED
    BY <2>1, <2>2 DEF Next, ForgotPassword, ExpireReset, ExpireToken, vars
<1>3. ASSUME NEW r \in Reqs, SessionInsert(r, t), t \notin late'
      PROVE  /\ token'[t].user \in Users /\ token'[t].password >= password[token'[t].user]
             /\ UNCHANGED revoked
  <2>1. token'[t] = [state |-> "blank", user |-> req[r].user, password |-> req[r].password]
    BY <1>3 DEF SessionInsert, TypeOK
  <2>2. req[r].user \in Users /\ req[r].password \in Nat
    BY <1>3, RequestFields DEF SessionInsert
  <2>3. ~(req[r].password < password[req[r].user])
    BY <1>3 DEF SessionInsert
  <2>4. QED
    BY <1>3, <2>1, <2>2, <2>3 DEF SessionInsert, TypeOK
<1>4. QED
  BY <1>2, <1>3

LEMMA PasswordStep == TypeInv /\ PasswordInv /\ [Next]_vars => PasswordInv'
<1> SUFFICES ASSUME TypeInv, PasswordInv, [Next]_vars PROVE PasswordInv'
  OBVIOUS
<1>0. TypeOK
  BY DEF TypeInv
<1>1. TypeOK'
  BY TypeStep DEF TypeInv
<1>2. ASSUME NEW u \in Users PROVE revoked'[u] <= password'[u]
  <2>1. CASE revoked'[u] = revoked[u]
    BY <1>0, <1>1, <2>1, PasswordGrows DEF PasswordInv, RevokedWasSet, TypeOK
  <2>2. ASSUME NEW r \in Reqs, req[r].pc = "revoke", req[r].user = u, revoked'[u] = req[r].password
        PROVE  revoked'[u] <= password'[u]
    BY <1>0, <1>1, <2>2, PasswordGrows DEF PasswordInv, RevokedWasSet, TypeOK
  <2>3. QED
    BY <1>0, <2>1, <2>2, RevokedStep
<1>3. ASSUME NEW r \in Reqs, req'[r].pc = "revoke" PROVE req'[r].password <= password'[req'[r].user]
  <2>1. CASE req'[r] = req[r]
    <3>1. req[r].user \in Users /\ req[r].password \in Nat
      BY <1>0, <1>3, <2>1, RequestFields
    <3>2. QED
      BY <1>0, <1>1, <1>3, <2>1, <3>1, PasswordGrows DEF PasswordInv, RevokedWasSet, TypeOK
  <2>2. CASE req'[r].user \in Users /\ req'[r].password = password'[req'[r].user]
    BY <1>0, <1>1, <2>2 DEF TypeOK
  <2>3. QED
    BY <1>0, <1>3, <2>1, <2>2, RevokeRequestStep
<1>4. ASSUME NEW t \in Tokens, t \notin late', InTable(t)'
      PROVE  token'[t].password >= revoked'[token'[t].user]
  <2>1. t \notin late
    BY <1>0, <1>4, LateStep
  <2>2. CASE InTable(t)
    <3>1. /\ token'[t].user = token[t].user
          /\ token'[t].password = token[t].password
          /\ token[t].user \in Users
          /\ token[t].password >= revoked[token[t].user]
      BY <1>0, <2>1, <2>2, IssuedStep, RowOrUnissued DEF PasswordInv, NewEnough, Row
    <3>2. revoked'[token[t].user] = revoked[token[t].user]
      BY <1>0, <1>4, <3>1, RevokedStep
    <3>3. QED
      BY <3>1, <3>2
  <2>3. CASE ~InTable(t)
    <3>1. /\ token'[t].user \in Users /\ token'[t].password >= password[token'[t].user]
          /\ UNCHANGED revoked
      BY <1>0, <1>4, <2>3, IssuedStep, LateStep
    <3>2. revoked[token'[t].user] <= password[token'[t].user] /\ token'[t].password \in Nat
      BY <1>0, <1>1, <1>4, <3>1 DEF PasswordInv, RevokedWasSet, TypeOK, InTable, Row, Unissued
    <3>3. QED
      BY <1>0, <3>1, <3>2 DEF TypeOK
  <2>4. QED
    BY <2>2, <2>3
<1>5. QED
  BY <1>2, <1>3, <1>4 DEF PasswordInv, RevokedWasSet, NewEnough, InTable

\* Once a password change is through, every session that can be refreshed comes
\* from that password, a newer one, or was in the making meanwhile.
THEOREM SurvivorsAlwaysNew == Spec => []SurvivorsAreNew
<1>1. Init => PasswordInv
  BY DEF Init, PasswordInv, RevokedWasSet, NewEnough, InTable, Idle, Unissued
<1>2. PasswordInv => SurvivorsAreNew
  BY DEF PasswordInv, NewEnough, SurvivorsAreNew, InTable
<1>3. QED
  BY <1>1, <1>2, PasswordStep, TypeCorrect, PTL DEF Spec

-----------------------------------------------------------------------------
\* An account that is deleted takes its sessions with it, and ends for good.
LEMMA AccountStep ==
  ASSUME TypeOK, [Next]_vars, NEW u \in Users, account[u] = "active"
  PROVE  \/ account'[u] = "active"
         \/ \A t \in Tokens : InTable(t)' => token'[t].user # u
<1> DEFINE Cleared == \A t \in Tokens : InTable(t)' => token'[t].user # u
           Goal    == account'[u] = "active" \/ Cleared
<1>1. ASSUME NEW r \in Reqs, DeleteCommit(r) PROVE Goal
  <2>1. CASE req[r].user = u
    <3>1. Delete(TokensOf(u))
      BY <1>1, <2>1 DEF DeleteCommit
    <3>2. Cleared
      BY <3>1, DeleteStep DEF TokensOf, InTable
    <3>3. QED
      BY <3>2
  <2>2. CASE req[r].user # u
    BY <1>1, <2>2 DEF DeleteCommit, TypeOK
  <2>3. QED
    BY <2>1, <2>2
<1>2. ASSUME NEW r \in Reqs, RegisterInsert(r) PROVE Goal
  BY <1>2 DEF RegisterInsert, TypeOK
<1>3. ASSUME UNCHANGED account PROVE Goal
  BY <1>3
<1> HIDE DEF Goal
<1>4. ASSUME NEW r \in Reqs, Handler(r) PROVE Goal
  BY <1>1, <1>2, <1>3, <1>4
     DEF Handler, RegisterCheck, Login, ResetVerify, ChangeVerify, DeleteVerify, SessionInsert, RefreshRead,
         Logout, SessionHash, RefreshDelete, SetPassword, Revoke, Abort
<1>5. Goal
  BY <1>3, <1>4 DEF Next, ForgotPassword, ExpireReset, ExpireToken, vars
<1>6. QED
  BY <1>5 DEF Goal

\* No sign-in, registration or refresh in flight gives a deleted account a session.
THEOREM NoOrphansEver == Spec => []NoOrphanSessions
<1>1. Init => NoOrphanSessions
  BY DEF Init, NoOrphanSessions, InTable, Unissued
<1>2. TypeOK /\ NoOrphanSessions /\ [Next]_vars => NoOrphanSessions'
  <2> SUFFICES ASSUME TypeOK, NoOrphanSessions, [Next]_vars, NEW t \in Tokens, InTable(t)'
               PROVE  account'[token'[t].user] = "active"
    BY DEF NoOrphanSessions, InTable
  <2>1. CASE InTable(t)
    <3>1. /\ token'[t].user = token[t].user
          /\ token[t].user \in Users
          /\ account[token[t].user] = "active"
      BY <2>1, IssuedStep, RowOrUnissued DEF NoOrphanSessions, Row
    <3>2. QED
      BY <3>1, AccountStep
  <2>2. CASE ~InTable(t)
    <3>1. PICK r \in Reqs : SessionInsert(r, t)
      BY <2>2, IssuedStep
    <3>2. token'[t].user = req[r].user /\ account' = account /\ account[req[r].user] = "active"
      BY <3>1 DEF SessionInsert, TypeOK
    <3>3. QED
      BY <3>2
  <2>3. QED
    BY <2>1, <2>2
<1>3. TypeInv => TypeOK
  BY DEF TypeInv
<1>4. QED
  BY <1>1, <1>2, <1>3, TypeCorrect, PTL DEF Spec
=============================================================================
