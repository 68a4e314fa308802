-------------------------- MODULE NotificationProofs --------------------------
(***************************************************************************)
(* Proofs about what users are told: the notifications and pushes of       *)
(* Inbox, the milestones of SavingsGoals and the alerts of BudgetAlert,    *)
(* for every set of users, devices, rows and amounts.  The three share no  *)
(* state; a theorem names the specification it is about.                   *)
(***************************************************************************)
EXTENDS Inbox, SavingsGoals, BudgetAlert, SumProofs, TLAPS

-----------------------------------------------------------------------------
\* Inbox.

\* The types of the rows that the actions write.
LEMMA NewRowType ==
  ASSUME NEW u \in Users, NEW p \in Periods \cup {NoPeriod}
  PROVE  [user |-> u, period |-> p, read |-> FALSE] \in Row
  BY DEF Row

LEMMA ReadRowType ==
  ASSUME NEW row \in Row \cup {NoRow}, row.user \in Users
  PROVE  /\ [row EXCEPT !.read = TRUE] \in Row
         /\ [row EXCEPT !.read = TRUE].user = row.user
         /\ [row EXCEPT !.read = TRUE].period = row.period
<1>1. row \in Row
  BY NamesAssumption DEF NamesAssumption, NoRow
<1>2. QED
  BY <1>1 DEF Row

\* Every variable keeps its type.
LEMMA InboxTypeStep == InboxTypeOK /\ [InboxNext]_inboxVars => InboxTypeOK'
<1> SUFFICES ASSUME InboxTypeOK, [InboxNext]_inboxVars PROVE InboxTypeOK'
  OBVIOUS
<1> USE DEF InboxTypeOK, DeviceTokens, NoSend
<1>1. ASSUME NEW u \in Users, NEW n \in Notes, NEW p \in Periods \cup {NoPeriod}, Store(n, u, p)
      PROVE  InboxTypeOK'
  BY <1>1, NewRowType DEF Store
<1>2. ASSUME NEW u \in Users, NEW S, MarkOwn(u, S) PROVE InboxTypeOK'
  BY <1>2, ReadRowType DEF MarkOwn
<1>3. ASSUME NEW u \in Users, NEW t \in Tokens, RegisterToken(u, t) \/ RemoveToken(u, t) PROVE InboxTypeOK'
  BY <1>3 DEF RegisterToken, RemoveToken
<1>4. ASSUME NEW u \in Users, DeleteAccount(u) PROVE InboxTypeOK'
  BY <1>4 DEF DeleteAccount
<1>5. ASSUME NEW t \in Tokens, TokenDies(t) PROVE InboxTypeOK'
  BY <1>5 DEF TokenDies
<1>6. ASSUME NEW n \in Notes, Select(n) PROVE InboxTypeOK'
  BY <1>6 DEF Select
<1>7. ASSUME NEW n \in Notes, Call(n) PROVE InboxTypeOK'
  BY <1>7 DEF Call, Stale
<1>8. ASSUME NEW n \in Notes, Prune(n) \/ Lose(n) PROVE InboxTypeOK'
  BY <1>8 DEF Prune, Lose
<1>9. CASE UNCHANGED inboxVars
  BY <1>9 DEF inboxVars
<1>10. QED
  BY <1>1, <1>2, <1>3, <1>4, <1>5, <1>6, <1>7, <1>8, <1>9
     DEF InboxNext, User, Emit, EmitInsight, MarkRead, MarkAllRead

\* Every reachable state of Inbox is well typed.
THEOREM InboxTypeCorrect == InboxSpec => []InboxTypeOK
<1>1. InboxInit => InboxTypeOK
  BY DEF InboxInit, InboxTypeOK, DeviceTokens, NoSend
<1>2. QED
  BY <1>1, InboxTypeStep, PTL DEF InboxSpec

-----------------------------------------------------------------------------
\* Only a stored row, a mark and the deletion of its user change a row, and a
\* mark leaves its user and period alone.
LEMMA NoteStep ==
  ASSUME InboxTypeOK, [InboxNext]_inboxVars, NEW n \in Notes
  PROVE  \/ note'[n].user = note[n].user /\ note'[n].period = note[n].period
         \/ note'[n] = NoRow
         \/ \E u \in Users, p \in Periods \cup {NoPeriod} :
               Store(n, u, p) /\ note'[n] = [user |-> u, period |-> p, read |-> FALSE]
<1> USE DEF InboxTypeOK
<1> DEFINE Kept == note'[n].user = note[n].user /\ note'[n].period = note[n].period
           New  == \E u \in Users, p \in Periods \cup {NoPeriod} :
                      Store(n, u, p) /\ note'[n] = [user |-> u, period |-> p, read |-> FALSE]
<1>1. ASSUME NEW u \in Users, NEW m \in Notes, NEW p \in Periods \cup {NoPeriod}, Store(m, u, p)
      PROVE  Kept \/ New
  BY <1>1 DEF Store
<1>2. ASSUME NEW u \in Users, NEW S, MarkOwn(u, S) PROVE Kept
  <2>1. CASE n \in S /\ note[n].user = u
    BY <1>2, <2>1, ReadRowType DEF MarkOwn
  <2>2. CASE ~(n \in S /\ note[n].user = u)
    BY <1>2, <2>2 DEF MarkOwn
  <2>3. QED
    BY <2>1, <2>2
<1>3. ASSUME NEW u \in Users, DeleteAccount(u) PROVE Kept \/ note'[n] = NoRow
  BY <1>3 DEF DeleteAccount
<1>4. ASSUME UNCHANGED note PROVE Kept
  BY <1>4
<1> HIDE DEF Kept, New
<1>5. Kept \/ note'[n] = NoRow \/ New
  BY <1>1, <1>2, <1>3, <1>4
     DEF InboxNext, User, Emit, EmitInsight, MarkRead, MarkAllRead, RegisterToken, RemoveToken,
         TokenDies, Select, Call, Prune, Lose, inboxVars
<1>6. QED
  BY <1>5 DEF Kept, New

\* An account never comes back.
LEMMA AccountStep ==
  ASSUME InboxTypeOK, [InboxNext]_inboxVars, NEW u \in Users
  PROVE  account'[u] = account[u] \/ DeleteAccount(u)
<1>1. ASSUME NEW v \in Users, DeleteAccount(v) PROVE account'[u] = account[u] \/ DeleteAccount(u)
  BY <1>1 DEF DeleteAccount, InboxTypeOK
<1>2. CASE UNCHANGED account
  BY <1>2
<1>3. QED
  BY <1>1, <1>2
     DEF InboxNext, User, Emit, EmitInsight, Store, MarkRead, MarkAllRead, MarkOwn, RegisterToken,
         RemoveToken, TokenDies, Select, Call, Prune, Lose, inboxVars

-----------------------------------------------------------------------------
\* Whatever arrives after the deletion of an account, it has no notification
\* and no device.
THEOREM NothingForTheGoneEver == InboxSpec => []NothingForTheGone
<1>1. InboxInit => NothingForTheGone
  BY DEF InboxInit, NothingForTheGone
<1>2. InboxTypeOK /\ NothingForTheGone /\ [InboxNext]_inboxVars => NothingForTheGone'
  <2> SUFFICES ASSUME InboxTypeOK, NothingForTheGone, [InboxNext]_inboxVars, NEW u \in Users, account'[u] = "gone"
               PROVE  /\ \A n \in Notes : note'[n].user # u
                      /\ \A t \in Tokens : owner'[t] # u
    BY DEF NothingForTheGone
  <2> DEFINE NoNote   == \A n \in Notes : note'[n].user # u
             NoDevice == \A t \in Tokens : owner'[t] # u
  <2>1. CASE DeleteAccount(u)
    BY <2>1, NamesAssumption DEF DeleteAccount, NoRow, NamesAssumption, InboxTypeOK, DeviceTokens
  <2>2. CASE account'[u] = account[u]
    <3>1. /\ account[u] = "gone"
          /\ \A n \in Notes : note[n].user # u
          /\ \A t \in Tokens : owner[t] # u
      BY <2>2 DEF NothingForTheGone
    <3>2. NoNote
      <4> SUFFICES ASSUME NEW n \in Notes PROVE note'[n].user # u
        OBVIOUS
      <4>1. ASSUME NEW v \in Users, NEW p, Store(n, v, p) PROVE v # u
        BY <3>1, <4>1 DEF Store
      <4>2. ASSUME NEW v \in Users, NEW p \in Periods \cup {NoPeriod},
                   Store(n, v, p), note'[n] = [user |-> v, period |-> p, read |-> FALSE]
            PROVE  note'[n].user # u
        BY <4>1, <4>2
      <4>3. NoRow.user # u
        BY NamesAssumption DEF NoRow, NamesAssumption
      <4>4. CASE note'[n].user = note[n].user
        BY <3>1, <4>4
      <4>5. QED
        BY <4>2, <4>3, <4>4, NoteStep
    <3>3. ASSUME NEW v \in Users, NEW t \in Tokens, RegisterToken(v, t) PROVE NoDevice
      <4>1. v # u
        BY <3>1, <3>3 DEF RegisterToken
      <4>2. QED
        BY <3>1, <3>3, <4>1 DEF RegisterToken, InboxTypeOK, DeviceTokens
    <3>4. ASSUME \A t \in Tokens : owner'[t] \in {owner[t], Nobody} PROVE NoDevice
      BY <3>1, <3>4, NamesAssumption DEF NamesAssumption
    <3>5. ASSUME NEW v \in Users, NEW t \in Tokens, RemoveToken(v, t) PROVE NoDevice
      BY <3>4, <3>5 DEF RemoveToken, InboxTypeOK, DeviceTokens
    <3>6. ASSUME NEW v \in Users, DeleteAccount(v) PROVE NoDevice
      BY <3>4, <3>6 DEF DeleteAccount
    <3>7. ASSUME NEW n \in Notes, Prune(n) PROVE NoDevice
      BY <3>4, <3>7 DEF Prune
    <3>8. ASSUME UNCHANGED owner PROVE NoDevice
      BY <3>1, <3>8
    <3> HIDE DEF NoNote, NoDevice
    <3>9. NoDevice
      BY <3>3, <3>5, <3>6, <3>7, <3>8
         DEF InboxNext, User, Emit, EmitInsight, Store, MarkRead, MarkAllRead, MarkOwn, TokenDies,
             Select, Call, Lose, inboxVars
    <3>10. QED
      BY <3>2, <3>9 DEF NoNote, NoDevice
  <2>3. QED
    BY <2>1, <2>2, AccountStep
<1>3. QED
  BY <1>1, <1>2, InboxTypeCorrect, PTL DEF InboxSpec

-----------------------------------------------------------------------------
\* A prune has only dead tokens, which stay dead.
PruneHasDead == \A n \in Notes : send[n].pc = "prune" => send[n].tokens \subseteq dead

LEMMA PruneStep == InboxTypeOK /\ PruneHasDead /\ [InboxNext]_inboxVars => PruneHasDead'
<1> SUFFICES ASSUME InboxTypeOK, PruneHasDead, [InboxNext]_inboxVars PROVE PruneHasDead'
  OBVIOUS
<1> USE DEF InboxTypeOK, PruneHasDead
<1>1. ASSUME NEW u \in Users, NEW n \in Notes, NEW p, Store(n, u, p) PROVE PruneHasDead'
  BY <1>1 DEF Store
<1>2. ASSUME NEW n \in Notes, Select(n) \/ Prune(n) \/ Lose(n) PROVE PruneHasDead'
  BY <1>2 DEF Select, Prune, Lose, NoSend
<1>3. ASSUME NEW n \in Notes, Call(n) PROVE PruneHasDead'
  BY <1>3 DEF Call, Stale
<1>4. ASSUME NEW t \in Tokens, TokenDies(t) PROVE PruneHasDead'
  BY <1>4 DEF TokenDies
<1>5. CASE UNCHANGED <<send, dead>>
  BY <1>5
<1>6. QED
  BY <1>1, <1>2, <1>3, <1>4, <1>5
     DEF InboxNext, User, Emit, EmitInsight, MarkRead, MarkAllRead, MarkOwn, RegisterToken, RemoveToken,
         DeleteAccount, inboxVars

\* A late prune, though it deletes by value, never takes a living device's
\* registration, whoever has the device by then.
THEOREM LatePruneIsHarmless == InboxSpec => PruneOnlyDead
<1> DEFINE Lost == \A t \in Tokens : owner[t] # Nobody /\ owner'[t] = Nobody =>
                      \/ t \in dead
                      \/ RemoveToken(owner[t], t)
                      \/ DeleteAccount(owner[t])
<1>1. InboxTypeOK /\ PruneHasDead /\ [InboxNext]_inboxVars => [Lost]_inboxVars
  <2> SUFFICES ASSUME InboxTypeOK, PruneHasDead, [InboxNext]_inboxVars PROVE Lost
    OBVIOUS
  <2> SUFFICES ASSUME NEW t \in Tokens, owner[t] # Nobody, owner'[t] = Nobody
               PROVE  t \in dead \/ RemoveToken(owner[t], t) \/ DeleteAccount(owner[t])
    OBVIOUS
  <2> DEFINE Excused == t \in dead \/ RemoveToken(owner[t], t) \/ DeleteAccount(owner[t])
  <2>1. ASSUME NEW u \in Users, NEW s \in Tokens, RegisterToken(u, s) PROVE FALSE
    BY <2>1, NamesAssumption DEF RegisterToken, NamesAssumption, InboxTypeOK, DeviceTokens
  <2>2. ASSUME NEW u \in Users, NEW s \in Tokens, RemoveToken(u, s) PROVE Excused
    <3>1. s = t /\ owner[t] = u
      BY <2>2 DEF RemoveToken, InboxTypeOK, DeviceTokens
    <3>2. QED
      BY <2>2, <3>1
  <2>3. ASSUME NEW u \in Users, DeleteAccount(u) PROVE Excused
    <3>1. owner[t] = u
      BY <2>3 DEF DeleteAccount
    <3>2. QED
      BY <2>3, <3>1
  <2>4. ASSUME NEW n \in Notes, Prune(n) PROVE Excused
    BY <2>4 DEF Prune, PruneHasDead
  <2>5. ~UNCHANGED owner
    OBVIOUS
  <2> HIDE DEF Excused
  <2>6. Excused
    BY <2>1, <2>2, <2>3, <2>4, <2>5
       DEF InboxNext, User, Emit, EmitInsight, Store, MarkRead, MarkAllRead, MarkOwn, TokenDies,
           Select, Call, Lose, inboxVars
  <2>7. QED
    BY <2>6 DEF Excused
<1>2. InboxInit => PruneHasDead
  BY DEF InboxInit, PruneHasDead, NoSend
<1>3. QED
  BY <1>1, <1>2, PruneStep, InboxTypeCorrect, PTL DEF InboxSpec, PruneOnlyDead

-----------------------------------------------------------------------------
\* A send's row is there as long as its user is, and only issued identifiers
\* have a row or a send.
SendHasRow ==
    \A n \in Notes :
        /\ note[n] # NoRow => n \in issued
        /\ send[n].pc # "done" =>
              /\ n \in issued
              /\ send[n].user \in Users
              /\ note[n].user = send[n].user \/ account[send[n].user] = "gone"

LEMMA SendStep == InboxTypeOK /\ SendHasRow /\ [InboxNext]_inboxVars => SendHasRow'
<1> SUFFICES ASSUME InboxTypeOK, SendHasRow, [InboxNext]_inboxVars PROVE SendHasRow'
  OBVIOUS
<1> USE DEF InboxTypeOK, SendHasRow
<1>1. ASSUME NEW u \in Users, NEW n \in Notes, NEW p \in Periods \cup {NoPeriod}, Store(n, u, p)
      PROVE  SendHasRow'
  <2> SUFFICES ASSUME NEW m \in Notes
               PROVE  /\ note'[m] # NoRow => m \in issued'
                      /\ send'[m].pc # "done" =>
                            /\ m \in issued'
                            /\ send'[m].user \in Users
                            /\ note'[m].user = send'[m].user \/ account'[send'[m].user] = "gone"
    OBVIOUS
  <2>1. CASE m # n
    <3>1. note'[m] = note[m] /\ send'[m] = send[m] /\ account' = account /\ issued \subseteq issued'
      BY <1>1, <2>1 DEF Store
    <3>2. QED
      BY <3>1
  <2>2. CASE m = n
    <3>1. /\ m \in issued' /\ note'[m].user = u
          /\ send'[m] = send[m] \/ send'[m].user = u
          /\ m \notin issued
      BY <1>1, <2>2 DEF Store
    <3>2. QED
      BY <3>1
  <2>3. QED
    BY <2>1, <2>2
<1>2. ASSUME NEW u \in Users, NEW S, MarkOwn(u, S) PROVE SendHasRow'
  <2>1. ASSUME NEW m \in Notes PROVE note'[m] = note[m] \/ (note[m] # NoRow /\ note'[m].user = note[m].user)
    <3>1. CASE m \in S /\ note[m].user = u
      <4>1. note[m] # NoRow
        BY <3>1, NamesAssumption DEF NoRow, NamesAssumption
      <4>2. QED
        BY <1>2, <3>1, <4>1, ReadRowType DEF MarkOwn
    <3>2. CASE ~(m \in S /\ note[m].user = u)
      BY <1>2, <3>2 DEF MarkOwn
    <3>3. QED
      BY <3>1, <3>2
  <2>2. UNCHANGED <<send, issued, account>>
    BY <1>2 DEF MarkOwn
  <2>3. QED
    BY <2>1, <2>2
<1>3. ASSUME NEW u \in Users, DeleteAccount(u) PROVE SendHasRow'
  <2> SUFFICES ASSUME NEW m \in Notes
               PROVE  /\ note'[m] # NoRow => m \in issued'
                      /\ send'[m].pc # "done" =>
                            /\ m \in issued'
                            /\ send'[m].user \in Users
                            /\ note'[m].user = send'[m].user \/ account'[send'[m].user] = "gone"
    OBVIOUS
  <2>1. /\ note'[m] = NoRow \/ (note'[m] = note[m] /\ note[m].user # u)
        /\ note[m].user = u => note'[m] = NoRow
        /\ account'[u] = "gone" /\ \A v \in Users : v # u => account'[v] = account[v]
        /\ UNCHANGED <<send, issued>>
    BY <1>3 DEF DeleteAccount
  <2>2. CASE note[m].user = u
    <3>1. send[m].pc # "done" => account'[send[m].user] = "gone"
      BY <2>1, <2>2
    <3>2. QED
      BY <2>1, <2>2, <3>1
  <2>3. CASE note[m].user # u
    <3>1. note'[m] = note[m]
      BY <1>3, <2>3 DEF DeleteAccount
    <3>2. \A v \in Users : account[v] = "gone" => account'[v] = "gone"
      BY <2>1
    <3>3. QED
      BY <2>1, <3>1, <3>2
  <2>4. QED
    BY <2>2, <2>3
<1>4. ASSUME NEW n \in Notes, Select(n) \/ Prune(n) \/ Lose(n) PROVE SendHasRow'
  <2>1. /\ UNCHANGED <<note, issued, account>>
        /\ \A m \in Notes \ {n} : send'[m] = send[m]
        /\ send'[n].pc = "done" \/ (send[n].pc # "done" /\ send'[n].user = send[n].user)
    <3>1. CASE Select(n)
      BY <3>1 DEF Select
    <3>2. CASE Prune(n) \/ Lose(n)
      <4>1. send' = [send EXCEPT ![n] = NoSend] /\ UNCHANGED <<note, issued>>
        BY <3>2 DEF Prune, Lose
      <4>2. UNCHANGED account
        BY <3>2 DEF Prune, Lose
      <4>3. QED
        BY <4>1, <4>2 DEF NoSend
    <3>3. QED
      BY <1>4, <3>1, <3>2
  <2>2. QED
    BY <2>1
<1>5. ASSUME NEW n \in Notes, Call(n) PROVE SendHasRow'
  <2>1. /\ UNCHANGED <<note, issued, account>>
        /\ \A m \in Notes \ {n} : send'[m] = send[m]
        /\ send[n].pc # "done" /\ send'[n].user = send[n].user
    BY <1>5 DEF Call
  <2>2. QED
    BY <2>1
<1>6. CASE UNCHANGED <<note, send, issued, account>>
  BY <1>6
<1>7. QED
  BY <1>1, <1>2, <1>3, <1>4, <1>5, <1>6
     DEF InboxNext, User, Emit, EmitInsight, MarkRead, MarkAllRead, RegisterToken, RemoveToken,
         TokenDies, inboxVars

\* Whoever opens a push finds the notification as long as the account exists,
\* and no step marks or removes notifications of two users.
THEOREM PushesAreKept == InboxSpec => PushedIsKept
<1> DEFINE Kept == \A n \in Notes :
              /\ Call(n) => note[n].user = send[n].user \/ account[send[n].user] = "gone"
              /\ note[n] # NoRow /\ note'[n] = NoRow => account'[note[n].user] = "gone"
              /\ \A m \in Notes : Disturbed(m) /\ Disturbed(n) => note[m].user = note[n].user
<1>1. InboxTypeOK /\ SendHasRow /\ [InboxNext]_inboxVars => [Kept]_inboxVars
  <2> SUFFICES ASSUME InboxTypeOK, SendHasRow, [InboxNext]_inboxVars PROVE Kept
    OBVIOUS
  <2> DEFINE By(u) == \A n \in Notes : Disturbed(n) =>
                         note[n].user = u /\ (note'[n] = NoRow => account'[u] = "gone")
             Calm  == \A n \in Notes : ~Disturbed(n)
  <2>1. \A n \in Notes : Call(n) => note[n].user = send[n].user \/ account[send[n].user] = "gone"
    BY DEF Call, SendHasRow
  <2>2. Calm \/ \E u \in Users : By(u)
    <3>1. ASSUME NEW u \in Users, NEW m \in Notes, NEW p \in Periods \cup {NoPeriod}, Store(m, u, p)
          PROVE  Calm
      BY <3>1 DEF Store, SendHasRow, InboxTypeOK, Disturbed
    <3>2. ASSUME NEW u \in Users, NEW S, MarkOwn(u, S) PROVE By(u)
      <4> SUFFICES ASSUME NEW n \in Notes, Disturbed(n)
                   PROVE  note[n].user = u /\ note'[n] # NoRow
        OBVIOUS
      <4>1. note[n].user = u /\ note'[n] = [note[n] EXCEPT !.read = TRUE]
        BY <3>2 DEF MarkOwn, Disturbed
      <4>2. note'[n].user = u
        BY <4>1, ReadRowType DEF InboxTypeOK
      <4>3. QED
        BY <4>1, <4>2, NamesAssumption DEF NoRow, NamesAssumption
    <3>3. ASSUME NEW u \in Users, DeleteAccount(u) PROVE By(u)
      BY <3>3 DEF DeleteAccount, Disturbed, InboxTypeOK
    <3>4. ASSUME UNCHANGED note PROVE Calm
      BY <3>4 DEF Disturbed
    <3> HIDE DEF Calm, By
    <3>5. QED
      BY <3>1, <3>2, <3>3, <3>4
         DEF InboxNext, User, Emit, EmitInsight, MarkRead, MarkAllRead, RegisterToken, RemoveToken,
             TokenDies, Select, Call, Prune, Lose, inboxVars
  <2>3. CASE Calm
    BY <2>1, <2>3, NamesAssumption DEF Disturbed
  <2>4. ASSUME NEW u \in Users, By(u) PROVE Kept
    <3>1. \A n \in Notes : note[n] # NoRow /\ note'[n] = NoRow => Disturbed(n)
      BY DEF Disturbed
    <3>2. QED
      BY <2>1, <2>4, <3>1
  <2>5. QED
    BY <2>2, <2>3, <2>4
<1>2. InboxInit => SendHasRow
  BY DEF InboxInit, SendHasRow, NoSend
<1>3. QED
  BY <1>1, <1>2, SendStep, InboxTypeCorrect, PTL DEF InboxSpec, PushedIsKept

-----------------------------------------------------------------------------
\* SavingsGoals.

LEMMA GoalFields ==
  ASSUME NEW g \in Goal
  PROVE  g.saved \in Nat /\ g.target \in Nat \ {0}
<1>1. g.saved \in 0 .. MaxSaved /\ g.target \in Targets
  BY DEF Goal
<1>2. g.saved \in Nat
  BY <1>1, BoundAssumption
<1>3. g.target \in Nat \ {0}
  BY <1>1, TargetAssumption
<1>4. QED
  BY <1>2, <1>3

\* The marks a change passes, and the highest of them.
LEMMA PassedCases ==
  ASSUME NEW before \in Goal, NEW after \in Goal, before.target = after.target
  PROVE  Passed(before, after) =
           IF before.saved < before.target /\ after.saved >= after.target THEN 100
           ELSE IF 2 * before.saved < before.target /\ 2 * after.saved >= after.target THEN 50
           ELSE NoMark
<1> DEFINE Crossed == {m \in Marks : /\ 100 * before.saved < m * before.target
                                     /\ 100 * after.saved >= m * after.target}
<1>1. /\ before.saved \in Nat /\ after.saved \in Nat
      /\ before.target \in Nat \ {0}
  BY GoalFields
<1>2. 100 \in Crossed <=> before.saved < before.target /\ after.saved >= after.target
  BY <1>1 DEF Marks
<1>3. 50 \in Crossed <=> 2 * before.saved < before.target /\ 2 * after.saved >= after.target
  BY <1>1 DEF Marks
<1>4. Crossed \subseteq {50, 100}
  BY DEF Marks
<1>5. Passed(before, after) = IF Crossed = {} THEN NoMark ELSE Max(Crossed)
  BY DEF Passed
<1> HIDE DEF Crossed
<1>6. CASE 100 \in Crossed
  <2>1. \A y \in Crossed : 100 >= y
    BY <1>4
  <2>2. \A x \in Crossed : (\A y \in Crossed : x >= y) => x = 100
    BY <1>4, <1>6
  <2>3. Max(Crossed) = 100
    BY <1>6, <2>1, <2>2 DEF Max
  <2>4. QED
    BY <1>2, <1>5, <1>6, <2>3
<1>7. CASE 100 \notin Crossed /\ 50 \in Crossed
  <2>1. \A x \in Crossed : x = 50
    BY <1>4, <1>7
  <2>2. Max(Crossed) = 50
    BY <1>7, <2>1 DEF Max
  <2>3. QED
    BY <1>2, <1>3, <1>5, <1>7, <2>2
<1>8. CASE Crossed = {}
  BY <1>2, <1>3, <1>5, <1>8
<1>9. QED
  BY <1>4, <1>6, <1>7, <1>8

\* maybeEmitMilestone decides by halves and wholes what Passed says in percent.
LEMMA MarkIsPassed ==
  ASSUME NEW before \in Goal, NEW after \in Goal, before.target = after.target
  PROVE  MarkOf(before, after) = Passed(before, after)
<1>1. /\ before.saved \in Nat /\ after.saved \in Nat
      /\ before.target \in Nat \ {0}
  BY GoalFields
<1>2. QED
  BY <1>1, PassedCases DEF MarkOf, AllDone, HalfDone

\* What was read may be behind the goal: a mark that the goal passes is not missed.
LEMMA MarkNotMissed ==
  ASSUME NEW before \in Goal, NEW mid \in Goal, NEW after \in Goal,
         before.target = mid.target, mid.target = after.target, before.saved <= mid.saved,
         Passed(mid, after) # NoMark
  PROVE  MarkOf(before, after) = Passed(mid, after)
<1>1. /\ before.saved \in Nat /\ mid.saved \in Nat /\ after.saved \in Nat
      /\ before.target \in Nat \ {0}
  BY GoalFields
<1>2. QED
  BY <1>1, PassedCases DEF MarkOf, AllDone, HalfDone

\* A top-up leaves a goal with the same target and more saved.
LEMMA TopUp ==
  ASSUME GoalTypeOK, NEW d \in Savers, AddCommit(d)
  PROVE  /\ goal \in Goal /\ goal' \in Goal
         /\ goal'.target = goal.target
         /\ goal'.saved = goal.saved + topUp[d].amount
         /\ goal.saved \in Nat /\ goal.target \in Nat /\ topUp[d].amount \in Nat
         /\ topUp[d].before \in Goal
<1>1. goal \in Goal /\ topUp[d].amount \in Nat \ {0} /\ topUp[d].before \in Goal
  BY TargetAssumption DEF AddCommit, GoalTypeOK, TopUpState
<1>2. goal.saved \in 0 .. MaxSaved /\ goal.target \in Targets
  BY <1>1 DEF Goal
<1>3. goal.saved + topUp[d].amount \in 0 .. MaxSaved
  BY <1>1, <1>2, BoundAssumption DEF AddCommit
<1>4. goal' = [goal EXCEPT !.saved = goal.saved + topUp[d].amount]
  BY DEF AddCommit
<1>5. QED
  BY <1>1, <1>2, <1>3, <1>4, TargetAssumption, BoundAssumption DEF Goal

\* What a top-up announces is what maybeEmitMilestone says of what it read and left.
LEMMA AnnouncedMark ==
  ASSUME GoalTypeOK, NEW d \in Savers, AddCommit(d)
  PROVE  /\ Announced(d)' = MarkOf(topUp[d].before, goal')
         /\ topUp'[d] = IF MarkOf(topUp[d].before, goal') = NoMark THEN NoTopUp
                        ELSE [pc |-> "tell", mark |-> MarkOf(topUp[d].before, goal')]
         /\ topUp'[d].pc \in {"idle", "tell"}
         /\ \A e \in Savers \ {d} : topUp'[e] = topUp[e]
  BY DEF AddCommit, Announce, Announced, NoTopUp, GoalTypeOK, NoMark

\* Every variable keeps its type.
LEMMA GoalTypeStep == GoalTypeOK /\ [GoalNext]_goalVars => GoalTypeOK'
<1> SUFFICES ASSUME GoalTypeOK, [GoalNext]_goalVars PROVE GoalTypeOK'
  OBVIOUS
<1> USE DEF GoalTypeOK
<1>1. ASSUME NEW d, SeenByTopUps(d, "edit") \/ SeenByTopUps(d, "growth")
      PROVE  meanwhile' \in [Savers -> SUBSET Changes]
  BY <1>1 DEF SeenByTopUps, Changes
<1>2. ASSUME NEW g \in Goal, CreateGoal(g) PROVE GoalTypeOK'
  BY <1>2 DEF CreateGoal
<1>3. ASSUME NEW d \in Savers, NEW g \in Goal \cup {Removed}, ChangeGoal(d, g) PROVE GoalTypeOK'
  BY <1>1, <1>3, BoundAssumption DEF ChangeGoal
<1>4. ASSUME NEW d \in Savers, NEW a \in TopUps, AddRead(d, a) PROVE GoalTypeOK'
  BY <1>4 DEF AddRead, TopUpState
<1>5. ASSUME NEW d \in Savers, AddCommit(d) PROVE GoalTypeOK'
  <2>1. goal' \in Goal
    BY <1>5, TopUp
  <2>2. topUp' \in [Savers -> TopUpState]
    BY <1>5 DEF AddCommit, Announce, MarkOf, NoMark, Marks, NoTopUp, TopUpState
  <2>3. mixed' \in BOOLEAN
    BY <1>5 DEF AddCommit
  <2>4. QED
    BY <1>1, <1>5, <2>1, <2>2, <2>3 DEF AddCommit
<1>6. ASSUME NEW d \in Savers, Tell(d) PROVE GoalTypeOK'
  BY <1>6 DEF Tell, TopUpState, NoTopUp
<1>7. ASSUME NEW d \in Savers, FailTopUp(d) PROVE GoalTypeOK'
  BY <1>7 DEF FailTopUp, TopUpState, NoTopUp
<1>8. CASE UNCHANGED goalVars
  BY <1>8 DEF goalVars
<1>9. QED
  BY <1>2, <1>3, <1>4, <1>5, <1>6, <1>7, <1>8 DEF GoalNext, Edit, Remove

\* Every reachable state of SavingsGoals is well typed.
THEOREM GoalTypeCorrect == GoalSpec => []GoalTypeOK
<1>1. GoalInit => GoalTypeOK
  <2> SUFFICES ASSUME GoalInit PROVE GoalTypeOK
    OBVIOUS
  <2>1. NoTopUp \in TopUpState
    BY DEF NoTopUp, TopUpState
  <2>2. 0 \in 0 .. MaxEdits
    BY BoundAssumption
  <2>3. QED
    BY <2>1, <2>2 DEF GoalInit, GoalTypeOK
<1>2. QED
  BY <1>1, GoalTypeStep, PTL DEF GoalSpec

-----------------------------------------------------------------------------
\* What a top-up has read is the goal while nobody changes it, and its past
\* while others only top up.
Snapshot ==
    \A d \in Savers : topUp[d].pc = "add" =>
        /\ meanwhile[d] = {} => goal = topUp[d].before
        /\ "edit" \notin meanwhile[d] => /\ goal \in Goal
                                         /\ goal.target = topUp[d].before.target
                                         /\ goal.saved >= topUp[d].before.saved

LEMMA SnapshotStep == GoalTypeOK /\ Snapshot /\ [GoalNext]_goalVars => Snapshot'
<1> SUFFICES ASSUME GoalTypeOK, Snapshot, [GoalNext]_goalVars, NEW e \in Savers, topUp'[e].pc = "add"
             PROVE  /\ meanwhile'[e] = {} => goal' = topUp'[e].before
                    /\ "edit" \notin meanwhile'[e] => /\ goal' \in Goal
                                                      /\ goal'.target = topUp'[e].before.target
                                                      /\ goal'.saved >= topUp'[e].before.saved
  BY DEF Snapshot
<1> DEFINE Old  == /\ topUp[e].pc = "add" /\ topUp'[e] = topUp[e] /\ topUp[e].before \in Goal
                   /\ meanwhile[e] = {} => goal = topUp[e].before
                   /\ "edit" \notin meanwhile[e] => /\ goal \in Goal
                                                    /\ goal.target = topUp[e].before.target
                                                    /\ goal.saved >= topUp[e].before.saved
           Goal1 == /\ meanwhile'[e] = {} => goal' = topUp'[e].before
                    /\ "edit" \notin meanwhile'[e] => /\ goal' \in Goal
                                                      /\ goal'.target = topUp'[e].before.target
                                                      /\ goal'.saved >= topUp'[e].before.saved
<1>1. ASSUME topUp'[e] = topUp[e] PROVE Old
  BY <1>1 DEF Snapshot, GoalTypeOK, TopUpState
<1>2. ASSUME NEW g \in Goal, CreateGoal(g) PROVE Goal1
  BY <1>1, <1>2, NoGoalAssumption DEF CreateGoal
<1>3. ASSUME NEW d \in Savers, NEW g \in Goal \cup {Removed}, ChangeGoal(d, g) PROVE Goal1
  BY <1>1, <1>3 DEF ChangeGoal, SeenByTopUps, NoTopUp
<1>4. ASSUME NEW d \in Savers, NEW a \in TopUps, AddRead(d, a) PROVE Goal1
  <2>1. CASE d = e
    BY <1>4, <2>1, BoundAssumption DEF AddRead, GoalTypeOK, Goal
  <2>2. CASE d # e
    BY <1>1, <1>4, <2>2 DEF AddRead, GoalTypeOK
  <2>3. QED
    BY <2>1, <2>2
<1>5. ASSUME NEW d \in Savers, AddCommit(d) PROVE Goal1
  <2>1. d # e
    BY <1>5, AnnouncedMark
  <2>2. Old
    BY <1>1, <1>5, <2>1, AnnouncedMark
  <2>3. meanwhile'[e] = meanwhile[e] \cup {"growth"}
    BY <1>5, <2>1, <2>2 DEF AddCommit, SeenByTopUps
  <2>4. topUp[e].before.saved \in Nat
    BY <2>2, BoundAssumption DEF Goal
  <2>5. QED
    BY <1>5, <2>2, <2>3, <2>4, TopUp
<1>6. ASSUME NEW d \in Savers, Tell(d) \/ FailTopUp(d) PROVE Goal1
  BY <1>1, <1>6 DEF Tell, FailTopUp, GoalTypeOK, NoTopUp
<1>7. ASSUME UNCHANGED goalVars PROVE Goal1
  BY <1>1, <1>7 DEF goalVars
<1> HIDE DEF Goal1
<1>8. Goal1
  BY <1>2, <1>3, <1>4, <1>5, <1>6, <1>7 DEF GoalNext, Edit, Remove
<1>9. QED
  BY <1>8 DEF Goal1

LEMMA SnapshotAlways == GoalSpec => []Snapshot
<1>1. GoalInit => Snapshot
  BY DEF GoalInit, Snapshot, NoTopUp
<1>2. QED
  BY <1>1, SnapshotStep, GoalTypeCorrect, PTL DEF GoalSpec

\* Whatever the targets and amounts, a top-up that nobody interferes with
\* announces exactly the mark it takes the goal over.
THEOREM MilestoneAlwaysIffCrossed == GoalSpec => MilestoneIffCrossed
<1> DEFINE Exact == \A d \in Savers :
                       AddCommit(d) /\ meanwhile[d] = {} => Announced(d)' = Passed(goal, goal')
<1>1. GoalTypeOK /\ Snapshot => Exact
  <2> SUFFICES ASSUME GoalTypeOK, Snapshot, NEW d \in Savers, AddCommit(d), meanwhile[d] = {}
               PROVE  Announced(d)' = Passed(goal, goal')
    OBVIOUS
  <2>1. goal = topUp[d].before
    BY DEF Snapshot, AddCommit
  <2>2. QED
    BY <2>1, TopUp, AnnouncedMark, MarkIsPassed
<1>2. QED
  BY <1>1, GoalTypeCorrect, SnapshotAlways, PTL DEF MilestoneIffCrossed

\* However the top-ups of a goal overlap, none misses the mark it crosses.
THEOREM NoneEverMissed == GoalSpec => NoneMissed
<1> DEFINE Kept == \A d \in Savers :
                      AddCommit(d) /\ "edit" \notin meanwhile[d] /\ Passed(goal, goal') # NoMark
                      => Announced(d)' = Passed(goal, goal')
<1>1. GoalTypeOK /\ Snapshot => Kept
  <2> SUFFICES ASSUME GoalTypeOK, Snapshot, NEW d \in Savers, AddCommit(d), "edit" \notin meanwhile[d],
                      Passed(goal, goal') # NoMark
               PROVE  Announced(d)' = Passed(goal, goal')
    OBVIOUS
  <2>1. goal.target = topUp[d].before.target /\ goal.saved >= topUp[d].before.saved
    BY DEF Snapshot, AddCommit
  <2>2. topUp[d].before.saved \in Nat /\ goal.saved \in Nat
    BY TopUp, BoundAssumption DEF Goal
  <2>3. MarkOf(topUp[d].before, goal') = Passed(goal, goal')
    BY <2>1, <2>2, TopUp, MarkNotMissed
  <2>4. QED
    BY <2>3, AnnouncedMark
<1>2. QED
  BY <1>1, GoalTypeCorrect, SnapshotAlways, PTL DEF NoneMissed

-----------------------------------------------------------------------------
\* Of a goal nobody edits, with top-ups that do not overlap: a mark that was
\* told or is being told was reached, and is being told by one request at most
\* and only if it was not told before.
Telling(d, m) == topUp[d].pc = "tell" /\ topUp[d].mark = m
IsReached(m)    == goal \in Goal /\ 100 * goal.saved >= m * goal.target

Calm == edits = 0 /\ ~mixed

ToldOnce ==
    Calm => \A m \in Marks :
        /\ told[m] <= 1
        /\ told[m] > 0 => IsReached(m)
        /\ \A d \in Savers : Telling(d, m) => told[m] = 0 /\ IsReached(m)
        /\ \A d, e \in Savers : Telling(d, m) /\ Telling(e, m) => d = e

LEMMA ToldOnceStep == GoalTypeOK /\ Snapshot /\ ToldOnce /\ [GoalNext]_goalVars => ToldOnce'
<1> SUFFICES ASSUME GoalTypeOK, Snapshot, ToldOnce, [GoalNext]_goalVars, Calm', NEW m \in Marks
             PROVE  /\ told'[m] <= 1
                    /\ told'[m] > 0 => IsReached(m)'
                    /\ \A d \in Savers : Telling(d, m)' => told'[m] = 0 /\ IsReached(m)'
                    /\ \A d, e \in Savers : Telling(d, m)' /\ Telling(e, m)' => d = e
  BY DEF ToldOnce, Telling
<1> DEFINE G == /\ told'[m] <= 1
                /\ told'[m] > 0 => IsReached(m)'
                /\ \A d \in Savers : Telling(d, m)' => told'[m] = 0 /\ IsReached(m)'
                /\ \A d, e \in Savers : Telling(d, m)' /\ Telling(e, m)' => d = e
<1>1. Calm /\ edits' = edits /\ ~mixed'
  BY DEF Calm, GoalTypeOK, GoalNext, CreateGoal, Edit, Remove, ChangeGoal, AddRead, AddCommit, Tell, FailTopUp, goalVars
<1>2. /\ told[m] \in Nat /\ told[m] <= 1
      /\ told[m] > 0 => IsReached(m)
      /\ \A d \in Savers : Telling(d, m) => told[m] = 0 /\ IsReached(m)
      /\ \A d, e \in Savers : Telling(d, m) /\ Telling(e, m) => d = e
  BY <1>1 DEF ToldOnce, GoalTypeOK
<1>3. ASSUME NEW g \in Goal, CreateGoal(g) PROVE G
  BY <1>2, <1>3, NoGoalAssumption DEF CreateGoal, IsReached, Telling
<1>4. ASSUME NEW d \in Savers, NEW g \in Goal \cup {Removed}, ChangeGoal(d, g) PROVE G
  BY <1>1, <1>4 DEF ChangeGoal, GoalTypeOK
<1>5. ASSUME UNCHANGED <<goal, told>>, NEW d \in Savers, \A e \in Savers \ {d} : topUp'[e] = topUp[e],
             topUp'[d].pc # "tell"
      PROVE  G
  BY <1>2, <1>5 DEF Telling, IsReached
<1>6. ASSUME NEW d \in Savers, NEW a \in TopUps, AddRead(d, a) PROVE G
  BY <1>5, <1>6 DEF AddRead, GoalTypeOK
<1>7. ASSUME NEW d \in Savers, FailTopUp(d) PROVE G
  BY <1>5, <1>7 DEF FailTopUp, GoalTypeOK, NoTopUp
<1>8. ASSUME NEW d \in Savers, Tell(d) PROVE G
  <2>1. /\ \A e \in Savers \ {d} : topUp'[e] = topUp[e]
        /\ topUp'[d].pc # "tell"
        /\ topUp[d].mark \in Marks /\ topUp[d].pc = "tell"
        /\ goal' = goal
        /\ told' = [told EXCEPT ![topUp[d].mark] = @ + 1]
    BY <1>8 DEF Tell, GoalTypeOK, NoTopUp, TopUpState
  <2>2. CASE topUp[d].mark = m
    <3>1. Telling(d, m)
      BY <2>1, <2>2 DEF Telling
    <3>2. told[m] = 0 /\ IsReached(m) /\ told'[m] = 1
      BY <1>2, <2>1, <2>2, <3>1 DEF GoalTypeOK
    <3>3. \A e \in Savers : ~Telling(e, m)'
      BY <1>2, <2>1, <3>1 DEF Telling
    <3>4. IsReached(m)'
      BY <2>1, <3>2 DEF IsReached
    <3>5. QED
      BY <3>2, <3>3, <3>4
  <2>3. CASE topUp[d].mark # m
    <3>1. told'[m] = told[m]
      BY <2>1, <2>3 DEF GoalTypeOK
    <3>2. \A e \in Savers : Telling(e, m)' => Telling(e, m)
      BY <2>1 DEF Telling
    <3>3. QED
      BY <1>2, <2>1, <3>1, <3>2 DEF IsReached
  <2>4. QED
    BY <2>2, <2>3
<1>9. ASSUME NEW d \in Savers, AddCommit(d) PROVE G
  <2>1. told' = told /\ meanwhile[d] = {}
    BY <1>1, <1>9 DEF AddCommit
  <2>2. goal = topUp[d].before
    BY <1>9, <2>1 DEF Snapshot, AddCommit
  <2>3. IsReached(m) => IsReached(m)'
    BY <1>9, TopUp DEF IsReached, Marks
  <2>4. /\ topUp'[d] = IF Passed(goal, goal') = NoMark THEN NoTopUp
                       ELSE [pc |-> "tell", mark |-> Passed(goal, goal')]
        /\ \A e \in Savers \ {d} : topUp'[e] = topUp[e]
    BY <1>9, <2>2, TopUp, AnnouncedMark, MarkIsPassed
  <2>5. Telling(d, m)' => m = Passed(goal, goal')
    BY <2>4 DEF Telling, NoTopUp
  <2>6. m = Passed(goal, goal') => ~IsReached(m) /\ IsReached(m)'
    BY <1>9, TopUp, PassedCases DEF IsReached, Marks, NoMark
  <2>7. CASE Telling(d, m)'
    <3>1. ~IsReached(m) /\ IsReached(m)'
      BY <2>5, <2>6, <2>7
    <3>2. told[m] = 0 /\ \A e \in Savers : ~Telling(e, m)
      BY <1>2, <3>1
    <3>3. QED
      BY <2>1, <2>4, <3>1, <3>2 DEF Telling
  <2>8. CASE ~Telling(d, m)'
    <3>1. \A e \in Savers : Telling(e, m)' => Telling(e, m)
      BY <2>4, <2>8 DEF Telling
    <3>2. QED
      BY <1>2, <2>1, <2>3, <3>1
  <2>9. QED
    BY <2>7, <2>8
<1>10. ASSUME UNCHANGED goalVars PROVE G
  BY <1>2, <1>10 DEF goalVars, Telling, IsReached
<1> HIDE DEF G
<1>11. G
  BY <1>3, <1>4, <1>6, <1>7, <1>8, <1>9, <1>10 DEF GoalNext, Edit, Remove
<1>12. QED
  BY <1>11 DEF G

\* For any number of devices and top-ups that do not overlap, each mark of a
\* goal nobody edits is told at most once.
THEOREM EachFiresOnce == GoalSpec => []FiresOnce
<1>1. GoalInit => ToldOnce
  BY DEF GoalInit, ToldOnce, Telling, NoTopUp
<1>2. ToldOnce => FiresOnce
  BY DEF ToldOnce, Calm, FiresOnce
<1>3. QED
  BY <1>1, <1>2, ToldOnceStep, GoalTypeCorrect, SnapshotAlways, PTL DEF GoalSpec

-----------------------------------------------------------------------------
(***************************************************************************)
(* The budget alert.  An expense not yet inserted counts nothing, so a     *)
(* create adds exactly its amount to the total.  While nobody edits, what  *)
(* a request will read is what it committed against: its limit is the      *)
(* limit, and the total without its own expense is at least what it was.   *)
(***************************************************************************)
LEMMA ChargeType == \A a \in Amounts \cup {0} : a \in Nat
  BY AmountAssumption DEF AmountAssumption

LEMMA LimitType == (\A l \in Limits : l \in Nat) /\ NoBudget \notin Limits
  BY LimitAssumption DEF LimitAssumption

LEMMA AlertRequest ==
  ASSUME AlertTypeOK, NEW d \in Devices
  PROVE  /\ req[d] \in Request
         /\ req[d].pc \in {"budget", "sum"} => req[d] # Idle
         /\ req[d] # Idle => req[d].pc \in {"budget", "sum"} /\ req[d].amount \in Amounts
         /\ req[d].pc = "sum" => req[d].limit \in Limits
  BY DEF AlertTypeOK, Request, Idle

LEMMA TotalType == ASSUME AlertTypeOK PROVE Total \in Nat
<1>1. amount \in [Expenses -> Nat]
  BY ChargeType DEF AlertTypeOK
<1>2. QED
  BY <1>1, SumCovers, FiniteAssumption DEF FiniteAssumption, Total

\* Setting one expense changes the total by as much.
LEMMA TotalChange ==
  ASSUME AlertTypeOK, NEW e \in Expenses, NEW a \in Amounts \cup {0}, amount' = [amount EXCEPT ![e] = a]
  PROVE  Total' = Total + (a - amount[e])
<1>1. amount \in [Expenses -> Int] /\ amount' \in [Expenses -> Int]
  BY ChargeType DEF AlertTypeOK
<1>2. amount'[e] = a /\ \A f \in Expenses : f # e => amount'[f] = amount[f]
  BY <1>1
<1> DEFINE f == amount
           h == amount'
<1>3. /\ f \in [Expenses -> Int] /\ h \in [Expenses -> Int]
      /\ \A x \in Expenses : x # e => h[x] = f[x]
  BY <1>1, <1>2
<1>4. h[e] - f[e] = a - amount[e]
  BY <1>2
<1>5. Total = SumFunction(f) /\ Total' = SumFunction(h)
  BY DEF Total
<1> HIDE DEF f, h
<1>6. SumFunction(h) = SumFunction(f) + (h[e] - f[e])
  BY <1>3, SumChange, FiniteAssumption DEF FiniteAssumption
<1>7. QED
  BY <1>4, <1>5, <1>6

LEMMA AlertTypeStep == AlertTypeOK /\ [AlertNext]_alertVars => AlertTypeOK'
<1> SUFFICES ASSUME AlertTypeOK, [AlertNext]_alertVars PROVE AlertTypeOK'
  OBVIOUS
<1> USE DEF AlertTypeOK
<1>1. ASSUME NEW d \in Devices, Over(d)
      PROVE  /\ req'     \in [Devices -> Request]
             /\ during'  \in [Devices -> SUBSET Change]
             /\ wasOver' \in [Devices -> BOOLEAN]
  <2>1. Idle \in Request
    BY DEF Idle, Request
  <2>2. QED
    BY <1>1, <2>1 DEF Over
<1>2. Seen("growth") \in [Devices -> SUBSET Change] /\ Seen("edit") \in [Devices -> SUBSET Change]
  BY DEF Seen, Change
<1>3. ASSUME NEW d \in Devices, NEW e \in Expenses, NEW a \in Amounts, Create(d, e, a) PROVE AlertTypeOK'
  <2>1. [pc |-> "budget", amount |-> a] \in Request /\ Reached \in BOOLEAN
    BY DEF Request, Reached
  <2>2. QED
    BY <1>2, <1>3, <2>1 DEF Create
<1>4. ASSUME NEW d \in Devices, ReadBudget(d) PROVE AlertTypeOK'
  <2>1. CASE limit = NoBudget
    BY <1>1, <1>4, <2>1 DEF ReadBudget
  <2>2. CASE limit # NoBudget
    <3>1. [pc |-> "sum", amount |-> req[d].amount, limit |-> limit] \in Request
      BY <1>4, <2>2, AlertRequest DEF ReadBudget, Request
    <3>2. QED
      BY <1>4, <2>2, <3>1 DEF ReadBudget
  <2>3. QED
    BY <2>1, <2>2
<1>5. ASSUME NEW d \in Devices, SumAndEmit(d) \/ Fail(d) PROVE AlertTypeOK'
  BY <1>1, <1>5 DEF SumAndEmit, Fail
<1>6. ASSUME NEW d \in Devices, NEW l \in Limits \cup {NoBudget}, SetLimit(d, l) PROVE AlertTypeOK'
  BY <1>2, <1>6 DEF SetLimit
<1>7. ASSUME NEW d \in Devices, NEW e \in Expenses, NEW a \in Amounts \cup {0}, EditExpense(d, e, a)
      PROVE  AlertTypeOK'
  BY <1>2, <1>7 DEF EditExpense
<1>8. ASSUME NEW e \in Expenses, NEW a \in Amounts, Post(e, a) PROVE AlertTypeOK'
  BY <1>2, <1>8 DEF Post
<1>9. CASE UNCHANGED alertVars
  BY <1>9 DEF alertVars
<1>10. QED
  BY <1>3, <1>4, <1>5, <1>6, <1>7, <1>8, <1>9 DEF AlertNext, Upsert, RemoveBudget

UnusedIsNought == \A e \in unused : amount[e] = 0

\* What request d will compare with: the limit, and the total without its expense.
AtLimitWithout(d) == limit \in Limits /\ Total - req[d].amount >= limit

Watches(d) ==
    req[d] # Idle /\ "edit" \notin during[d] =>
        /\ req[d].pc = "sum" => req[d].limit = limit
        /\ wasOver[d] => AtLimitWithout(d)
        /\ during[d] = {} /\ AtLimitWithout(d) => wasOver[d]

AlertInv == AlertTypeOK /\ UnusedIsNought /\ \A d \in Devices : Watches(d)

LEMMA UnusedStep == AlertTypeOK /\ UnusedIsNought /\ [AlertNext]_alertVars => UnusedIsNought'
<1> SUFFICES ASSUME AlertTypeOK, UnusedIsNought, [AlertNext]_alertVars PROVE UnusedIsNought'
  OBVIOUS
<1>1. ASSUME UNCHANGED <<amount, unused>> PROVE UnusedIsNought'
  BY <1>1 DEF UnusedIsNought
<1>2. ASSUME NEW e \in unused, NEW a, unused' = unused \ {e}, amount' = [amount EXCEPT ![e] = a]
      PROVE  UnusedIsNought'
  BY <1>2 DEF UnusedIsNought, AlertTypeOK
<1>3. ASSUME NEW d \in Devices, NEW e \in Expenses, NEW a, EditExpense(d, e, a) PROVE UnusedIsNought'
  BY <1>3 DEF EditExpense, UnusedIsNought, AlertTypeOK
<1>4. ASSUME NEW d \in Devices, ReadBudget(d) \/ SumAndEmit(d) \/ Fail(d) \/ (\E l : SetLimit(d, l))
      PROVE  UNCHANGED <<amount, unused>>
  BY <1>4 DEF ReadBudget, SumAndEmit, Fail, SetLimit
<1>5. CASE UNCHANGED alertVars
  BY <1>1, <1>5 DEF alertVars
<1>6. QED
  BY <1>1, <1>2, <1>3, <1>4, <1>5 DEF AlertNext, Create, Post, Upsert, RemoveBudget

LEMMA WatchStep == AlertInv /\ [AlertNext]_alertVars => \A d \in Devices : Watches(d)'
<1> SUFFICES ASSUME AlertInv, [AlertNext]_alertVars, NEW d \in Devices,
                    req'[d] # Idle, "edit" \notin during'[d]
             PROVE  Watches(d)'
  BY DEF Watches
<1> DEFINE Watched == Watches(d)'
<1> USE DEF AlertInv
<1>0. AlertTypeOK' /\ Total \in Nat /\ Total' \in Nat
  <2>1. AlertTypeOK'
    BY AlertTypeStep
  <2>2. amount' \in [Expenses -> Nat]
    BY <2>1, ChargeType DEF AlertTypeOK
  <2>3. Total' \in Nat
    BY <2>2, SumCovers, FiniteAssumption DEF FiniteAssumption, Total
  <2>4. QED
    BY <2>1, <2>3, TotalType
<1>1. ASSUME UNCHANGED <<limit, amount>>, UNCHANGED <<req[d], during[d], wasOver[d]>> PROVE Watched
  BY <1>1 DEF Watches, AtLimitWithout, Total
<1>2. ASSUME NEW e \in unused, NEW a \in Amounts, amount' = [amount EXCEPT ![e] = a],
             limit' = limit, during' = Seen("growth"), req'[d] = req[d], wasOver'[d] = wasOver[d]
      PROVE  Watched
  <2>1. during'[d] = during[d] \cup {"growth"}
    BY <1>2 DEF Seen
  <2>2. req[d].amount \in Nat /\ a \in Nat
    BY <1>2, AlertRequest, ChargeType
  <2>3. Total' = Total + a
    <3>1. e \in Expenses /\ amount[e] = 0
      BY DEF UnusedIsNought, AlertTypeOK
    <3>2. Total' = Total + (a - amount[e])
      BY <1>2, <3>1, TotalChange
    <3>3. QED
      BY <1>0, <2>2, <3>1, <3>2
  <2>4. AtLimitWithout(d) => AtLimitWithout(d)'
    BY <1>0, <1>2, <2>2, <2>3, LimitType DEF AtLimitWithout
  <2>5. QED
    BY <1>2, <2>1, <2>4 DEF Watches
<1>3. ASSUME NEW c \in Devices, NEW e \in Expenses, NEW a \in Amounts, Create(c, e, a) PROVE Watched
  <2>1. CASE c # d
    BY <1>2, <1>3, <2>1 DEF Create, AlertTypeOK
  <2>2. CASE c = d
    <3>1. /\ req'[d] = [pc |-> "budget", amount |-> a] /\ wasOver'[d] = Reached
          /\ amount' = [amount EXCEPT ![e] = a] /\ limit' = limit /\ amount[e] = 0 /\ a \in Nat
      BY <1>3, <2>2, ChargeType DEF Create, AlertTypeOK, UnusedIsNought
    <3>2. Total' = Total + (a - 0)
      BY <3>1, TotalChange
    <3>3. Total' - a = Total
      BY <1>0, <3>1, <3>2
    <3>4. AtLimitWithout(d)' <=> Reached
      BY <3>1, <3>3 DEF AtLimitWithout, Reached
    <3>5. QED
      BY <3>1, <3>4 DEF Watches
  <2>3. QED
    BY <2>1, <2>2
<1>4. ASSUME NEW c \in Devices, ReadBudget(c) PROVE Watched
  <2>1. CASE c # d
    BY <1>1, <1>4, <2>1 DEF ReadBudget, Over, AlertTypeOK
  <2>2. CASE c = d /\ limit = NoBudget
    BY <1>4, <2>2 DEF ReadBudget, Over, AlertTypeOK
  <2>3. CASE c = d /\ limit # NoBudget
    <3>1. /\ req'[d] = [pc |-> "sum", amount |-> req[d].amount, limit |-> limit]
          /\ UNCHANGED <<wasOver, during, limit, amount>>
      BY <1>4, <2>3 DEF ReadBudget, AlertTypeOK
    <3>2. req[d] # Idle
      BY <1>4, <2>3, AlertRequest DEF ReadBudget
    <3>3. AtLimitWithout(d)' <=> AtLimitWithout(d)
      BY <3>1 DEF AtLimitWithout, Total
    <3>4. QED
      BY <3>1, <3>2, <3>3 DEF Watches
  <2>4. QED
    BY <2>1, <2>2, <2>3
<1>5. ASSUME NEW c \in Devices, SumAndEmit(c) \/ Fail(c) PROVE Watched
  <2>1. c # d
    BY <1>5 DEF SumAndEmit, Fail, Over, AlertTypeOK
  <2>2. QED
    BY <1>1, <1>5, <2>1 DEF SumAndEmit, Fail, Over, AlertTypeOK
<1>6. ASSUME during' = Seen("edit"), req' = req PROVE FALSE
  BY <1>6 DEF Seen
<1>7. ASSUME NEW e \in Expenses, NEW a \in Amounts, Post(e, a) PROVE Watched
  BY <1>2, <1>7 DEF Post
<1>8. ASSUME UNCHANGED alertVars PROVE Watched
  BY <1>1, <1>8 DEF alertVars
<1> HIDE DEF Watched
<1>9. Watched
  BY <1>3, <1>4, <1>5, <1>6, <1>7, <1>8 DEF AlertNext, Upsert, RemoveBudget, SetLimit, EditExpense
<1>10. QED
  BY <1>9 DEF Watched

LEMMA AlertAlways == AlertSpec => []AlertInv
<1>1. AlertInit => AlertInv
  <2> SUFFICES ASSUME AlertInit PROVE AlertInv
    OBVIOUS
  <2>1. AlertTypeOK
    BY DEF AlertInit, AlertTypeOK, Idle, Request
  <2>2. QED
    BY <2>1 DEF AlertInit, AlertInv, UnusedIsNought, Watches
<1>2. AlertInv /\ [AlertNext]_alertVars => AlertInv'
  BY AlertTypeStep, UnusedStep, WatchStep DEF AlertInv
<1>3. QED
  BY <1>1, <1>2, PTL DEF AlertSpec

\* In every reachable state of BudgetAlert every variable has its type.
THEOREM AlertTypeCorrect == AlertSpec => []AlertTypeOK
<1>1. AlertInv => AlertTypeOK
  BY DEF AlertInv
<1>2. QED
  BY <1>1, AlertAlways, PTL

\* What the last step of an alert decides.
LEMMA EmitDecides ==
  ASSUME AlertInv, NEW d \in Devices, SumAndEmit(d)
  PROVE  /\ alerts' > alerts <=> Crosses(Total, req[d].amount, req[d].limit)
         /\ req[d] # Idle /\ req[d].pc = "sum" /\ req[d].limit \in Limits
         /\ Total \in Nat /\ req[d].amount \in Nat /\ req[d].limit \in Nat
<1>1. req[d].pc = "sum" /\ req[d] # Idle /\ req[d].limit \in Limits /\ req[d].amount \in Amounts
  BY AlertRequest DEF AlertInv, SumAndEmit
<1>2. alerts \in Nat
  BY DEF AlertInv, AlertTypeOK
<1>3. QED
  BY <1>1, <1>2, TotalType, ChargeType, LimitType DEF SumAndEmit, AlertInv

\* For every set of expenses, limits and devices, a create that nobody disturbs
\* alerts exactly if its expense takes the month's total to the limit.
THEOREM AlertAlwaysIffCrossed == AlertSpec => AlertIffCrossed
<1>1. ASSUME AlertInv, NEW d \in Devices, SumAndEmit(d), during[d] = {}
      PROVE  alerts' > alerts <=> ~wasOver[d] /\ Reached
  <2>1. req[d].limit = limit /\ (wasOver[d] <=> AtLimitWithout(d))
    BY <1>1, EmitDecides DEF AlertInv, Watches
  <2>2. QED
    BY <1>1, <2>1, EmitDecides DEF AtLimitWithout, Reached, Crosses
<1>2. AlertInv /\ [AlertNext]_alertVars
      => [\A d \in Devices : SumAndEmit(d) /\ during[d] = {} => (alerts' > alerts <=> ~wasOver[d] /\ Reached)]_alertVars
  BY <1>1
<1>3. QED
  BY <1>2, AlertAlways, PTL DEF AlertSpec, AlertIffCrossed

\* However many expenses others add between a create's commit and its selects,
\* it raises no alert about a limit that was reached before it.
THEOREM NeverALateAlarm == AlertSpec => NoLateAlarm
<1>1. ASSUME AlertInv, NEW d \in Devices, SumAndEmit(d), "edit" \notin during[d], alerts' > alerts
      PROVE  ~wasOver[d]
  <2>1. req[d].limit = limit /\ (wasOver[d] => AtLimitWithout(d))
    BY <1>1, EmitDecides DEF AlertInv, Watches
  <2>2. QED
    BY <1>1, <2>1, EmitDecides DEF AtLimitWithout, Crosses
<1>2. AlertInv /\ [AlertNext]_alertVars
      => [\A d \in Devices : SumAndEmit(d) /\ "edit" \notin during[d] /\ alerts' > alerts => ~wasOver[d]]_alertVars
  BY <1>1
<1>3. QED
  BY <1>2, AlertAlways, PTL DEF AlertSpec, NoLateAlarm
=============================================================================
