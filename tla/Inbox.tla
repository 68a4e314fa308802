------------------------------- MODULE Inbox -------------------------------
(***************************************************************************)
(* The notifications inbox and the push that follows a new notification:   *)
(* the row is inserted and the handler answers, while sendToUser reads the *)
(* user's device tokens, calls Firebase and prunes the tokens Firebase no  *)
(* longer knows, one await after the other and unobserved by anyone.       *)
(* Meanwhile devices register, change hands, log out and die, and accounts *)
(* are deleted.  Each statement is a step.                                 *)
(***************************************************************************)
EXTENDS FiniteSets

CONSTANTS
    Users,
    Notes,       \* identifiers of notifications, never reused
    Periods,     \* periodKey of the monthly insights
    Tokens,      \* FCM registration tokens, one per installation of the app
    NoPeriod,    \* periodKey of all other notifications
    Nobody       \* the token is not registered

ASSUME NamesAssumption == NoPeriod \notin Periods /\ Nobody \notin Users

VARIABLES
    enabled,     \* PushService.enabled, set once at start
    account,     \* users rows
    note,        \* notifications rows; "none" before the insert and after the cascade
    issued,      \* identifiers drawn
    owner,       \* device_tokens: the user of each registered token
    dead,        \* Firebase: tokens whose installation is gone, for good
    send         \* what the sendToUser of each notification has read

inboxVars == <<enabled, account, note, issued, owner, dead, send>>

Row    == [user : Users, period : Periods \cup {NoPeriod}, read : BOOLEAN]
NoRow  == [user |-> Nobody, period |-> NoPeriod, read |-> FALSE]
NoSend == [pc |-> "done", user |-> Nobody, tokens |-> {}]

\* device_tokens: a token is in the table once, for one user.
DeviceTokens == [Tokens -> Users \cup {Nobody}]

InboxTypeOK ==
    /\ enabled \in BOOLEAN
    /\ account \in [Users -> {"active", "gone"}]
    /\ note    \in [Notes -> Row \cup {NoRow}]
    /\ issued  \subseteq Notes
    /\ owner   \in DeviceTokens
    /\ dead    \subseteq Tokens
    /\ send    \in [Notes -> [pc : {"select", "call", "prune", "done"},
                              user : Users \cup {Nobody}, tokens : SUBSET Tokens]]

\* onModuleInit: whether FIREBASE_SERVICE_ACCOUNT is set and can be parsed.
InboxInit ==
    /\ enabled \in BOOLEAN
    /\ account = [u \in Users |-> "active"]
    /\ note    = [n \in Notes |-> NoRow]
    /\ issued  = {}
    /\ owner   = [t \in Tokens |-> Nobody]
    /\ dead    = {}
    /\ send    = [n \in Notes |-> NoSend]

-----------------------------------------------------------------------------
\* The partial unique index on (userId, periodKey) of insights.
Conflict(u, p) == \E n \in Notes : note[n].user = u /\ note[n].period = p

\* The insert, refused by the foreign key if the account is gone and left out on
\* a conflict, and the sendToUser that is started but not awaited.
Store(n, u, p) ==
    /\ n \notin issued
    /\ account[u] = "active"
    /\ p # NoPeriod => ~Conflict(u, p)
    /\ issued' = issued \cup {n}
    /\ note' = [note EXCEPT ![n] = [user |-> u, period |-> p, read |-> FALSE]]
    /\ send' = IF enabled THEN [send EXCEPT ![n] = [pc |-> "select", user |-> u, tokens |-> {}]]
                          ELSE send
    /\ UNCHANGED <<enabled, account, owner, dead>>

\* emit, called by the services after an event of the user's; and emitInsight,
\* which the client repeats after every ledger change and lost answer.
Emit(n, u)           == Store(n, u, NoPeriod)
EmitInsight(n, u, p) == p # NoPeriod /\ Store(n, u, p)

\* Variant: the user is left out of the WHERE clause.
Mark(u, S) ==
    /\ note' = [n \in Notes |-> IF n \in S /\ note[n].user # Nobody THEN [note[n] EXCEPT !.read = TRUE]
                                                           ELSE note[n]]
    /\ UNCHANGED <<enabled, account, issued, owner, dead, send>>

\* UPDATE .. SET read WHERE id IN S AND userId = u.
MarkOwn(u, S) ==
    /\ note' = [n \in Notes |-> IF n \in S /\ note[n].user = u THEN [note[n] EXCEPT !.read = TRUE]
                                                              ELSE note[n]]
    /\ UNCHANGED <<enabled, account, issued, owner, dead, send>>

MarkRead(u, n) == note[n].user = u /\ MarkOwn(u, {n})
MarkAllRead(u) == MarkOwn(u, Notes)

-----------------------------------------------------------------------------
\* registerToken: an upsert by token, which repoints a shared device.
RegisterToken(u, t) ==
    /\ account[u] = "active"
    /\ owner'   = [owner EXCEPT ![t] = u]
    /\ UNCHANGED <<enabled, account, note, issued, dead, send>>

\* removeToken, on logout: only the user's own.
RemoveToken(u, t) ==
    /\ owner[t] = u
    /\ owner'   = [owner EXCEPT ![t] = Nobody]
    /\ UNCHANGED <<enabled, account, note, issued, dead, send>>

\* AuthService.deleteAccount: notifications and tokens go with the user.
DeleteAccount(u) ==
    /\ account[u] = "active"
    /\ account' = [account EXCEPT ![u] = "gone"]
    /\ note'    = [n \in Notes |-> IF note[n].user = u THEN NoRow ELSE note[n]]
    /\ owner'   = [t \in Tokens |-> IF owner[t] = u THEN Nobody ELSE owner[t]]
    /\ UNCHANGED <<enabled, issued, dead, send>>

\* The app is removed from a device, or its token expires.
TokenDies(t) ==
    /\ t \notin dead
    /\ dead' = dead \cup {t}
    /\ UNCHANGED <<enabled, account, note, issued, owner, send>>

-----------------------------------------------------------------------------
\* sendToUser, from the tokens as they were read: a device that is registered
\* anew or logged out by the time of the call is still pushed to.
Select(n) ==
    /\ send[n].pc = "select"
    /\ send' = [send EXCEPT ![n].tokens = {t \in Tokens : owner[t] = send[n].user}, ![n].pc = "call"]
    /\ UNCHANGED <<enabled, account, note, issued, owner, dead>>

\* Variant: every token without success is stale.
Undelivered(tokens, delivered) == tokens \ delivered

\* not-registered and invalid are final, every other error is not.
Stale(tokens, delivered) == tokens \cap dead

\* sendEachForMulticast: of the living devices some are reached, and the answer
\* says which tokens to prune.
Call(n) ==
    /\ send[n].pc = "call"
    /\ send[n].tokens # {}
    /\ \E delivered \in SUBSET (send[n].tokens \ dead) :
          send' = [send EXCEPT ![n].tokens = Stale(send[n].tokens, delivered), ![n].pc = "prune"]
    /\ UNCHANGED <<enabled, account, note, issued, owner, dead>>

\* Delete by token value, whoever it is registered to by now.
Prune(n) ==
    /\ send[n].pc = "prune"
    /\ owner'   = [t \in Tokens |-> IF t \in send[n].tokens THEN Nobody ELSE owner[t]]
    /\ send'    = [send EXCEPT ![n] = NoSend]
    /\ UNCHANGED <<enabled, account, note, issued, dead>>

\* There is no device, a query or the call fails, or the process dies: the push
\* is not repeated.
Lose(n) ==
    /\ send[n].pc # "done"
    /\ send'    = [send EXCEPT ![n] = NoSend]
    /\ UNCHANGED <<enabled, account, note, issued, owner, dead>>

User(u) ==
    \/ \E n \in Notes : Emit(n, u) \/ MarkRead(u, n)
    \/ \E n \in Notes, p \in Periods : EmitInsight(n, u, p)
    \/ MarkAllRead(u)
    \/ \E t \in Tokens : RegisterToken(u, t) \/ RemoveToken(u, t)
    \/ DeleteAccount(u)

InboxNext ==
    \/ \E u \in Users : User(u)
    \/ \E t \in Tokens : TokenDies(t)
    \/ \E n \in Notes : Select(n) \/ Call(n) \/ Prune(n) \/ Lose(n)

InboxSpec == InboxInit /\ [][InboxNext]_inboxVars

-----------------------------------------------------------------------------
\* A deleted account has no notification and no device, though its events and
\* its devices' calls may come after the deletion.
NothingForTheGone ==
    \A u \in Users : account[u] = "gone" =>
        /\ \A n \in Notes : note[n].user # u
        /\ \A t \in Tokens : owner[t] # u

\* A device stops being registered only by its own user's logout or deletion,
\* or because its token is dead: a prune that comes late never costs a living
\* device its pushes, although it deletes by value.
PruneOnlyDead ==
    [][\A t \in Tokens : owner[t] # Nobody /\ owner'[t] = Nobody =>
          \/ t \in dead
          \/ RemoveToken(owner[t], t)
          \/ DeleteAccount(owner[t])]_inboxVars

Disturbed(n) == note[n] # NoRow /\ note'[n] # note[n]

\* Whoever opens a push finds the notification as long as the account exists,
\* and no step marks or removes notifications of two users.
PushedIsKept ==
    [][\A n \in Notes :
          /\ Call(n) => note[n].user = send[n].user \/ account[send[n].user] = "gone"
          /\ note[n] # NoRow /\ note'[n] = NoRow => account'[note[n].user] = "gone"
          /\ \A m \in Notes : Disturbed(m) /\ Disturbed(n) => note[m].user = note[n].user]_inboxVars
=============================================================================
