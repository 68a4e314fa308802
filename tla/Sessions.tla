------------------------------ MODULE Sessions ------------------------------
(***************************************************************************)
(* Accounts, passwords and refresh tokens.  A request is a process; every  *)
(* statement of a handler that reads or writes the database is a step of   *)
(* its own, because none of them but deleteAccount's runs in a             *)
(* transaction.  A password is the number of times it was changed; a       *)
(* session descends from the password it was signed in with.  Access and   *)
(* reset tokens are stateless and cannot be revoked.                       *)
(***************************************************************************)
EXTENDS Integers

CONSTANTS
    Users, Tokens,
    Reqs,          \* request slots
    Ops,           \* the handlers offered in this instance
    MaxPasswords   \* bound: password changes of a user

AllOps == {"login", "refresh", "logout", "reset", "change", "delete"}

ASSUME OpsAssumption   == Ops \subseteq AllOps
ASSUME BoundAssumption == MaxPasswords \in Nat

VARIABLES
    account,    \* users row: "none", "active" or "gone"
    password,   \* users.passwordHash
    token,      \* refresh_tokens rows
    given,      \* refresh tokens some client holds
    resets,     \* users with a reset link that has not expired
    req,        \* what each request is doing
    redeemed,   \* history: how many sessions each token was exchanged for
    shared,     \* history: tokens two refreshes had read before either deleted
    revoked,    \* history: the newest password whose change revoked sessions
    late        \* history: sessions stored after the password they come from

vars == <<account, password, token, given, resets, req, redeemed, shared, revoked, late>>

Unissued == [state |-> "unissued"]
Row      == [state : {"blank", "valid", "expired", "gone"}, user : Users, password : Nat]
Idle     == [pc |-> "idle"]
Request  == [pc : {"idle"}]
            \cup [pc : {"register", "session", "setPassword", "revoke", "delete"},
                  user : Users, password : Nat]
            \cup [pc : {"rotate", "hash"}, token : Tokens]

TypeOK ==
    /\ account  \in [Users -> {"none", "active", "gone"}]
    /\ password \in [Users -> Nat]
    /\ token    \in [Tokens -> Row \cup {Unissued}]
    /\ given    \in SUBSET Tokens
    /\ resets   \in SUBSET Users
    /\ req      \in [Reqs -> Request]
    /\ redeemed \in [Tokens -> Nat]
    /\ shared   \in SUBSET Tokens
    /\ revoked  \in [Users -> Nat]
    /\ late     \in SUBSET Tokens

Init ==
    /\ account  = [u \in Users |-> "none"]
    /\ password = [u \in Users |-> 0]
    /\ token    = [t \in Tokens |-> Unissued]
    /\ given    = {}
    /\ resets   = {}
    /\ req      = [r \in Reqs |-> Idle]
    /\ redeemed = [t \in Tokens |-> 0]
    /\ shared   = {}
    /\ revoked  = [u \in Users |-> 0]
    /\ late     = {}

-----------------------------------------------------------------------------
InTable(t) == token[t].state \in {"blank", "valid", "expired"}

\* DELETE FROM refresh_tokens of the tokens in S.
Delete(S) == token' = [t \in Tokens |-> IF t \in S /\ InTable(t) THEN [token[t] EXCEPT !.state = "gone"]
                                                               ELSE token[t]]

TokensOf(u) == {t \in Tokens : InTable(t) /\ token[t].user = u}

Goto(r, pc, u, p) == req' = [req EXCEPT ![r] = [pc |-> pc, user |-> u, password |-> p]]
Done(r)           == req' = [req EXCEPT ![r] = Idle]

\* register: the e-mail is free; then the row, which the unique index guards.
RegisterCheck(r, u) ==
    /\ req[r] = Idle
    /\ account[u] = "none"
    /\ Goto(r, "register", u, 0)
    /\ UNCHANGED <<account, password, token, given, resets, redeemed, shared, revoked, late>>

RegisterInsert(r) ==
    /\ req[r].pc = "register"
    /\ account[req[r].user] = "none"
    /\ account' = [account EXCEPT ![req[r].user] = "active"]
    /\ Goto(r, "session", req[r].user, 0)
    /\ UNCHANGED <<password, token, given, resets, redeemed, shared, revoked, late>>

\* login: the password is compared with the hash that was read.
Login(r, u) ==
    /\ "login" \in Ops
    /\ req[r] = Idle
    /\ account[u] = "active"
    /\ Goto(r, "session", u, password[u])
    /\ UNCHANGED <<account, password, token, given, resets, redeemed, shared, revoked, late>>

\* Variants: no foreign key to users; the hash is upserted.
SessionInsertUnchecked(r, t) ==
    /\ req[r].pc = "session"
    /\ token[t] = Unissued
    /\ token' = [token EXCEPT ![t] = [state |-> "blank", user |-> req[r].user, password |-> req[r].password]]
    /\ req'   = [req EXCEPT ![r] = [pc |-> "hash", token |-> t]]
    /\ late'  = IF req[r].password < password[req[r].user] THEN late \cup {t} ELSE late
    /\ UNCHANGED <<account, password, given, resets, redeemed, shared, revoked>>

SessionHashUpsert(r) ==
    /\ req[r].pc = "hash"
    /\ token' = [token EXCEPT ![req[r].token].state = "valid"]
    /\ given' = given \cup {req[r].token}
    /\ Done(r)
    /\ UNCHANGED <<account, password, resets, redeemed, shared, revoked, late>>

\* buildSession: the row is stored with an empty hash, which no token matches,
\* and gets its hash when the token that names it is signed.
SessionInsert(r, t) ==
    /\ req[r].pc = "session"
    /\ account[req[r].user] = "active"
    /\ token[t] = Unissued
    /\ token' = [token EXCEPT ![t] = [state |-> "blank", user |-> req[r].user, password |-> req[r].password]]
    /\ req'   = [req EXCEPT ![r] = [pc |-> "hash", token |-> t]]
    /\ late'  = IF req[r].password < password[req[r].user] THEN late \cup {t} ELSE late
    /\ UNCHANGED <<account, password, given, resets, redeemed, shared, revoked>>

SessionHash(r) ==
    /\ req[r].pc = "hash"
    /\ token' = [token EXCEPT ![req[r].token].state = IF @ = "blank" THEN "valid" ELSE @]
    /\ given' = given \cup {req[r].token}
    /\ Done(r)
    /\ UNCHANGED <<account, password, resets, redeemed, shared, revoked, late>>

\* refresh: the row is read and its hash compared, then it is deleted, whether
\* or not it is still there, and a new session is built.
RefreshRead(r, t) ==
    /\ "refresh" \in Ops
    /\ req[r] = Idle
    /\ t \in given
    /\ token[t].state = "valid"
    /\ req' = [req EXCEPT ![r] = [pc |-> "rotate", token |-> t]]
    /\ shared' = IF \E q \in Reqs : req[q].pc = "rotate" /\ req[q].token = t THEN shared \cup {t} ELSE shared
    /\ UNCHANGED <<account, password, token, given, resets, redeemed, revoked, late>>

\* Variant: the presented token is not rotated.
RefreshKeep(r) ==
    /\ req[r].pc = "rotate"
    /\ LET t == req[r].token
       IN  /\ redeemed' = [redeemed EXCEPT ![t] = @ + 1]
           /\ Goto(r, "session", token[t].user, token[t].password)
    /\ UNCHANGED <<account, password, token, given, resets, shared, revoked, late>>

RefreshDelete(r) ==
    /\ req[r].pc = "rotate"
    /\ LET t == req[r].token
       IN  /\ Delete({t})
           /\ redeemed' = [redeemed EXCEPT ![t] = @ + 1]
           /\ Goto(r, "session", token[t].user, token[t].password)
    /\ UNCHANGED <<account, password, given, resets, shared, revoked, late>>

Logout(r, t) ==
    /\ "logout" \in Ops
    /\ req[r] = Idle
    /\ t \in given
    /\ Delete({t})
    /\ UNCHANGED <<account, password, given, resets, req, redeemed, shared, revoked, late>>

\* forgotPassword sends a link; resetPassword accepts it until it expires.
ForgotPassword(u) ==
    /\ "reset" \in Ops
    /\ account[u] = "active"
    /\ resets' = resets \cup {u}
    /\ UNCHANGED <<account, password, token, given, req, redeemed, shared, revoked, late>>

ResetVerify(r, u) ==
    /\ req[r] = Idle
    /\ u \in resets
    /\ Goto(r, "setPassword", u, 0)
    /\ UNCHANGED <<account, password, token, given, resets, redeemed, shared, revoked, late>>

\* changePassword: the current password is compared with the hash that was read.
ChangeVerify(r, u) ==
    /\ "change" \in Ops
    /\ req[r] = Idle
    /\ account[u] = "active"
    /\ Goto(r, "setPassword", u, 0)
    /\ UNCHANGED <<account, password, token, given, resets, redeemed, shared, revoked, late>>

\* What resetPassword and changePassword then do, in two statements.
SetPassword(r) ==
    /\ req[r].pc = "setPassword"
    /\ LET u == req[r].user
       IN  /\ password[u] < MaxPasswords
           /\ password' = [password EXCEPT ![u] = IF account[u] = "active" THEN @ + 1 ELSE @]
           /\ Goto(r, "revoke", u, password'[u])
    /\ UNCHANGED <<account, token, given, resets, redeemed, shared, revoked, late>>

\* Variant: the sessions are kept.
RevokeNothing(r) ==
    /\ req[r].pc = "revoke"
    /\ revoked' = [revoked EXCEPT ![req[r].user] = req[r].password]
    /\ Done(r)
    /\ UNCHANGED <<account, password, token, given, resets, redeemed, shared, late>>

Revoke(r) ==
    /\ req[r].pc = "revoke"
    /\ LET u == req[r].user
       IN  /\ Delete(TokensOf(u))
           /\ revoked' = [revoked EXCEPT ![u] = IF @ < req[r].password THEN req[r].password ELSE @]
    /\ Done(r)
    /\ UNCHANGED <<account, password, given, resets, redeemed, shared, late>>

\* deleteAccount: the password is compared, then one transaction deletes the
\* user with everything of the user's, refresh tokens by cascade.
DeleteVerify(r, u) ==
    /\ "delete" \in Ops
    /\ req[r] = Idle
    /\ account[u] = "active"
    /\ Goto(r, "delete", u, 0)
    /\ UNCHANGED <<account, password, token, given, resets, redeemed, shared, revoked, late>>

DeleteCommit(r) ==
    /\ req[r].pc = "delete"
    /\ account' = [account EXCEPT ![req[r].user] = "gone"]
    /\ Delete(TokensOf(req[r].user))
    /\ Done(r)
    /\ UNCHANGED <<password, given, resets, redeemed, shared, revoked, late>>

\* A request dies between two statements: what it stored stays stored.
Abort(r) ==
    /\ req[r] # Idle
    /\ Done(r)
    /\ UNCHANGED <<account, password, token, given, resets, redeemed, shared, revoked, late>>

\* Time passes: a refresh token or a reset link expires.
ExpireToken(t) ==
    /\ token[t].state = "valid"
    /\ token' = [token EXCEPT ![t].state = "expired"]
    /\ UNCHANGED <<account, password, given, resets, req, redeemed, shared, revoked, late>>

ExpireReset(u) ==
    /\ u \in resets
    /\ resets' = resets \ {u}
    /\ UNCHANGED <<account, password, token, given, req, redeemed, shared, revoked, late>>

Handler(r) ==
    \/ \E u \in Users : RegisterCheck(r, u) \/ Login(r, u) \/ ResetVerify(r, u)
                        \/ ChangeVerify(r, u) \/ DeleteVerify(r, u)
    \/ \E t \in Tokens : SessionInsert(r, t) \/ RefreshRead(r, t) \/ Logout(r, t)
    \/ RegisterInsert(r)
    \/ SessionHash(r)
    \/ RefreshDelete(r)
    \/ SetPassword(r)
    \/ Revoke(r)
    \/ DeleteCommit(r)
    \/ Abort(r)

Next ==
    \/ \E r \in Reqs : Handler(r)
    \/ \E u \in Users : ForgotPassword(u) \/ ExpireReset(u)
    \/ \E t \in Tokens : ExpireToken(t)

Spec == Init /\ [][Next]_vars

-----------------------------------------------------------------------------
\* "Rotate: the presented token can never be reused" holds of refreshes that do
\* not overlap: a token is exchanged for a second session only by a refresh that
\* read it before another one had deleted it.
RotatedOnce == \A t \in Tokens : redeemed[t] > 1 => t \in shared

\* However refreshes race, a token that was exchanged, logged out or revoked is
\* dead for good: none comes back to the table, so no later refresh accepts it.
DeadStaysDead ==
    [][\A t \in Tokens : redeemed[t] > 0 \/ token[t].state = "gone" =>
          ~InTable(t)' /\ \A r \in Reqs : ~RefreshRead(r, t)]_vars

\* "Revoke every existing session for safety": once a password change is through,
\* a session that can be refreshed descends from that password or a newer one,
\* or else was being built, by a sign-in or refresh, while the password changed.
SurvivorsAreNew ==
    \A t \in Tokens \ late : token[t].state = "valid" => token[t].password >= revoked[token[t].user]

\* A deleted account has no session, and a sign-in, registration or refresh in
\* flight while it is deleted never gives it one.
NoOrphanSessions == \A t \in Tokens : InTable(t) => account[token[t].user] = "active"
=============================================================================
