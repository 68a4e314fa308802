# Verification of the Apsara Wallet API

TLA+ models of the NestJS service under `src/` (paths in this file are relative to it), TLC
instances that check them, and TLAPS proofs about them. The service keeps riel balances,
transactions, transfers, recurring rules, budgets, savings goals and refresh tokens in
Postgres; every request is an `async` handler that mixes plain statements with
`db.transaction(..)` blocks at READ COMMITTED. Nearly everything hard about it is in the
gaps between a statement that *checks* and the later statement that *acts*.

## 1. Inventory

| Component | State | Operations | Talks to | What makes it correct |
|---|---|---|---|---|
| transactions | `transactions` rows; moves `wallets.balance_khr` | create, update, remove, list, findOne | wallets, categories, budgets, notifications | the balance always equals what the rows explain; rows sit on their user's wallets |
| transfers | `transfers` rows | create | wallets | money is neither made nor lost, the source never goes below zero |
| wallets | `wallets` rows: balance, primary flag, position | create, update, remove, reorder, list | transactions and rules restrict removal, transfers cascade | removal is refused politely; one primary wallet |
| recurring rules | `recurring_rules` rows with `next_due` | create, update, remove, runDue, runDueAll, runDueAllIfLeader | transactions, wallets, notifications | each occurrence becomes one ledger row, and eventually does |
| recurring scheduler | a `running` flag per process; a Postgres advisory lock | hourly cron | recurring rules | only one instance runs at a time |
| auth | `users`, `refresh_tokens` | register, login, refresh, logout, forgot, reset and change of password, profile, deleteAccount | e-mail, notifications | a refresh token works once; a password change ends older sessions; a deleted account has none |
| budgets | `budgets` rows | upsert, remove, list | categories, transactions | one alert per crossing |
| savings goals | `savings_goals` rows | create, update, addFunds, remove | notifications | additions are not lost; each milestone is announced when it is crossed, once |
| categories | `categories` rows, shared and per user | create, update, remove, list | restrict transactions and rules | as wallet removal |
| notifications | `notifications` rows | emit, emitInsight, markRead, markAllRead | push | one insight per period |
| push | `device_tokens` rows, FCM | register, remove, sendToUser | Firebase | only stale tokens are pruned |
| fx | an in-memory rate with a six-hour life | getRates | an HTTP provider | never fails, never serves nonsense |
| migrator | an advisory lock, the migrations table | one run per boot | Postgres | migrations are applied once |
| feedback, e-mail, health, configuration, seeding | none of interest | | | |

Components interact through the database only, apart from direct service calls
(transactions, goals, recurring and auth call `NotificationsService.emit`) and the
cron. What is hard: handlers of two devices of one user interleaved at statement boundaries;
the scheduler interleaved with everything; several API instances; crashes between
statements; announcements computed from reads that are already old.

`PROJECT.json` lists each hazard at its line, with the properties that would notice it.

## 2. Modules

| Module | Models | State | Actions |
|---|---|---|---|
| `Ledger` | transactions, transfers, wallet balances, and the scheduler's postings to them | `wallet`, `balance`, `rows`, `moved`, `ruled`, `due` are tables or reads of them; `req` is what each request has read; `base` is history | one per read phase and one per commit: `CreateCheck`/`CreateCommit`, `UpdateRead`/`UpdateCommit`, `RemoveRead`/`RemoveCommit`, `TransferCheck`/`TransferCommit`, `RemoveWalletCheck`/`RemoveWalletCommit`, `EditBalance`, `CreateWallet`, `Post`, `Abort` |
| `Recurring` | rules, dates, runs, the advisory lock and the `running` flags | `status`, `nextDue`, `lock`, `running`, `run`, `late` (postings of dead runs whose COMMIT is on its way); `posted`, `meanwhile`, `told`, `total` are history | `Fire`, `TryLock`, `Skip` of a cron, `Call`, `Select`, `PostRule`, `FailRule`, `Tell`, `Finish`, `Stop`, what becomes of a late COMMIT (`Land`, `Drop`), and the users' `CreateRule`, `EditRule`, `RemoveRule` |
| `LedgerDrift` | `Ledger` with one history variable for the commits over a row that was changed or removed since it was read | `drifted`: the wallets such a commit named | those of `Ledger` |
| `LedgerRaces` | `Ledger` with one history variable for what the scheduler does between a request's read and its commit | `posts`: the rows posted to the wallet a request has looked at, since | those of `Ledger`, each conjoined with what it does to `posts` |
| `RecurrenceCalendar` | `nextOccurrence` over the proleptic calendar | a rule's `frequency`, `start`, `dueDate` | `Advance` |
| `Sessions` | accounts, passwords, refresh tokens | `account`, `password`, `token`, `given`, `resets`, `req`; `redeemed`, `shared`, `revoked`, `late` are history | one per statement of each handler of `auth.service.ts` that changes or reads what matters |
| `BudgetAlert` | a budget and the alert after a create | `limit`, `amount`, `unused`, `req`, `alerts`; `wasOver`, `during` are history | `Create`, `ReadBudget`, `SumAndEmit`, `Fail`, `Upsert`, `RemoveBudget`, `EditExpense`, `Post` |
| `SavingsGoals` | a goal and its milestones | `goal`, `topUp`, `told`; `meanwhile`, `mixed` are history | `CreateGoal`, `Edit`, `Remove`, `AddRead`, `AddCommit`, `Tell`, `FailTopUp` |
| `WalletTx` | wallets and transfers again, each `db.transaction` block statement by statement: row locks, snapshots, deadlocks; the primary flag and the manual order | `table` (committed rows), `draft` (newest versions), `lock`, `req` with the row updates still to do, `moved`; `missed` is history | `CheckTransfer`, `InsertTransfer`, `BeginCreate`, `BeginUpdate`, `BeginReorder`, `CheckRemove` up to the block; `Step`, `OutOfRange`, `ReadMax`, `Commit`, `CommitCreate`, `DeleteWallet` in it; `Fail`, `Victim` |
| `Account` | categories, what is filed under them (transactions, rules, budgets), `deleteAccount` with its three statements, and the restricts and cascades between them | `account`, `category`, `item`, `budget`, `req`; `raced` is history | `AddCheck`/`AddInsert`, `MoveCheck`/`MoveUpdate`, `BudgetCheck`/`BudgetUpsert`, `FindOwned`/`Count`/`DeleteCategory`, `DeleteBegin`/`DeleteTransactions`/`DeleteRules`/`DeleteUser`, `SelectRule` of the recurring run, `RemoveItem`, `RemoveBudget`, `CreateCategory`, `Fail` |
| `Inbox` | notifications, device tokens and the push that nobody awaits | `note`, `owner`, `account`, `send` (what each `sendToUser` has read), `dead` (Firebase), `enabled`, `issued` | `Emit`, `EmitInsight`, `MarkRead`, `MarkAllRead`, `RegisterToken`, `RemoveToken`, `DeleteAccount`, `TokenDies`; `Select`, `Call`, `Prune`, `Lose` for each await of `sendToUser` |
| `Migrator` | the boot of a container: `migrate.js && main` under an advisory lock | `boot`, `image`, `lock`, `start`, `applied`, `orphan` (a COMMIT that outlives its process); `misled` is history | `Boot`, `Lock`, `Read`, `Replay`, `ReplayFails`, `Leave`, `Kill`, `OrphanEnds` |
| `RateCache` | `FxService` of one process | `cache`, `ask`, the provider's `rate`, `now`; `overtaken` is history | `Fetch`, `Headers`, `Abort`, `BadBody`, `Store`, `Tick`, `Forget` |
| `Deployment` | composes `Migrator` and `RateCache`: the cache lives as long as its process serves | | `BootOrKill`, `GetRates` |
| `SessionsProofs`, `AccountProofs`, `WalletTxProofs`, `DeploymentProofs` | theorems about the modules they extend | | |
| `LedgerProofs`, `RecurringProofs` | theorems about `Ledger`, `LedgerDrift` and `LedgerRaces`; about `Recurring` and `RecurrenceCalendar` | | |
| `NotificationProofs` | theorems about `Inbox`, `SavingsGoals` and `BudgetAlert`, which share no state | | |
| `SumProofs` | what `SumFunction` of the community modules does on finite sets | | |
| `MC*` | model values, constants and symmetry of the instances | | |

How code becomes actions:

* **A `db.transaction` block is one step** in `Ledger`, `Recurring`, `Sessions` and
  `SavingsGoals`. Its statements are relative updates (`balance = balance + d`) under row
  locks, nothing of it is visible before its commit, and it stores nothing if it fails; a
  transaction killed by Postgres is the `Abort` of `Ledger`. For wallets and transfers this is
  checked, not assumed: `WalletTx` takes the blocks apart and `AsLedger` says that it
  implements `Ledger` (below). `Account` takes `deleteAccount` apart, as each of its statements
  has a snapshot of its own.
* **A read outside the block is a step of its own**, and what it returned is kept in
  `req` (a run's `queue`, a push's `send`, a boot's `start`) until it is used, however old
  it has become. In `Sessions`, which uses no transactions but one, every statement is a step.
* **Foreign keys** are guards of the commit that would violate them: a restrict, or a
  missing parent. Cascades are part of the deleting step. The bigint range is `Fits`: a block
  that leaves it fails (`OutOfRange` in `WalletTx`).
* **A request may die** between any two of its steps (`Abort`, `Stop`, `Fail`, `Lose`), a
  process anywhere (`Kill`). What a killed process had sent to Postgres may still be carried
  out: a container's replay (`orphan` in `Migrator`), and the block of a recurring run, which
  runs on another connection than the one that holds the advisory lock, so that the lock is
  free and the next leader may have selected before the COMMIT takes effect (`late` in
  `Recurring`). Until then its rows are locked, and whoever wants them waits (`InDoubt`). A run
  does not outlive the session that holds its lock: nothing handles the error of a pg client
  that is checked out, so its loss ends the process.
* **History variables** record what happened (what a wallet held without its ledger, which
  occurrences were posted, how often a token was redeemed); no guard and no table depends on one.
* **Variants.** Beside some operators stands a variant of it with a plausible slip - a
  dropped guard, a swapped order. No specification uses a variant; `PROJECT.json` pairs
  each checked property with one that the property rejects.

Data is reduced to what properties tell apart: titles, notes, icons, dates of
transactions, templates and e-mail addresses are gone; amounts are a few small numbers; a
password is the number of times it was changed; dates of rules are numbers in `Recurring` and
days in `RecurrenceCalendar`; a migration is its number and an exchange rate the order in which
it was published. `balance_usd` is written by wallet edits only and nothing moves it.

### Locks, snapshots and the refinement

In `WalletTx` a row has a committed version (`table`) and a newest one (`draft`). An UPDATE is
planned row by row from the snapshot of its statement, in the order the scan meets the rows
(`Sweep` leaves that order open); each row waits for its lock and then changes the newest
version, as READ COMMITTED does, and a row that is gone by then is skipped. `Commit` publishes
the rows a block has locked, `Rollback` restores them. `WaitsFor` is the wait-for graph, and
`Victim` rolls back a member of a cycle. The foreign keys of `transfers` hold both wallets
against a delete until the block ends (`Shares`).

`L == INSTANCE Ledger WITH ...` maps it back: a wallet's state and balance are those of the
committed row, a request is a pending transfer or removal from its check to its end, the `base`
of a wallet is its balance less what it received. There are no ledger rows in `WalletTx`, so
`TxIds` is empty. Statements inside a block map to stuttering and the commit to
`TransferCommit`, `EditBalance`, `CreateWallet` or `RemoveWalletCommit`; a killed block maps to
`Abort`. `AsLedger == L!Spec` is checked as a property of `WalletTx` and proved for any number of
wallets and requests (section 5): whatever the locks and deadlocks do, balances and transfers are
those of `Ledger`, where no block has an inside.

## 3. Runs

Bounds are constants and named in the modules. Every run ends with no error.

| Run | Question | Instance |
|---|---|---|
| `LedgerDrift` | when two devices of a user update, remove and move the same row, transfer and remove wallets across each other, which balances can leave the ledger? can one user's request touch another's rows or money? | 2 devices of one user and one of another, 2 wallets and 1, 1 row, amount 1, balances within -1..1 so that the range is hit, every handler but the wallet edit, which sets a new opening and is in `LedgerRaces`: rows are removed twice, updated after their removal, moved to wallets that go |
| `LedgerRaces` | do balances follow the ledger exactly when a user's requests come one by one and the scheduler posts in between? when it posts between the check and the debit of a transfer, or between the counts and the delete of a removal, by how much is a wallet overdrawn, and over what is a removal refused? | 1 device, 2 wallets, 2 rows, amounts 1 and 2, balances within -2..2, a transfer of 1 each way, every handler and the rules; rows are moved, flipped and repriced, alone and together; both races happen in it (a source goes below zero, and a removal meets rows it has counted none of) |
| `WalletTx` | do blocks that meet implement `Ledger`'s single steps? does a block that makes a wallet primary leave it the only one? does the manual order stay an order? is every request answered? | 2 devices, 2 wallets, a transfer in either direction: opposite locks, creates that overlap a reorder, a removal or each other, deadlocks, a failure anywhere; wallets are created empty and edited to 1, balances within -1..1, so that a credit can overflow |
| `RecurringRaces` | what keeps an occurrence from being posted twice, and a date from being taken back, when two crons, a manual caller, a user's edit and a late COMMIT meet? are announcements truthful? | one rule, dates 0..2, cap 2, a run cut short at any step, an edit; every order of selects, postings, edits and the COMMIT |
| `RecurringCatchUp` | is every due rule eventually caught up with, though runs are cut short, skipped, or end at a rule that is gone? whom does a rule that can never be posted keep waiting? | fair crons of two instances, 3 rules with periods 1 and 2, of which one fails, a run cut short, cap 1 so that one run is not enough |
| `RecurrenceCalendar` | is a monthly rule due once each month, within its anchor? | all dates of 2023, weekly and monthly, to 2025: all month lengths, a year's end, a leap day |
| `SessionsRaces` | with two requests interleaved statement by statement, either dying anywhere: single redemption unless two refreshes overlap, revocation of all that was not just being built, no orphan sessions, dead tokens stay dead | 1 user, 2 tokens, 2 changes of password, so that a reset link is used a second time |
| `BudgetAlert` | does an undisturbed create alert exactly if it crosses? what do creates in between spoil? | 2 devices and the recurring run, 3 expenses of 1 or 2, limits 2 and 3, so that they are hit exactly and jumped over |
| `SavingsGoals` | the same of milestones; once each without overlap and edits | 2 devices, targets 2 to 4, top-ups 1 and 2: both marks crossed at once, exactly, and apart; 2 edits |
| `Account` | however old the checks are, is everything stored filed under a live account and a category its user may see? when does the database refuse a removal that was prepared? does a failed removal take anything? | 2 users, a category of one and a shared one, 3 rows, 2 requests: an insert, a move, a posting or another removal between any two statements of a removal |
| `Inbox` | can a late prune cost a living device its pushes? is what was pushed there to be read? | 2 users, 2 notifications, 3 tokens that change hands, die, are registered again; both answers of Firebase for every living device; with and without Firebase |
| `Deployment` | are migrations applied once and in order by containers that boot at once, with new and old images and a kill? does the rate cache of the serving process only move on? | 2 containers, images with 1 or 2 migrations, one kill, 2 requests, 3 moments with a life of 1 |

The conditions in the properties are the honest boundary of what the code promises: a
history variable records that two requests overlapped (`shared`, `late`, `during`, `mixed`,
`meanwhile`, `missed`, `raced`, `drifted`, `misled`, `overtaken`, `posts`) and the property says
what holds without, or in spite of, that overlap. Section 4 says what happens inside it.

Why small instances are enough: a race needs two requests of one user and the row or wallet
between them, a tenant leak two users, a duplicate posting two runs of one rule and an order
of postings two rules, a duplicate alert two creates; amounts need one that fits twice and one
that does not; a session race needs the token and its replacement, and a second change of password to
meet what survived the first; a deadlock two
rows and two blocks; a removal and what overtakes it two requests; a late prune a token, its
old and its new user. Two wallets do not show a position that is used again after the *middle*
one of three is removed, nor a reorder of three that leaves a gap under a create: the proof of
`PositionsStayDistinct` found that one (section 5), and covers any number of them. Where a
module has `Ops`, the handlers on offer, its runs offer them all.

Deadlock checking is off where the system may rest: identifiers and bounds run out and all
requests are answered. `Recurring` and `BudgetAlert` never rest and are checked for deadlock.

### Fairness

* `RecurringCatchUp`: the cron of each instance fires every hour for ever
  (`@Cron(EVERY_HOUR)`; a tick that finds the flag set does nothing, the flag is cleared in
  `finally`) and is told whether it has the lock; a run that has started makes progress, as its
  queries are answered or fail; and Postgres makes up its mind about a COMMIT (`LateEnds`).
* `WalletTx`: a block's next statement is executed if it can be again and again (strong
  fairness: Postgres queues those who wait for a row in order), and a deadlock is detected
  (weak fairness: `deadlock_timeout`). Then `EveryRequestEnds`.
* `Deployment`: the advisory lock is granted in the order it was asked for (strong) and
  processes go on (weak). Then `BootEnds`. Nothing makes an answer of the provider arrive or end.

Nothing is assumed of users, manual calls, restarts, devices or crashes.

## 4. Where code and text disagree

No run asserts these; they are why properties have conditions and instances have assumptions.
Dropping the condition, or filling the constant, shows each.

1. *Balances drift.* Two updates or removals of one transaction both reverse the effect they
   read. The rows and the balance are written atomically, the read is not part of it; a
   `SELECT .. FOR UPDATE` inside the block would repair it. `ExactUnlessStale` says where it
   can happen: in a wallet of the row as it was read, as it is, or as the dto wants it.
   (`LedgerRaces` with `Reqs = {d1, d2}`, both of `u1`: `LedgerExact` fails.)
2. *Transfers overdraw*: the check is not repeated at the debit. With two devices another
   request debits in between. With one the scheduler does, and `OverdraftIsPosted` says that the
   source goes below zero by no more than it posted there.
3. *Running both paths is not safe* (`recurring-scheduler.service.ts:9`): `POST /recurring/run`
   takes no lock, so its postings and a cron's are made twice, or those of two calls. *Nor does
   the lock see to it alone that only one leader posts*: the COMMIT of a run that was cut short
   may follow the next leader's select. (`PostedOnce` without `meanwhile` and `stale` fails.)
4. *A refresh token can be used twice*, by refreshes that overlap (`RotatedOnce` without
   `shared`).
5. *Wallet removal shows the raw error*: a row added between the counts and the delete
   (by a second device, or by the scheduler: with one device `RefusalIsPosted` says that only
   rows it posted since can be in the way). The same of categories and accounts (`raced` in
   `Account`): the delete is refused by the foreign key, nothing is lost, the answer is a 500.
6. *A run overwrites an edited date* with the one after its snapshot's; so does a second run
   (`EachPostingAdvances` without `meanwhile`).
7. *One failing rule starves the later ones*, for good: the loop of `materialize` has no catch,
   though its comment says that a rule's failure cannot corrupt the rest
   (`recurring.service.ts:231`). Rules due before it are posted, those due later or on the same
   date may never be (`Starved` in `CatchUp`). A removed rule fails a run once and is gone from
   the next.
8. *Monthly rules drift to the 28th*: the day comes from the last occurrence, not from the
   rule (`recurring.service.spec.ts:64` says "instead of drifting"). 31 January is followed
   by 28 February and 28 March. `NeverPastAnchorDay` bounds the drift.
9. *A session outlives the revocation* if it was being built meanwhile (`late`), or if the
   request dies between the new hash and the revocation, which nothing takes up again.
10. *Budget alerts are missed or doubled, milestones doubled*, by requests that overlap
    (`during`, `meanwhile`, `mixed`).
11. *Two primary wallets*: a wallet created after the sweep of another block is not swept.
    *Two wallets at one position*: two creates read the same highest position; the client
    reorders with a list that has not all wallets; or it reorders with one that still names a
    deleted wallet, which leaves a gap and may raise the highest position that a create has read
    (`missed`, `ids # Live`).
12. *A push reaches the next user of a shared phone* if the phone changes hands between the
    read of the tokens and Firebase's delivery: `Select` and `Call` are apart, and `Call` uses
    what was read. Nothing promises otherwise, and no property is stated.
13. *The rate goes back* for a while when the body of an older answer comes in last
    (`overtaken`); the timer is cleared with the headers, so a body that never ends keeps its
    request.
14. *A boot can fail* on "already exists" if the COMMIT of a killed container arrives while it
    replays (`misled`); the next boot succeeds.

Also, `recurring-scheduler.service.ts:12` says cross-instance locking is out of scope, while
`handleCron` takes the advisory lock, as `DEPLOYMENT.md:108` says.

## 5. Proofs

TLAPS proves the following for every value of the constants under the modules' assumptions.
These say what the code or the schema says (amounts are positive, as `@Min(1)` requires;
opening balances are natural and fit their column; a row has one owner), that what stands for
"nothing" is none of the somethings, that bounds are numbers, and that wallets, rows, expenses,
runners and requests are finitely many. TLC evaluates each of them in a run.

Every safety property that a run checks is proved; only liveness is left to TLC.

**`SumProofs`.** Balances, totals and counts are `SumFunction`s, folds over a finite set.
`SumChange` says what one changed value does to a sum, `SumCovers` that a sum of naturals covers
each term, `SumOfNoughts` that zeroes add up to zero. They are proved by induction over the set
without the library's induction rule: a claim that fails for a subset fails for a least one
(`WFMin` on strict inclusion).

**`LedgerProofs`**

* `TypeCorrect`.
* `RowsStayInOwnWallet`. `RowsInOwnWallet` is not inductive: a request that passed its
  ownership check commits later. `OwnInv` adds `PendingOwn`: the row of a pending create
  or update belongs to the wallet's owner (ownership never changes; being live may, and
  the foreign key decides that at the commit).
* `MoneyFollowsRowsAlways`: each commit moves exactly the money its row explains unless it
  is stale. It follows action by action from `OwnInv`, as only an owned wallet is moved.
* `BalancesExactUnlessStale`, about `LedgerDrift`, for any number of devices: `ExactInv` for the
  wallets outside `drifted`. A step that is not stale changes a balance and one term of its sum
  by the same amount (`ExactAtStep`); a stale one writes to no wallet, and moves no row into or
  out of one, that it does not name (`StaleElsewhere`), and the wallet it does name has drifted.
* `OneDeviceLedgerExact`: with one device per user, each stored balance is the sum that explains
  it. Nobody else changes a user's rows, as the scheduler only inserts, so no commit is stale
  (`OneDeviceNeverStale`, a lemma). `ExactInv` adds that transfers are between live wallets, so
  that a new wallet starts from what its owner puts in.
* `OnlyOwnMoneyAlways`: from `OwnInv`.
* `OneDeviceOverdraftIsPosted` and `OneDeviceRefusalIsPosted`: with rules, about `LedgerRaces`.
  `RacesInv` says for each pending transfer that its source still has the amount, but for the
  sum of what was posted there meanwhile (`Promised`), and for each pending removal that every
  row on its wallet was posted since. A posting adds one term to the sum as it changes the
  balance (`PostPromised`); another user's request has wallets of its own (`OtherStepPromised`);
  nothing changes or removes a posted row before the request ends, as its user's one device is
  busy. A step of `LedgerRaces` is one of `Ledger` (`RacesIsLedger`), which lends it `OwnInv`.

**`WalletTxProofs`.** `Next` of `WalletTx` is a statement of some block, so the inductive
invariant `IInv` says how far each block has come:

* `Store`: types; a row nobody has locked is as committed (`Free`); a locked row is written by a
  block under way, on a wallet that exists, and differs from the committed row in that block's
  column only (`Held`, with `TodoOf` for the rows still to do); there is an identifier for every
  create under way (`Room`).
* `RangeOk`, `MovedOk`, `Space`: balances fit their column, money moved between wallets that
  exist or did, and what is being sent can be recorded (the bound of `moved`).
* For each request: `SweepOk` (every other live wallet is cleared and locked, or is going to be),
  `OrderOk` (a reorder has given out the positions from 0 on, and has the rest in hand), `MaxOk`
  (the position a create read is beyond those in use), `TransferOk` and `EditOk` (a row is
  locked with what was written to it, or waits). `SweepOk` and `MaxOk` are claimed only of
  blocks that are not in `missed`.

From it:

* `PositionsStayDistinct`. This proof failed first, for a good reason: a reorder whose list names
  a deleted wallet leaves a gap, and with three wallets it may raise the highest position after
  a create has read it. TLC found the trace once the instance had three wallets; `missed`
  now counts such a reorder among what overtakes a create, and section 4 lists it.
* `PrimaryIsTaken`: `SweepOk` at the commit.
* `BlocksAreSteps`: `Spec => AsLedger`, the refinement of `Ledger`, step by step (`AsLedgerStep`).
  `MapTransfer`, `MapEdit`, `MapCreate`, `MapRemove` and `MapAbort` turn the end of a block into
  the action of `Ledger`; `MapCheckTransfer` and `MapCheckRemove` its checks; everything else
  stutters. `Shares` matters for `TransferOk`: neither wallet of a transfer in its block can go. So does
  `RangeOk`: a credit that would overflow fails its block here and is disabled in `Ledger`.

**`RecurringProofs`**

* `TypeCorrect`.
* `EachOccurrenceOnce` and `EachPostingMovesOn`, whoever is about. `PostedBehind` says that a cron
  past its lock holds it (`CronsApart`), so that no two crons have something to post; that what a
  run has read of a rule nobody whom the lock does not keep away has written since is the rule's
  date, with everything posted before it (`QueueCurrent`); and the same of what dead runs have
  left (`LateCurrent`), of which a rule has one at most, because it holds the row's lock. A posting
  from such a date adds what was not there and takes the date on (`StoreFresh`).
* `ToldIsPosted`, with callers too: what was told and what all runs have still to tell, added up,
  is at most what was posted (`ToldInv`).

About `RecurrenceCalendar`, for every range of years from 1970 on:

* The calendar, as lemmas about its operators: a month ends where the next begins (`NextMonth`),
  also in December of a leap year (`LeapYears`), so that days are in the order of their months
  and years (`MonthTable`, `MonthsInOrder`) and `FullYear`, `Month` and `DayOf` invert
  `UTC` (`DateIsUnique`), for every day (`EveryDay`).
* `NextMonthly`: the next occurrence of day d of a month is the lesser of d and the length of
  the next month, in that month.
* `AnchorDayKept`: by `CalendarInv`, the day of a monthly rule is at most its anchor's, and at
  least the anchor's or the 28th; every month has 28 days.
* `EveryMonthOnce`: from the same.
* `PostingMovesOn`: a posting moves a rule's date on by 7 to 31 days, so that the catch-up loop
  ends. `Recurring`, where a period is some positive number of days, takes this for granted.

**`SessionsProofs`**, for any number of requests, tokens and password changes

* `TypeCorrect`, with `RotateKnown`: what a refresh is about to delete was issued once.
* `RotatedOnceAlways`: by `AloneOnce`, a token no two refreshes held has one refresh at work
  on it, or was redeemed once.
* `DeadForGood`: by `ExchangedIsGone`; a row that is gone is not issued again.
* `SurvivorsAlwaysNew`: by `NewEnough`, a session not stored late descends from no password
  older than the newest one that revoked.
* `NoOrphansEver`: the foreign key refuses a session of a deleted account.

**`NotificationProofs`**

* `Inbox`: `InboxTypeCorrect`. `NothingForTheGoneEver`: the foreign keys refuse what comes after
  the deletion. `LatePruneIsHarmless`: by `PruneHasDead` a prune holds only dead tokens, which stay
  dead whoever registers them meanwhile. `PushesAreKept`: by `SendHasRow` the row of a send is
  there while its user is; it needs that identifiers are not reused.
* `SavingsGoals`: `GoalTypeCorrect`. `MilestoneAlwaysIffCrossed` and `NoneEverMissed`: by
  `Snapshot`, what a top-up read is the goal, or its past if others topped up only.
  `EachFiresOnce`: `ToldOnce` adds that a mark that was told, or is about to be, is reached.
* `BudgetAlert`: `AlertTypeCorrect`. `AlertAlwaysIffCrossed` and `NeverALateAlarm`: `Watches`
  relates the limit a create has read, and whether it was reached without its expense, to the
  tables, for creates nobody has edited under; the total is a sum, of which each change moves
  one term.

**`AccountProofs`**

* `TypeCorrect`.
* `StoredIsFiled`: `FiledUnderUsable` needs `RequestsChecked`, that what a pending request holds
  is its user's or shared. Being there is not kept by the request - it may be gone - but by the
  foreign keys at the insert; being the user's is kept by nobody, and does not change. The
  deletion of a user takes the user's categories, which nobody else can have filed under.
* `RefusedOnlyByARace`: `Looked` says for a removal that nobody has overtaken what its counts
  and deletes have established so far.
* `RemovalsAreWhole`: with `Owned`, what a deletion holds is its user's.

**`DeploymentProofs`**, for any number of containers, images, kills and fetches

* `TypeCorrect`, of both parts.
* `StartIsAlwaysCurrent` and `AlwaysServesMigrated`: `MigratorInv` says that whoever is past the
  lock holds it, the journal counts from 1 on, a replay starts from what is applied, the
  transaction of a killed process goes on from the end of the journal, and who is through with
  the migrations has those of its image.
* `CacheAlwaysMovesOn`: by `BodiesKnown`, a body older than the cache was overtaken.

Only model-checked is liveness: `EveryRequestEnds`, `CatchUp`, `BootEnds`. It needs fairness, and
`ENABLED`, which TLAPS does not reason about.

## 6. What is left

All of the inventory that keeps state is modelled, and every safety property proved. Worth
adding:

1. Theorems about what happens *inside* an overlap of two devices: by how much a balance can
   drift per stale commit (`LedgerDrift` says where), how often a token can be redeemed by n
   refreshes that share it.
2. `Recurring` against an abstract specification in which each occurrence is posted once.
3. `BudgetAlert`, `SavingsGoals` and `Recurring` announce into `Inbox`: a module that composes
   an emitter with it would show that what is announced is read.

## 7. Not modelled

* *Feedback*: one insert per request, read by nobody. *E-mail*: output through an external
  service whose failures are swallowed. *Health*: one query.
* *`updateProfile`* sets name and phone, which no operation reads; *update of a category* sets
  wording and colours.
* *Connection pool, configuration, guards, validation, seeding*: configuration of libraries
  and wiring. The routes are the disjuncts of the next-state relations, the ranges the DTOs
  accept are assumptions on constants, the seeded categories are in `Account`'s `Init`.
* *Templates* of notifications and e-mails are wording.
* External and modelled by how the code uses them: Postgres (locks, snapshots, foreign keys,
  unique indexes, deadlock detection), Drizzle's migrator, Firebase, the rate provider.
