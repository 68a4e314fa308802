----------------------------- MODULE Recurring -----------------------------
(***************************************************************************)
(* Recurring rules and the runs that post their due occurrences: the       *)
(* hourly cron of every API instance, of which the holder of a Postgres    *)
(* advisory lock runs, and POST /recurring/run, which any user may call at *)
(* any time.  A run selects the due rules once and then commits one        *)
(* database transaction per rule from that snapshot, each on another       *)
(* pooled connection than the one that holds the lock: when a run is cut   *)
(* short its lock is free at once, while Postgres may still commit the     *)
(* transaction whose COMMIT it has received.  Dates are numbers; a rule's  *)
(* occurrences are Period[rule] apart (RecurrenceCalendar has the          *)
(* calendar).  The wallet movement of a posting is in Ledger.              *)
(***************************************************************************)
EXTENDS Integers, FiniteSets

CONSTANTS
    Users, Rules,
    RuleUser,     \* the user of each rule
    Period,       \* the distance between a rule's occurrences
    Instances,    \* API processes, each with a cron
    Callers,      \* POST /recurring/run requests
    CallerUser,   \* the user of each such request
    MaxCatchup,   \* MAX_CATCHUP: occurrences per rule and run
    Poisoned,     \* rules whose posting always fails (balance out of range)
    MaxTime,      \* bound: the clock stops here
    MaxStops,     \* bound: runs cut short by a crash or a failed query
    MaxEdits,     \* bound: user edits of a rule's nextDue
    NoOne         \* nobody holds the lock

Runners == Instances \cup Callers

ASSUME RuleAssumption   == RuleUser \in [Rules -> Users] /\ CallerUser \in [Callers -> Users]
ASSUME PeriodAssumption == Period \in [Rules -> Nat \ {0}]
ASSUME RunnerAssumption == Instances \cap Callers = {} /\ NoOne \notin Instances
ASSUME FiniteAssumption == IsFiniteSet(Instances) /\ IsFiniteSet(Callers)
ASSUME CapAssumption    == MaxCatchup \in Nat \ {0} /\ Poisoned \subseteq Rules
ASSUME TimeAssumption   == MaxTime \in Nat /\ MaxStops \in Nat /\ MaxEdits \in Nat

VARIABLES
    now,
    status,    \* recurring_rules row: "none", "live" or "gone"
    nextDue,   \* recurring_rules.nextDue
    lock,      \* holder of the advisory lock
    running,   \* instances whose `running` flag is set
    run,       \* what each run has read and still has to do
    late,      \* postings of dead runs whose COMMIT is still on its way
    posted,    \* history: occurrences posted since a rule's date was last taken back
    meanwhile, \* history: rules queued by each run that somebody whom the
               \* advisory lock does not keep away has written since
    told,      \* history: occurrences announced to each user
    total,     \* history: occurrences posted for each user
    stops, edits

vars == <<now, status, nextDue, lock, running, run, late, posted, meanwhile, told, total, stops, edits>>

Snapshot == [rule : Rules, due : Nat]
Posting  == [rule : Rules, due : Nat, asOf : Nat, stale : BOOLEAN]
NoCount  == [u \in Users |-> 0]
IdleRun  == [pc |-> "idle", asOf |-> 0, queue |-> {}, count |-> NoCount]
RunState == [pc : {"idle", "locking", "started", "posting", "telling"},
             asOf : Nat, queue : SUBSET Snapshot, count : [Users -> Nat]]

TypeOK ==
    /\ now     \in Nat
    /\ status  \in [Rules -> {"none", "live", "gone"}]
    /\ nextDue \in [Rules -> Nat]
    /\ lock    \in Instances \cup {NoOne}
    /\ running \in SUBSET Instances
    /\ run     \in [Runners -> RunState]
    /\ late    \in SUBSET Posting
    /\ posted  \in [Rules -> SUBSET Nat]
    /\ meanwhile \in [Runners -> SUBSET Rules]
    /\ told    \in [Users -> Nat]
    /\ total   \in [Users -> Nat]
    /\ stops   \in Nat
    /\ edits   \in Nat

Init ==
    /\ now = 0
    /\ status  = [r \in Rules |-> "none"]
    /\ nextDue = [r \in Rules |-> 0]
    /\ lock = NoOne
    /\ running = {}
    /\ run    = [x \in Runners |-> IdleRun]
    /\ late   = {}
    /\ posted = [r \in Rules |-> {}]
    /\ meanwhile = [x \in Runners |-> {}]
    /\ told   = NoCount
    /\ total  = NoCount
    /\ stops = 0
    /\ edits = 0

-----------------------------------------------------------------------------
runs == <<lock, running, run, late>>
history == <<posted, meanwhile, told, total>>

Tick ==
    /\ now < MaxTime
    /\ now' = now + 1
    /\ UNCHANGED <<status, nextDue, runs, history, stops, edits>>

\* The rule's row is locked by a transaction whose COMMIT is on its way.
InDoubt(r) == \E p \in late : p.rule = r

\* The runs of X that have r in their queue no longer have its date.
Overtaken(r, X) ==
    [x \in Runners |-> IF x \in X /\ \E q \in run[x].queue : q.rule = r
                       THEN meanwhile[x] \cup {r} ELSE meanwhile[x]]

\* RecurringService.create, update with a nextDue, and remove.
CreateRule(r, d) ==
    /\ status[r] = "none"
    /\ status'  = [status EXCEPT ![r] = "live"]
    /\ nextDue' = [nextDue EXCEPT ![r] = d]
    /\ UNCHANGED <<now, runs, history, stops, edits>>

EditRule(r, d) ==
    /\ edits < MaxEdits
    /\ status[r] = "live"
    /\ ~InDoubt(r)
    /\ nextDue' = [nextDue EXCEPT ![r] = d]
    /\ posted'  = [posted EXCEPT ![r] = {}]
    /\ meanwhile' = Overtaken(r, Runners)
    /\ edits'   = edits + 1
    /\ UNCHANGED <<now, status, runs, told, total, stops>>

RemoveRule(r) ==
    /\ status[r] = "live"
    /\ ~InDoubt(r)
    /\ status' = [status EXCEPT ![r] = "gone"]
    /\ UNCHANGED <<now, nextDue, runs, history, stops, edits>>

-----------------------------------------------------------------------------
\* Variant: there is no finally, the flag stays set.
EndRunFlagged(x) ==
    /\ run'  = [run EXCEPT ![x] = IdleRun]
    /\ lock' = IF lock = x THEN NoOne ELSE lock
    /\ running' = running
    /\ meanwhile' = [meanwhile EXCEPT ![x] = {}]

\* However a run ends: its outer transaction with the lock, handleCron's finally.
EndRun(x) ==
    /\ run'  = [run EXCEPT ![x] = IdleRun]
    /\ lock' = IF lock = x THEN NoOne ELSE lock
    /\ running' = running \ {x}
    /\ meanwhile' = [meanwhile EXCEPT ![x] = {}]

\* The cron of instance i fires; a tick that finds the flag set does nothing.
Fire(i) ==
    /\ i \notin running
    /\ running' = running \cup {i}
    /\ run' = [run EXCEPT ![i].pc = "locking"]
    /\ UNCHANGED <<now, status, nextDue, lock, late, history, stops, edits>>

\* Variant: the answer of pg_try_advisory_xact_lock is not looked at.
TryLockAnyway(i) ==
    /\ run[i].pc = "locking"
    /\ lock' = i
    /\ run'  = [run EXCEPT ![i].pc = "started"]
    /\ UNCHANGED <<now, status, nextDue, running, late, history, stops, edits>>

TryLock(i) ==
    /\ run[i].pc = "locking"
    /\ lock = NoOne
    /\ lock' = i
    /\ run'  = [run EXCEPT ![i].pc = "started"]
    /\ UNCHANGED <<now, status, nextDue, running, late, history, stops, edits>>

\* Another instance holds the lock.
Skip(i) ==
    /\ run[i].pc = "locking"
    /\ lock # NoOne
    /\ EndRun(i)
    /\ UNCHANGED <<now, status, nextDue, late, posted, told, total, stops, edits>>

\* POST /recurring/run takes no lock.
Call(c) ==
    /\ run[c].pc = "idle"
    /\ run' = [run EXCEPT ![c].pc = "started"]
    /\ UNCHANGED <<now, status, nextDue, lock, running, late, history, stops, edits>>

\* runDueAll selects the due rules of everybody, runDue those of one user.
Select(x) ==
    /\ run[x].pc = "started"
    /\ run' = [run EXCEPT ![x].pc = "posting", ![x].asOf = now,
                          ![x].queue = {q \in {[rule |-> r, due |-> nextDue[r]] : r \in Rules} :
                                          /\ status[q.rule] = "live"
                                          /\ q.due <= now
                                          /\ x \in Callers => RuleUser[q.rule] = CallerUser[x]}]
    /\ UNCHANGED <<now, status, nextDue, lock, running, late, history, stops, edits>>

\* Variants: the distance is taken the wrong way round; cursor < now.
MissedBackwards(r, due, asOf) == (due - asOf) \div Period[r] + 1
MissedBefore(r, due, asOf) ==
    LET all == (asOf - due) \div Period[r]
    IN  IF all < MaxCatchup THEN all ELSE MaxCatchup

\* The while loop of materialize: occurrences of r from due to asOf, at most
\* MaxCatchup of them.
Missed(r, due, asOf) ==
    LET all == (asOf - due) \div Period[r] + 1
    IN  IF all < MaxCatchup THEN all ELSE MaxCatchup

Occurrences(r, due, n) == {due + k * Period[r] : k \in 0 .. n - 1}

\* The occurrences that a posting inserts.
New(p) == Occurrences(p.rule, p.due, Missed(p.rule, p.due, p.asOf))

\* The posting that run x makes of q.
PostingOf(x, q) ==
    [rule |-> q.rule, due |-> q.due, asOf |-> run[x].asOf, stale |-> q.rule \in meanwhile[x]]

\* The transaction of one rule in materialize commits.  All of it comes from the
\* snapshot, the new nextDue too; a rule removed meanwhile is posted once more.
\* A stale one may take the date back, and what lies after it is due again.
Store(p) ==
    LET r   == p.rule
        n   == Missed(r, p.due, p.asOf)
        all == posted[r] \cup New(p)
    IN  /\ nextDue' = [nextDue EXCEPT ![r] = IF status[r] = "live" THEN p.due + n * Period[r] ELSE @]
        /\ posted'  = [posted EXCEPT ![r] = IF p.stale THEN {d \in all : d < nextDue'[r]} ELSE all]
        /\ total'   = [total EXCEPT ![RuleUser[r]] = @ + n]

\* orderBy(asc(nextDue)): rules are posted by the date they were due, each when
\* nobody else's transaction holds its row or its wallet's.
IsHead(x, q) ==
    /\ run[x].pc = "posting"
    /\ q \in run[x].queue
    /\ \A p \in run[x].queue : q.due <= p.due
    /\ ~InDoubt(q.rule)

\* Whom the advisory lock does not keep away from x: calls take no lock.
Unlocked(x) == IF x \in Callers THEN Runners \ {x} ELSE Callers

PostRule(x, q) ==
    /\ IsHead(x, q)
    /\ q.rule \notin Poisoned
    /\ Store(PostingOf(x, q))
    /\ run' = [run EXCEPT ![x].queue = @ \ {q},
                          ![x].count[RuleUser[q.rule]] = @ + Missed(q.rule, q.due, run[x].asOf)]
    /\ meanwhile' = Overtaken(q.rule, Unlocked(x))
    /\ UNCHANGED <<now, status, lock, running, late, told, stops, edits>>

\* A posting that throws ends the whole run: nothing is announced, the cron
\* logs it and its transaction, rolled back, lets go of the lock.  So it is for
\* a poisoned rule, and for a removed rule whose wallet is gone too.
FailRule(x, q) ==
    /\ IsHead(x, q)
    /\ q.rule \in Poisoned \/ status[q.rule] = "gone"
    /\ EndRun(x)
    /\ UNCHANGED <<now, status, nextDue, late, posted, told, total, stops, edits>>

\* Variant: the count is not cleared once announced.
TellAgain(x, u) ==
    /\ run[x].pc \in {"posting", "telling"}
    /\ run[x].queue = {}
    /\ run[x].count[u] > 0
    /\ told' = [told EXCEPT ![u] = @ + run[x].count[u]]
    /\ run'  = [run EXCEPT ![x].pc = "telling"]
    /\ UNCHANGED <<now, status, nextDue, lock, running, late, posted, meanwhile, total, stops, edits>>

\* emitPosted, one user after the other; Finish is the end of the run.
Tell(x, u) ==
    /\ run[x].pc \in {"posting", "telling"}
    /\ run[x].queue = {}
    /\ run[x].count[u] > 0
    /\ told' = [told EXCEPT ![u] = @ + run[x].count[u]]
    /\ run'  = [run EXCEPT ![x].pc = "telling", ![x].count[u] = 0]
    /\ UNCHANGED <<now, status, nextDue, lock, running, late, posted, meanwhile, total, stops, edits>>

Finish(x) ==
    /\ run[x].pc \in {"posting", "telling"}
    /\ run[x].queue = {}
    /\ run[x].count = NoCount
    /\ EndRun(x)
    /\ UNCHANGED <<now, status, nextDue, late, posted, told, total, stops, edits>>

-----------------------------------------------------------------------------
\* The process dies, as it does when the connection of the lock is lost, or a
\* statement fails, between two steps of a run.  The posting the run is at is
\* rolled back, unless its COMMIT is on its way to Postgres.
Stop(x) ==
    /\ stops < MaxStops
    /\ run[x].pc # "idle"
    /\ EndRun(x)
    /\ \/ late' = late
       \/ \E q \in run[x].queue : /\ IsHead(x, q) /\ q.rule \notin Poisoned
                                  /\ late' = late \cup {PostingOf(x, q)}
    /\ stops' = stops + 1
    /\ UNCHANGED <<now, status, nextDue, posted, told, total, edits>>

\* Postgres carries out the COMMIT of a run that is no more, whoever holds the
\* lock by now; or finds its client gone.
Land(p) ==
    /\ late' = late \ {p}
    /\ Store(p)
    /\ meanwhile' = Overtaken(p.rule, Runners)
    /\ UNCHANGED <<now, status, lock, running, run, told, stops, edits>>

Drop(p) ==
    /\ late' = late \ {p}
    /\ UNCHANGED <<now, status, nextDue, lock, running, run, history, stops, edits>>

LateEnds == \E p \in late : Land(p) \/ Drop(p)

CronStep(i) == Fire(i) \/ TryLock(i) \/ Skip(i)

RunStep(x) ==
    \/ Select(x)
    \/ \E q \in run[x].queue : PostRule(x, q) \/ FailRule(x, q)
    \/ \E u \in Users : Tell(x, u)
    \/ Finish(x)

User ==
    \/ \E r \in Rules, d \in 0 .. MaxTime : CreateRule(r, d) \/ EditRule(r, d)
    \/ \E r \in Rules : RemoveRule(r)
    \/ \E c \in Callers : Call(c)

Next ==
    \/ Tick
    \/ User
    \/ \E i \in Instances : CronStep(i)
    \/ \E x \in Runners : RunStep(x) \/ Stop(x)
    \/ LateEnds

Spec == Init /\ [][Next]_vars

\* Crons fire every hour for ever, runs make progress and Postgres makes up its
\* mind; users owe nothing.
Fairness ==
    /\ \A i \in Instances : WF_vars(CronStep(i))
    /\ \A x \in Runners : WF_vars(RunStep(x))
    /\ WF_vars(LateEnds)

FairSpec == Spec /\ Fairness

-----------------------------------------------------------------------------
\* No occurrence becomes two ledger rows, whatever instances race, crash or
\* catch up, but through a run that posts a date it read before the user, a
\* manual run or a dead run's COMMIT wrote it: two crons never do it.
PostedOnce ==
    [][/\ \A x \in Runners : \A q \in run[x].queue :
             PostRule(x, q) /\ q.rule \notin meanwhile[x] => New(PostingOf(x, q)) \cap posted[q.rule] = {}
       /\ \A p \in late : Land(p) /\ ~p.stale => New(p) \cap posted[p.rule] = {}]_vars

\* "each posting advances the anchor": a posting never takes a live rule's date
\* back or leaves it, on the same terms.  So a date that a user or another run
\* sets is only ever overwritten by a run that had selected the rule before.
EachPostingAdvances ==
    [][/\ \A x \in Runners : \A q \in run[x].queue :
             PostRule(x, q) /\ q.rule \notin meanwhile[x] /\ status[q.rule] = "live"
             => nextDue'[q.rule] > nextDue[q.rule]
       /\ \A p \in late :
             Land(p) /\ ~p.stale /\ status[p.rule] = "live" => nextDue'[p.rule] > nextDue[p.rule]]_vars

\* Users are never told of more occurrences than were posted for them, though a
\* run that is cut short announces nothing of what it posted.
ToldOnlyPosted == \A u \in Users : told[u] <= total[u]

\* A rule that cannot be posted, and is due no later: every run fails at it first.
Starved(r) == \E p \in Poisoned : status[p] = "live" /\ nextDue[p] <= nextDue[r]

\* Every rule that is due is caught up with, or removed, without its user ever
\* opening the app; only a failing rule that is due no later can keep it waiting.
CatchUp ==
    \A r \in Rules \ Poisoned :
        status[r] = "live" /\ nextDue[r] <= now
        ~> status[r] = "gone" \/ nextDue[r] > now \/ Starved(r)
=============================================================================
