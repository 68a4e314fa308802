-------------------------- MODULE RecurringProofs --------------------------
(***************************************************************************)
(* Proofs about Recurring: types for every instance, and what keeps an     *)
(* occurrence from being posted twice among any number of crons, manual    *)
(* runs, edits, runs cut short and COMMITs they leave behind.              *)
(* Then about RecurrenceCalendar: its dates are those of a calendar, and   *)
(* nextOccurrence keeps a monthly rule within its anchor day, every month. *)
(***************************************************************************)
EXTENDS Recurring, RecurrenceCalendar, SumProofs, TLAPS

-----------------------------------------------------------------------------
\* Arithmetic of the catch-up loop.
LEMMA MultiplesGrow ==
  ASSUME NEW k \in Nat, NEW n \in Nat, NEW p \in Nat, k < n, p > 0
  PROVE  k * p \in Nat /\ n * p \in Nat /\ k * p < n * p
<1>1. n * p = k * p + (n - k) * p
  OBVIOUS
<1>2. (n - k) * p > 0
  OBVIOUS
<1>3. k * p \in Nat /\ n * p \in Nat
  OBVIOUS
<1>4. QED
  BY <1>1, <1>2, <1>3

\* A rule that is due has at least one occurrence to post and at most the cap.
LEMMA MissedType ==
  ASSUME NEW r \in Rules, NEW due \in Nat, NEW asOf \in Nat, due <= asOf
  PROVE  Missed(r, due, asOf) \in Nat /\ Missed(r, due, asOf) >= 1
<1>1. Period[r] \in Nat /\ Period[r] > 0
  BY PeriodAssumption DEF PeriodAssumption
<1>2. (asOf - due) \div Period[r] \in Nat
  BY <1>1
<1>3. MaxCatchup \in Nat /\ MaxCatchup > 0
  BY CapAssumption DEF CapAssumption
<1>4. QED
  BY <1>2, <1>3 DEF Missed

\* The occurrences posted lie from the date the rule was due up to, and not at,
\* the date it is due next.
LEMMA OccurrencesBetween ==
  ASSUME NEW r \in Rules, NEW due \in Nat, NEW n \in Nat, n >= 1
  PROVE  /\ due + n * Period[r] \in Nat
         /\ due + n * Period[r] > due
         /\ \A d \in Occurrences(r, due, n) : d \in Nat /\ due <= d /\ d < due + n * Period[r]
<1>1. Period[r] \in Nat /\ Period[r] > 0
  BY PeriodAssumption DEF PeriodAssumption
<1>2. n * Period[r] \in Nat /\ n * Period[r] > 0
  <2>1. 0 * Period[r] = 0
    BY <1>1
  <2>2. QED
    BY <1>1, <2>1, MultiplesGrow
<1>3. ASSUME NEW d \in Occurrences(r, due, n)
      PROVE  d \in Nat /\ due <= d /\ d < due + n * Period[r]
  <2>1. PICK k \in 0 .. n - 1 : d = due + k * Period[r]
    BY DEF Occurrences
  <2>2. k \in Nat /\ k < n
    OBVIOUS
  <2>3. k * Period[r] \in Nat /\ k * Period[r] < n * Period[r]
    BY <1>1, <2>2, MultiplesGrow
  <2>4. QED
    BY <1>2, <2>1, <2>3
<1>4. QED
  BY <1>2, <1>3
-----------------------------------------------------------------------------
LEMMA IdleRunType == IdleRun \in RunState
  BY DEF IdleRun, RunState, NoCount

\* What a run holds.
LEMMA RunFields ==
  ASSUME TypeOK, NEW x \in Runners
  PROVE  /\ run[x] \in RunState /\ run[x].asOf \in Nat /\ run[x].count \in [Users -> Nat]
         /\ \A q \in run[x].queue : q \in Snapshot /\ q.rule \in Rules /\ q.due \in Nat
  BY DEF TypeOK, RunState, Snapshot

\* Ending a run leaves a well-formed run, lock and flag.
LEMMA EndRunType ==
  ASSUME TypeOK, NEW x \in Runners, EndRun(x)
  PROVE  /\ run' \in [Runners -> RunState] /\ lock' \in Instances \cup {NoOne}
         /\ running' \in SUBSET Instances /\ meanwhile' \in [Runners -> SUBSET Rules]
  BY IdleRunType DEF TypeOK, EndRun

LEMMA OvertakenType ==
  ASSUME TypeOK, NEW r \in Rules, NEW X
  PROVE  Overtaken(r, X) \in [Runners -> SUBSET Rules]
  BY DEF TypeOK, Overtaken

\* What run x posts of q is what it read.
LEMMA PostingFields ==
  ASSUME TypeOK, NEW x \in Runners, NEW q \in run[x].queue
  PROVE  /\ PostingOf(x, q) \in Posting
         /\ PostingOf(x, q).rule = q.rule /\ PostingOf(x, q).due = q.due
         /\ PostingOf(x, q).asOf = run[x].asOf
         /\ PostingOf(x, q).stale = (q.rule \in meanwhile[x])
  BY RunFields DEF PostingOf, Posting

\* The date a posting leaves a live rule with.
EndOf(p) == p.due + Missed(p.rule, p.due, p.asOf) * Period[p.rule]

\* What a posting writes.  It was due, so it has at least one occurrence.
LEMMA StoreEffect ==
  ASSUME TypeOK, NEW p \in Posting, p.due <= p.asOf, Store(p)
  PROVE  /\ p.rule \in Rules /\ p.due \in Nat
         /\ Missed(p.rule, p.due, p.asOf) \in Nat
         /\ EndOf(p) \in Nat /\ EndOf(p) > p.due
         /\ \A d \in New(p) : d \in Nat /\ p.due <= d /\ d < EndOf(p)
         /\ nextDue' \in [Rules -> Nat] /\ posted' \in [Rules -> SUBSET Nat] /\ total' \in [Users -> Nat]
         /\ \A s \in Rules : s # p.rule => nextDue'[s] = nextDue[s] /\ posted'[s] = posted[s]
         /\ nextDue'[p.rule] = IF status[p.rule] = "live" THEN EndOf(p) ELSE nextDue[p.rule]
         /\ posted'[p.rule] = IF p.stale THEN {d \in posted[p.rule] \cup New(p) : d < nextDue'[p.rule]}
                                         ELSE posted[p.rule] \cup New(p)
         /\ \A u \in Users : total'[u] = IF u = RuleUser[p.rule]
                                         THEN total[u] + Missed(p.rule, p.due, p.asOf) ELSE total[u]
<1> DEFINE r == p.rule
           n == Missed(r, p.due, p.asOf)
<1>1. r \in Rules /\ p.due \in Nat /\ p.asOf \in Nat
  BY DEF Posting
<1>2. n \in Nat /\ n >= 1
  BY <1>1, MissedType
<1>3. /\ p.due + n * Period[r] \in Nat /\ p.due + n * Period[r] > p.due
      /\ \A d \in New(p) : d \in Nat /\ p.due <= d /\ d < p.due + n * Period[r]
  BY <1>1, <1>2, OccurrencesBetween DEF New
<1>4. EndOf(p) = p.due + n * Period[r]
  BY DEF EndOf
<1>5. RuleUser[r] \in Users
  BY <1>1, RuleAssumption DEF RuleAssumption
<1>6. /\ nextDue' = [nextDue EXCEPT ![r] = IF status[r] = "live" THEN EndOf(p) ELSE @]
      /\ posted'  = [posted EXCEPT ![r] =
                       IF p.stale THEN {d \in posted[r] \cup New(p) : d < nextDue'[r]}
                       ELSE posted[r] \cup New(p)]
      /\ total'   = [total EXCEPT ![RuleUser[r]] = @ + n]
  BY <1>4 DEF Store
<1> HIDE DEF n
<1>7. nextDue' \in [Rules -> Nat] /\ total' \in [Users -> Nat]
  BY <1>1, <1>2, <1>3, <1>4, <1>5, <1>6 DEF TypeOK
<1>8. posted' \in [Rules -> SUBSET Nat]
  <2>1. posted[r] \cup New(p) \in SUBSET Nat
    BY <1>1, <1>3 DEF TypeOK
  <2> DEFINE P == IF p.stale THEN {d \in posted[r] \cup New(p) : d < nextDue'[r]}
                  ELSE posted[r] \cup New(p)
  <2>2. P \in SUBSET Nat
    BY <2>1
  <2>3. posted' = [posted EXCEPT ![r] = P]
    BY <1>6
  <2> HIDE DEF P
  <2>4. QED
    BY <2>2, <2>3 DEF TypeOK
<1>9. \A s \in Rules : s # r => nextDue'[s] = nextDue[s] /\ posted'[s] = posted[s]
  BY <1>6 DEF TypeOK
<1>10. /\ nextDue'[r] = IF status[r] = "live" THEN EndOf(p) ELSE nextDue[r]
       /\ posted'[r] = IF p.stale THEN {d \in posted[r] \cup New(p) : d < nextDue'[r]}
                                  ELSE posted[r] \cup New(p)
  BY <1>1, <1>6 DEF TypeOK
<1>11. \A u \in Users : total'[u] = IF u = RuleUser[r] THEN total[u] + n ELSE total[u]
  BY <1>6 DEF TypeOK
<1>12. n = Missed(p.rule, p.due, p.asOf) /\ r = p.rule
  BY DEF n
<1> HIDE DEF r
<1>13. QED
  BY <1>1, <1>2, <1>3, <1>4, <1>7, <1>8, <1>9, <1>10, <1>11, <1>12

\* A snapshot is only ever of rules that were due, and so is what a dead run left.
QueueDue == \A x \in Runners : \A q \in run[x].queue : q.due <= run[x].asOf
LateDue  == \A p \in late : p.due <= p.asOf

DueInv == TypeOK /\ QueueDue /\ LateDue

\* What posting the head does to the runs.
LEMMA PostRuleRuns ==
  ASSUME DueInv, NEW x \in Runners, NEW q \in run[x].queue, PostRule(x, q)
  PROVE  /\ PostingOf(x, q).due <= PostingOf(x, q).asOf
         /\ run' \in [Runners -> RunState]
         /\ \A y \in Runners : y # x => run'[y] = run[y]
         /\ run'[x].pc = run[x].pc /\ run'[x].asOf = run[x].asOf
         /\ run'[x].queue = run[x].queue \ {q}
         /\ \A u \in Users : run'[x].count[u] =
              IF u = RuleUser[q.rule] THEN run[x].count[u] + Missed(q.rule, q.due, run[x].asOf)
              ELSE run[x].count[u]
<1> USE DEF DueInv
<1> DEFINE n == Missed(q.rule, q.due, run[x].asOf)
           u == RuleUser[q.rule]
           c == [run[x].count EXCEPT ![u] = @ + n]
<1>1. /\ q.due <= run[x].asOf /\ q.rule \in Rules /\ q.due \in Nat /\ run[x].asOf \in Nat
      /\ u \in Users /\ run[x].count \in [Users -> Nat]
  BY RunFields, RuleAssumption DEF RuleAssumption, QueueDue
<1>2. n \in Nat
  BY <1>1, MissedType
<1>3. run' = [run EXCEPT ![x].queue = @ \ {q}, ![x].count[u] = @ + n]
  BY DEF PostRule
<1> HIDE DEF n, u
<1>4. run' = [run EXCEPT ![x] = [run[x] EXCEPT !.queue = @ \ {q}, !.count = c]]
  BY <1>3 DEF TypeOK, RunState
<1>5. c \in [Users -> Nat] /\ \A v \in Users : c[v] = IF v = u THEN run[x].count[v] + n ELSE run[x].count[v]
  BY <1>1, <1>2
<1> HIDE DEF c
<1>6. [run[x] EXCEPT !.queue = @ \ {q}, !.count = c] \in RunState
  BY <1>5, RunFields DEF RunState
<1>7. /\ run' \in [Runners -> RunState]
      /\ \A y \in Runners : y # x => run'[y] = run[y]
      /\ run'[x].pc = run[x].pc /\ run'[x].asOf = run[x].asOf
      /\ run'[x].queue = run[x].queue \ {q} /\ run'[x].count = c
  BY <1>4, <1>6, RunFields DEF TypeOK, RunState
<1>8. PostingOf(x, q).due <= PostingOf(x, q).asOf
  BY <1>1, PostingFields
<1>9. QED
  BY <1>5, <1>7, <1>8 DEF n, u

\* What a run selects.
LEMMA SelectRuns ==
  ASSUME TypeOK, NEW x \in Runners, Select(x)
  PROVE  /\ run' \in [Runners -> RunState]
         /\ \A y \in Runners : y # x => run'[y] = run[y]
         /\ run'[x].pc = "posting" /\ run'[x].asOf = now /\ run'[x].count = run[x].count
         /\ \A q \in run'[x].queue :
               /\ q.rule \in Rules /\ q = [rule |-> q.rule, due |-> nextDue[q.rule]]
               /\ status[q.rule] = "live" /\ q.due <= now
<1> DEFINE Q == {q \in {[rule |-> r, due |-> nextDue[r]] : r \in Rules} :
                   /\ status[q.rule] = "live"
                   /\ q.due <= now
                   /\ x \in Callers => RuleUser[q.rule] = CallerUser[x]}
<1>1. run' = [run EXCEPT ![x].pc = "posting", ![x].asOf = now, ![x].queue = Q]
  BY DEF Select
<1>2. \A q \in Q : /\ q.rule \in Rules /\ q = [rule |-> q.rule, due |-> nextDue[q.rule]]
                   /\ status[q.rule] = "live" /\ q.due <= now
  OBVIOUS
<1>3. Q \in SUBSET Snapshot
  <2>1. \A r \in Rules : [rule |-> r, due |-> nextDue[r]] \in Snapshot
    BY DEF TypeOK, Snapshot
  <2>2. QED
    BY <2>1
<1> HIDE DEF Q
<1>4. run' = [run EXCEPT ![x] = [run[x] EXCEPT !.pc = "posting", !.asOf = now, !.queue = Q]]
  BY <1>1 DEF TypeOK
<1>5. [run[x] EXCEPT !.pc = "posting", !.asOf = now, !.queue = Q] \in RunState
  BY <1>3 DEF TypeOK, RunState
<1>6. run'[x].queue = Q
  BY <1>4, <1>5 DEF TypeOK, RunState
<1>7. QED
  BY <1>2, <1>4, <1>5, <1>6 DEF TypeOK, RunState

\* Every variable keeps its type, and what is to be posted stays due.
LEMMA DueStep == DueInv /\ [Next]_vars => DueInv'
<1> SUFFICES ASSUME DueInv, [Next]_vars PROVE DueInv'
  OBVIOUS
<1> USE DEF DueInv, runs, history
<1>1. CASE Tick
  BY <1>1, TimeAssumption DEF TimeAssumption, Tick, TypeOK, QueueDue, LateDue
<1>2. ASSUME NEW r \in Rules, NEW d \in 0 .. MaxTime, CreateRule(r, d) PROVE DueInv'
  BY <1>2, TimeAssumption DEF TimeAssumption, CreateRule, TypeOK, QueueDue, LateDue
<1>3. ASSUME NEW r \in Rules, NEW d \in 0 .. MaxTime, EditRule(r, d) PROVE DueInv'
  BY <1>3, TimeAssumption, OvertakenType DEF TimeAssumption, EditRule, TypeOK, QueueDue, LateDue
<1>4. ASSUME NEW r \in Rules, RemoveRule(r) PROVE DueInv'
  BY <1>4 DEF RemoveRule, TypeOK, QueueDue, LateDue
<1>5. ASSUME NEW x \in Runners, NEW s \in {"locking", "started"}, run' = [run EXCEPT ![x].pc = s],
             UNCHANGED <<now, status, nextDue, late, history, stops, edits>>,
             lock' \in Instances \cup {NoOne}, running' \in SUBSET Instances
      PROVE  DueInv'
  <2>1. run' \in [Runners -> RunState]
    BY <1>5 DEF TypeOK, RunState
  <2>2. QED
    BY <1>5, <2>1 DEF TypeOK, QueueDue, LateDue
<1>6. ASSUME NEW x \in Runners, Select(x) PROVE DueInv'
  <2>1. QueueDue'
    BY <1>6, SelectRuns DEF QueueDue
  <2>2. QED
    BY <1>6, <2>1, SelectRuns DEF Select, TypeOK, LateDue
<1>7. ASSUME NEW x \in Runners, NEW q \in run[x].queue, PostRule(x, q) PROVE DueInv'
  <2>1. Store(PostingOf(x, q)) /\ PostingOf(x, q) \in Posting /\ PostingOf(x, q).due <= PostingOf(x, q).asOf
    BY <1>7, PostRuleRuns, PostingFields DEF PostRule
  <2>2. nextDue' \in [Rules -> Nat] /\ posted' \in [Rules -> SUBSET Nat] /\ total' \in [Users -> Nat]
    BY <2>1, StoreEffect
  <2>3. meanwhile' \in [Runners -> SUBSET Rules]
    BY <1>7, OvertakenType, RunFields DEF PostRule
  <2>4. UNCHANGED <<now, status, lock, running, late, told, stops, edits>>
    BY <1>7 DEF PostRule
  <2>5. run' \in [Runners -> RunState] /\ QueueDue'
    BY <1>7, PostRuleRuns DEF QueueDue
  <2>6. QED
    BY <2>2, <2>3, <2>4, <2>5 DEF TypeOK, LateDue
<1>8. ASSUME NEW x \in Runners, EndRun(x), stops' \in Nat, late' \in SUBSET Posting, LateDue',
             UNCHANGED <<now, status, nextDue, posted, told, total, edits>>
      PROVE  DueInv'
  <2>1. QueueDue'
    BY <1>8 DEF EndRun, QueueDue, IdleRun, TypeOK
  <2>2. QED
    BY <1>8, <2>1, EndRunType DEF TypeOK
<1>9. ASSUME NEW x \in Runners, NEW u \in Users, Tell(x, u) PROVE DueInv'
  <2>1. run' \in [Runners -> RunState] /\ QueueDue'
    BY <1>9 DEF Tell, TypeOK, RunState, QueueDue
  <2>2. run[x].count[u] \in Nat
    BY RunFields
  <2>3. QED
    BY <1>9, <2>1, <2>2 DEF Tell, TypeOK, LateDue
<1>10. ASSUME NEW p \in late, Land(p) PROVE DueInv'
  <2>1. p \in Posting /\ p.due <= p.asOf /\ Store(p) /\ p.rule \in Rules
    BY <1>10 DEF TypeOK, LateDue, Land, Posting
  <2>2. nextDue' \in [Rules -> Nat] /\ posted' \in [Rules -> SUBSET Nat] /\ total' \in [Users -> Nat]
    BY <2>1, StoreEffect
  <2>3. meanwhile' \in [Runners -> SUBSET Rules]
    BY <1>10, <2>1, OvertakenType DEF Land
  <2>4. UNCHANGED <<now, status, lock, running, run, told, stops, edits>> /\ late' = late \ {p}
    BY <1>10 DEF Land
  <2>5. QED
    BY <2>2, <2>3, <2>4 DEF TypeOK, QueueDue, LateDue
<1>11. ASSUME NEW p \in late, Drop(p) PROVE DueInv'
  BY <1>11 DEF Drop, TypeOK, QueueDue, LateDue
<1>12. CASE UNCHANGED vars
  BY <1>12 DEF vars, TypeOK, QueueDue, LateDue
<1>13. ASSUME NEW i \in Instances, Fire(i) \/ TryLock(i) PROVE DueInv'
  BY <1>5, <1>13 DEF Fire, TryLock, Runners, TypeOK
<1>14. ASSUME NEW c \in Callers, Call(c) PROVE DueInv'
  BY <1>5, <1>14 DEF Call, Runners, TypeOK
<1>15. ASSUME NEW x \in Runners, Skip(x) \/ Finish(x) \/ (\E q \in run[x].queue : FailRule(x, q)) PROVE DueInv'
  BY <1>8, <1>15 DEF Skip, Finish, FailRule, TypeOK, LateDue
<1>16. ASSUME NEW x \in Runners, Stop(x) PROVE DueInv'
  <2>1. late' \in SUBSET Posting /\ LateDue'
    <3>1. CASE late' = late
      BY <3>1 DEF TypeOK, LateDue
    <3>2. ASSUME NEW q \in run[x].queue, late' = late \cup {PostingOf(x, q)}
          PROVE  late' \in SUBSET Posting /\ LateDue'
      <4>1. PostingOf(x, q) \in Posting /\ PostingOf(x, q).due <= PostingOf(x, q).asOf
        BY PostingFields DEF QueueDue
      <4>2. QED
        BY <3>2, <4>1 DEF TypeOK, LateDue
    <3>3. QED
      BY <1>16, <3>1, <3>2 DEF Stop
  <2>2. QED
    BY <1>8, <1>16, <2>1 DEF Stop, TypeOK
<1>17. QED
  BY <1>1, <1>2, <1>3, <1>4, <1>6, <1>7, <1>9, <1>10, <1>11, <1>12, <1>13, <1>14, <1>15, <1>16
     DEF Next, User, CronStep, RunStep, LateEnds, Runners

LEMMA DueInit == Init => DueInv
  BY IdleRunType DEF Init, DueInv, TypeOK, QueueDue, LateDue, IdleRun, NoCount

LEMMA DueAlways == Spec => []DueInv
  BY DueInit, DueStep, PTL DEF Spec

\* In every reachable state every variable has its type.
THEOREM TypeCorrect == Spec => []TypeOK
<1>1. DueInv => TypeOK
  BY DEF DueInv
<1>2. QED
  BY <1>1, DueAlways, PTL

-----------------------------------------------------------------------------
(***************************************************************************)
(* What makes posting exactly-once, whoever is about.  A cron past its     *)
(* lock holds it, so that no two crons have queues.  What a run has read   *)
(* of a rule that nobody else has written since is the rule's date, and    *)
(* everything posted lies before it; the same of the transactions that     *)
(* dead runs have left, of which a rule has one at most.                   *)
(***************************************************************************)
CronsApart ==
    \A i \in Instances : run[i].pc \notin {"idle", "locking"} => lock = i

FlagSet == \A i \in Instances : i \notin running => run[i].pc = "idle"

QueueWhilePosting ==
    \A x \in Runners : run[x].pc \in {"idle", "locking", "started"} => run[x].queue = {}

OneSnapshotPerRule ==
    \A x \in Runners : \A p, q \in run[x].queue : p.rule = q.rule => p = q

OneLatePerRule == \A p, q \in late : p.rule = q.rule => p = q

Current(r, due) ==
    /\ status[r] = "live" => nextDue[r] = due
    /\ \A d \in posted[r] : d < due

QueueCurrent ==
    \A x \in Runners : \A q \in run[x].queue :
        /\ status[q.rule] # "none"
        /\ q.rule \notin meanwhile[x] => Current(q.rule, q.due)

LateCurrent ==
    \A p \in late : status[p.rule] # "none" /\ (~p.stale => Current(p.rule, p.due))

AnchorAhead ==
    \A r \in Rules :
        /\ status[r] = "none" => posted[r] = {}
        /\ status[r] = "live" => \A d \in posted[r] : d < nextDue[r]

PostedBehind ==
    /\ CronsApart /\ FlagSet /\ QueueWhilePosting /\ OneSnapshotPerRule /\ OneLatePerRule
    /\ QueueCurrent /\ LateCurrent /\ AnchorAhead

PostInv == DueInv /\ PostedBehind

\* No two crons have something to post.
LEMMA OneCronQueue ==
  ASSUME PostInv, NEW i \in Instances, NEW j \in Instances, i # j, run[i].queue # {}
  PROVE  run[j].queue = {}
<1>1. \A k \in Instances : k \in Runners /\ run[k].pc \in {"idle", "locking", "started", "posting", "telling"}
  BY DEF PostInv, DueInv, TypeOK, RunState, Runners
<1>2. lock = i
  BY <1>1 DEF PostInv, PostedBehind, CronsApart, QueueWhilePosting
<1>3. SUFFICES ASSUME run[j].queue # {} PROVE FALSE
  OBVIOUS
<1>4. lock = j
  BY <1>1, <1>3 DEF PostInv, PostedBehind, CronsApart, QueueWhilePosting
<1>5. QED
  BY <1>2, <1>4

\* Whoever has a rule in its queue is marked when the rule is written.
LEMMA OvertakenMarks ==
  ASSUME TypeOK, NEW r, NEW X, NEW y \in Runners, NEW q \in run[y].queue
  PROVE  /\ q.rule \notin Overtaken(r, X)[y] => q.rule \notin meanwhile[y]
         /\ q.rule = r /\ y \in X => q.rule \in Overtaken(r, X)[y]
  BY DEF Overtaken, TypeOK

\* A rule whose date and postings nobody touches keeps what holds of it.
LEMMA CurrentKept ==
  ASSUME NEW r, NEW due, Current(r, due), posted'[r] = posted[r],
         \/ status'[r] = status[r] /\ nextDue'[r] = nextDue[r]
         \/ status'[r] = "gone"
  PROVE  Current(r, due)'
  BY DEF Current

\* A posting that is not stale writes what was not there, and takes the date on.
LEMMA StoreFresh ==
  ASSUME TypeOK, NEW p \in Posting, p.due <= p.asOf, Store(p), Current(p.rule, p.due)
  PROVE  /\ New(p) \cap posted[p.rule] = {}
         /\ status[p.rule] = "live" => nextDue'[p.rule] > nextDue[p.rule]
<1>1. /\ p.rule \in Rules /\ p.due \in Nat /\ EndOf(p) > p.due
      /\ \A d \in New(p) : d \in Nat /\ p.due <= d
      /\ nextDue'[p.rule] = IF status[p.rule] = "live" THEN EndOf(p) ELSE nextDue[p.rule]
  BY StoreEffect
<1>2. posted[p.rule] \in SUBSET Nat /\ \A d \in posted[p.rule] : d < p.due
  BY <1>1 DEF TypeOK, Current
<1>3. status[p.rule] = "live" => nextDue[p.rule] = p.due
  BY DEF Current
<1>4. New(p) \cap posted[p.rule] = {}
  BY <1>1, <1>2
<1>5. QED
  BY <1>1, <1>3, <1>4

\* It leaves everything posted before a live rule's date, and so does a stale one.
LEMMA StoreKeepsAhead ==
  ASSUME TypeOK, AnchorAhead, NEW p \in Posting, p.due <= p.asOf, Store(p), UNCHANGED status,
         status[p.rule] # "none", ~p.stale => Current(p.rule, p.due)
  PROVE  AnchorAhead'
<1>1. /\ p.rule \in Rules /\ p.due \in Nat /\ EndOf(p) \in Nat /\ EndOf(p) > p.due
      /\ \A d \in New(p) : d \in Nat /\ p.due <= d /\ d < EndOf(p)
      /\ \A s \in Rules : s # p.rule => nextDue'[s] = nextDue[s] /\ posted'[s] = posted[s]
      /\ nextDue'[p.rule] = IF status[p.rule] = "live" THEN EndOf(p) ELSE nextDue[p.rule]
      /\ posted'[p.rule] = IF p.stale THEN {d \in posted[p.rule] \cup New(p) : d < nextDue'[p.rule]}
                                      ELSE posted[p.rule] \cup New(p)
  BY StoreEffect
<1>2. posted[p.rule] \in SUBSET Nat
  BY <1>1 DEF TypeOK
<1>3. ASSUME status[p.rule] = "live", NEW d \in posted'[p.rule] PROVE d < nextDue'[p.rule]
  <2>1. CASE p.stale
    BY <1>1, <1>3, <2>1
  <2>2. CASE ~p.stale
    <3>1. d \in posted[p.rule] \/ d \in New(p)
      BY <1>1, <1>3, <2>2
    <3>2. d \in posted[p.rule] => d \in Nat /\ d < p.due
      BY <1>2, <2>2 DEF Current
    <3>3. QED
      BY <1>1, <1>3, <3>1, <3>2
  <2>3. QED
    BY <2>1, <2>2
<1>4. QED
  BY <1>1, <1>3 DEF AnchorAhead

\* Of the other rules a posting changes nothing.
LEMMA StoreElsewhere ==
  ASSUME TypeOK, NEW p \in Posting, p.due <= p.asOf, Store(p), UNCHANGED status,
         NEW r \in Rules, r # p.rule, NEW due, Current(r, due)
  PROVE  Current(r, due)'
<1>1. nextDue'[r] = nextDue[r] /\ posted'[r] = posted[r]
  BY StoreEffect
<1>2. QED
  BY <1>1, CurrentKept

LEMMA PostRuleStep ==
  ASSUME PostInv, NEW x \in Runners, NEW q \in run[x].queue, PostRule(x, q)
  PROVE  PostedBehind'
<1> USE DEF PostInv, DueInv, PostedBehind
<1> DEFINE p == PostingOf(x, q)
<1>1. /\ p \in Posting /\ p.rule = q.rule /\ p.due = q.due /\ p.stale = (q.rule \in meanwhile[x])
      /\ p.due <= p.asOf /\ q.rule \in Rules
  BY PostRuleRuns, PostingFields, RunFields
<1>2. Store(p) /\ IsHead(x, q) /\ meanwhile' = Overtaken(q.rule, Unlocked(x)) /\ UNCHANGED <<status, lock, running, late>>
  BY DEF PostRule
<1>3. /\ \A y \in Runners : y # x => run'[y] = run[y]
      /\ run'[x].pc = run[x].pc /\ run'[x].queue = run[x].queue \ {q}
  BY PostRuleRuns
<1> HIDE DEF p
<1>4. CronsApart' /\ FlagSet' /\ QueueWhilePosting' /\ OneSnapshotPerRule' /\ OneLatePerRule'
  BY <1>2, <1>3 DEF CronsApart, FlagSet, QueueWhilePosting, OneSnapshotPerRule, OneLatePerRule, Runners
<1>5. status[p.rule] # "none" /\ (~p.stale => Current(p.rule, p.due))
  BY <1>1 DEF QueueCurrent
<1>6. AnchorAhead'
  BY <1>1, <1>2, <1>5, StoreKeepsAhead
<1>7. LateCurrent'
  <2> SUFFICES ASSUME NEW o \in late PROVE status[o.rule] # "none" /\ (~o.stale => Current(o.rule, o.due)')
    BY <1>2 DEF LateCurrent
  <2>1. o.rule # p.rule /\ o.rule \in Rules
    BY <1>1, <1>2 DEF IsHead, InDoubt, TypeOK, Posting
  <2>2. QED
    BY <1>1, <1>2, <2>1, StoreElsewhere DEF LateCurrent
<1>8. QueueCurrent'
  <2> SUFFICES ASSUME NEW y \in Runners, NEW k \in run'[y].queue
               PROVE  /\ status[k.rule] # "none"
                      /\ k.rule \notin meanwhile'[y] => Current(k.rule, k.due)'
    BY <1>2 DEF QueueCurrent
  <2>1. k \in run[y].queue /\ k.rule \in Rules
    BY <1>3, RunFields
  <2>2. SUFFICES ASSUME k.rule \notin meanwhile'[y] PROVE Current(k.rule, k.due)'
    BY <2>1 DEF QueueCurrent
  <2>3. k.rule \notin meanwhile[y] /\ (k.rule = q.rule => y \notin Unlocked(x))
    BY <1>2, <2>1, <2>2, OvertakenMarks
  <2>4. k.rule # q.rule
    <3>1. CASE y = x
      BY <1>3, <2>1, <3>1 DEF OneSnapshotPerRule
    <3>2. CASE y # x
      <4>1. SUFFICES ASSUME k.rule = q.rule PROVE FALSE
        OBVIOUS
      <4>2. y \notin Unlocked(x)
        BY <2>3, <4>1
      <4>3. x \in Instances /\ y \in Instances
        BY <3>2, <4>2 DEF Unlocked, Runners
      <4>4. QED
        BY <2>1, <3>2, <4>3, OneCronQueue
    <3>3. QED
      BY <3>1, <3>2
  <2>5. Current(k.rule, k.due)
    BY <2>1, <2>3 DEF QueueCurrent
  <2>6. QED
    BY <1>1, <1>2, <2>1, <2>4, <2>5, StoreElsewhere
<1>9. QED
  BY <1>4, <1>6, <1>7, <1>8

LEMMA LandStep ==
  ASSUME PostInv, NEW p \in late, Land(p)
  PROVE  PostedBehind'
<1> USE DEF PostInv, DueInv, PostedBehind
<1>1. /\ p \in Posting /\ p.due <= p.asOf /\ p.rule \in Rules
      /\ Store(p) /\ meanwhile' = Overtaken(p.rule, Runners) /\ late' = late \ {p}
      /\ UNCHANGED <<status, lock, running, run>>
  BY DEF Land, TypeOK, LateDue, Posting
<1>2. CronsApart' /\ FlagSet' /\ QueueWhilePosting' /\ OneSnapshotPerRule' /\ OneLatePerRule'
  BY <1>1 DEF CronsApart, FlagSet, QueueWhilePosting, OneSnapshotPerRule, OneLatePerRule
<1>3. AnchorAhead'
  BY <1>1, StoreKeepsAhead DEF LateCurrent
<1>4. LateCurrent'
  <2> SUFFICES ASSUME NEW o \in late, o # p
               PROVE  status[o.rule] # "none" /\ (~o.stale => Current(o.rule, o.due)')
    BY <1>1 DEF LateCurrent
  <2>1. o.rule # p.rule /\ o.rule \in Rules
    BY DEF OneLatePerRule, TypeOK, Posting
  <2>2. QED
    BY <1>1, <2>1, StoreElsewhere DEF LateCurrent
<1>5. QueueCurrent'
  <2> SUFFICES ASSUME NEW y \in Runners, NEW k \in run[y].queue
               PROVE  /\ status[k.rule] # "none"
                      /\ k.rule \notin meanwhile'[y] => Current(k.rule, k.due)'
    BY <1>1 DEF QueueCurrent
  <2>1. SUFFICES ASSUME k.rule \notin meanwhile'[y] PROVE Current(k.rule, k.due)'
    BY DEF QueueCurrent
  <2>2. k.rule \notin meanwhile[y] /\ k.rule # p.rule /\ k.rule \in Rules
    BY <1>1, <2>1, OvertakenMarks, RunFields
  <2>3. Current(k.rule, k.due)
    BY <2>2 DEF QueueCurrent
  <2>4. QED
    BY <1>1, <2>2, <2>3, StoreElsewhere
<1>6. QED
  BY <1>2, <1>3, <1>4, <1>5

\* A run ends, and may leave the posting it is at.
LEMMA EndStep ==
  ASSUME PostInv, NEW x \in Runners, EndRun(x), UNCHANGED <<status, nextDue, posted>>,
         \/ late' = late
         \/ \E q \in run[x].queue : IsHead(x, q) /\ late' = late \cup {PostingOf(x, q)}
  PROVE  PostedBehind'
<1> USE DEF PostInv, DueInv, PostedBehind
<1>1. /\ run'[x] = IdleRun /\ \A y \in Runners : y # x => run'[y] = run[y]
      /\ lock' = IF lock = x THEN NoOne ELSE lock
      /\ \A y \in Runners : y # x => meanwhile'[y] = meanwhile[y]
      /\ running' = running \ {x}
  BY DEF EndRun, TypeOK
<1>2. \A r, due : Current(r, due)' = Current(r, due)
  BY DEF Current
<1>3. CronsApart' /\ FlagSet'
  BY <1>1 DEF CronsApart, FlagSet, IdleRun, Runners
<1>4. QueueWhilePosting' /\ OneSnapshotPerRule' /\ AnchorAhead'
  BY <1>1 DEF QueueWhilePosting, OneSnapshotPerRule, AnchorAhead, IdleRun
<1>5. QueueCurrent'
  <2> SUFFICES ASSUME NEW y \in Runners, NEW q \in run'[y].queue
               PROVE  status[q.rule] # "none" /\ (q.rule \notin meanwhile'[y] => Current(q.rule, q.due))
    BY <1>2 DEF QueueCurrent
  <2>1. y # x
    BY <1>1 DEF IdleRun
  <2>2. QED
    BY <1>1, <2>1 DEF QueueCurrent
<1>6. OneLatePerRule' /\ LateCurrent'
  <2>1. CASE late' = late
    BY <1>2, <2>1 DEF OneLatePerRule, LateCurrent
  <2>2. ASSUME NEW q \in run[x].queue, IsHead(x, q), late' = late \cup {PostingOf(x, q)}
        PROVE  OneLatePerRule' /\ LateCurrent'
    <3> DEFINE p == PostingOf(x, q)
    <3>1. p.rule = q.rule /\ p.due = q.due /\ p.stale = (q.rule \in meanwhile[x])
      BY PostingFields
    <3> HIDE DEF p
    <3>2. \A o \in late : o.rule # p.rule
      BY <2>2, <3>1 DEF IsHead, InDoubt
    <3>3. status[p.rule] # "none" /\ (~p.stale => Current(p.rule, p.due))
      BY <3>1 DEF QueueCurrent
    <3>4. late' = late \cup {p}
      BY <2>2 DEF p
    <3>5. OneLatePerRule'
      BY <3>2, <3>4 DEF OneLatePerRule
    <3>6. LateCurrent'
      BY <1>2, <3>3, <3>4 DEF LateCurrent
    <3>7. QED
      BY <3>5, <3>6
  <2>3. QED
    BY <2>1, <2>2
<1>7. QED
  BY <1>3, <1>4, <1>5, <1>6

\* What users do to rules.
LEMMA UserStep ==
  ASSUME PostInv, NEW r \in Rules, NEW d \in 0 .. MaxTime,
         CreateRule(r, d) \/ EditRule(r, d) \/ RemoveRule(r)
  PROVE  PostedBehind'
<1> USE DEF PostInv, DueInv, PostedBehind, runs, history
<1>1. UNCHANGED <<lock, running, run, late>> /\ \A s \in Rules : s # r =>
        status'[s] = status[s] /\ nextDue'[s] = nextDue[s] /\ posted'[s] = posted[s]
  BY DEF CreateRule, EditRule, RemoveRule, TypeOK
<1>2. CronsApart' /\ FlagSet' /\ QueueWhilePosting' /\ OneSnapshotPerRule' /\ OneLatePerRule'
  BY <1>1 DEF CronsApart, FlagSet, QueueWhilePosting, OneSnapshotPerRule, OneLatePerRule
<1>3. \A y \in Runners : \A k \in run[y].queue : k.rule \in Rules
  BY RunFields
<1>4. \A o \in late : o.rule \in Rules
  BY DEF TypeOK, Posting
<1>5. \A s \in Rules : \A due : s # r /\ Current(s, due) => Current(s, due)'
  BY <1>1, CurrentKept
<1>6. CASE CreateRule(r, d)
  <2>1. status[r] = "none" /\ status'[r] = "live" /\ meanwhile' = meanwhile /\ posted'[r] = posted[r]
    BY <1>6 DEF CreateRule, TypeOK
  <2>2. QueueCurrent'
    BY <1>1, <1>3, <1>5, <2>1 DEF QueueCurrent
  <2>3. LateCurrent'
    BY <1>1, <1>4, <1>5, <2>1 DEF LateCurrent
  <2>4. AnchorAhead'
    BY <1>1, <2>1 DEF AnchorAhead
  <2>5. QED
    BY <1>2, <2>2, <2>3, <2>4
<1>7. CASE EditRule(r, d)
  <2>1. /\ status' = status /\ status[r] = "live" /\ ~InDoubt(r) /\ posted'[r] = {}
        /\ meanwhile' = Overtaken(r, Runners)
    BY <1>7 DEF EditRule, TypeOK
  <2>2. QueueCurrent'
    <3> SUFFICES ASSUME NEW y \in Runners, NEW k \in run[y].queue, k.rule \notin meanwhile'[y]
                 PROVE  Current(k.rule, k.due)'
      BY <1>1, <2>1 DEF QueueCurrent
    <3>1. k.rule # r /\ k.rule \notin meanwhile[y]
      BY <2>1, OvertakenMarks
    <3>2. QED
      BY <1>3, <1>5, <3>1 DEF QueueCurrent
  <2>3. LateCurrent'
    BY <1>1, <1>4, <1>5, <2>1 DEF LateCurrent, InDoubt
  <2>4. AnchorAhead'
    BY <1>1, <2>1 DEF AnchorAhead
  <2>5. QED
    BY <1>2, <2>2, <2>3, <2>4
<1>8. CASE RemoveRule(r)
  <2>1. status'[r] = "gone" /\ meanwhile' = meanwhile /\ posted' = posted
    BY <1>8 DEF RemoveRule, TypeOK
  <2>2. \A s \in Rules : \A due : Current(s, due) => Current(s, due)'
    BY <1>1, <2>1, CurrentKept
  <2>3. QueueCurrent'
    BY <1>1, <1>3, <2>1, <2>2 DEF QueueCurrent
  <2>4. LateCurrent'
    BY <1>1, <1>4, <2>1, <2>2 DEF LateCurrent
  <2>5. AnchorAhead'
    BY <1>1, <2>1 DEF AnchorAhead
  <2>6. QED
    BY <1>2, <2>3, <2>4, <2>5
<1>9. QED
  BY <1>6, <1>7, <1>8

\* A run takes its first steps.
LEMMA StartStep ==
  ASSUME PostInv, NEW x \in Runners, NEW s \in {"locking", "started"},
         run[x].pc \in {"idle", "locking"},
         run' = [run EXCEPT ![x].pc = s], UNCHANGED <<status, nextDue, late, posted, meanwhile>>,
         lock' = lock \/ (lock = NoOne /\ lock' = x),
         x \in Instances /\ s = "started" => lock' = x,
         x \in Instances => x \in running', running \subseteq running'
  PROVE  PostedBehind'
<1> USE DEF PostInv, DueInv, PostedBehind
<1>1. /\ \A y \in Runners : y # x => run'[y] = run[y]
      /\ run'[x].pc = s /\ run'[x].queue = {} /\ run[x].queue = {}
  BY DEF TypeOK, RunState, QueueWhilePosting
<1>2. \A y \in Runners : run'[y].queue = run[y].queue
  BY <1>1
<1>3. CronsApart'
  <2> SUFFICES ASSUME NEW i \in Instances, run'[i].pc \notin {"idle", "locking"} PROVE lock' = i
    BY DEF CronsApart
  <2>1. CASE i = x
    BY <1>1, <2>1
  <2>2. CASE i # x
    <3>1. lock = i /\ i # NoOne
      BY <1>1, <2>2, RunnerAssumption DEF RunnerAssumption, CronsApart, Runners
    <3>2. QED
      BY <3>1
  <2>3. QED
    BY <2>1, <2>2
<1>4. FlagSet' /\ QueueWhilePosting' /\ OneSnapshotPerRule' /\ OneLatePerRule' /\ AnchorAhead'
  BY <1>1 DEF FlagSet, Runners, QueueWhilePosting, OneSnapshotPerRule, OneLatePerRule, AnchorAhead
<1>5. \A r, due : Current(r, due)' = Current(r, due)
  BY DEF Current
<1>6. QueueCurrent' /\ LateCurrent'
  BY <1>2, <1>5 DEF QueueCurrent, LateCurrent
<1>7. QED
  BY <1>3, <1>4, <1>6

\* What a run selects is current.
LEMMA SelectStep ==
  ASSUME PostInv, NEW x \in Runners, Select(x)
  PROVE  PostedBehind'
<1> USE DEF PostInv, DueInv, PostedBehind, history
<1>1. /\ \A y \in Runners : y # x => run'[y] = run[y]
      /\ run'[x].pc = "posting" /\ run[x].pc = "started"
      /\ \A q \in run'[x].queue : /\ q.rule \in Rules /\ q = [rule |-> q.rule, due |-> nextDue[q.rule]]
                                  /\ status[q.rule] = "live"
      /\ UNCHANGED <<status, nextDue, lock, running, late, posted, meanwhile>>
  BY SelectRuns DEF Select
<1>2. \A q \in run'[x].queue : q.due = nextDue[q.rule] /\ Current(q.rule, q.due)
  BY <1>1 DEF AnchorAhead, Current
<1>3. \A r, due : Current(r, due)' = Current(r, due)
  BY <1>1 DEF Current
<1>4. CronsApart' /\ FlagSet' /\ QueueWhilePosting' /\ OneLatePerRule' /\ AnchorAhead'
  BY <1>1 DEF CronsApart, FlagSet, QueueWhilePosting, OneLatePerRule, AnchorAhead, Runners
<1>5. OneSnapshotPerRule'
  BY <1>1 DEF OneSnapshotPerRule
<1>6. LateCurrent'
  BY <1>1, <1>3 DEF LateCurrent
<1>7. QueueCurrent'
  BY <1>1, <1>2, <1>3 DEF QueueCurrent
<1>8. QED
  BY <1>4, <1>5, <1>6, <1>7

LEMMA PostStep == PostInv /\ [Next]_vars => PostInv'
<1> SUFFICES ASSUME PostInv, [Next]_vars PROVE PostInv'
  OBVIOUS
<1>1. DueInv'
  BY DueStep DEF PostInv
<1>2. ASSUME UNCHANGED <<status, nextDue, lock, running, run, late, posted, meanwhile>> PROVE PostedBehind'
  BY <1>2 DEF PostInv, PostedBehind, CronsApart, FlagSet, QueueWhilePosting, OneSnapshotPerRule, OneLatePerRule,
     QueueCurrent, LateCurrent, AnchorAhead, Current
<1>3. ASSUME Tick \/ UNCHANGED vars PROVE PostedBehind'
  BY <1>2, <1>3 DEF Tick, vars, runs, history
<1>4. ASSUME NEW i \in Instances, Fire(i) \/ TryLock(i) PROVE PostedBehind'
  <2>1. i \in Runners
    BY DEF Runners
  <2>2. CASE Fire(i)
    <3>1. run[i].pc = "idle"
      BY <2>2 DEF Fire, PostInv, PostedBehind, FlagSet
    <3>2. QED
      BY <2>1, <2>2, <3>1, StartStep DEF Fire, history
  <2>3. CASE TryLock(i)
    <3>1. i \in running
      BY <2>3 DEF TryLock, PostInv, PostedBehind, FlagSet
    <3>2. QED
      BY <2>1, <2>3, <3>1, StartStep DEF TryLock, history
  <2>4. QED
    BY <1>4, <2>2, <2>3
<1>5. ASSUME NEW c \in Callers, Call(c) PROVE PostedBehind'
  <2>1. c \in Runners /\ c \notin Instances
    BY RunnerAssumption DEF RunnerAssumption, Runners
  <2>2. QED
    BY <1>5, <2>1, StartStep DEF Call, history
<1>6. ASSUME NEW x \in Runners, Select(x) PROVE PostedBehind'
  BY <1>6, SelectStep
<1>7. ASSUME NEW x \in Runners, NEW q \in run[x].queue, PostRule(x, q) PROVE PostedBehind'
  BY <1>7, PostRuleStep
<1>8. ASSUME NEW x \in Runners, Skip(x) \/ Finish(x) \/ (\E q \in run[x].queue : FailRule(x, q)) \/ Stop(x)
      PROVE  PostedBehind'
  <2>1. /\ EndRun(x) /\ UNCHANGED <<status, nextDue, posted>>
        /\ \/ late' = late
           \/ \E q \in run[x].queue : IsHead(x, q) /\ late' = late \cup {PostingOf(x, q)}
    BY <1>8 DEF Skip, Finish, FailRule, Stop
  <2>2. QED
    BY <2>1, EndStep
<1>9. ASSUME NEW x \in Runners, NEW u \in Users, Tell(x, u) PROVE PostedBehind'
  <2>1. /\ \A y \in Runners : y # x => run'[y] = run[y]
        /\ run[x].pc \in {"posting", "telling"} /\ run'[x].pc = "telling"
        /\ run[x].queue = {} /\ run'[x].queue = {}
        /\ UNCHANGED <<status, nextDue, lock, running, late, posted, meanwhile>>
    BY <1>9 DEF Tell, PostInv, DueInv, TypeOK, RunState
  <2>2. \A y \in Runners : run'[y].queue = run[y].queue
    BY <2>1
  <2>3. CronsApart' /\ FlagSet' /\ QueueWhilePosting' /\ OneSnapshotPerRule' /\ OneLatePerRule' /\ AnchorAhead'
    BY <2>1, <2>2 DEF PostInv, PostedBehind, CronsApart, FlagSet, QueueWhilePosting, OneSnapshotPerRule,
       OneLatePerRule, AnchorAhead, Runners
  <2>4. \A r, due : Current(r, due)' = Current(r, due)
    BY <2>1 DEF Current
  <2>5. QueueCurrent' /\ LateCurrent'
    BY <2>1, <2>2, <2>4 DEF PostInv, PostedBehind, QueueCurrent, LateCurrent
  <2>6. QED
    BY <2>3, <2>5 DEF PostedBehind
<1>10. ASSUME NEW p \in late, Land(p) \/ Drop(p) PROVE PostedBehind'
  <2>1. CASE Land(p)
    BY <2>1, LandStep
  <2>2. CASE Drop(p)
    <3>1. late' \subseteq late /\ UNCHANGED <<status, nextDue, lock, running, run, posted, meanwhile>>
      BY <2>2 DEF Drop, history
    <3>2. \A r, due : Current(r, due)' = Current(r, due)
      BY <3>1 DEF Current
    <3>3. QED
      BY <3>1, <3>2 DEF PostInv, PostedBehind, CronsApart, FlagSet, QueueWhilePosting, OneSnapshotPerRule,
         OneLatePerRule, QueueCurrent, LateCurrent, AnchorAhead
  <2>3. QED
    BY <1>10, <2>1, <2>2
<1>11. ASSUME NEW r \in Rules, NEW d \in 0 .. MaxTime, CreateRule(r, d) \/ EditRule(r, d) \/ RemoveRule(r)
       PROVE  PostedBehind'
  BY <1>11, UserStep
<1>12. 0 \in 0 .. MaxTime
  BY TimeAssumption DEF TimeAssumption
<1>13. PostedBehind'
  BY <1>3, <1>4, <1>5, <1>6, <1>7, <1>8, <1>9, <1>10, <1>11, <1>12
     DEF Next, User, CronStep, RunStep, LateEnds, Runners
<1>14. QED
  BY <1>1, <1>13 DEF PostInv

LEMMA PostInit == Init => PostInv
<1> SUFFICES ASSUME Init PROVE PostInv
  OBVIOUS
<1>1. /\ \A x \in Runners : run[x].pc = "idle" /\ run[x].queue = {}
      /\ \A r \in Rules : status[r] = "none" /\ posted[r] = {}
      /\ late = {}
  BY DEF Init, IdleRun
<1>2. PostedBehind
  BY <1>1 DEF PostedBehind, CronsApart, FlagSet, QueueWhilePosting, OneSnapshotPerRule,
     OneLatePerRule, QueueCurrent, LateCurrent, AnchorAhead, Runners
<1>3. QED
  BY <1>2, DueInit DEF PostInv

LEMMA PostAlways == Spec => []PostInv
  BY PostInit, PostStep, PTL DEF Spec

\* What a run posts, or a dead run's transaction, from a date nobody has written
\* since, is current.
LEMMA UndisturbedIsCurrent ==
  ASSUME PostInv
  PROVE  /\ \A x \in Runners : \A q \in run[x].queue :
              PostRule(x, q) /\ q.rule \notin meanwhile[x] =>
                /\ Store(PostingOf(x, q)) /\ PostingOf(x, q) \in Posting /\ PostingOf(x, q).rule = q.rule
                /\ PostingOf(x, q).due <= PostingOf(x, q).asOf
                /\ Current(PostingOf(x, q).rule, PostingOf(x, q).due)
         /\ \A p \in late : Land(p) /\ ~p.stale =>
                Store(p) /\ p \in Posting /\ p.due <= p.asOf /\ Current(p.rule, p.due)
<1> USE DEF PostInv, DueInv, PostedBehind
<1>1. ASSUME NEW x \in Runners, NEW q \in run[x].queue, PostRule(x, q), q.rule \notin meanwhile[x]
      PROVE  /\ Store(PostingOf(x, q)) /\ PostingOf(x, q) \in Posting /\ PostingOf(x, q).rule = q.rule
             /\ PostingOf(x, q).due <= PostingOf(x, q).asOf
             /\ Current(PostingOf(x, q).rule, PostingOf(x, q).due)
  <2>1. /\ PostingOf(x, q) \in Posting /\ PostingOf(x, q).rule = q.rule /\ PostingOf(x, q).due = q.due
        /\ PostingOf(x, q).due <= PostingOf(x, q).asOf
    BY <1>1, PostRuleRuns, PostingFields
  <2>2. Current(q.rule, q.due)
    BY <1>1 DEF QueueCurrent
  <2>3. QED
    BY <1>1, <2>1, <2>2 DEF PostRule
<1>2. ASSUME NEW p \in late, Land(p), ~p.stale
      PROVE  Store(p) /\ p \in Posting /\ p.due <= p.asOf /\ Current(p.rule, p.due)
  BY <1>2 DEF Land, TypeOK, LateDue, LateCurrent
<1>3. QED
  BY <1>1, <1>2

\* However many instances run the cron, are cut short and catch up, whatever
\* COMMITs they leave behind, and whatever users edit, remove or run by hand
\* meanwhile: an occurrence is posted a second time only by a run that had read
\* its rule before a user, a manual run or a dead run's COMMIT wrote it.
THEOREM EachOccurrenceOnce == Spec => PostedOnce
<1> DEFINE Once == /\ \A x \in Runners : \A q \in run[x].queue :
                        PostRule(x, q) /\ q.rule \notin meanwhile[x]
                        => New(PostingOf(x, q)) \cap posted[q.rule] = {}
                   /\ \A p \in late : Land(p) /\ ~p.stale => New(p) \cap posted[p.rule] = {}
<1>1. PostInv => Once
  <2> SUFFICES ASSUME PostInv PROVE Once
    OBVIOUS
  <2>1. TypeOK
    BY DEF PostInv, DueInv
  <2>2. \A p \in Posting : p.due <= p.asOf /\ Store(p) /\ Current(p.rule, p.due)
                           => New(p) \cap posted[p.rule] = {}
    BY <2>1, StoreFresh
  <2>3. QED
    BY <2>2, UndisturbedIsCurrent
<1>2. PostInv /\ [Next]_vars => [Once]_vars
  BY <1>1
<1>3. QED
  BY <1>2, PostAlways, PTL DEF Spec, PostedOnce

\* On the same terms every posting of a live rule takes its date forward.
THEOREM EachPostingMovesOn == Spec => EachPostingAdvances
<1> DEFINE Forward == /\ \A x \in Runners : \A q \in run[x].queue :
                           PostRule(x, q) /\ q.rule \notin meanwhile[x] /\ status[q.rule] = "live"
                           => nextDue'[q.rule] > nextDue[q.rule]
                      /\ \A p \in late :
                           Land(p) /\ ~p.stale /\ status[p.rule] = "live"
                           => nextDue'[p.rule] > nextDue[p.rule]
<1>1. PostInv => Forward
  <2> SUFFICES ASSUME PostInv PROVE Forward
    OBVIOUS
  <2>1. TypeOK
    BY DEF PostInv, DueInv
  <2>2. \A p \in Posting : p.due <= p.asOf /\ Store(p) /\ Current(p.rule, p.due) /\ status[p.rule] = "live"
                           => nextDue'[p.rule] > nextDue[p.rule]
    BY <2>1, StoreFresh
  <2>3. QED
    BY <2>2, UndisturbedIsCurrent
<1>2. PostInv /\ [Next]_vars => [Forward]_vars
  BY <1>1
<1>3. QED
  BY <1>2, PostAlways, PTL DEF Spec, EachPostingAdvances

-----------------------------------------------------------------------------
(***************************************************************************)
(* What a user was told and what the runs, crons and calls alike, have     *)
(* still to tell was all posted.  The runs' counts are added up, so that   *)
(* no two runs announce the same posting.                                  *)
(***************************************************************************)
ToTell(u) == SumFunction([x \in Runners |-> run[x].count[u]])

ToldInv == \A u \in Users : told[u] + ToTell(u) <= total[u]

LEMMA RunnersFinite == IsFiniteSet(Runners)
  BY FS_Union, FiniteAssumption DEF FiniteAssumption, Runners

LEMMA ToTellType == ASSUME TypeOK, NEW u \in Users PROVE ToTell(u) \in Nat
<1>1. [x \in Runners |-> run[x].count[u]] \in [Runners -> Nat]
  BY RunFields
<1>2. QED
  BY <1>1, RunnersFinite, SumCovers DEF ToTell

\* When one run's count changes, what is still to be told does by as much.
LEMMA ToTellChange ==
  ASSUME TypeOK, TypeOK', NEW u \in Users, NEW x \in Runners,
         \A y \in Runners : y # x => run'[y].count[u] = run[y].count[u]
  PROVE  ToTell(u)' = ToTell(u) + (run'[x].count[u] - run[x].count[u])
<1> DEFINE f == [y \in Runners |-> run[y].count[u]]
           h == [y \in Runners |-> run'[y].count[u]]
<1>1. f \in [Runners -> Int]
  BY RunFields
<1>2. h \in [Runners -> Int]
  BY DEF TypeOK, RunState
<1>3. \A y \in Runners : y # x => h[y] = f[y]
  OBVIOUS
<1>4. h[x] = run'[x].count[u] /\ f[x] = run[x].count[u]
  OBVIOUS
<1>5. ToTell(u) = SumFunction(f) /\ ToTell(u)' = SumFunction(h)
  BY DEF ToTell
<1> HIDE DEF f, h
<1>6. SumFunction(h) = SumFunction(f) + (h[x] - f[x])
  BY <1>1, <1>2, <1>3, RunnersFinite, SumChange
<1>7. QED
  BY <1>4, <1>5, <1>6

\* A posting adds its occurrences to those of its user.
LEMMA StoreTotals ==
  ASSUME TypeOK, NEW p \in Posting, p.due <= p.asOf, Store(p), NEW u \in Users
  PROVE  /\ Missed(p.rule, p.due, p.asOf) \in Nat
         /\ total'[u] = IF u = RuleUser[p.rule] THEN total[u] + Missed(p.rule, p.due, p.asOf) ELSE total[u]
  BY StoreEffect

LEMMA ToldStep == DueInv /\ ToldInv /\ [Next]_vars => ToldInv'
<1> SUFFICES ASSUME DueInv, ToldInv, [Next]_vars PROVE ToldInv'
  OBVIOUS
<1> USE DEF DueInv, runs, history
<1>1. TypeOK'
  BY DueStep
<1>2. \A u \in Users : /\ told[u] \in Nat /\ total[u] \in Nat /\ ToTell(u) \in Nat
                       /\ told[u] + ToTell(u) <= total[u]
  BY ToTellType DEF TypeOK, ToldInv
<1>3. ASSUME UNCHANGED <<told, total>>, \A x \in Runners : run'[x].count = run[x].count PROVE ToldInv'
  BY <1>3 DEF ToldInv, ToTell
<1>4. ASSUME NEW x \in Runners, NEW q \in run[x].queue, PostRule(x, q) PROVE ToldInv'
  <2> DEFINE p == PostingOf(x, q)
             n == Missed(p.rule, p.due, p.asOf)
  <2>1. /\ p \in Posting /\ p.due <= p.asOf /\ p.rule = q.rule
        /\ p.due = q.due /\ p.asOf = run[x].asOf
    BY <1>4, PostRuleRuns, PostingFields
  <2>2. Store(p) /\ told' = told
    BY <1>4 DEF PostRule
  <2> HIDE DEF p
  <2>3. n = Missed(q.rule, q.due, run[x].asOf)
    BY <2>1
  <2>4. SUFFICES ASSUME NEW u \in Users PROVE told'[u] + ToTell(u)' <= total'[u]
    BY DEF ToldInv
  <2>5. n \in Nat /\ total'[u] = IF u = RuleUser[q.rule] THEN total[u] + n ELSE total[u]
    BY <2>1, <2>2, StoreTotals
  <2> HIDE DEF n
  <2>6. /\ run'[x].count[u] = IF u = RuleUser[q.rule] THEN run[x].count[u] + n ELSE run[x].count[u]
        /\ \A y \in Runners : y # x => run'[y].count[u] = run[y].count[u]
    BY <1>4, <2>3, PostRuleRuns
  <2>7. ToTell(u)' = ToTell(u) + (run'[x].count[u] - run[x].count[u]) /\ run[x].count[u] \in Nat
    BY <1>1, <2>6, ToTellChange, RunFields
  <2>8. QED
    BY <1>2, <2>2, <2>5, <2>6, <2>7
<1>5. ASSUME NEW x \in Runners, NEW v \in Users, Tell(x, v) PROVE ToldInv'
  <2>1. /\ told' = [told EXCEPT ![v] = @ + run[x].count[v]] /\ total' = total
        /\ run'  = [run EXCEPT ![x].pc = "telling", ![x].count[v] = 0]
    BY <1>5 DEF Tell
  <2>2. SUFFICES ASSUME NEW u \in Users PROVE told'[u] + ToTell(u)' <= total'[u]
    BY DEF ToldInv
  <2>3. /\ run'[x].count[u] = IF u = v THEN 0 ELSE run[x].count[u]
        /\ \A y \in Runners : y # x => run'[y].count[u] = run[y].count[u]
    BY <2>1, RunFields DEF TypeOK, RunState
  <2>4. ToTell(u)' = ToTell(u) + (run'[x].count[u] - run[x].count[u]) /\ run[x].count[u] \in Nat
    BY <1>1, <2>3, ToTellChange, RunFields
  <2>5. told'[u] = IF u = v THEN told[u] + run[x].count[u] ELSE told[u]
    BY <2>1 DEF TypeOK
  <2>6. QED
    BY <1>2, <2>1, <2>3, <2>4, <2>5
<1>6. ASSUME NEW x \in Runners, EndRun(x), UNCHANGED <<told, total>> PROVE ToldInv'
  <2>1. SUFFICES ASSUME NEW u \in Users PROVE told'[u] + ToTell(u)' <= total'[u]
    BY DEF ToldInv
  <2>2. run'[x].count[u] = 0 /\ \A y \in Runners : y # x => run'[y].count[u] = run[y].count[u]
    BY <1>6 DEF EndRun, IdleRun, NoCount, TypeOK
  <2>3. ToTell(u)' = ToTell(u) + (run'[x].count[u] - run[x].count[u]) /\ run[x].count[u] \in Nat
    BY <1>1, <2>2, ToTellChange, RunFields
  <2>4. QED
    BY <1>2, <1>6, <2>2, <2>3
<1>7. CASE Tick \/ User \/ UNCHANGED vars
  <2>1. UNCHANGED <<told, total>>
    BY <1>7 DEF Tick, User, CreateRule, EditRule, RemoveRule, Call, vars
  <2>2. \A x \in Runners : run'[x].count = run[x].count
    BY <1>7 DEF Tick, User, CreateRule, EditRule, RemoveRule, Call, vars, TypeOK, RunState
  <2>3. QED
    BY <1>3, <2>1, <2>2
<1>8. ASSUME NEW x \in Runners, Select(x) PROVE ToldInv'
  BY <1>3, <1>8, SelectRuns DEF Select
<1>9. ASSUME NEW i \in Instances, Fire(i) \/ TryLock(i) PROVE ToldInv'
  <2>1. \E s \in {"locking", "started"} : run' = [run EXCEPT ![i].pc = s]
    BY <1>9 DEF Fire, TryLock
  <2>2. \A x \in Runners : run'[x].count = run[x].count
    BY <2>1 DEF TypeOK, RunState
  <2>3. UNCHANGED <<told, total>>
    BY <1>9 DEF Fire, TryLock
  <2>4. QED
    BY <1>3, <2>2, <2>3
<1>10. ASSUME NEW x \in Runners, Skip(x) \/ Stop(x) \/ Finish(x) \/ (\E q \in run[x].queue : FailRule(x, q))
       PROVE  ToldInv'
  BY <1>6, <1>10 DEF Skip, Stop, Finish, FailRule
<1>11. ASSUME NEW p \in late, Land(p) PROVE ToldInv'
  <2>1. p \in Posting /\ p.due <= p.asOf /\ Store(p) /\ told' = told /\ run' = run
    BY <1>11 DEF Land, TypeOK, LateDue
  <2>2. SUFFICES ASSUME NEW u \in Users PROVE told'[u] + ToTell(u)' <= total'[u]
    BY DEF ToldInv
  <2>3. total[u] \in Nat /\ total'[u] \in Nat /\ total'[u] >= total[u]
    BY <1>2, <2>1, StoreTotals
  <2>4. ToTell(u)' = ToTell(u)
    BY <2>1 DEF ToTell
  <2>5. QED
    BY <1>2, <2>1, <2>3, <2>4
<1>12. ASSUME NEW p \in late, Drop(p) PROVE ToldInv'
  BY <1>3, <1>12 DEF Drop
<1>13. QED
  BY <1>4, <1>5, <1>7, <1>8, <1>9, <1>10, <1>11, <1>12 DEF Next, CronStep, RunStep, LateEnds, Runners

\* Whatever crons and calls run at once, fail, are cut short or commit late, no user is told
\* of more occurrences than were posted.
THEOREM ToldIsPosted == Spec => []ToldOnlyPosted
<1>1. Init => ToldInv
  <2> SUFFICES ASSUME Init, NEW u \in Users PROVE told[u] + ToTell(u) <= total[u]
    BY DEF ToldInv
  <2>1. [x \in Runners |-> run[x].count[u]] = [x \in Runners |-> 0]
    BY DEF Init, IdleRun, NoCount
  <2>2. ToTell(u) = 0
    BY <2>1, RunnersFinite, SumOfNoughts DEF ToTell
  <2>3. QED
    BY <2>2 DEF Init, NoCount
<1>2. DueInv /\ ToldInv => ToldOnlyPosted
  <2> SUFFICES ASSUME DueInv, ToldInv, NEW u \in Users PROVE told[u] <= total[u]
    BY DEF ToldOnlyPosted
  <2>1. told[u] \in Nat /\ total[u] \in Nat /\ ToTell(u) \in Nat
    BY ToTellType DEF DueInv, TypeOK
  <2>2. QED
    BY <2>1 DEF ToldInv
<1>3. QED
  BY <1>1, <1>2, ToldStep, DueAlways, PTL DEF Spec

-----------------------------------------------------------------------------
\* RecurrenceCalendar: what the UTC methods of Date do, and nextOccurrence.

\* The day d of month m of year y.
Date(y, m, d) == MonthStart(y, m) + d - 1
LeapDay(y) == IF Leap(y) THEN 1 ELSE 0

\* The months are finitely many, and so are the leap years before a year.
LEMMA Months == IsFiniteSet(0 .. 11)
<1>1. \A a, b \in Int : IsFiniteSet(a .. b)
  BY FS_Interval
<1>2. 0 \in Int /\ 11 \in Int
  OBVIOUS
<1>3. QED
  BY <1>1, <1>2, Zenon

LEMMA LeapsBefore ==
  ASSUME NEW y \in Nat
  PROVE  LET leaps == {x \in 1970 .. y - 1 : Leap(x)}
         IN  IsFiniteSet(leaps) /\ Cardinality(leaps) \in Nat
<1> DEFINE Before(z) == {x \in 1970 .. z - 1 : Leap(x)}
<1>1. IsFiniteSet(1970 .. y - 1)
  BY FS_Interval
<1>2. Before(y) \in SUBSET (1970 .. y - 1)
  OBVIOUS
<1>3. IsFiniteSet(Before(y))
  BY <1>1, <1>2, FS_Subset
<1>4. QED
  BY <1>3, FS_CardinalityType

\* A year has 365 days, a leap year one more.
LEMMA LeapYears ==
  ASSUME NEW y \in Nat, 1970 <= y
  PROVE  /\ YearStart(y) \in Int
         /\ YearStart(y + 1) = YearStart(y) + 365 + LeapDay(y)
<1> DEFINE Before(z) == {x \in 1970 .. z - 1 : Leap(x)}
<1>1. IsFiniteSet(Before(y)) /\ Cardinality(Before(y)) \in Nat
  BY LeapsBefore
<1>2. y \notin Before(y)
  OBVIOUS
<1>3. CASE Leap(y)
  <2>1. Before(y + 1) = Before(y) \cup {y}
    BY <1>3
  <2>2. Cardinality(Before(y + 1)) = Cardinality(Before(y)) + 1
    BY <1>1, <1>2, <2>1, FS_AddElement
  <2>3. QED
    BY <1>1, <1>3, <2>2 DEF YearStart, LeapDay
<1>4. CASE ~Leap(y)
  <2>1. Before(y + 1) = Before(y)
    BY <1>4
  <2>2. QED
    BY <1>1, <1>4, <2>1 DEF YearStart, LeapDay
<1>5. QED
  BY <1>3, <1>4

\* Years begin one after the other.
LEMMA YearsInOrder ==
  ASSUME NEW y \in Nat, 1970 <= y, NEW z \in Nat, y <= z
  PROVE  YearStart(y) <= YearStart(z)
<1> DEFINE Before(x) == {k \in 1970 .. x - 1 : Leap(k)}
<1>1. /\ IsFiniteSet(Before(y)) /\ Cardinality(Before(y)) \in Nat
      /\ IsFiniteSet(Before(z)) /\ Cardinality(Before(z)) \in Nat
  BY LeapsBefore
<1>2. Before(y) \in SUBSET Before(z)
  OBVIOUS
<1>3. Cardinality(Before(y)) <= Cardinality(Before(z))
  BY <1>1, <1>2, FS_Subset
<1>4. /\ YearStart(y) = 365 * (y - 1970) + Cardinality(Before(y))
      /\ YearStart(z) = 365 * (z - 1970) + Cardinality(Before(z))
  BY DEF YearStart
<1> HIDE DEF Before
<1>5. QED
  BY <1>1, <1>3, <1>4

\* No month is shorter than 28 days or longer than 31.
LEMMA DaysInType ==
  ASSUME NEW y \in Nat, NEW m \in 0 .. 11
  PROVE  DaysIn(y, m) \in 28 .. 31
  BY DEF DaysIn

\* January begins with the year; a month ends where the next one begins.
LEMMA FirstMonth ==
  ASSUME NEW y \in Nat, 1970 <= y
  PROVE  MonthStart(y, 0) = YearStart(y)
<1>1. [k \in 0 .. 11 |-> IF k < 0 THEN DaysIn(y, k) ELSE 0] = [k \in 0 .. 11 |-> 0]
  OBVIOUS
<1>2. IsFiniteSet(0 .. 11)
  BY Months
<1>3. SumFunction([k \in 0 .. 11 |-> IF k < 0 THEN DaysIn(y, k) ELSE 0]) = 0
  BY <1>1, <1>2, SumOfNoughts
<1>4. QED
  BY <1>3, LeapYears DEF MonthStart

LEMMA NextMonth ==
  ASSUME NEW y \in Nat, 1970 <= y, NEW m \in 0 .. 11
  PROVE  /\ MonthStart(y, m) \in Int
         /\ MonthStart(y, m + 1) = MonthStart(y, m) + DaysIn(y, m)
<1> DEFINE D(n) == [k \in 0 .. 11 |-> IF k < n THEN DaysIn(y, k) ELSE 0]
<1>1. IsFiniteSet(0 .. 11)
  BY Months
<1>2. ASSUME NEW n \in Nat PROVE D(n) \in [0 .. 11 -> Int]
  BY DaysInType
<1>3. SumFunction(D(m)) \in Int
  BY <1>1, <1>2, SumType
<1>4. \A k \in 0 .. 11 : k # m => D(m + 1)[k] = D(m)[k]
  OBVIOUS
<1>5. SumFunction(D(m + 1)) = SumFunction(D(m)) + (D(m + 1)[m] - D(m)[m])
  <2>1. D(m) \in [0 .. 11 -> Int] /\ D(m + 1) \in [0 .. 11 -> Int]
    BY <1>2
  <2> HIDE DEF D
  <2>2. QED
    BY <1>1, <1>4, <2>1, SumChange
<1>6. D(m + 1)[m] - D(m)[m] = DaysIn(y, m)
  BY DaysInType
<1>7. QED
  BY <1>3, <1>5, <1>6, LeapYears, DaysInType DEF MonthStart

\* The days before each month of a year, and December ends with the year.
LEMMA MonthTable ==
  ASSUME NEW y \in Nat, 1970 <= y
  PROVE  /\ MonthStart(y, 0)  = YearStart(y)
         /\ MonthStart(y, 1)  = YearStart(y) + 31
         /\ MonthStart(y, 2)  = YearStart(y) + 59 + LeapDay(y)
         /\ MonthStart(y, 3)  = YearStart(y) + 90 + LeapDay(y)
         /\ MonthStart(y, 4)  = YearStart(y) + 120 + LeapDay(y)
         /\ MonthStart(y, 5)  = YearStart(y) + 151 + LeapDay(y)
         /\ MonthStart(y, 6)  = YearStart(y) + 181 + LeapDay(y)
         /\ MonthStart(y, 7)  = YearStart(y) + 212 + LeapDay(y)
         /\ MonthStart(y, 8)  = YearStart(y) + 243 + LeapDay(y)
         /\ MonthStart(y, 9)  = YearStart(y) + 273 + LeapDay(y)
         /\ MonthStart(y, 10) = YearStart(y) + 304 + LeapDay(y)
         /\ MonthStart(y, 11) = YearStart(y) + 334 + LeapDay(y)
         /\ MonthStart(y, 12) = YearStart(y + 1)
<1>1. \A m \in 0 .. 11 : MonthStart(y, m) \in Int /\ MonthStart(y, m + 1) = MonthStart(y, m) + DaysIn(y, m)
  BY NextMonth
<1>2. /\ DaysIn(y, 0) = 31 /\ DaysIn(y, 1) = 28 + LeapDay(y) /\ DaysIn(y, 2) = 31
      /\ DaysIn(y, 3) = 30 /\ DaysIn(y, 4) = 31 /\ DaysIn(y, 5) = 30
      /\ DaysIn(y, 6) = 31 /\ DaysIn(y, 7) = 31 /\ DaysIn(y, 8) = 30
      /\ DaysIn(y, 9) = 31 /\ DaysIn(y, 10) = 30 /\ DaysIn(y, 11) = 31
  BY DEF DaysIn, LeapDay
<1>3. /\ YearStart(y) \in Int
      /\ YearStart(y + 1) = YearStart(y) + 365 + LeapDay(y)
      /\ LeapDay(y) \in {0, 1}
  BY LeapYears DEF LeapDay
<1>4. MonthStart(y, 0) = YearStart(y)
  BY FirstMonth
<1>5. MonthStart(y, 1) = YearStart(y) + 31 /\ MonthStart(y, 2) = YearStart(y) + 59 + LeapDay(y)
  BY <1>1, <1>2, <1>3, <1>4
<1>6. MonthStart(y, 3) = YearStart(y) + 90 + LeapDay(y) /\ MonthStart(y, 4) = YearStart(y) + 120 + LeapDay(y)
  BY <1>1, <1>2, <1>3, <1>5
<1>7. MonthStart(y, 5) = YearStart(y) + 151 + LeapDay(y) /\ MonthStart(y, 6) = YearStart(y) + 181 + LeapDay(y)
  BY <1>1, <1>2, <1>3, <1>6
<1>8. MonthStart(y, 7) = YearStart(y) + 212 + LeapDay(y) /\ MonthStart(y, 8) = YearStart(y) + 243 + LeapDay(y)
  BY <1>1, <1>2, <1>3, <1>7
<1>9. MonthStart(y, 9) = YearStart(y) + 273 + LeapDay(y) /\ MonthStart(y, 10) = YearStart(y) + 304 + LeapDay(y)
  BY <1>1, <1>2, <1>3, <1>8
<1>10. MonthStart(y, 11) = YearStart(y) + 334 + LeapDay(y) /\ MonthStart(y, 12) = YearStart(y + 1)
  BY <1>1, <1>2, <1>3, <1>9
<1>11. QED
  BY <1>4, <1>5, <1>6, <1>7, <1>8, <1>9, <1>10

\* Months begin one after the other.
LEMMA MonthsInOrder ==
  ASSUME NEW y \in Nat, 1970 <= y, NEW m \in 0 .. 12, NEW n \in 0 .. 12, m <= n
  PROVE  /\ MonthStart(y, m) \in Int /\ MonthStart(y, n) \in Int
         /\ MonthStart(y, m) <= MonthStart(y, n)
<1>1. /\ YearStart(y) \in Int
      /\ YearStart(y + 1) = YearStart(y) + 365 + LeapDay(y)
      /\ LeapDay(y) \in {0, 1}
  BY LeapYears DEF LeapDay
<1>2. QED
  BY <1>1, MonthTable

\* The years FullYear can tell.
Years == FirstYear .. LastYear + 1

LEMMA YearsType == \A y \in Years : y \in Nat /\ 1970 <= y
  BY YearAssumption DEF YearAssumption, Years

\* getUTCFullYear, getUTCMonth and getUTCDate take apart what Date.UTC put
\* together.
LEMMA DateIsUnique ==
  ASSUME NEW y \in Years, NEW m \in 0 .. 11, NEW d \in 1 .. DaysIn(y, m)
  PROVE  /\ Date(y, m, d) \in Int
         /\ FullYear(Date(y, m, d)) = y
         /\ Month(Date(y, m, d)) = m
         /\ DayOf(Date(y, m, d)) = d
<1> DEFINE t == Date(y, m, d)
<1>1. y \in Nat /\ 1970 <= y /\ d \in Int /\ DaysIn(y, m) \in 28 .. 31
  BY YearsType, DaysInType
<1>2. /\ MonthStart(y, m) \in Int
      /\ MonthStart(y, m + 1) = MonthStart(y, m) + DaysIn(y, m)
  BY <1>1, NextMonth
<1>3. t \in Int /\ MonthStart(y, m) <= t /\ t < MonthStart(y, m + 1)
  BY <1>1, <1>2 DEF Date
<1>4. YearStart(y) <= t /\ t < YearStart(y + 1)
  <2>1. MonthStart(y, 0) = YearStart(y) /\ MonthStart(y, 12) = YearStart(y + 1)
    BY <1>1, MonthTable
  <2>2. MonthStart(y, 0) \in Int /\ MonthStart(y, 0) <= MonthStart(y, m)
    BY <1>1, MonthsInOrder
  <2>3. MonthStart(y, 12) \in Int /\ MonthStart(y, m + 1) <= MonthStart(y, 12)
    BY <1>1, MonthsInOrder
  <2>4. QED
    BY <1>1, <1>2, <1>3, <2>1, <2>2, <2>3
<1>5. ASSUME NEW z \in Years, YearStart(z) <= t, t < YearStart(z + 1) PROVE z = y
  <2>1. z \in Nat /\ 1970 <= z
    BY YearsType
  <2>2. YearStart(z) \in Int /\ YearStart(z + 1) \in Int /\ YearStart(y) \in Int /\ YearStart(y + 1) \in Int
    BY <1>1, <2>1, LeapYears DEF LeapDay
  <2>3. CASE z < y
    <3>1. YearStart(z + 1) <= YearStart(y)
      BY <1>1, <2>1, <2>3, YearsInOrder
    <3>2. QED
      BY <1>3, <1>4, <1>5, <2>2, <3>1
  <2>4. CASE y < z
    <3>1. YearStart(y + 1) <= YearStart(z)
      BY <1>1, <2>1, <2>4, YearsInOrder
    <3>2. QED
      BY <1>3, <1>4, <1>5, <2>2, <3>1
  <2>5. QED
    BY <1>1, <2>1, <2>3, <2>4
<1>6. FullYear(t) = y
  BY <1>4, <1>5 DEF FullYear, Years
<1>7. ASSUME NEW k \in 0 .. 11 PROVE MonthStart(y, k) <= t <=> k <= m
  <2>1. MonthStart(y, k) \in Int
    BY <1>1, NextMonth
  <2>2. CASE k <= m
    <3>1. MonthStart(y, k) <= MonthStart(y, m)
      BY <1>1, <2>2, MonthsInOrder
    <3>2. QED
      BY <1>2, <1>3, <2>1, <2>2, <3>1
  <2>3. CASE m < k
    <3>1. MonthStart(y, m + 1) <= MonthStart(y, k)
      BY <1>1, <2>3, MonthsInOrder
    <3>2. QED
      BY <1>1, <1>2, <1>3, <2>1, <2>3, <3>1
  <2>4. QED
    BY <2>2, <2>3
<1>8. Month(t) = m
  <2> DEFINE S == {k \in 0 .. 11 : MonthStart(y, k) <= t}
  <2>1. S = 0 .. m
    BY <1>7
  <2>2. Max(0 .. m) = m
    BY DEF Max
  <2>3. QED
    BY <1>6, <2>1, <2>2 DEF Month
<1>9. DayOf(t) = d
  BY <1>1, <1>2, <1>6, <1>8 DEF DayOf, Date
<1>10. QED
  BY <1>3, <1>6, <1>8, <1>9

\* Every number of days is a date.
LEMMA EveryDay ==
  ASSUME NEW y \in Years, NEW t \in YearStart(y) .. YearStart(y + 1) - 1
  PROVE  \E m \in 0 .. 11 : \E d \in 1 .. DaysIn(y, m) : t = Date(y, m, d)
<1>1. y \in Nat /\ 1970 <= y
  BY YearsType
<1>2. /\ YearStart(y) \in Int
      /\ YearStart(y + 1) = YearStart(y) + 365 + LeapDay(y)
      /\ LeapDay(y) \in {0, 1}
  BY <1>1, LeapYears DEF LeapDay
<1>3. \E m \in 0 .. 11 : MonthStart(y, m) <= t /\ t < MonthStart(y, m + 1)
  BY <1>1, <1>2, MonthTable
<1>4. PICK m \in 0 .. 11 : MonthStart(y, m) <= t /\ t < MonthStart(y, m + 1)
  BY <1>3
<1>5. MonthStart(y, m) \in Int /\ MonthStart(y, m + 1) = MonthStart(y, m) + DaysIn(y, m)
  BY <1>1, NextMonth
<1>6. DaysIn(y, m) \in Int
  BY <1>1, DaysInType
<1>7. t - MonthStart(y, m) + 1 \in 1 .. DaysIn(y, m)
  BY <1>2, <1>4, <1>5, <1>6
<1>8. t = Date(y, m, t - MonthStart(y, m) + 1)
  BY <1>2, <1>5 DEF Date
<1>9. QED
  BY <1>7, <1>8

\* Math.min of two.
LEMMA MinOfTwo ==
  ASSUME NEW a \in Int, NEW b \in Int
  PROVE  Min({a, b}) = IF a <= b THEN a ELSE b
  BY DEF Min

\* The month after.
YearAfter(y, m)  == IF m = 11 THEN y + 1 ELSE y
MonthAfter(m)    == IF m = 11 THEN 0 ELSE m + 1

\* A month past December carries into the next year.
LEMMA UTCDate ==
  ASSUME NEW y \in Nat, NEW m \in 0 .. 11, NEW d \in Int
  PROVE  /\ UTC(y, m, d) = Date(y, m, d)
         /\ UTC(y, m + 1, d) = Date(YearAfter(y, m), MonthAfter(m), d)
  BY DEF UTC, Date, YearAfter, MonthAfter

\* The day before the first of the next month is the last of this one.
LEMMA MonthEnd ==
  ASSUME NEW y \in Nat, 1970 <= y, NEW m \in 0 .. 11
  PROVE  MonthStart(YearAfter(y, m), MonthAfter(m)) = MonthStart(y, m) + DaysIn(y, m)
<1>1. CASE m = 11
  <2>1. MonthStart(y + 1, 0) = YearStart(y + 1)
    BY FirstMonth
  <2>2. MonthStart(y, 12) = YearStart(y + 1)
    BY MonthTable
  <2>3. MonthStart(y, m + 1) = MonthStart(y, m) + DaysIn(y, m)
    BY NextMonth
  <2>4. QED
    BY <1>1, <2>1, <2>2, <2>3 DEF YearAfter, MonthAfter
<1>2. CASE m # 11
  BY <1>2, NextMonth DEF YearAfter, MonthAfter
<1>3. QED
  BY <1>1, <1>2

\* What nextOccurrence computes for a monthly rule: the same day of the next
\* month, or its last day when it has no such day.
LEMMA NextMonthly ==
  ASSUME NEW y \in FirstYear .. LastYear, NEW m \in 0 .. 11, NEW d \in 1 .. DaysIn(y, m),
         YearAfter(y, m) <= LastYear
  PROVE  LET z == YearAfter(y, m)
             n == MonthAfter(m)
             e == IF d <= DaysIn(z, n) THEN d ELSE DaysIn(z, n)
         IN  /\ z \in FirstYear .. LastYear /\ n \in 0 .. 11 /\ e \in 1 .. DaysIn(z, n)
             /\ NextOccurrence(Date(y, m, d), "monthly") = Date(z, n, e)
<1> DEFINE z == YearAfter(y, m)
           n == MonthAfter(m)
           e == IF d <= DaysIn(z, n) THEN d ELSE DaysIn(z, n)
           t == Date(y, m, d)
<1>1. /\ y \in Years /\ y \in Nat /\ 1970 <= y
      /\ z \in FirstYear .. LastYear /\ z \in Years /\ z \in Nat /\ 1970 <= z
      /\ n \in 0 .. 11
  BY YearAssumption DEF YearAssumption, Years, YearAfter, MonthAfter
<1>2. DaysIn(y, m) \in 28 .. 31 /\ DaysIn(z, n) \in 28 .. 31 /\ d \in Int
  BY <1>1, DaysInType
<1>3. e \in 1 .. DaysIn(z, n)
  BY <1>2
<1>4. FullYear(t) = y /\ Month(t) = m /\ DayOf(t) = d
  BY <1>1, DateIsUnique
<1>5. UTC(y, m + 1, 1) = Date(z, n, 1)
  BY <1>1, UTCDate
<1>6. FullYear(Date(z, n, 1)) = z /\ Month(Date(z, n, 1)) = n
  <2>1. 1 \in 1 .. DaysIn(z, n)
    BY <1>2
  <2>2. QED
    BY <1>1, <2>1, DateIsUnique
<1>7. UTC(z, n + 1, 0) = Date(z, n, DaysIn(z, n))
  <2>1. UTC(z, n + 1, 0) = Date(YearAfter(z, n), MonthAfter(n), 0)
    BY <1>1, UTCDate
  <2>2. MonthStart(YearAfter(z, n), MonthAfter(n)) = MonthStart(z, n) + DaysIn(z, n)
    BY <1>1, MonthEnd
  <2>3. MonthStart(z, n) \in Int
    BY <1>1, NextMonth
  <2>4. QED
    BY <1>2, <2>1, <2>2, <2>3 DEF Date
<1>8. DayOf(Date(z, n, DaysIn(z, n))) = DaysIn(z, n)
  <2>1. DaysIn(z, n) \in 1 .. DaysIn(z, n)
    BY <1>2
  <2>2. QED
    BY <1>1, <2>1, DateIsUnique
<1>9. Min({d, DaysIn(z, n)}) = e
  BY <1>2, MinOfTwo
<1>10. UTC(z, n, e) = Date(z, n, e)
  BY <1>1, <1>2, <1>3, UTCDate
<1>11. NextOccurrence(t, "monthly") = UTC(z, n, Min({d, DaysIn(z, n)}))
  BY <1>4, <1>5, <1>6, <1>7, <1>8 DEF NextOccurrence
<1>12. QED
  BY <1>1, <1>3, <1>9, <1>10, <1>11

\* It lies 28 to 31 days later.
LEMMA MonthlyGap ==
  ASSUME NEW y \in FirstYear .. LastYear, NEW m \in 0 .. 11, NEW d \in 1 .. DaysIn(y, m),
         YearAfter(y, m) <= LastYear
  PROVE  NextOccurrence(Date(y, m, d), "monthly") - Date(y, m, d) \in 28 .. 31
<1> DEFINE z == YearAfter(y, m)
           n == MonthAfter(m)
           e == IF d <= DaysIn(z, n) THEN d ELSE DaysIn(z, n)
<1>1. /\ y \in Nat /\ 1970 <= y /\ z \in Nat /\ n \in 0 .. 11
      /\ NextOccurrence(Date(y, m, d), "monthly") = Date(z, n, e)
  BY YearAssumption, NextMonthly DEF YearAssumption, YearAfter, MonthAfter
<1>2. DaysIn(y, m) \in 28 .. 31 /\ DaysIn(z, n) \in 28 .. 31 /\ d \in Int
  BY <1>1, DaysInType
<1>3. MonthStart(z, n) = MonthStart(y, m) + DaysIn(y, m) /\ MonthStart(y, m) \in Int
  BY <1>1, MonthEnd, NextMonth
<1>4. Date(z, n, e) - Date(y, m, d) = DaysIn(y, m) - d + e
  BY <1>2, <1>3 DEF Date
<1>5. QED
  BY <1>1, <1>2, <1>4

\* A date the monthly rule can be due at: one of the bounded years, its day at
\* most the anchor's and at least the 28th or the anchor's.
Anchored(t) ==
    \E y \in FirstYear .. LastYear, m \in 0 .. 11 : \E d \in 1 .. DaysIn(y, m) :
        t = Date(y, m, d) /\ d \in Min({28, DayOf(start)}) .. DayOf(start)

CalendarInv ==
    /\ dueDate \in Int
    /\ frequency \in {"weekly", "monthly"}
    /\ DayOf(start) \in 1 .. 31
    /\ frequency = "monthly" => Anchored(dueDate)

\* A rule starts at a date of the first year, on its own anchor day.
LEMMA CalendarStart == CalendarInit => CalendarInv
<1> SUFFICES ASSUME CalendarInit PROVE CalendarInv
  OBVIOUS
<1>1. FirstYear \in Years /\ FirstYear \in FirstYear .. LastYear /\ FirstYear \in Nat
  BY YearAssumption DEF YearAssumption, Years
<1>2. PICK m \in 0 .. 11 : \E d \in 1 .. DaysIn(FirstYear, m) : start = Date(FirstYear, m, d)
  BY <1>1, EveryDay DEF CalendarInit
<1>3. PICK d \in 1 .. DaysIn(FirstYear, m) : start = Date(FirstYear, m, d)
  BY <1>2
<1>4. start \in Int /\ DayOf(start) = d
  BY <1>1, <1>3, DateIsUnique
<1>5. d \in 1 .. 31
  BY <1>1, DaysInType
<1>6. d \in Min({28, d}) .. d
  BY <1>5, MinOfTwo
<1>7. Anchored(start)
  BY <1>1, <1>3, <1>4, <1>6 DEF Anchored
<1>8. QED
  BY <1>4, <1>5, <1>7 DEF CalendarInit, CalendarInv

\* What one posting does to the date of a monthly rule.
LEMMA MonthlyStep ==
  ASSUME CalendarInv, Advance, frequency = "monthly"
  PROVE  /\ Anchored(dueDate')
         /\ MonthNumber(dueDate') = MonthNumber(dueDate) + 1
         /\ dueDate' - dueDate \in 28 .. 31
<1>1. PICK y \in FirstYear .. LastYear, m \in 0 .. 11 : \E d \in 1 .. DaysIn(y, m) :
        dueDate = Date(y, m, d) /\ d \in Min({28, DayOf(start)}) .. DayOf(start)
  BY DEF CalendarInv, Anchored
<1>2. PICK d \in 1 .. DaysIn(y, m) :
        dueDate = Date(y, m, d) /\ d \in Min({28, DayOf(start)}) .. DayOf(start)
  BY <1>1
<1> DEFINE z == YearAfter(y, m)
           n == MonthAfter(m)
           e == IF d <= DaysIn(z, n) THEN d ELSE DaysIn(z, n)
<1>3. /\ y \in Nat /\ 1970 <= y /\ y \in Years
      /\ LastYear \in Nat /\ LastYear \in Years /\ 1970 <= LastYear
  BY YearAssumption DEF YearAssumption, Years
<1>4. FullYear(dueDate) = y /\ Month(dueDate) = m
  BY <1>2, <1>3, DateIsUnique
<1>5. z <= LastYear
  <2>1. YearStart(y) <= dueDate /\ YearStart(y) \in Int /\ YearStart(LastYear) \in Int /\ dueDate \in Int
    <3>1. MonthStart(y, 0) = YearStart(y) /\ MonthStart(y, 0) <= MonthStart(y, m) /\ MonthStart(y, m) \in Int
      BY <1>3, FirstMonth, MonthsInOrder
    <3>2. d \in Int /\ 1 <= d
      BY <1>3, DaysInType
    <3>3. YearStart(y) \in Int /\ YearStart(LastYear) \in Int
      BY <1>3, LeapYears
    <3>4. QED
      BY <1>2, <3>1, <3>2, <3>3 DEF Date
  <2>2. y # LastYear
    BY <2>1 DEF Advance
  <2>3. QED
    BY <1>3, <2>2 DEF YearAfter
<1>6. /\ z \in FirstYear .. LastYear /\ n \in 0 .. 11 /\ e \in 1 .. DaysIn(z, n)
      /\ NextOccurrence(Date(y, m, d), "monthly") = Date(z, n, e)
  BY <1>5, NextMonthly
<1>7. dueDate' = Date(z, n, e) /\ start' = start
  BY <1>2, <1>6 DEF Advance
<1>8. DayOf(start) \in 1 .. 31
  BY DEF CalendarInv
<1>9. e \in Min({28, DayOf(start)}) .. DayOf(start)
  <2>1. DaysIn(z, n) \in 28 .. 31
    BY <1>3, <1>6, DaysInType, YearsType DEF Years
  <2>2. Min({28, DayOf(start)}) = IF 28 <= DayOf(start) THEN 28 ELSE DayOf(start)
    BY <1>8, MinOfTwo
  <2>3. QED
    BY <1>2, <1>8, <2>1, <2>2
<1>10. Anchored(dueDate')
  BY <1>6, <1>7, <1>9 DEF Anchored
<1>11. FullYear(dueDate') = z /\ Month(dueDate') = n
  BY <1>6, <1>7, DateIsUnique, YearAssumption DEF YearAssumption, Years
<1>12. MonthNumber(dueDate') = MonthNumber(dueDate) + 1
  BY <1>3, <1>4, <1>11 DEF MonthNumber, YearAfter, MonthAfter
<1>13. dueDate' - dueDate \in 28 .. 31
  BY <1>2, <1>5, <1>6, <1>7, MonthlyGap
<1>14. QED
  BY <1>10, <1>12, <1>13

\* Every posting moves the date on, by one to just over four weeks.
LEMMA AdvanceGap ==
  ASSUME CalendarInv, Advance
  PROVE  dueDate' \in Int /\ dueDate' - dueDate \in 7 .. 31
<1>1. CASE frequency = "weekly"
  BY <1>1 DEF CalendarInv, Advance, NextOccurrence
<1>2. CASE frequency = "monthly"
  <2>1. dueDate' \in Int
    <3>1. Anchored(dueDate')
      BY <1>2, MonthlyStep
    <3>2. QED
      BY <3>1, DateIsUnique, YearAssumption DEF YearAssumption, Years, Anchored
  <2>2. QED
    BY <1>2, <2>1, MonthlyStep
<1>3. QED
  BY <1>1, <1>2 DEF CalendarInv

\* The invariant holds of every rule at any time.
LEMMA CalendarAlways == CalendarSpec => []CalendarInv
<1>1. ASSUME CalendarInv, [Advance]_ruleVars PROVE CalendarInv'
  <2>1. CASE Advance
    <3>1. start' = start /\ frequency' = frequency
      BY <2>1 DEF Advance
    <3>2. dueDate' \in Int
      BY <1>1, <2>1, AdvanceGap
    <3>3. frequency = "monthly" => Anchored(dueDate)'
      BY <1>1, <2>1, <3>1, MonthlyStep DEF Anchored
    <3>4. QED
      BY <1>1, <3>1, <3>2, <3>3 DEF CalendarInv
  <2>2. CASE UNCHANGED ruleVars
    BY <1>1, <2>2 DEF ruleVars, CalendarInv, Anchored
  <2>3. QED
    BY <1>1, <2>1, <2>2
<1>2. QED
  BY <1>1, CalendarStart, PTL DEF CalendarSpec

\* nextOccurrence: a monthly rule is never due later in a month than on the day
\* it was created for, and short months never take it back beyond the 28th,
\* for any first date and over any number of years.
THEOREM AnchorDayKept == CalendarSpec => []NeverPastAnchorDay
<1>1. CalendarInv => NeverPastAnchorDay
  <2> SUFFICES ASSUME CalendarInv, frequency = "monthly"
               PROVE  DayOf(dueDate) \in Min({28, DayOf(start)}) .. DayOf(start)
    BY DEF NeverPastAnchorDay
  <2>1. PICK y \in FirstYear .. LastYear, m \in 0 .. 11 : \E d \in 1 .. DaysIn(y, m) :
          dueDate = Date(y, m, d) /\ d \in Min({28, DayOf(start)}) .. DayOf(start)
    BY DEF CalendarInv, Anchored
  <2>2. QED
    BY <2>1, DateIsUnique, YearAssumption DEF YearAssumption, Years
<1>2. QED
  BY <1>1, CalendarAlways, PTL

\* nextOccurrence: a monthly rule is due in every calendar month exactly once,
\* through short months, leap years and the turn of the year.
THEOREM EveryMonthOnce == CalendarSpec => OncePerMonth
<1>1. ASSUME CalendarInv, [Advance]_ruleVars
      PROVE  [frequency = "monthly" => MonthNumber(dueDate') = MonthNumber(dueDate) + 1]_ruleVars
  BY <1>1, MonthlyStep
<1>2. QED
  BY <1>1, CalendarAlways, PTL DEF CalendarSpec, OncePerMonth

\* The catch-up loop of materialize ends: every posting moves a rule's date on
\* by 7 to 31 days, so Recurring may take the distance of a rule's occurrences
\* to be positive.
THEOREM PostingMovesOn ==
  CalendarSpec => [][dueDate' - dueDate \in 7 .. 31]_ruleVars
<1>1. ASSUME CalendarInv, [Advance]_ruleVars
      PROVE  [dueDate' - dueDate \in 7 .. 31]_ruleVars
  BY <1>1, AdvanceGap
<1>2. QED
  BY <1>1, CalendarAlways, PTL DEF CalendarSpec
=============================================================================
