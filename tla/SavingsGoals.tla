---------------------------- MODULE SavingsGoals ----------------------------
(***************************************************************************)
(* Savings goals: SavingsGoalsService.addFunds reads the goal, adds to the *)
(* saved amount in one relative update, and compares the fraction it read  *)
(* before with the one the update returned to decide which milestone to    *)
(* announce.  update writes what the client sends, absolutely.             *)
(***************************************************************************)
EXTENDS Integers, FiniteSetsExt

CONSTANTS
    Targets,    \* targetKhr values clients send
    TopUps,     \* top-ups
    Savers,     \* request slots
    MaxSaved,   \* bound: the largest savedKhr
    MaxEdits,   \* bound: edits and removals of the goal
    NoGoal,     \* the goal's row does not exist yet
    Removed     \* nor will it again

ASSUME TargetAssumption == Targets \subseteq Nat \ {0} /\ TopUps \subseteq Nat \ {0}
ASSUME BoundAssumption  == MaxSaved \in Nat /\ MaxEdits \in Nat

Goal   == [saved : 0 .. MaxSaved, target : Targets]
Marks  == {50, 100}
NoMark == 0

ASSUME NoGoalAssumption == NoGoal \notin Goal /\ Removed \notin Goal \cup {NoGoal}

VARIABLES
    goal,       \* the savings_goals row
    topUp,      \* what each top-up has read, then what it announces
    told,       \* savings_milestone notifications, per mark
    meanwhile,  \* history: what others changed since the top-up's read
    mixed,      \* history: a top-up was committed after such a change
    edits

goalVars == <<goal, topUp, told, meanwhile, mixed, edits>>

NoTopUp    == [pc |-> "idle"]
TopUpState == [pc : {"idle"}]
              \cup [pc : {"add"}, amount : TopUps, before : Goal]
              \cup [pc : {"tell"}, mark : Marks]
Changes    == {"growth", "edit"}

GoalTypeOK ==
    /\ goal      \in Goal \cup {NoGoal, Removed}
    /\ topUp     \in [Savers -> TopUpState]
    /\ told      \in [Marks -> Nat]
    /\ meanwhile \in [Savers -> SUBSET Changes]
    /\ mixed     \in BOOLEAN
    /\ edits     \in 0 .. MaxEdits

GoalInit ==
    /\ goal      = NoGoal
    /\ topUp     = [d \in Savers |-> NoTopUp]
    /\ told      = [m \in Marks |-> 0]
    /\ meanwhile = [d \in Savers |-> {}]
    /\ mixed     = FALSE
    /\ edits     = 0

-----
\* savedKhr / targetKhr >= 0.5 and >= 1.
HalfDone(g) == 2 * g.saved >= g.target
AllDone(g)  == g.saved >= g.target

\* Variants: the goal before the top-up is not looked at; 50 is tested before 100.
MarkReached(before, after) ==
    IF AllDone(after) THEN 100 ELSE IF HalfDone(after) THEN 50 ELSE NoMark

MarkHalfFirst(before, after) ==
    IF ~HalfDone(before) /\ HalfDone(after) THEN 50
    ELSE IF ~AllDone(before) /\ AllDone(after) THEN 100
    ELSE NoMark

\* maybeEmitMilestone: one mark at most, 100 before 50.
MarkOf(before, after) ==
    IF ~AllDone(before) /\ AllDone(after) THEN 100
    ELSE IF ~HalfDone(before) /\ HalfDone(after) THEN 50
    ELSE NoMark

\* What maybeEmitMilestone is called to announce when d's top-up makes the goal
\* `after`: the mark it is to announce, if any.
Announce(d, after) ==
    LET mark == MarkOf(topUp[d].before, after)
    IN  topUp' = [topUp EXCEPT ![d] = IF mark = NoMark THEN NoTopUp ELSE [pc |-> "tell", mark |-> mark]]

\* The history of the top-ups that have read the goal, but d's own, at a change.
SeenByTopUps(d, change) ==
    meanwhile' = [e \in Savers |-> IF e = d \/ topUp[e].pc # "add" THEN {} ELSE meanwhile[e] \cup {change}]

-----------------------------------------------------------------------------
CreateGoal(g) ==
    /\ goal = NoGoal
    /\ goal' = g
    /\ UNCHANGED <<topUp, told, meanwhile, mixed, edits>>

\* update, with a savedKhr, a targetKhr or both, and remove.
ChangeGoal(d, g) ==
    /\ edits < MaxEdits
    /\ topUp[d] = NoTopUp
    /\ goal \in Goal
    /\ goal'  = g
    /\ edits' = edits + 1
    /\ SeenByTopUps(d, "edit")
    /\ UNCHANGED <<topUp, told, mixed>>

Edit(d, g) == ChangeGoal(d, g)
Remove(d)  == ChangeGoal(d, Removed)

\* addFunds: findOne, the update, and the announcement.
AddRead(d, a) ==
    /\ topUp[d] = NoTopUp
    /\ goal \in Goal
    /\ topUp' = [topUp EXCEPT ![d] = [pc |-> "add", amount |-> a, before |-> goal]]
    /\ UNCHANGED <<goal, told, meanwhile, mixed, edits>>

\* Variant: the mark comes from the amount read, not from the updated row.
AddCommitFromRead(d) ==
    /\ topUp[d].pc = "add"
    /\ goal \in Goal
    /\ goal.saved + topUp[d].amount <= MaxSaved
    /\ goal'  = [goal EXCEPT !.saved = @ + topUp[d].amount]
    /\ Announce(d, [topUp[d].before EXCEPT !.saved = @ + topUp[d].amount])
    /\ mixed' = (mixed \/ meanwhile[d] # {})
    /\ SeenByTopUps(d, "growth")
    /\ UNCHANGED <<told, edits>>

AddCommit(d) ==
    /\ topUp[d].pc = "add"
    /\ goal \in Goal
    /\ goal.saved + topUp[d].amount <= MaxSaved
    /\ goal'  = [goal EXCEPT !.saved = @ + topUp[d].amount]
    /\ Announce(d, goal')
    /\ mixed' = (mixed \/ meanwhile[d] # {})
    /\ SeenByTopUps(d, "growth")
    /\ UNCHANGED <<told, edits>>

Tell(d) ==
    /\ topUp[d].pc = "tell"
    /\ told' = [told EXCEPT ![topUp[d].mark] = @ + 1]
    /\ topUp' = [topUp EXCEPT ![d] = NoTopUp]
    /\ UNCHANGED <<goal, meanwhile, mixed, edits>>

\* The update fails, for want of the goal or otherwise, and nothing is changed;
\* or the notification fails, which is logged and not tried again.
FailTopUp(d) ==
    /\ topUp[d] # NoTopUp
    /\ topUp'     = [topUp EXCEPT ![d] = NoTopUp]
    /\ meanwhile' = [meanwhile EXCEPT ![d] = {}]
    /\ UNCHANGED <<goal, told, mixed, edits>>

GoalNext ==
    \/ \E g \in Goal : CreateGoal(g) \/ \E d \in Savers : Edit(d, g)
    \/ \E d \in Savers, a \in TopUps : AddRead(d, a)
    \/ \E d \in Savers : Remove(d) \/ AddCommit(d) \/ Tell(d) \/ FailTopUp(d)

GoalSpec == GoalInit /\ [][GoalNext]_goalVars

-----------------------------------------------------------------------------
\* The highest mark, if any, that a change of the goal took it over.
Passed(before, after) ==
    LET over == {m \in Marks : /\ 100 * before.saved < m * before.target
                               /\ 100 * after.saved >= m * after.target}
    IN  IF over = {} THEN NoMark ELSE Max(over)

Announced(d) == IF topUp[d].pc = "tell" THEN topUp[d].mark ELSE NoMark

\* "only on the top-up that crosses it": when nobody changes the goal between a
\* top-up's read and its update, it announces exactly the mark it took the goal
\* over, the higher one of two.
MilestoneIffCrossed ==
    [][\A d \in Savers :
          AddCommit(d) /\ meanwhile[d] = {} => Announced(d)' = Passed(goal, goal')]_goalVars

\* No crossing goes unannounced: top-ups of other devices in between may make a
\* top-up announce a mark again, never miss the one it crosses.
NoneMissed ==
    [][\A d \in Savers :
          AddCommit(d) /\ "edit" \notin meanwhile[d] /\ Passed(goal, goal') # NoMark
          => Announced(d)' = Passed(goal, goal')]_goalVars

\* "each fires once": a goal nobody edits is told each mark at most once, as long
\* as its top-ups do not overlap.
FiresOnce == edits = 0 /\ ~mixed => \A m \in Marks : told[m] <= 1
=============================================================================
