------------------------ MODULE RecurrenceCalendar ------------------------
(***************************************************************************)
(* nextOccurrence: the date a recurring rule is due after a given one.  A  *)
(* date is a number of days since 1 January 1970, as a JavaScript Date is  *)
(* a number of milliseconds; the time of day, which weekly keeps and       *)
(* monthly keeps to the second, is left out.  Months count from 0, as in   *)
(* JavaScript.                                                             *)
(***************************************************************************)
EXTENDS Integers, FiniteSetsExt

CONSTANTS FirstYear, LastYear   \* bounds: the years dates are drawn from

ASSUME YearAssumption == LastYear \in Nat /\ FirstYear \in 1970 .. LastYear

VARIABLES frequency, start, dueDate   \* a rule, the date it was created with, and nextDue

ruleVars == <<frequency, start, dueDate>>

-----------------------------------------------------------------------------
\* The calendar behind the UTC methods of Date.

Leap(y) == (y % 4 = 0 /\ y % 100 # 0) \/ y % 400 = 0

DaysIn(y, m) ==
    CASE m = 1 -> IF Leap(y) THEN 29 ELSE 28
      [] m \in {3, 5, 8, 10} -> 30
      [] OTHER -> 31

\* Days from 1970 to 1 January of year y, and to the first of month m of y.
YearStart(y)     == 365 * (y - 1970) + Cardinality({x \in 1970 .. y - 1 : Leap(x)})
MonthStart(y, m) ==
    YearStart(y) + SumFunction([k \in 0 .. 11 |-> IF k < m THEN DaysIn(y, k) ELSE 0])

\* Date.UTC(y, m, d): a month past December and a day 0 or past the end carry.
UTC(y, m, d) == MonthStart(y + m \div 12, m % 12) + d - 1

\* getUTCFullYear, getUTCMonth and getUTCDate.
FullYear(t) == CHOOSE y \in FirstYear .. LastYear + 1 : YearStart(y) <= t /\ t < YearStart(y + 1)
Month(t)    == LET y == FullYear(t) IN Max({m \in 0 .. 11 : MonthStart(y, m) <= t})
DayOf(t)    == t - MonthStart(FullYear(t), Month(t)) + 1

-----------------------------------------------------------------------------
\* Variants: the day is not clamped; it is clamped to the old month.
NextUnclamped(t, f) ==
    IF f = "weekly" THEN t + 7 ELSE UTC(FullYear(t), Month(t) + 1, DayOf(t))

NextClampedToOld(t, f) ==
    IF f = "weekly" THEN t + 7
    ELSE UTC(FullYear(t), Month(t) + 1, Min({DayOf(t), DaysIn(FullYear(t), Month(t))}))

NextOccurrence(t, f) ==
    IF f = "weekly" THEN t + 7
    ELSE LET target  == UTC(FullYear(t), Month(t) + 1, 1)
             lastDay == DayOf(UTC(FullYear(target), Month(target) + 1, 0))
         IN  UTC(FullYear(target), Month(target), Min({DayOf(t), lastDay}))

\* A rule of either frequency, created for any date of the first year.
CalendarInit ==
    /\ frequency \in {"weekly", "monthly"}
    /\ start \in YearStart(FirstYear) .. YearStart(FirstYear + 1) - 1
    /\ dueDate = start

\* An occurrence is posted and the rule's date moves on.
Advance ==
    /\ dueDate < YearStart(LastYear)
    /\ dueDate' = NextOccurrence(dueDate, frequency)
    /\ UNCHANGED <<frequency, start>>

CalendarSpec == CalendarInit /\ [][Advance]_ruleVars

-----------------------------------------------------------------------------
MonthNumber(t) == 12 * FullYear(t) + Month(t)

\* A monthly rule is due exactly once in every calendar month: clamping a long
\* month's day never lands in the month after the next, nor twice in one, also
\* across a year's end and in leap years.
OncePerMonth ==
    [][frequency = "monthly" => MonthNumber(dueDate') = MonthNumber(dueDate) + 1]_ruleVars

\* "so the anchor day never drifts forward": no occurrence of a monthly rule is
\* later in its month than the day the rule was created for, and however many
\* short months it goes through it never drifts back beyond the 28th.
NeverPastAnchorDay ==
    frequency = "monthly" => DayOf(dueDate) \in Min({28, DayOf(start)}) .. DayOf(start)
=============================================================================
