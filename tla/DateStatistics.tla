--------------------------- MODULE DateStatistics ---------------------------
(***************************************************************************)
(* statistic/memdate: amounts per day, and beside them the totals of each  *)
(* week, month, season and year, which every change of a day brings along. *)
(* Days are found by the week of the month and the day of the week, which  *)
(* are counted by going through the month in steps of 24 hours: where a    *)
(* day has 25 hours it is met twice, at its start and at its last hour.    *)
(* Dates are taken to be in the location of the statistics.                *)
(*                                                                         *)
(* One key and one year stand for all; months are as long as each other    *)
(* and begin with the same weekday.  Of the four amounts of a LifeCostData *)
(* one is kept.  A method runs under the lock.                             *)
(***************************************************************************)
EXTENDS Integers, FiniteSetsExt, Functions

CONSTANTS
  Months,     \* those that callers use
  MonthDays,  \* length of a month
  SetDays,    \* the days of a month whose amounts are set
  DayAmounts, \* the amounts
  MaxAmount   \* bound on the amount of a day

ASSUME DateStatisticsAssumption ==
  /\ Months \subseteq 1 .. 12
  /\ MonthDays \in 1 .. 31
  /\ SetDays \subseteq 1 .. MonthDays
  /\ DayAmounts \subseteq Nat
  /\ MaxAmount \in Nat

VARIABLES
  firstDay,  \* the day of the week that months begin with, 0 is Sunday
  longDay,   \* the date that has 25 hours, if there is one
  keys,      \* what GetKeysForAt answers for each date
  totals,    \* mYearData
  file,      \* what it holds of mYearData
  replaced   \* history: an amount was replaced rather than added or deleted

datesVars == <<firstDay, longDay, keys, totals, file, replaced>>

Dates == Months \X (1 .. MonthDays)
Season(m) == ((m - 1) \div 3) + 1
Weekday(d) == (firstDay + d - 1) % 7
-----------------------------------------------------------------------------
\* The days met on the way through a month.
Walk(m) ==
  LET long == {date[2] : date \in {x \in longDay : x[1] = m}}
  IN [i \in 1 .. MonthDays + Cardinality(long) |->
        IF \E d \in long : i > d THEN i - 1 ELSE i]

\* Mutant: the week ends with Saturday here.
WeekAtSaturday(m, i) == 1 + Cardinality({j \in 1 .. i - 1 : Weekday(Walk(m)[j]) = 6})

\* A week ends when a Sunday is met.
WeekAt(m, i) == 1 + Cardinality({j \in 1 .. i - 1 : Weekday(Walk(m)[j]) = 0})

\* NewMonthData: the cells of a month, and the day each stands for.
Cells(m) == {<<WeekAt(m, i), Weekday(Walk(m)[i])>> : i \in DOMAIN Walk(m)}

\* GetKeysForAt stops at the first day that is the date's.
GetKeysForAt(m, d) ==
  LET met == {i \in DOMAIN Walk(m) : Walk(m)[i] = d}
  IN <<WeekAt(m, Min(met)), Weekday(d)>>
-----------------------------------------------------------------------------
\* NewYearData.
NewYearData ==
  [day |-> [m \in Months |-> [c \in Cells(m) |-> 0]],
   week |-> [m \in Months |-> [w \in {c[1] : c \in Cells(m)} |-> 0]],
   month |-> [m \in Months |-> 0],
   season |-> [s \in 1 .. 4 |-> 0],
   year |-> 0]

Combine(total, op, amount) ==
  CASE op = "add" -> total + amount
    [] op = "replace" -> amount
    [] op = "delete" -> total - amount

Combined(t, m, cell, op, n) ==
  [day |-> [t.day EXCEPT ![m][cell] = Combine(@, op, n)],
   week |-> [t.week EXCEPT ![m][cell[1]] = Combine(@, op, n)],
   month |-> [t.month EXCEPT ![m] = Combine(@, op, n)],
   season |-> [t.season EXCEPT ![Season(m)] = Combine(@, op, n)],
   year |-> Combine(t.year, op, n)]

DatesInit ==
  /\ firstDay \in 0 .. 6
  /\ longDay \in {{}} \cup {{date} : date \in Dates}
  /\ keys = [date \in Dates |-> GetKeysForAt(date[1], date[2])]
  /\ totals = NewYearData /\ file = NewYearData
  /\ replaced = FALSE

\* An error of the write is ignored: the file keeps what it held.  Nothing is
\* set any more once an amount was replaced, which bounds the totals.
SetDayData(m, d, op, n) ==
  /\ ~replaced
  /\ Combine(totals.day[m][keys[<<m, d>>]], op, n) \in 0 .. MaxAmount
  /\ totals' = Combined(totals, m, keys[<<m, d>>], op, n)
  /\ file' \in {totals', file}
  /\ replaced' = (replaced \/ op = "replace")
  /\ UNCHANGED <<firstDay, longDay, keys>>

Load ==
  /\ totals' = file
  /\ UNCHANGED <<firstDay, longDay, keys, file, replaced>>

DatesNext ==
  \/ \E m \in Months, d \in SetDays, op \in {"add", "replace", "delete"}, n \in DayAmounts :
       SetDayData(m, d, op, n)
  \/ Load

DatesSpec == DatesInit /\ [][DatesNext]_datesVars
-----------------------------------------------------------------------------
\* Weeks of a calendar, from Monday to Sunday.
SameWeek(d1, d2) ==
  LET week(d) == (d - 1 + ((firstDay + 6) % 7)) \div 7 IN week(d1) = week(d2)

SumOf(t, dates) ==
  SumFunctionOnSet([date \in Dates |-> t.day[date[1]][keys[date]]], dates)

CellsApart ==
  \A date \in Dates :
    /\ keys[date] \in DOMAIN totals.day[date[1]]
    /\ \A d \in 1 .. MonthDays : keys[<<date[1], d>>] = keys[date] => d = date[2]

AddsUp(t) ==
  /\ \A date \in Dates :
       t.week[date[1]][keys[date][1]] =
         SumOf(t, {x \in Dates : x[1] = date[1] /\ SameWeek(x[2], date[2])})
  /\ \A m \in Months :
       /\ t.month[m] = SumOf(t, {x \in Dates : x[1] = m})
       /\ t.season[Season(m)] = SumOf(t, {x \in Dates : Season(x[1]) = Season(m)})
  /\ t.year = SumOf(t, Dates)

\* Every date has a cell of its own, and the totals of its week, month, season
\* and year are the sums of the days in them, in every calendar, after any
\* changes, failed writes and restarts (SetDayData, NewMonthData,
\* GetKeysForAt); until an amount is replaced, which replaces the totals too.
TotalsAddUp == CellsApart /\ (~replaced => AddsUp(totals))
=============================================================================
