------------------------------ MODULE Calendar ------------------------------
(***************************************************************************)
(* unix_time_to_utc_str (lib/commonlibs.c), which date, kernel_info and    *)
(* the boot message print: a count of seconds as weekday, month, day, time *)
(* and year.                                                               *)
(*                                                                         *)
(* The reference is a calendar that is turned by hand, one day at a time   *)
(* from Thursday, 1 January 1970.  The names of days and months stand for  *)
(* their positions in the tables; the hour, minute and second of the day   *)
(* are plain divisions, and left out.                                      *)
(***************************************************************************)
EXTENDS Integers, Sequences

CONSTANT LastDay            \* the last day turned to: a bound of the model

ASSUME LastDayAssumption == LastDay \in Nat

VARIABLES days,             \* since 1 January 1970
          date              \* what the calendar on the wall says

calendarVars == <<days, date>>

-----------------------------------------------------------------------------
(* The code.                                                               *)

is_leap_year_Julian(y) == y % 4 = 0
is_leap_year(y) == y % 400 = 0 \/ (y % 100 # 0 /\ y % 4 = 0)

mon_days == <<31, 28, 31, 30, 31, 30, 31, 31, 30, 31, 30, 31>>

days_in_year(year) == IF is_leap_year(year) THEN 366 ELSE 365
days_in_month(year, month) ==
    IF month = 1 /\ is_leap_year(year) THEN 29 ELSE mon_days[month + 1]

\* The variables of the two loops.
YearState == [year : Nat, d : Nat]
MonthState == [year : Nat, month : 0 .. 12, d : Nat]

\* Years, then months, as long as the days reach.
YearLoop[y \in YearState] ==
    IF y.d < days_in_year(y.year) THEN y
    ELSE YearLoop[[year |-> y.year + 1, d |-> y.d - days_in_year(y.year)]]

MonthLoop[m \in MonthState] ==
    IF m.month >= 12 \/ m.d < days_in_month(m.year, m.month) THEN m
    ELSE MonthLoop[[m EXCEPT !.month = @ + 1, !.d = @ - days_in_month(m.year, m.month)]]

unix_time_to_utc(n) ==
    LET y == YearLoop[[year |-> 1970, d |-> n]]
        m == MonthLoop[[year |-> y.year, month |-> 0, d |-> y.d]]
    IN [wday |-> (n + 4) % 7, month |-> m.month, mday |-> m.d + 1, year |-> m.year]

-----------------------------------------------------------------------------
(* The calendar on the wall.                                               *)

\* The last year of a century is leap if the century is a fourth one, any
\* other if it is a fourth year itself.
LengthOf(month, year) ==
    LET century == year \div 100
        counted == IF year = 100 * century THEN century ELSE year
    IN
    CASE month \in {0, 2, 4, 6, 7, 9, 11} -> 31
      [] month \in {3, 5, 8, 10} -> 30
      [] month = 1 -> IF counted % 4 = 0 THEN 29 ELSE 28

CalendarInit == days = 0 /\ date = [wday |-> 4, month |-> 0, mday |-> 1, year |-> 1970]

Turn ==
    LET lastday == date.mday = LengthOf(date.month, date.year)
        newyear == lastday /\ date.month = 11
    IN
    /\ days < LastDay
    /\ days' = days + 1
    /\ date' = [wday |-> IF date.wday = 6 THEN 0 ELSE date.wday + 1,
                month |-> IF newyear THEN 0 ELSE IF lastday THEN date.month + 1 ELSE date.month,
                mday |-> IF lastday THEN 1 ELSE date.mday + 1,
                year |-> IF newyear THEN date.year + 1 ELSE date.year]

CalendarNext == Turn

CalendarSpec == CalendarInit /\ [][CalendarNext]_calendarVars

-----------------------------------------------------------------------------
\* On every day the code's date is the one on the wall, weekday and leap days
\* included (unix_time_to_utc_str).
DateIsRight == unix_time_to_utc(days) = date
=============================================================================
