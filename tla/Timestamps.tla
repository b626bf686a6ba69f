----------------------------- MODULE Timestamps -----------------------------
(***************************************************************************)
(* The times at which objects were created and updated, as ObjectHandler   *)
(* counts and prints them (oh/utilities.cpp).  The day, which is the whole *)
(* part of a time, is all that is modelled: the rest is a fraction of it.  *)
(*                                                                         *)
(* A year is given by its offset from 1900.                                *)
(***************************************************************************)
EXTENDS Integers

LastYear == 300

-----------------------------------------------------------------------------
(* The civil calendar, as localtime knows it *)

IsLeap(year) ==
  (1900 + year) % 4 = 0 /\ ((1900 + year) % 100 = 0 => (1900 + year) % 400 = 0)

MonthLength(year, month) ==
  CASE month = 2 -> IF IsLeap(year) THEN 29 ELSE 28
    [] month \in {4, 6, 9, 11} -> 30
    [] OTHER -> 31

DaysBefore(year, month) ==
  LET before[m \in 1 .. 13] == IF m = 1 THEN 0 ELSE before[m - 1] + MonthLength(year, m - 1)
  IN before[month]

\* The dates of the years given.
Dates(years) ==
  {d \in [year: years, month: 1 .. 12, day: 1 .. 31] : d.day <= MonthLength(d.year, d.month)}

LastDayOfYear(date) == date.month = 12 /\ date.day = 31

-----------------------------------------------------------------------------
(* The tables *)

\* YearIsLeap: the rule that its 301 entries follow, 1900 being leap for Excel.
YearIsLeap(year) == year = 0 \/ IsLeap(year)

\* YearOffset: the days before the first of January, likewise.
YearOffset(year) ==
  365 * year + IF year = 0 THEN 0 ELSE 1 + (year - 1) \div 4 - (IF year > 200 THEN 1 ELSE 0)

\* MonthOffset and MonthLeapOffset, indexed from 0 to 12.
MonthOffset ==
  [i \in 0 .. 12 |-> <<0, 31, 59, 90, 120, 151, 181, 212, 243, 273, 304, 334, 365>>[i + 1]]
MonthLeapOffset == [i \in 0 .. 12 |-> IF i < 2 THEN MonthOffset[i] ELSE MonthOffset[i] + 1]

-----------------------------------------------------------------------------

\* getTime: the day number of a date, if the table has its year.
GetTime(date) == DaysBefore(date.year, date.month) + date.day + YearOffset(date.year)

First(test(_), from, to) == CHOOSE i \in from .. to : test(i) /\ \A j \in from .. i - 1 : ~test(j)

\* MUTANT of MonthTable: the leap year is looked for one year late.
MonthTableOfNext(year) == IF YearIsLeap(year + 1) THEN MonthLeapOffset ELSE MonthOffset

MonthTable(year) == IF YearIsLeap(year) THEN MonthLeapOffset ELSE MonthOffset

WithinMonth(day, end) == day <= end

\* formatTime: the date of a day number, or an exception.  The search for the month
\* starts from days / 30.
FormatTime(day) ==
  IF ~\E y \in 0 .. LastYear - 1 : day < YearOffset(y) THEN [error |-> "year outside valid range"]
  ELSE LET after == First(LAMBDA y : day < YearOffset(y), 0, LastYear - 1)
           year == after - 1
           days == day - YearOffset(year)
           table == MonthTable(year)
           Within(m) == WithinMonth(days, table[m])
       IN IF days = 0 THEN [error |-> "day outside valid range"]
          ELSE IF ~\E m \in days \div 30 .. 12 : Within(m) THEN [error |-> "month outside valid range"]
          ELSE LET month == First(Within, days \div 30, 12)
               IN [year |-> year, month |-> month, day |-> days - table[month - 1]]

-----------------------------------------------------------------------------

\* A time is printed as the date it was taken on.  Those that cannot be printed, with
\* an exception, are those taken on the last day of a year, whose number is the offset
\* of the year after, and those from 2199 on, for which the table has no year after.
PrintedAsTaken(date) ==
  LET printed == FormatTime(GetTime(date))
  IN IF LastDayOfYear(date) \/ date.year >= LastYear - 1
       THEN DOMAIN printed = {"error"} ELSE printed = date
=============================================================================
