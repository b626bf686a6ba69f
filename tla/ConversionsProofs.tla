------------------------- MODULE ConversionsProofs -------------------------
(***************************************************************************)
(* What the conversions do with every date from 1970, ID, range of cells   *)
(* and list of calendars.                                                  *)
(***************************************************************************)
EXTENDS Conversions, SequenceTheorems, FunctionTheorems, FiniteSetTheorems,
        WellFoundedInduction, TLAPS

\* Induction over the naturals, for a set.
LEMMA EveryNumber ==
  ASSUME NEW S, 0 \in S, \A n \in Nat : n \in S => n + 1 \in S
  PROVE  \A n \in Nat : n \in S
<1> SUFFICES ASSUME Nat \ S # {} PROVE FALSE
  OBVIOUS
<1>1. PICK n \in Nat \ S : \A m \in Nat \ S : ~(<<m, n>> \in OpToRel(<, Nat))
  BY NatLessThanWellFounded, WFMin
<1>2. \A m \in Nat \ S : ~(m < n)
  BY <1>1 DEF OpToRel
<1>3. n \in Nat /\ n # 0
  BY <1>1
<1>4. n - 1 \in Nat /\ (n - 1) + 1 = n /\ n - 1 < n
  BY <1>3
<1>5. n - 1 \in S
  BY <1>2, <1>4
<1> QED
  BY <1>1, <1>4, <1>5

-----------------------------------------------------------------------------
(* Dates *)

\* The number of days of a year that the table has.
LeapDay(y) == IF IsLeap(y) THEN 1 ELSE 0

\* Years begin after those before them.
LEMMA YearsGrow ==
  ASSUME NEW y \in Nat, NEW z \in Nat, y < z
  PROVE  YearOffset(y) \in Nat /\ YearOffset(z) \in Nat /\ YearOffset(y) < YearOffset(z)
BY DEF YearOffset

\* A year of the table is 365 days, or 366 in leap years.
LEMMA YearsByLength ==
  ASSUME NEW y \in 1 .. 299
  PROVE  YearOffset(y + 1) = YearOffset(y) + 365 + LeapDay(y)
<1>1. YearOffset(y) = 365 * y + 1 + (y - 1) \div 4 - (IF y > 200 THEN 1 ELSE 0)
  BY DEF YearOffset
<1>2. YearOffset(y + 1) = 365 * (y + 1) + 1 + y \div 4 - (IF y + 1 > 200 THEN 1 ELSE 0)
  BY DEF YearOffset
<1>3. y \div 4 - (y - 1) \div 4 = IF y % 4 = 0 THEN 1 ELSE 0
  OBVIOUS
<1>4. IsLeap(y) <=> y % 4 = 0 /\ y # 200
  <2>1. (1900 + y) % 4 = 0 <=> y % 4 = 0
    OBVIOUS
  <2>2. (1900 + y) % 100 = 0 <=> y = 100 \/ y = 200
    OBVIOUS
  <2>3. (1900 + 100) % 400 = 0 /\ (1900 + 200) % 400 # 0
    OBVIOUS
  <2> QED
    BY <2>1, <2>2, <2>3 DEF IsLeap
<1> QED
  BY <1>1, <1>2, <1>3, <1>4 DEF LeapDay

\* The tables of months, entry by entry.
LEMMA MonthOffsets ==
  /\ MonthOffset[0] = 0 /\ MonthOffset[1] = 31 /\ MonthOffset[2] = 59 /\ MonthOffset[3] = 90
  /\ MonthOffset[4] = 120 /\ MonthOffset[5] = 151 /\ MonthOffset[6] = 181 /\ MonthOffset[7] = 212
  /\ MonthOffset[8] = 243 /\ MonthOffset[9] = 273 /\ MonthOffset[10] = 304 /\ MonthOffset[11] = 334
  /\ MonthOffset[12] = 365
BY DEF MonthOffset

\* The days that the table has before the month after m.
DaysUpTo(y, m) == MonthOffset[m] + (IF m < 2 THEN 0 ELSE LeapDay(y))

\* The table of months that formatTime chooses is that of the civil calendar.
LEMMA TableIsCalendar ==
  ASSUME NEW y \in Nat \ {0}
  PROVE  \A m \in 0 .. 12 : MonthTable(y)[m] = DaysUpTo(y, m)
<1>1. YearIsLeap(y) <=> IsLeap(y)
  BY DEF YearIsLeap
<1>2. \A m \in 0 .. 12 : MonthOffset[m] \in Nat
  BY MonthOffsets
<1>3. CASE IsLeap(y)
  BY <1>1, <1>2, <1>3 DEF MonthTable, MonthLeapOffset, DaysUpTo, LeapDay
<1>4. CASE ~IsLeap(y)
  BY <1>1, <1>2, <1>4 DEF MonthTable, DaysUpTo, LeapDay
<1> QED
  BY <1>3, <1>4

\* The entries of the table are the lengths of the months, one after the other.
LEMMA MonthsByLength ==
  ASSUME NEW y \in Nat
  PROVE  /\ DaysUpTo(y, 0) = 0 /\ DaysUpTo(y, 12) = 365 + LeapDay(y)
         /\ \A m \in 1 .. 12 : /\ DaysUpTo(y, m) = DaysUpTo(y, m - 1) + MonthLength(y, m)
                               /\ DaysUpTo(y, m) \in Nat /\ DaysUpTo(y, m - 1) \in Nat
                               /\ MonthLength(y, m) \in 28 .. 31
                               /\ DaysUpTo(y, m) < 30 * (m + 1)
<1>1. LeapDay(y) \in {0, 1} /\ (IsLeap(y) <=> LeapDay(y) = 1)
  BY DEF LeapDay
<1>2. DaysUpTo(y, 0) = 0 /\ DaysUpTo(y, 12) = 365 + LeapDay(y)
  BY <1>1, MonthOffsets DEF DaysUpTo
<1>3. ASSUME NEW m \in 1 .. 12
      PROVE  /\ DaysUpTo(y, m) = DaysUpTo(y, m - 1) + MonthLength(y, m)
             /\ DaysUpTo(y, m) \in Nat /\ DaysUpTo(y, m - 1) \in Nat
             /\ MonthLength(y, m) \in 28 .. 31
             /\ DaysUpTo(y, m) < 30 * (m + 1)
  <2>1. m \in {1, 2, 3, 4, 5, 6, 7, 8, 9, 10, 11, 12}
    OBVIOUS
  <2> QED
    BY <1>1, <2>1, MonthOffsets DEF DaysUpTo, MonthLength
<1> QED
  BY <1>2, <1>3

\* What a table of days says of one month.
LEMMA MonthCounted ==
  ASSUME NEW y \in Nat, NEW m \in 1 .. 12
  PROVE  /\ DaysUpTo(y, m) = DaysUpTo(y, m - 1) + MonthLength(y, m)
         /\ DaysUpTo(y, m) \in Nat /\ DaysUpTo(y, m - 1) \in Nat
         /\ MonthLength(y, m) \in 28 .. 31
<1>1. m \in {1, 2, 3, 4, 5, 6, 7, 8, 9, 10, 11, 12}
  OBVIOUS
<1>2. LeapDay(y) \in {0, 1} /\ (IsLeap(y) <=> LeapDay(y) = 1)
  BY DEF LeapDay
<1> QED
  BY <1>1, <1>2, MonthOffsets DEF DaysUpTo, MonthLength

\* The days before a month, as the table has them.
LEMMA DaysAsInTable ==
  ASSUME NEW y \in Nat, NEW month \in 1 .. 12
  PROVE  DaysBefore(y, month) = DaysUpTo(y, month - 1)
<1> DEFINE Counts(f) ==
             f = [m \in 1 .. 13 |-> IF m = 1 THEN 0 ELSE f[m - 1] + MonthLength(y, m - 1)]
           g == [m \in 1 .. 13 |-> DaysUpTo(y, m - 1)]
           f == CHOOSE h : Counts(h)
<1>1. Counts(g)
  <2>1. ASSUME NEW m \in 1 .. 13
        PROVE  DaysUpTo(y, m - 1) = IF m = 1 THEN 0 ELSE g[m - 1] + MonthLength(y, m - 1)
    <3>1. CASE m = 1
      BY <3>1, MonthsByLength
    <3>2. CASE m # 1
      <4>1. m - 1 \in 1 .. 12 /\ m - 1 \in 1 .. 13
        BY <3>2
      <4>2. DaysUpTo(y, m - 1) = DaysUpTo(y, (m - 1) - 1) + MonthLength(y, m - 1)
        BY ZenonT(40), <4>1, MonthsByLength
      <4>3. g[m - 1] = DaysUpTo(y, (m - 1) - 1)
        BY <4>1
      <4> QED
        BY <3>2, <4>2, <4>3
    <3> QED
      BY <3>1, <3>2
  <2> QED
    BY <2>1
<1>2. Counts(f)
  <2> HIDE DEF g, Counts
  <2> QED
    BY <1>1
<1>3. DaysBefore(y, month) = f[month]
  BY DEF DaysBefore
<1> HIDE DEF f
<1>4. \A m \in 1 .. 13 : f[m] = IF m = 1 THEN 0 ELSE f[m - 1] + MonthLength(y, m - 1)
  BY <1>2
<1> DEFINE S == {m \in Nat : m \in 1 .. 13 => f[m] = DaysUpTo(y, m - 1)}
<1>5. 0 \in S
  OBVIOUS
<1>6. ASSUME NEW m \in Nat, m \in S
      PROVE  m + 1 \in S
  <2> SUFFICES ASSUME m + 1 \in 1 .. 13 PROVE f[m + 1] = DaysUpTo(y, m)
    OBVIOUS
  <2>1. CASE m = 0
    <3>1. 1 \in 1 .. 13 /\ m + 1 = 1
      BY <2>1
    <3>2. f[1] = 0 /\ DaysUpTo(y, 0) = 0
      BY <1>4, <3>1, MonthsByLength
    <3> QED
      BY <2>1, <3>1, <3>2
  <2>2. CASE m # 0
    <3>1. m \in 1 .. 13 /\ m \in 1 .. 12 /\ m + 1 # 1 /\ (m + 1) - 1 = m
      BY <2>2
    <3>2. f[m + 1] = f[m] + MonthLength(y, m)
      BY <1>4, <3>1
    <3>3. f[m] = DaysUpTo(y, m - 1)
      BY <1>6, <3>1
    <3>4. DaysUpTo(y, m) = DaysUpTo(y, m - 1) + MonthLength(y, m)
      BY ZenonT(40), <3>1, MonthsByLength
    <3> QED
      BY <3>2, <3>3, <3>4
  <2> QED
    BY <2>1, <2>2
<1> HIDE DEF S
<1>7. month \in S
  BY <1>5, <1>6, EveryNumber
<1> QED
  BY <1>3, <1>7 DEF S

\* Months begin after those before them.
LEMMA MonthsGrow ==
  ASSUME NEW y \in Nat, NEW j \in 0 .. 12, NEW m \in 0 .. 12, j <= m
  PROVE  DaysUpTo(y, j) \in Nat /\ DaysUpTo(y, m) \in Nat /\ DaysUpTo(y, j) <= DaysUpTo(y, m)
<1> DEFINE S == {n \in Nat : n <= 12 => \A k \in 0 .. n : /\ DaysUpTo(y, k) \in Nat
                                                         /\ DaysUpTo(y, k) <= DaysUpTo(y, n)}
<1>1. 0 \in S
  BY MonthsByLength
<1>2. ASSUME NEW n \in Nat, n \in S
      PROVE  n + 1 \in S
  <2> SUFFICES ASSUME n + 1 <= 12, NEW k \in 0 .. n + 1
               PROVE  DaysUpTo(y, k) \in Nat /\ DaysUpTo(y, k) <= DaysUpTo(y, n + 1)
    OBVIOUS
  <2> DEFINE i == n + 1
  <2>1. i \in 1 .. 12 /\ i - 1 = n
    OBVIOUS
  <2>2. /\ DaysUpTo(y, n) \in Nat /\ DaysUpTo(y, n + 1) \in Nat
        /\ DaysUpTo(y, n) <= DaysUpTo(y, n + 1)
    <3> HIDE DEF i
    <3>1. /\ DaysUpTo(y, i) = DaysUpTo(y, i - 1) + MonthLength(y, i)
          /\ MonthLength(y, i) \in 28 .. 31
          /\ DaysUpTo(y, i - 1) \in Nat /\ DaysUpTo(y, i) \in Nat
      <4>1. \A l \in 1 .. 12 :
              /\ DaysUpTo(y, l) = DaysUpTo(y, l - 1) + MonthLength(y, l)
              /\ DaysUpTo(y, l) \in Nat /\ DaysUpTo(y, l - 1) \in Nat
              /\ MonthLength(y, l) \in 28 .. 31
        BY MonthsByLength
      <4> QED
        BY <2>1, <4>1
    <3>2. DaysUpTo(y, i - 1) <= DaysUpTo(y, i)
      BY <3>1
    <3> QED
      BY <2>1, <3>1, <3>2 DEF i
  <2>3. CASE k = n + 1
    BY <2>2, <2>3
  <2>4. CASE k # n + 1
    <3>1. k \in 0 .. n
      BY <2>4
    <3>2. DaysUpTo(y, k) \in Nat /\ DaysUpTo(y, k) <= DaysUpTo(y, n)
      BY <1>2, <3>1
    <3> QED
      BY <2>2, <3>2
  <2> QED
    BY <2>3, <2>4
<1> HIDE DEF S
<1>3. m \in S
  BY <1>1, <1>2, EveryNumber
<1>4. j \in 0 .. m /\ m \in 0 .. m /\ m <= 12
  OBVIOUS
<1> QED
  BY <1>3, <1>4 DEF S

\* The first of the years that begin after a day is the one after the day's own.
LEMMA YearFound ==
  ASSUME NEW day \in Nat, NEW y \in Nat, y + 1 <= LastYear - 1,
         YearOffset(y) <= day, day < YearOffset(y + 1)
  PROVE  /\ \E x \in 0 .. LastYear - 1 : day < YearOffset(x)
         /\ First(LAMBDA x : day < YearOffset(x), 0, LastYear - 1) = y + 1
<1>1. y + 1 \in 0 .. LastYear - 1
  BY DEF LastYear
<1>2. ASSUME NEW x \in Nat, x <= y PROVE ~(day < YearOffset(x))
  <2>1. YearOffset(x) <= YearOffset(y) /\ YearOffset(x) \in Nat /\ YearOffset(y) \in Nat
    <3>1. CASE x = y
      <4>1. YearOffset(y) \in Nat
        BY YearsGrow
      <4> QED
        BY <3>1, <4>1
    <3>2. CASE x < y
      BY <3>2, YearsGrow
    <3> QED
      BY <1>2, <3>1, <3>2
  <2> QED
    BY <2>1
<1>3. \A j \in 0 .. (y + 1) - 1 : ~(day < YearOffset(j))
  BY <1>2
<1>4. ASSUME NEW i \in 0 .. LastYear - 1, day < YearOffset(i),
             \A j \in 0 .. i - 1 : ~(day < YearOffset(j))
      PROVE  i = y + 1
  <2>1. i \in Nat
    BY DEF LastYear
  <2>2. ~(i <= y)
    BY <1>2, <1>4, <2>1
  <2>3. ~(y + 1 < i)
    <3>1. SUFFICES ASSUME y + 1 < i PROVE y + 1 \in 0 .. i - 1
      BY <1>4
    <3> QED
      BY <2>1, <3>1
  <2> QED
    BY <2>1, <2>2, <2>3
<1> QED
  BY <1>1, <1>3, <1>4 DEF First

\* The first month that ends on a day or after it, from the month where formatTime
\* starts, is the day's own.
LEMMA MonthFound ==
  ASSUME NEW y \in Nat \ {0}, NEW month \in 1 .. 12, NEW days \in Nat,
         DaysUpTo(y, month - 1) < days, days <= DaysUpTo(y, month)
  PROVE  /\ month \in days \div 30 .. 12
         /\ \A i \in days \div 30 .. 12 :
              i = month <=> /\ WithinMonth(days, MonthTable(y)[i])
                            /\ \A j \in days \div 30 .. i - 1 :
                                 ~WithinMonth(days, MonthTable(y)[j])
<1> DEFINE from == days \div 30
<1>1. from \in Nat /\ from <= month
  <2>1. DaysUpTo(y, month) < 30 * (month + 1) /\ DaysUpTo(y, month) \in Nat
    BY ZenonT(40), MonthsByLength
  <2>2. days < 30 * (month + 1)
    BY <2>1
  <2>3. from \in Nat /\ 30 * from <= days
    OBVIOUS
  <2> HIDE DEF from
  <2> QED
    BY <2>2, <2>3
<1> HIDE DEF from
<1>2. \A m \in 0 .. 12 : WithinMonth(days, MonthTable(y)[m]) <=> days <= DaysUpTo(y, m)
  BY TableIsCalendar DEF WithinMonth
<1>3. ASSUME NEW j \in 0 .. month - 1
      PROVE  ~(days <= DaysUpTo(y, j))
  <2> DEFINE k == month - 1
  <2>1. j \in 0 .. 12 /\ k \in 0 .. 12 /\ j <= k
    OBVIOUS
  <2>2. DaysUpTo(y, k) < days
    OBVIOUS
  <2> HIDE DEF k
  <2>3. DaysUpTo(y, j) \in Nat /\ DaysUpTo(y, k) \in Nat /\ DaysUpTo(y, j) <= DaysUpTo(y, k)
    BY <2>1, MonthsGrow
  <2> QED
    BY <2>2, <2>3
<1>4. month \in from .. 12 /\ WithinMonth(days, MonthTable(y)[month])
  BY <1>1, <1>2
<1>5. \A j \in from .. month - 1 : ~WithinMonth(days, MonthTable(y)[j])
  <2> SUFFICES ASSUME NEW j \in from .. month - 1
               PROVE  ~WithinMonth(days, MonthTable(y)[j])
    OBVIOUS
  <2>1. j \in 0 .. month - 1 /\ j \in 0 .. 12
    BY <1>1
  <2> QED
    BY <1>2, <1>3, <2>1
<1>6. ASSUME NEW i \in from .. 12, WithinMonth(days, MonthTable(y)[i]),
             \A j \in from .. i - 1 : ~WithinMonth(days, MonthTable(y)[j])
      PROVE  i = month
  <2>1. ~(i < month)
    <3> SUFFICES ASSUME i < month PROVE FALSE
      OBVIOUS
    <3>1. i \in from .. month - 1
      BY <1>1
    <3> QED
      BY <1>5, <1>6, <3>1
  <2>2. ~(month < i)
    <3> SUFFICES ASSUME month < i PROVE FALSE
      OBVIOUS
    <3>1. month \in from .. i - 1
      BY <1>1
    <3> QED
      BY <1>4, <1>6, <3>1
  <2> QED
    BY <1>1, <2>1, <2>2
<1> QED
  BY <1>4, <1>5, <1>6 DEF from

\* The day number of a date, counted from the year's offset in the table.
LEMMA DayNumber ==
  ASSUME NEW date \in [year : Nat \ {0}, month : 1 .. 12, day : 1 .. 31],
         date.day <= MonthLength(date.year, date.month)
  PROVE  /\ GetTime(date) = DaysUpTo(date.year, date.month - 1) + date.day + YearOffset(date.year)
         /\ DaysUpTo(date.year, date.month - 1) \in Nat
         /\ DaysUpTo(date.year, date.month) \in Nat
         /\ YearOffset(date.year) \in Nat
         /\ DaysUpTo(date.year, date.month - 1) < DaysUpTo(date.year, date.month - 1) + date.day
         /\ DaysUpTo(date.year, date.month - 1) + date.day <= DaysUpTo(date.year, date.month)
         /\ ~LastDayOfYear(date) =>
              DaysUpTo(date.year, date.month - 1) + date.day < 365 + LeapDay(date.year)
         /\ LastDayOfYear(date) =>
              DaysUpTo(date.year, date.month - 1) + date.day = 365 + LeapDay(date.year)
<1> DEFINE y == date.year
           m == date.month
           k == m - 1
           before == DaysUpTo(y, k)
           after == DaysUpTo(y, m)
<1>1. y \in Nat \ {0} /\ m \in 1 .. 12 /\ date.day \in 1 .. 31 /\ date.day <= MonthLength(y, m)
  OBVIOUS
<1>2. k \in 0 .. 12 /\ (m < 12 => m \in 0 .. 11)
  BY <1>1
<1>3. GetTime(date) = before + date.day + YearOffset(y)
  BY <1>1, DaysAsInTable DEF GetTime
<1>4. YearOffset(y) \in Nat
  BY <1>1 DEF YearOffset
<1>5. /\ after = before + MonthLength(y, m) /\ after \in Nat /\ before \in Nat
      /\ MonthLength(y, m) \in 28 .. 31
  <2>1. y \in Nat /\ m \in 1 .. 12
    BY <1>1
  <2> HIDE DEF y, m
  <2> QED
    BY <2>1, MonthCounted
<1>6. DaysUpTo(y, 12) = 365 + LeapDay(y) /\ LeapDay(y) \in {0, 1}
  <2> HIDE DEF before, after, y, m
  <2>1. y \in Nat
    BY <1>1
  <2>2. DaysUpTo(y, 12) = 365 + LeapDay(y)
    BY <2>1, MonthsByLength
  <2>3. LeapDay(y) \in {0, 1}
    BY DEF LeapDay
  <2> QED
    BY <2>2, <2>3
<1>7. before < before + date.day /\ before + date.day <= after
  <2> HIDE DEF before, after, y, m
  <2> QED
    BY <1>1, <1>5
<1>8. after <= 365 + LeapDay(y)
  <2>1. m \in 0 .. 12 /\ 12 \in 0 .. 12 /\ m <= 12
    BY <1>1
  <2>2. DaysUpTo(y, m) <= DaysUpTo(y, 12)
    BY <1>1, <2>1, MonthsGrow
  <2> QED
    BY <1>6, <2>2
<1>9. CASE m = 12
  <2>1. MonthLength(y, m) = 31
    BY <1>9 DEF MonthLength
  <2>2. after = 365 + LeapDay(y)
    BY <1>6, <1>9
  <2>3. LastDayOfYear(date) <=> date.day = 31
    BY <1>9 DEF LastDayOfYear
  <2>4. /\ date.day = 31 => before + date.day = 365 + LeapDay(y)
        /\ date.day # 31 => before + date.day < 365 + LeapDay(y)
    <3> HIDE DEF before, after, y, m
    <3> QED
      BY <1>1, <1>5, <1>6, <2>1, <2>2
  <2> QED
    BY <1>3, <1>4, <1>5, <1>7, <1>8, <2>3, <2>4
<1>10. CASE m # 12
  <2>1. ~LastDayOfYear(date)
    BY <1>10 DEF LastDayOfYear
  <2>2. after < 365 + LeapDay(y)
    <3>1. 12 \in 1 .. 12
      OBVIOUS
    <3>2. DaysUpTo(y, 12) = DaysUpTo(y, 12 - 1) + MonthLength(y, 12)
      BY <1>1, <3>1, MonthsByLength
    <3>3. MonthLength(y, 12) = 31 /\ 12 - 1 = 11
      BY DEF MonthLength
    <3>4. m \in 0 .. 12 /\ 11 \in 0 .. 12 /\ m <= 11
      BY <1>1, <1>10
    <3>5. DaysUpTo(y, m) <= DaysUpTo(y, 11) /\ DaysUpTo(y, 11) \in Nat
      BY <1>1, <3>4, MonthsGrow
    <3>6. DaysUpTo(y, 12) = DaysUpTo(y, 11) + 31
      BY <3>2, <3>3
    <3> QED
      BY <1>5, <1>6, <3>5, <3>6
  <2>3. before + date.day < 365 + LeapDay(y)
    <3> HIDE DEF before, after, y, m
    <3> QED
      BY <1>1, <1>5, <1>6, <1>7, <2>2
  <2> QED
    BY <1>3, <1>4, <1>5, <1>7, <1>8, <2>1, <2>3
<1> QED
  BY <1>9, <1>10

\* formatTime, for a day on which a year of the table ends or after it, finds no year.
LEMMA YearNotFound ==
  ASSUME NEW day \in Nat, YearOffset(LastYear - 1) <= day
  PROVE  DOMAIN FormatTime(day) = {"error"}
<1>1. \A y \in 0 .. LastYear - 1 : ~(day < YearOffset(y))
  <2> SUFFICES ASSUME NEW y \in 0 .. LastYear - 1 PROVE ~(day < YearOffset(y))
    OBVIOUS
  <2> DEFINE last == LastYear - 1
  <2>1. y \in Nat /\ last \in Nat /\ y <= last
    BY DEF LastYear
  <2>2. YearOffset(last) <= day
    OBVIOUS
  <2> HIDE DEF last
  <2>3. YearOffset(y) \in Nat /\ YearOffset(last) \in Nat /\ YearOffset(y) <= YearOffset(last)
    <3>1. CASE y < last
      BY <2>1, <3>1, YearsGrow
    <3>2. CASE y = last
      <4>1. YearOffset(y) \in Nat
        BY <2>1 DEF YearOffset
      <4> QED
        BY <3>2, <4>1
    <3> QED
      BY <2>1, <3>1, <3>2
  <2> QED
    BY <2>2, <2>3
<1>2. FormatTime(day) = [error |-> "year outside valid range"]
  BY <1>1 DEF FormatTime
<1> QED
  BY <1>2

\* formatTime, for the first day of a year and for the others.
LEMMA YearIsFound ==
  ASSUME NEW day \in Nat, NEW y \in Nat \ {0}, y + 1 <= LastYear - 1,
         YearOffset(y) <= day, day < YearOffset(y + 1)
  PROVE  /\ day = YearOffset(y) => DOMAIN FormatTime(day) = {"error"}
         /\ \A month \in 1 .. 12, days \in Nat :
              day = YearOffset(y) + days /\ DaysUpTo(y, month - 1) < days
                /\ days <= DaysUpTo(y, month) =>
              FormatTime(day) =
                [year |-> y, month |-> month, day |-> days - MonthTable(y)[month - 1]]
<1> DEFINE after == First(LAMBDA x : day < YearOffset(x), 0, LastYear - 1)
           year == after - 1
           days == day - YearOffset(year)
           table == MonthTable(year)
           Within(m) == WithinMonth(days, table[m])
           month == First(LAMBDA m : WithinMonth(days, table[m]), days \div 30, 12)
<1>1. (\E x \in 0 .. LastYear - 1 : day < YearOffset(x)) /\ after = y + 1
  BY YearFound
<1>2. year = y
  <2> HIDE DEF after
  <2> QED
    BY <1>1
<1>3. FormatTime(day) =
        IF days = 0 THEN [error |-> "day outside valid range"]
        ELSE IF ~\E m \in days \div 30 .. 12 : Within(m)
               THEN [error |-> "month outside valid range"]
        ELSE [year |-> year, month |-> month, day |-> days - table[month - 1]]
  BY <1>1, Zenon DEF FormatTime
<1>4. YearOffset(y) \in Nat
  BY DEF YearOffset
<1> HIDE DEF year
<1>5. ASSUME day = YearOffset(y)
      PROVE  DOMAIN FormatTime(day) = {"error"}
  <2>1. days = 0
    BY <1>2, <1>4, <1>5
  <2>2. FormatTime(day) = [error |-> "day outside valid range"]
    <3> HIDE DEF days, month, Within
    <3> QED
      BY <1>3, <2>1, Zenon
  <2> QED
    BY <2>2
<1>6. ASSUME NEW m \in 1 .. 12, NEW d \in Nat, day = YearOffset(y) + d,
             DaysUpTo(y, m - 1) < d, d <= DaysUpTo(y, m)
      PROVE  FormatTime(day) = [year |-> y, month |-> m, day |-> d - MonthTable(y)[m - 1]]
  <2>1. days = d /\ days \in Nat
    BY <1>2, <1>4, <1>6
  <2>2. year \in Nat \ {0} /\ DaysUpTo(year, m - 1) < days /\ days <= DaysUpTo(year, m)
    BY <1>2, <1>6, <2>1
  <2>3. (\E i \in days \div 30 .. 12 : Within(i)) /\ month = m
    <3>1. m \in days \div 30 .. 12
      BY <2>1, <2>2, MonthFound
    <3>2. \A i \in days \div 30 .. 12 :
            i = m <=> Within(i) /\ \A j \in days \div 30 .. i - 1 : ~Within(j)
      BY SMTT(30), <2>1, <2>2, MonthFound
    <3>3. month = CHOOSE i \in days \div 30 .. 12 :
                    Within(i) /\ \A j \in days \div 30 .. i - 1 : ~Within(j)
      BY Zenon DEF First
    <3> HIDE DEF month, days, Within
    <3> QED
      BY <3>1, <3>2, <3>3
  <2>4. days # 0
    <3>1. DaysUpTo(y, m - 1) \in Nat
      BY MonthsByLength
    <3> QED
      BY <1>6, <2>1, <3>1
  <2>5. FormatTime(day) = [year |-> year, month |-> month, day |-> days - table[month - 1]]
    <3> HIDE DEF month, days, Within, table
    <3> QED
      BY <1>3, <2>3, <2>4, Zenon
  <2> HIDE DEF month, days
  <2> QED
    BY <1>2, <2>1, <2>3, <2>5
<1> QED
  BY <1>5, <1>6, Zenon

\* A date is its year, month and day.
LEMMA DateRecord ==
  ASSUME NEW date \in [year : Nat, month : 1 .. 12, day : 1 .. 31]
  PROVE  date = [year |-> date.year, month |-> date.month, day |-> date.day]
OBVIOUS

\* A time is printed as the date it was taken on, but for those of last days and late
\* years, which formatTime refuses.
LEMMA DatePrinted ==
  ASSUME NEW years, \A y \in years : y \in Nat /\ y >= 70, NEW date \in Dates(years)
  PROVE  PrintedAsTaken(date)
<1> DEFINE y == date.year
           number == GetTime(date)
           k == date.month - 1
           before == DaysUpTo(y, k)
           count == before + date.day
<1>1. /\ date \in [year : Nat \ {0}, month : 1 .. 12, day : 1 .. 31]
      /\ date.day <= MonthLength(date.year, date.month)
  <2>1. date \in [year : years, month : 1 .. 12, day : 1 .. 31]
    BY DEF Dates
  <2>2. date.year \in Nat \ {0} /\ date.day <= MonthLength(date.year, date.month)
    BY <2>1 DEF Dates
  <2> QED
    BY <2>1, <2>2
<1>2. y \in Nat \ {0} /\ date.month \in 1 .. 12 /\ date.day \in 1 .. 31
  BY <1>1
<1>3. /\ number = count + YearOffset(y) /\ count <= DaysUpTo(y, date.month)
      /\ before \in Nat /\ YearOffset(y) \in Nat /\ before < count
      /\ DaysUpTo(y, date.month) \in Nat
      /\ ~LastDayOfYear(date) => count < 365 + LeapDay(y)
      /\ LastDayOfYear(date) => count = 365 + LeapDay(y)
  BY <1>1, DayNumber
<1>4. LeapDay(y) \in {0, 1} /\ count \in Nat
  <2>1. LeapDay(y) \in {0, 1}
    BY DEF LeapDay
  <2>2. count \in Nat
    <3> HIDE DEF before, y
    <3> QED
      BY <1>2, <1>3
  <2> QED
    BY <2>1, <2>2
<1> HIDE DEF number, count, before, y, k
<1>5. CASE LastDayOfYear(date) \/ y >= LastYear - 1
  <2> SUFFICES DOMAIN FormatTime(number) = {"error"}
    BY <1>5 DEF PrintedAsTaken, number, y
  <2>1. number \in Nat
    BY <1>3, <1>4
  <2>2. CASE y >= LastYear - 1
    <3> DEFINE last == LastYear - 1
    <3>1. last \in Nat /\ last <= y
      BY <2>2 DEF LastYear
    <3>2. YearOffset(last) <= YearOffset(y) /\ YearOffset(last) \in Nat
      <4> HIDE DEF last
      <4>1. CASE last < y
        BY <1>2, <3>1, <4>1, YearsGrow
      <4>2. CASE last = y
        BY <1>3, <4>2
      <4> QED
        BY <1>2, <3>1, <4>1, <4>2
    <3>3. YearOffset(last) <= number
      <4> HIDE DEF last
      <4> QED
        BY <1>3, <1>4, <3>2
    <3> QED
      BY <2>1, <3>3, YearNotFound
  <2>3. CASE ~(y >= LastYear - 1)
    <3> DEFINE next == y + 1
    <3>1. y \in 1 .. 299 /\ next \in Nat /\ next <= LastYear - 1 /\ LastYear - 1 = 299
      BY <1>2, <2>3 DEF LastYear
    <3>2. number = YearOffset(next) /\ YearOffset(next) \in Nat
      <4>1. YearOffset(next) = YearOffset(y) + 365 + LeapDay(y)
        BY <3>1, YearsByLength
      <4>2. count = 365 + LeapDay(y)
        BY <1>3, <1>5, <2>3
      <4> HIDE DEF next
      <4> QED
        BY <1>3, <1>4, <4>1, <4>2
    <3>3. CASE next = LastYear - 1
      <4>1. YearOffset(LastYear - 1) <= number
        BY <3>2, <3>3
      <4> QED
        BY <2>1, <4>1, YearNotFound
    <3>4. CASE next # LastYear - 1
      <4>1. next + 1 <= LastYear - 1 /\ next + 1 \in Nat /\ next < next + 1
        BY <3>1, <3>4
      <4> HIDE DEF next
      <4>2. YearOffset(next) < YearOffset(next + 1)
        <5> DEFINE after == next + 1
        <5>1. after \in Nat /\ next < after
          BY <4>1
        <5> HIDE DEF after
        <5>2. YearOffset(next) < YearOffset(after)
          BY <3>1, <5>1, YearsGrow
        <5> QED
          BY <5>2 DEF after
      <4>3. YearOffset(next) <= number /\ number < YearOffset(next + 1)
        BY <2>1, <3>2, <4>2
      <4>4. next # 0
        BY <3>1, <3>2, <4>2, <4>3 DEF next
      <4> QED
        BY <2>1, <3>1, <3>2, <4>1, <4>3, <4>4, YearIsFound
    <3> QED
      BY <3>3, <3>4
  <2> QED
    BY <2>2, <2>3
<1>6. CASE ~(LastDayOfYear(date) \/ y >= LastYear - 1)
  <2> SUFFICES FormatTime(number) = date
    BY <1>6 DEF PrintedAsTaken, number, y
  <2>1. number \in Nat /\ number = YearOffset(y) + count /\ YearOffset(y) <= number
    BY <1>3, <1>4
  <2>2. y \in 1 .. 299 /\ y \in Nat \ {0} /\ y + 1 <= LastYear - 1
    BY <1>2, <1>6 DEF LastYear
  <2>3. number < YearOffset(y + 1)
    <3>1. YearOffset(y + 1) = YearOffset(y) + 365 + LeapDay(y)
      BY <2>2, YearsByLength
    <3>2. count < 365 + LeapDay(y)
      BY <1>3, <1>6
    <3> QED
      BY <1>3, <1>4, <3>1, <3>2
  <2>4. DaysUpTo(y, date.month - 1) < count /\ count <= DaysUpTo(y, date.month)
    BY <1>3 DEF before, k
  <2>5. FormatTime(number) = [year |-> y, month |-> date.month,
                              day |-> count - MonthTable(y)[date.month - 1]]
    BY SMTT(30), <1>2, <1>4, <2>1, <2>2, <2>3, <2>4, YearIsFound
  <2>6. count - MonthTable(y)[date.month - 1] = date.day
    <3>1. k \in 0 .. 12
      BY <1>2 DEF k
    <3>2. MonthTable(y)[k] = before
      BY <1>2, <3>1, TableIsCalendar DEF before
    <3>3. count - before = date.day
      BY <1>2, <1>3 DEF count
    <3> QED
      BY <3>2, <3>3 DEF k
  <2>7. date = [year |-> y, month |-> date.month, day |-> date.day]
    BY <1>1, DateRecord DEF y
  <2> QED
    BY <2>5, <2>6, <2>7
<1> QED
  BY <1>5, <1>6

-----------------------------------------------------------------------------
(* IDs *)

\* The bases in which the addin spells numbers.
Bases == {10, 16}

\* What a number is divided into by the base in which it is spelled.
LEMMA Quotients ==
  ASSUME NEW base \in Bases, NEW n \in Nat
  PROVE  /\ base \in Nat /\ 1 < base
         /\ n \div base \in Nat /\ n % base \in Nat
         /\ n % base < base /\ n % base < 16 /\ (n < base => n < 16)
         /\ n \div base <= n
         /\ 0 < n => n \div base < n
         /\ n < base => n \div base = 0 /\ n % base = n
<1>1. CASE base = 10
  BY <1>1
<1>2. CASE base = 16
  BY <1>2
<1> QED
  BY <1>1, <1>2 DEF Bases

\* The numbers up to n spelled in a base, as Padded defines it.
Spells(f, n, base) ==
  f = [m \in 0 .. n |-> IF m < base THEN <<Digits[m + 1]>>
                        ELSE Append(f[m \div base], Digits[(m % base) + 1])]

\* The numbers up to any number have a spelling, so that Padded means what it says.
LEMMA SpellingExists ==
  ASSUME NEW base \in Bases
  PROVE  \A n \in Nat : \E f : Spells(f, n, base)
<1> DEFINE S == {n \in Nat : \E f : Spells(f, n, base)}
<1>1. 0 \in S
  <2> DEFINE f == [m \in 0 .. 0 |-> <<Digits[m + 1]>>]
  <2>1. base \in Nat /\ 1 < base
    BY Quotients
  <2>2. Spells(f, 0, base)
    BY <2>1 DEF Spells
  <2> QED
    BY <2>2
<1>2. ASSUME NEW n \in Nat, n \in S
      PROVE  n + 1 \in S
  <2>1. PICK f : Spells(f, n, base)
    BY <1>2
  <2> DEFINE Digit(h, m) == IF m < base THEN <<Digits[m + 1]>>
                            ELSE Append(h[m \div base], Digits[(m % base) + 1])
             g == [m \in 0 .. n + 1 |-> IF m = n + 1 THEN Digit(f, n + 1) ELSE f[m]]
  <2>2. ASSUME NEW m \in 0 .. n + 1
        PROVE  g[m] = Digit(g, m)
    <3>1. m \in Nat /\ base \in Nat /\ 1 < base
      BY Quotients
    <3>2. m < base \/ (m \div base \in 0 .. n /\ g[m \div base] = f[m \div base])
      <4> SUFFICES ASSUME ~(m < base) PROVE m \div base \in 0 .. n
        OBVIOUS
      <4>1. 0 < m
        BY <3>1
      <4>2. m \div base \in Nat /\ m \div base < m
        BY <3>1, <4>1, Quotients
      <4> QED
        BY <3>1, <4>2
    <3>3. Digit(g, m) = Digit(f, m)
      <4> HIDE DEF g
      <4> QED
        BY <3>2
    <3>4. CASE m = n + 1
      <4>1. g[m] = Digit(f, m)
        BY <3>4
      <4> QED
        BY <3>3, <4>1
    <3>5. CASE m # n + 1
      <4>1. m \in 0 .. n
        BY <3>5
      <4>2. f[m] = Digit(f, m)
        BY <2>1, <4>1 DEF Spells
      <4>3. g[m] = f[m]
        BY <3>5
      <4> HIDE DEF g, Digit
      <4> QED
        BY <3>3, <4>2, <4>3
    <3> QED
      BY <3>4, <3>5
  <2>3. g = [m \in 0 .. n + 1 |-> Digit(g, m)]
    <3>1. g = [m \in 0 .. n + 1 |-> g[m]]
      OBVIOUS
    <3> HIDE DEF g
    <3> QED
      BY <2>2, <3>1
  <2>4. Spells(g, n + 1, base)
    <3> HIDE DEF g
    <3> QED
      BY <2>3 DEF Spells
  <2> HIDE DEF g
  <2> QED
    BY <2>4
<1> HIDE DEF S
<1>3. \A n \in Nat : n \in S
  BY <1>1, <1>2, EveryNumber
<1> QED
  BY <1>3 DEF S

\* Two spellings agree on the numbers that both have.
LEMMA SpellingsAgree ==
  ASSUME NEW base \in Bases, NEW n \in Nat, NEW k \in Nat, NEW f, NEW g,
         Spells(f, n, base), Spells(g, k, base)
  PROVE  \A m \in Nat : m <= n /\ m <= k => f[m] = g[m]
<1> DEFINE S == {i \in Nat : \A m \in 0 .. i : m <= n /\ m <= k => f[m] = g[m]}
<1>1. ASSUME NEW i \in Nat, \A m \in Nat : m < i => (m <= n /\ m <= k => f[m] = g[m]),
             i <= n, i <= k
      PROVE  f[i] = g[i]
  <2>1. i \in 0 .. n /\ i \in 0 .. k
    BY <1>1
  <2>2. /\ f[i] = IF i < base THEN <<Digits[i + 1]>>
                  ELSE Append(f[i \div base], Digits[(i % base) + 1])
        /\ g[i] = IF i < base THEN <<Digits[i + 1]>>
                  ELSE Append(g[i \div base], Digits[(i % base) + 1])
    BY <2>1 DEF Spells
  <2>3. i < base \/ f[i \div base] = g[i \div base]
    <3> SUFFICES ASSUME ~(i < base) PROVE f[i \div base] = g[i \div base]
      OBVIOUS
    <3>1. base \in Nat /\ 1 < base
      BY Quotients
    <3>2. 0 < i
      BY <3>1
    <3>3. i \div base \in Nat /\ i \div base < i
      BY <3>2, Quotients
    <3>4. i \div base <= n /\ i \div base <= k
      BY <1>1, <3>3
    <3> QED
      BY <1>1, <3>3, <3>4
  <2> QED
    BY <2>2, <2>3
<1>2. 0 \in S
  <2> SUFFICES ASSUME NEW m \in 0 .. 0, m <= n, m <= k PROVE f[m] = g[m]
    OBVIOUS
  <2>1. m = 0 /\ \A j \in Nat : ~(j < m)
    OBVIOUS
  <2> QED
    BY <1>1, <2>1
<1>3. ASSUME NEW i \in Nat, i \in S
      PROVE  i + 1 \in S
  <2> SUFFICES ASSUME NEW m \in 0 .. i + 1, m <= n, m <= k PROVE f[m] = g[m]
    OBVIOUS
  <2>1. m \in Nat
    OBVIOUS
  <2>2. ASSUME NEW j \in Nat, j < m, j <= n, j <= k
        PROVE  f[j] = g[j]
    <3>1. j \in 0 .. i
      BY <2>2
    <3> QED
      BY <1>3, <2>2, <3>1
  <2> QED
    BY <1>1, <2>1, <2>2
<1>4. \A i \in Nat : i \in S
  <2> HIDE DEF S
  <2> QED
    BY <1>2, <1>3, EveryNumber
<1> QED
  BY <1>4

\* The digits of a number, which Padded pads.
Text(n, base) == (CHOOSE f : Spells(f, n, base))[n]

\* The digits of a number are those of its quotient by the base, and its last one.
LEMMA TextByDigits ==
  ASSUME NEW base \in Bases, NEW n \in Nat
  PROVE  /\ n < base => Text(n, base) = <<Digits[n + 1]>>
         /\ ~(n < base) => Text(n, base) = Append(Text(n \div base, base), Digits[(n % base) + 1])
<1> DEFINE f == CHOOSE h : Spells(h, n, base)
           k == n \div base
           g == CHOOSE h : Spells(h, k, base)
<1>1. k \in Nat /\ k <= n
  BY Quotients
<1>2. Spells(f, n, base) /\ Spells(g, k, base)
  BY <1>1, SpellingExists
<1>3. Text(n, base) = f[n] /\ Text(k, base) = g[k]
  BY DEF Text
<1> HIDE DEF f, g
<1>4. f[n] = IF n < base THEN <<Digits[n + 1]>> ELSE Append(f[k], Digits[(n % base) + 1])
  <2>1. n \in 0 .. n
    OBVIOUS
  <2>2. f = [m \in 0 .. n |-> IF m < base THEN <<Digits[m + 1]>>
                              ELSE Append(f[m \div base], Digits[(m % base) + 1])]
    BY <1>2 DEF Spells
  <2> QED
    BY <2>1, <2>2
<1> HIDE DEF k
<1>5. f[k] = g[k]
  BY <1>1, <1>2, SpellingsAgree
<1> QED
  BY <1>3, <1>4, <1>5 DEF k

\* The characters that the addin itself writes.
Marks == {Digits[i] : i \in 1 .. 16} \cup {"_", "o", "b", "j", "0"}

\* Digits are such characters.
LEMMA DigitsAreMarks ==
  \A n \in Nat : n < 16 => Digits[n + 1] \in Marks
<1> SUFFICES ASSUME NEW n \in Nat, n < 16 PROVE Digits[n + 1] \in Marks
  OBVIOUS
<1>1. n + 1 \in 1 .. 16
  OBVIOUS
<1> QED
  BY <1>1 DEF Marks

\* Every number has at least one digit.
LEMMA TextIsText ==
  ASSUME NEW base \in Bases
  PROVE  \A n \in Nat : Text(n, base) \in Seq(Marks) /\ 0 < Len(Text(n, base))
<1> DEFINE T(n) == Text(n, base) \in Seq(Marks) /\ 0 < Len(Text(n, base))
           S == {n \in Nat : \A m \in 0 .. n : T(m)}
<1>1. ASSUME NEW n \in Nat, \A m \in Nat : m < n => T(m)
      PROVE  T(n)
  <2>1. CASE n < base
    <3>1. Text(n, base) = <<Digits[n + 1]>> /\ n < 16
      BY <2>1, TextByDigits, Quotients
    <3>2. Digits[n + 1] \in Marks
      BY <3>1, DigitsAreMarks
    <3> QED
      BY <3>1, <3>2
  <2>2. CASE ~(n < base)
    <3> DEFINE k == n \div base
               d == Digits[(n % base) + 1]
    <3>1. base \in Nat /\ 1 < base
      BY Quotients
    <3>2. 0 < n
      BY <2>2, <3>1
    <3>3. k \in Nat /\ k < n /\ n % base \in Nat /\ n % base < 16
      BY <3>2, Quotients
    <3>4. d \in Marks
      <4> DEFINE r == n % base
      <4>1. r \in Nat /\ r < 16
        BY <3>3
      <4> HIDE DEF r
      <4>2. Digits[r + 1] \in Marks
        BY <4>1, DigitsAreMarks
      <4> QED
        BY <4>2 DEF r
    <3>5. Text(n, base) = Append(Text(k, base), d)
      BY <2>2, TextByDigits
    <3> HIDE DEF k, d
    <3>6. Text(k, base) \in Seq(Marks)
      BY <1>1, <3>3 DEF T
    <3> QED
      BY <3>4, <3>5, <3>6, AppendProperties DEF T
  <2> QED
    BY <2>1, <2>2
<1> HIDE DEF T
<1>2. 0 \in S
  <2> SUFFICES ASSUME NEW m \in 0 .. 0 PROVE T(m)
    OBVIOUS
  <2>1. m \in Nat /\ \A j \in Nat : ~(j < m)
    OBVIOUS
  <2> QED
    BY <1>1, <2>1
<1>3. ASSUME NEW i \in Nat, i \in S
      PROVE  i + 1 \in S
  <2> SUFFICES ASSUME NEW m \in 0 .. i + 1 PROVE T(m)
    OBVIOUS
  <2>1. m \in Nat /\ \A j \in Nat : j < m => j \in 0 .. i
    OBVIOUS
  <2> QED
    BY <1>1, <1>3, <2>1
<1>4. \A i \in Nat : i \in S
  <2> HIDE DEF S
  <2> QED
    BY <1>2, <1>3, EveryNumber
<1> QED
  BY <1>4 DEF T

\* What setfill puts before a number.
Zeros(n) == [i \in 1 .. n |-> "0"]

\* There are as many zeros as asked for.
LEMMA ZerosAreText ==
  ASSUME NEW n \in Nat
  PROVE  Zeros(n) \in Seq(Marks) /\ Len(Zeros(n)) = n
<1>1. "0" \in Marks
  BY DEF Marks
<1>2. Zeros(n) \in [1 .. n -> Marks]
  BY <1>1 DEF Zeros
<1> QED
  BY <1>2

\* The zeros that Padded puts before a text.
Missing(n, base, width) ==
  IF Len(Text(n, base)) < width THEN width - Len(Text(n, base)) ELSE 0

\* Padded is the zeros that are missing, and the digits.
LEMMA PaddedIsText ==
  ASSUME NEW base \in Bases, NEW n \in Nat, NEW width \in Nat
  PROVE  /\ Missing(n, base, width) \in Nat
         /\ Padded(n, base, width) = Zeros(Missing(n, base, width)) \o Text(n, base)
         /\ Padded(n, base, width) \in Seq(Marks)
         /\ Len(Padded(n, base, width)) = Missing(n, base, width) + Len(Text(n, base))
<1>1. Text(n, base) \in Seq(Marks) /\ 0 < Len(Text(n, base))
  BY TextIsText
<1>2. Len(Text(n, base)) \in Nat
  BY <1>1
<1>3. Missing(n, base, width) \in Nat
  BY <1>2 DEF Missing
<1>4. Padded(n, base, width) = Zeros(Missing(n, base, width)) \o Text(n, base)
  BY Zenon DEF Padded, Zeros, Missing, Text, Spells
<1>5. Zeros(Missing(n, base, width)) \in Seq(Marks)
      /\ Len(Zeros(Missing(n, base, width))) = Missing(n, base, width)
  BY <1>3, ZerosAreText
<1> QED
  BY <1>1, <1>3, <1>4, <1>5, ConcatProperties

\* To append to the second of two sequences is to append to both.
LEMMA ConcatAppend ==
  ASSUME NEW S, NEW s \in Seq(S), NEW t \in Seq(S), NEW e \in S
  PROVE  s \o Append(t, e) = Append(s \o t, e)
<1>1. Append(t, e) = t \o <<e>> /\ <<e>> \in Seq(S)
  BY AppendIsConcat
<1>2. s \o t \in Seq(S)
  BY ConcatProperties
<1>3. Append(s \o t, e) = (s \o t) \o <<e>>
  BY <1>2, AppendIsConcat
<1> QED
  BY <1>1, <1>3, ConcatAssociative

\* One zero more.
LEMMA ZerosGrow ==
  ASSUME NEW n \in Nat
  PROVE  Zeros(n) \o <<"0">> = Zeros(n + 1)
<1>1. "0" \in Marks
  BY DEF Marks
<1>2. <<"0">> \in Seq(Marks) /\ Len(<<"0">>) = 1
  BY <1>1
<1>3. Zeros(n) \in Seq(Marks) /\ Len(Zeros(n)) = n
  BY ZerosAreText
<1> DEFINE s == Zeros(n) \o <<"0">>
           z == Zeros(n + 1)
<1>4. s \in Seq(Marks) /\ Len(s) = n + 1
  BY <1>2, <1>3, ConcatProperties
<1>5. z \in Seq(Marks) /\ Len(z) = n + 1
  BY ZerosAreText
<1>6. \A i \in 1 .. n + 1 : s[i] = z[i]
  BY <1>2, <1>3 DEF Zeros
<1> QED
  <2> HIDE DEF s, z
  <2>1. s = z
    BY <1>4, <1>5, <1>6, SeqEqual
  <2> QED
    BY <2>1 DEF s, z

\* A padded number ends with its last digit, after its other digits as padded to the
\* width that is left.
LEMMA PaddedByDigits ==
  ASSUME NEW base \in Bases, NEW n \in Nat, NEW width \in Nat \ {0},
         NEW left \in Nat \ {0}, left = (IF width > 1 THEN width - 1 ELSE 1),
         base <= n \/ 1 < width
  PROVE  /\ Padded(n, base, width) =
              Append(Padded(n \div base, base, left), Digits[(n % base) + 1])
         /\ Digits[(n % base) + 1] \in Marks
<1> DEFINE k == n \div base
           d == Digits[(n % base) + 1]
<1>1. /\ base \in Nat /\ 1 < base /\ k \in Nat /\ k <= n
      /\ n < base => k = 0 /\ n % base = n
  BY Quotients
<1>2. d \in Marks
  <2> DEFINE r == n % base
  <2>1. r \in Nat /\ r < 16
    BY Quotients
  <2> HIDE DEF r
  <2>2. Digits[r + 1] \in Marks
    BY <2>1, DigitsAreMarks
  <2> QED
    BY <2>2 DEF r
<1>3. /\ n < base => Text(n, base) = <<d>>
      /\ ~(n < base) => Text(n, base) = Append(Text(k, base), d)
  BY <1>1, TextByDigits
<1> HIDE DEF k, d
<1>4. Text(k, base) \in Seq(Marks) /\ 0 < Len(Text(k, base)) /\ Len(Text(k, base)) \in Nat
  <2>1. Text(k, base) \in Seq(Marks) /\ 0 < Len(Text(k, base))
    BY <1>1, TextIsText
  <2> QED
    BY <2>1, LenProperties
<1>5. /\ Padded(n, base, width) = Zeros(Missing(n, base, width)) \o Text(n, base)
      /\ Padded(k, base, left) = Zeros(Missing(k, base, left)) \o Text(k, base)
      /\ Missing(n, base, width) \in Nat /\ Missing(k, base, left) \in Nat
  BY <1>1, PaddedIsText
<1>6. CASE ~(n < base)
  <2>1. Text(n, base) = Append(Text(k, base), d)
    BY <1>3, <1>6
  <2>2. Len(Text(n, base)) = Len(Text(k, base)) + 1
    BY <1>2, <1>4, <2>1, AppendProperties
  <2>3. Missing(n, base, width) = Missing(k, base, left)
    BY <1>4, <2>2 DEF Missing
  <2> DEFINE zeros == Zeros(Missing(k, base, left))
  <2>4. zeros \in Seq(Marks)
    BY <1>5, ZerosAreText
  <2>5. zeros \o Append(Text(k, base), d) = Append(zeros \o Text(k, base), d)
    <3> HIDE DEF zeros
    <3> QED
      BY <1>2, <1>4, <2>4, ConcatAppend
  <2>6. Padded(n, base, width) = Append(Padded(k, base, left), d)
    BY <1>5, <2>1, <2>3, <2>5
  <2> QED
    BY <1>2, <2>6 DEF k, d
<1>7. CASE n < base
  <2>1. k = 0 /\ 1 < width /\ left = width - 1
    BY <1>1, <1>7
  <2>2. Text(n, base) = <<d>> /\ Text(k, base) = <<"0">>
    <3>1. Text(0, base) = <<Digits[0 + 1]>>
      BY <1>1, TextByDigits
    <3>2. Digits[0 + 1] = "0"
      BY DEF Digits
    <3> QED
      BY <1>3, <1>7, <2>1, <3>1, <3>2
  <2>3. Missing(n, base, width) = left /\ Missing(k, base, left) = left - 1 /\ left - 1 \in Nat
    <3>1. Len(Text(n, base)) = 1 /\ Len(Text(k, base)) = 1
      BY <2>2
    <3>2. Missing(n, base, width) = IF 1 < width THEN width - 1 ELSE 0
      BY <3>1 DEF Missing
    <3>3. Missing(k, base, left) = IF 1 < left THEN left - 1 ELSE 0
      BY <3>1 DEF Missing
    <3>4. left - 1 \in Nat
      OBVIOUS
    <3> QED
      BY <2>1, <3>2, <3>3, <3>4
  <2>4. Zeros(left - 1) \o <<"0">> = Zeros(left)
    <3> DEFINE m == left - 1
    <3>1. m \in Nat /\ m + 1 = left
      BY <2>3
    <3> HIDE DEF m
    <3>2. Zeros(m) \o <<"0">> = Zeros(m + 1)
      BY <3>1, ZerosGrow
    <3> QED
      BY <3>1, <3>2 DEF m
  <2>5. Padded(k, base, left) = Zeros(left)
    BY <1>5, <2>2, <2>3, <2>4
  <2>6. Padded(n, base, width) = Zeros(left) \o <<d>>
    BY <1>5, <2>2, <2>3
  <2>7. Zeros(left) \o <<d>> = Append(Zeros(left), d)
    <3>1. Zeros(left) \in Seq(Marks)
      BY ZerosAreText
    <3> QED
      BY <1>2, <3>1, AppendIsConcat
  <2>8. Padded(n, base, width) = Append(Padded(k, base, left), d)
    BY <2>5, <2>6, <2>7
  <2> QED
    BY <1>2, <2>8 DEF k, d
<1> QED
  BY <1>6, <1>7

\* A text no longer than the width is padded to it.
LEMMA PaddedToWidth ==
  ASSUME NEW base \in Bases, NEW n \in Nat, NEW width \in Nat, Len(Text(n, base)) <= width
  PROVE  Padded(n, base, width) \in Seq(Marks) /\ Len(Padded(n, base, width)) = width
<1>1. Len(Text(n, base)) \in Nat
  BY TextIsText, LenProperties
<1>2. Missing(n, base, width) + Len(Text(n, base)) = width
  BY <1>1 DEF Missing
<1> QED
  BY <1>2, PaddedIsText

\* The count that a cell shows takes four places.
LEMMA CountsTakeFour ==
  ASSUME NEW n \in Nat
  PROVE  /\ Padded(ShownCount(n), 10, 4) \in Seq(Marks)
         /\ Len(Padded(ShownCount(n), 10, 4)) = 4
<1> DEFINE c == ShownCount(n)
           T(m) == Len(Text(m, 10))
<1>1. c \in Nat /\ c < 10000
  BY DEF ShownCount
<1> HIDE DEF c
<1>2. 10 \in Bases
  BY DEF Bases
<1>3. \A m \in Nat : /\ T(m) \in Nat /\ 0 < T(m)
                     /\ m < 10 => T(m) = 1
                     /\ ~(m < 10) => T(m) = T(m \div 10) + 1
  <2> SUFFICES ASSUME NEW m \in Nat
               PROVE  /\ T(m) \in Nat /\ 0 < T(m)
                      /\ m < 10 => T(m) = 1
                      /\ ~(m < 10) => T(m) = T(m \div 10) + 1
    OBVIOUS
  <2>1. Text(m, 10) \in Seq(Marks) /\ 0 < Len(Text(m, 10))
    BY <1>2, TextIsText
  <2>2. m \div 10 \in Nat /\ m % 10 \in Nat /\ m % 10 < 16
    OBVIOUS
  <2>3. Text(m \div 10, 10) \in Seq(Marks)
    BY <1>2, <2>2, TextIsText
  <2>4. /\ m < 10 => Text(m, 10) = <<Digits[m + 1]>>
        /\ ~(m < 10) => Text(m, 10) = Append(Text(m \div 10, 10), Digits[(m % 10) + 1])
    BY <1>2, TextByDigits
  <2>5. Digits[(m % 10) + 1] \in Marks
    <3> DEFINE r == m % 10
    <3>1. r \in Nat /\ r < 16
      BY <2>2
    <3> HIDE DEF r
    <3>2. Digits[r + 1] \in Marks
      BY <3>1, DigitsAreMarks
    <3> QED
      BY <3>2 DEF r
  <2>6. m < 10 => T(m) = 1
    BY <2>4
  <2>7. ~(m < 10) => T(m) = T(m \div 10) + 1
    BY <2>3, <2>4, <2>5, AppendProperties
  <2>8. T(m) \in Nat /\ 0 < T(m)
    BY <2>1, LenProperties
  <2> QED
    BY <2>6, <2>7, <2>8
<1> HIDE DEF T
<1>4. \A m \in Nat : m < 100 => T(m) <= 2
  <2> SUFFICES ASSUME NEW m \in Nat, m < 100 PROVE T(m) <= 2
    OBVIOUS
  <2>1. m \div 10 \in Nat /\ m \div 10 < 10
    OBVIOUS
  <2> QED
    BY <1>3, <2>1
<1>5. \A m \in Nat : m < 1000 => T(m) <= 3
  <2> SUFFICES ASSUME NEW m \in Nat, m < 1000 PROVE T(m) <= 3
    OBVIOUS
  <2>1. m \div 10 \in Nat /\ m \div 10 < 100
    OBVIOUS
  <2>2. T(m \div 10) <= 2 /\ T(m \div 10) \in Nat
    BY <1>3, <1>4, <2>1
  <2> QED
    BY <1>3, <2>2
<1>6. T(c) <= 4
  <2>1. c \div 10 \in Nat /\ c \div 10 < 1000
    BY <1>1
  <2>2. T(c \div 10) <= 3 /\ T(c \div 10) \in Nat
    BY <1>3, <1>5, <2>1
  <2> QED
    BY <1>1, <1>3, <2>2
<1>7. T(c) \in Nat
  BY <1>1, <1>3
<1>8. Len(Text(c, 10)) <= 4
  BY <1>6 DEF T
<1>9. Padded(c, 10, 4) \in Seq(Marks) /\ Len(Padded(c, 10, 4)) = 4
  <2> DEFINE base == 10
             width == 4
  <2>1. base \in Bases /\ width \in Nat /\ Len(Text(c, base)) <= width
    BY <1>2, <1>8
  <2> HIDE DEF base, width
  <2>2. Padded(c, base, width) \in Seq(Marks) /\ Len(Padded(c, base, width)) = width
    BY <1>1, <2>1, PaddedToWidth
  <2> QED
    BY <2>2 DEF base, width
<1> QED
  BY <1>9 DEF c

\* The stub of a full ID is the ID.
LEMMA StubOfFull ==
  ASSUME NEW S, NEW id \in Seq(S), NEW n \in Nat
  PROVE  GetStub(FullID(id, n)) = id
<1> DEFINE C == S \cup Marks \cup {"#"}
           count == Padded(ShownCount(n), 10, 4)
           tail == <<"#">> \o count
           full == id \o tail
<1>1. "#" \in C /\ S \subseteq C /\ Marks \subseteq C
  OBVIOUS
<1>2. id \in Seq(C)
  <2>1. Seq(S) \subseteq Seq(C)
    BY <1>1
  <2> QED
    BY <2>1
<1>3. count \in Seq(C) /\ Len(count) = 4
  <2>1. count \in Seq(Marks) /\ Len(count) = 4
    BY CountsTakeFour
  <2>2. Seq(Marks) \subseteq Seq(C)
    BY <1>1
  <2> QED
    BY <2>1, <2>2
<1> HIDE DEF C, count
<1>4. <<"#">> \in Seq(C) /\ Len(<<"#">>) = 1 /\ <<"#">>[1] = "#"
  BY <1>1
<1>5. tail \in Seq(C) /\ Len(tail) = 5 /\ tail[1] = "#"
  <2>1. tail \in Seq(C) /\ Len(tail) = Len(<<"#">>) + Len(count)
    BY <1>3, <1>4, ConcatProperties
  <2>2. Len(tail) = 5
    BY <1>3, <1>4, <2>1
  <2>3. tail[1] = <<"#">>[1]
    BY <1>3, <1>4
  <2> QED
    BY <1>4, <2>1, <2>2, <2>3
<1> HIDE DEF tail
<1>6. /\ full \in Seq(C) /\ Len(full) = Len(id) + 5 /\ Len(id) \in Nat
      /\ \A i \in 1 .. Len(id) : full[i] = id[i]
      /\ full[Len(id) + 1] = "#"
  BY SMTT(30), <1>2, <1>5, ConcatProperties
<1>7. FullID(id, n) = full
  BY <1>2, <1>3, <1>4, ConcatAssociative DEF FullID, tail, count
<1> HIDE DEF full
<1>8. GetStub(full) = SubSeq(full, 1, Len(id))
  <2>1. Len(full) - 5 = Len(id) /\ (Len(full) - 5) + 1 = Len(id) + 1 /\ Len(full) >= 5
    BY <1>6
  <2> QED
    BY <1>6, <2>1 DEF GetStub, KEY_WIDTH
<1>9. SubSeq(full, 1, Len(id)) = id
  <2> DEFINE s == SubSeq(full, 1, Len(id))
  <2>1. s \in Seq(C) /\ Len(s) = Len(id) /\ \A i \in 1 .. Len(id) : s[i] = full[i]
    BY <1>6
  <2> HIDE DEF s
  <2>2. s = id
    BY <1>2, <1>6, <2>1, SeqEqual
  <2> QED
    BY <2>2 DEF s
<1> QED
  BY <1>7, <1>8, <1>9

\* An ID without the delimiter is its own stub.
LEMMA StubOfNormal ==
  ASSUME NEW S, NEW id \in Seq(S), \A i \in 1 .. Len(id) : id[i] # "#"
  PROVE  GetStub(id) = id
<1>1. Len(id) \in Nat
  OBVIOUS
<1>2. Len(id) >= 5 => (Len(id) - 5) + 1 \in 1 .. Len(id)
  BY <1>1
<1> QED
  BY <1>2 DEF GetStub, KEY_WIDTH

\* What a cell shows leads back to an object that a user has named, at every count.
LEMMA EveryStubLeadsBack ==
  ASSUME NEW S, NEW id \in Seq(S), Accepted(id), NEW n \in Nat
  PROVE  StubLeadsBack(id, n)
<1>1. \A i \in 1 .. Len(id) : id[i] # "#"
  BY DEF Accepted, Contains
<1> QED
  BY <1>1, StubOfFull, StubOfNormal DEF StubLeadsBack

\* No two digits are the same in capitals.
LEMMA DigitsInCapitals ==
  ASSUME NEW i \in 1 .. 16, NEW j \in 1 .. 16, Upper(Digits[i]) = Upper(Digits[j])
  PROVE  i = j
<1>1. /\ Digits[1] = "0" /\ Digits[2] = "1" /\ Digits[3] = "2" /\ Digits[4] = "3"
      /\ Digits[5] = "4" /\ Digits[6] = "5" /\ Digits[7] = "6" /\ Digits[8] = "7"
      /\ Digits[9] = "8" /\ Digits[10] = "9" /\ Digits[11] = "a" /\ Digits[12] = "b"
      /\ Digits[13] = "c" /\ Digits[14] = "d" /\ Digits[15] = "e" /\ Digits[16] = "f"
  BY DEF Digits
<1>2. \A k \in 1 .. 16 : /\ Upper(Digits[k]) = (IF k = 12 THEN "B" ELSE Digits[k])
                         /\ Digits[k] # "B"
  <2> SUFFICES ASSUME NEW k \in 1 .. 16
               PROVE  /\ Upper(Digits[k]) = (IF k = 12 THEN "B" ELSE Digits[k])
                      /\ Digits[k] # "B"
    OBVIOUS
  <2>1. k \in {1, 2, 3, 4, 5, 6, 7, 8, 9, 10, 11, 12, 13, 14, 15, 16}
    OBVIOUS
  <2> QED
    BY <1>1, <2>1 DEF Upper
<1>3. Digits[i] = Digits[j] => i = j
  <2>1. /\ i \in {1, 2, 3, 4, 5, 6, 7, 8, 9, 10, 11, 12, 13, 14, 15, 16}
        /\ j \in {1, 2, 3, 4, 5, 6, 7, 8, 9, 10, 11, 12, 13, 14, 15, 16}
    OBVIOUS
  <2> QED
    BY <1>1, <2>1
<1> QED
  BY <1>2, <1>3

\* Two texts that end alike are the same when what comes before is.
LEMMA SameFronts ==
  ASSUME NEW S, NEW s \in Seq(S), NEW t \in Seq(S), NEW c \in S, NEW d \in S,
         SameID(Append(s, c), Append(t, d))
  PROVE  SameID(s, t) /\ Upper(c) = Upper(d)
<1> DEFINE sc == Append(s, c)
           td == Append(t, d)
<1>1. /\ Len(sc) = Len(s) + 1 /\ sc[Len(s) + 1] = c /\ \A i \in 1 .. Len(s) : sc[i] = s[i]
      /\ Len(s) \in Nat
  BY AppendProperties
<1>2. /\ Len(td) = Len(t) + 1 /\ td[Len(t) + 1] = d /\ \A i \in 1 .. Len(t) : td[i] = t[i]
      /\ Len(t) \in Nat
  BY AppendProperties
<1>3. DOMAIN sc = 1 .. Len(s) + 1 /\ DOMAIN s = 1 .. Len(s)
  <2>1. sc \in Seq(S)
    BY AppendProperties
  <2> HIDE DEF sc
  <2> QED
    BY <1>1, <2>1
<1> HIDE DEF sc, td
<1>4. Len(sc) = Len(td) /\ \A i \in DOMAIN sc : Upper(sc[i]) = Upper(td[i])
  BY DEF SameID, sc, td
<1>5. Len(s) = Len(t)
  BY <1>1, <1>2, <1>4
<1>6. \A i \in 1 .. Len(s) : Upper(s[i]) = Upper(t[i])
  BY <1>1, <1>2, <1>3, <1>4, <1>5
<1>7. Upper(c) = Upper(d)
  BY <1>1, <1>2, <1>3, <1>4, <1>5
<1> QED
  BY <1>3, <1>5, <1>6, <1>7 DEF SameID

\* Numbers that are spelled alike in base 16 are the same.
LEMMA SpelledApart ==
  \A n \in Nat : \A k, l \in 0 .. n, w \in Nat \ {0} :
    SameID(Padded(k, 16, w), Padded(l, 16, w)) => k = l
<1> DEFINE base == 16
           Same(k, l, w) == SameID(Padded(k, base, w), Padded(l, base, w))
           S == {n \in Nat : \A k, l \in 0 .. n, w \in Nat \ {0} : Same(k, l, w) => k = l}
<1>1. 0 \in S
  OBVIOUS
<1>2. ASSUME NEW n \in Nat, n \in S
      PROVE  n + 1 \in S
  <2> SUFFICES ASSUME NEW k \in 0 .. n + 1, NEW l \in 0 .. n + 1, NEW w \in Nat \ {0},
                      Same(k, l, w)
               PROVE  k = l
    OBVIOUS
  <2>1. base \in Bases /\ base = 16
    BY DEF Bases
  <2> DEFINE left == IF w > 1 THEN w - 1 ELSE 1
             a == k \div base
             b == l \div base
             c == Digits[(k % base) + 1]
             d == Digits[(l % base) + 1]
  <2>2. left \in Nat \ {0}
    OBVIOUS
  <2>3. /\ k \in Nat /\ l \in Nat
        /\ a \in 0 .. n /\ b \in 0 .. n
        /\ (k % base) + 1 \in 1 .. 16 /\ (l % base) + 1 \in 1 .. 16
        /\ k = 16 * a + (k % base) /\ l = 16 * b + (l % base)
    OBVIOUS
  <2>4. \A m \in Nat : m < base => Text(m, base) = <<Digits[m + 1]>>
    BY <2>1, TextByDigits
  <2> HIDE DEF base, left
  <2>5. ASSUME NEW m \in Nat, base <= m \/ 1 < w
        PROVE  /\ Padded(m, base, w) = Append(Padded(m \div base, base, left),
                                              Digits[(m % base) + 1])
               /\ Digits[(m % base) + 1] \in Marks
    BY <2>1, <2>2, <2>5, PaddedByDigits DEF left
  <2>6. ASSUME base <= k \/ 1 < w, base <= l \/ 1 < w
        PROVE  k = l
    <3>1. /\ Padded(k, base, w) = Append(Padded(a, base, left), c) /\ c \in Marks
          /\ Padded(l, base, w) = Append(Padded(b, base, left), d) /\ d \in Marks
      BY <2>3, <2>5, <2>6
    <3>2. Padded(a, base, left) \in Seq(Marks) /\ Padded(b, base, left) \in Seq(Marks)
      <4>1. a \in Nat /\ b \in Nat /\ left \in Nat
        BY <2>2, <2>3
      <4> HIDE DEF a, b
      <4> QED
        BY <2>1, <4>1, PaddedIsText
    <3>3. SameID(Padded(a, base, left), Padded(b, base, left)) /\ Upper(c) = Upper(d)
      <4>1. SameID(Append(Padded(a, base, left), c), Append(Padded(b, base, left), d))
        BY <3>1
      <4> HIDE DEF a, b, c, d, Same
      <4> QED
        BY <3>1, <3>2, <4>1, SameFronts
    <3>4. a = b
      <4> HIDE DEF a, b
      <4> QED
        BY <1>2, <2>2, <2>3, <3>3
    <3>5. (k % base) + 1 = (l % base) + 1
      BY <2>3, <3>3, DigitsInCapitals
    <3> QED
      <4> HIDE DEF a, b
      <4> QED
        BY <2>1, <2>3, <3>4, <3>5
  <2>7. ASSUME NEW x \in Nat, NEW y \in Nat, ~(base <= x \/ 1 < w), base <= y
        PROVE  Len(Padded(x, base, w)) = 1 /\ 1 < Len(Padded(y, base, w))
    <3>1. w = 1 /\ x < base
      BY <2>1, <2>7
    <3>2. Len(Text(x, base)) = 1
      BY <2>4, <3>1
    <3>3. Len(Padded(x, base, w)) = 1
      <4>1. w \in Nat /\ Len(Text(x, base)) <= w
        BY <3>1, <3>2
      <4>2. Len(Padded(x, base, w)) = w
        BY <2>1, <4>1, PaddedToWidth
      <4> QED
        BY <3>1, <4>2
    <3> DEFINE z == y \div base
    <3>4. z \in Nat
      BY <2>1
    <3>5. Padded(y, base, w) = Append(Padded(z, base, left), Digits[(y % base) + 1])
          /\ Digits[(y % base) + 1] \in Marks
      BY <2>5, <2>7
    <3> HIDE DEF z
    <3>6. /\ Padded(z, base, left) \in Seq(Marks)
          /\ Len(Padded(z, base, left)) = Missing(z, base, left) + Len(Text(z, base))
          /\ Missing(z, base, left) \in Nat
      BY <2>1, <2>2, <3>4, PaddedIsText
    <3>7. 0 < Len(Text(z, base)) /\ Len(Text(z, base)) \in Nat
      BY <2>1, <3>4, TextIsText, LenProperties
    <3>8. Len(Padded(y, base, w)) = Len(Padded(z, base, left)) + 1
      BY <3>5, <3>6, AppendProperties
    <3> QED
      BY <3>3, <3>6, <3>7, <3>8
  <2>8. Len(Padded(k, base, w)) = Len(Padded(l, base, w))
    BY DEF SameID
  <2>9. ASSUME ~(base <= k \/ 1 < w), ~(base <= l \/ 1 < w)
        PROVE  k = l
    <3>1. w = 1 /\ k < base /\ l < base
      BY <2>1, <2>3, <2>9
    <3>2. Padded(k, base, w) = <<Digits[k + 1]>> /\ Padded(l, base, w) = <<Digits[l + 1]>>
      <4> SUFFICES ASSUME NEW m \in Nat, m < base PROVE Padded(m, base, w) = <<Digits[m + 1]>>
        BY <2>3, <3>1
      <4>1. Text(m, base) = <<Digits[m + 1]>>
        BY <2>4
      <4>2. Missing(m, base, w) = 0
        BY <3>1, <4>1 DEF Missing
      <4>3. Padded(m, base, w) = Zeros(0) \o Text(m, base)
        BY <2>1, <4>2, PaddedIsText
      <4>4. Zeros(0) = << >>
        BY DEF Zeros
      <4>5. Text(m, base) \in Seq(Marks)
        BY <2>1, TextIsText
      <4> QED
        BY <4>1, <4>3, <4>4, <4>5, ConcatEmptySeq
    <3>3. SameID(<<Digits[k + 1]>>, <<Digits[l + 1]>>)
      BY <3>2
    <3>4. Upper(Digits[k + 1]) = Upper(Digits[l + 1])
      BY <3>3 DEF SameID
    <3>5. k + 1 \in 1 .. 16 /\ l + 1 \in 1 .. 16
      BY <2>1, <2>3, <3>1
    <3>6. k + 1 = l + 1
      BY <3>4, <3>5, DigitsInCapitals
    <3> QED
      BY <2>3, <3>6
  <2>10. CASE (base <= k \/ 1 < w) /\ ~(base <= l \/ 1 < w)
    <3>1. base <= k /\ k \in Nat /\ l \in Nat
      BY <2>3, <2>10
    <3>2. Len(Padded(l, base, w)) = 1 /\ 1 < Len(Padded(k, base, w))
      BY <2>7, <2>10, <3>1
    <3> QED
      BY <2>8, <3>2
  <2>11. CASE ~(base <= k \/ 1 < w) /\ (base <= l \/ 1 < w)
    <3>1. base <= l /\ k \in Nat /\ l \in Nat
      BY <2>3, <2>11
    <3>2. Len(Padded(k, base, w)) = 1 /\ 1 < Len(Padded(l, base, w))
      BY <2>7, <2>11, <3>1
    <3> QED
      BY <2>8, <3>2
  <2> QED
    BY <2>6, <2>9, <2>10, <2>11
<1>3. \A n \in Nat : n \in S
  <2> HIDE DEF S
  <2> QED
    BY <1>1, <1>2, EveryNumber
<1> QED
  BY <1>3

\* The prefix of anonymous objects, as it is written.
OBJ == <<"o", "b", "j">>

\* The elements of two sequences, one after the other.
LEMMA Concatenated ==
  ASSUME NEW S, NEW s \in Seq(S), NEW t \in Seq(S), NEW u, u = s \o t
  PROVE  /\ u \in Seq(S) /\ Len(u) = Len(s) + Len(t)
         /\ \A i \in 1 .. Len(s) : u[i] = s[i]
         /\ \A i \in 1 .. Len(t) : u[Len(s) + i] = t[i]
<1>1. Len(s) \in Nat /\ Len(t) \in Nat
  OBVIOUS
<1>2. /\ u \in Seq(S) /\ Len(u) = Len(s) + Len(t)
      /\ \A i \in 1 .. Len(u) : u[i] = IF i <= Len(s) THEN s[i] ELSE t[i - Len(s)]
  BY ConcatProperties
<1>3. \A i \in 1 .. Len(t) : u[Len(s) + i] = t[i]
  <2> SUFFICES ASSUME NEW i \in 1 .. Len(t) PROVE u[Len(s) + i] = t[i]
    OBVIOUS
  <2> DEFINE j == Len(s) + i
  <2>1. j \in 1 .. Len(s) + Len(t) /\ ~(j <= Len(s)) /\ j - Len(s) = i
    BY <1>1
  <2> HIDE DEF j
  <2>2. u[j] = t[j - Len(s)]
    BY <1>2, <2>1
  <2> QED
    BY <2>1, <2>2 DEF j
<1> QED
  BY <1>1, <1>2, <1>3

\* An ID made up for an anonymous object: the prefix, the mark, and a key.
LEMMA AnonymousParts ==
  ASSUME NEW k \in Nat
  PROVE  LET key == Padded(k, 16, 5) IN
         /\ key \in Seq(Marks) /\ Len(key) \in Nat
         /\ Anonymous(k) \in Seq(Marks)
         /\ Len(Anonymous(k)) = Len(key) + 4
         /\ Anonymous(k)[1] = "o" /\ Anonymous(k)[2] = "b" /\ Anonymous(k)[3] = "j"
         /\ \A i \in 1 .. Len(key) : Anonymous(k)[i + 4] = key[i]
<1> DEFINE key == Padded(k, 16, 5)
<1>1. key \in Seq(Marks)
  <2> DEFINE base == 16
             width == 5
  <2>1. base \in Bases /\ width \in Nat
    BY DEF Bases
  <2> HIDE DEF base, width
  <2>2. Padded(k, base, width) \in Seq(Marks)
    BY <2>1, PaddedIsText
  <2> QED
    BY <2>2 DEF base, width
<1>2. Len(key) \in Nat
  BY <1>1, LenProperties
<1>3. Anonymous(k) = OBJ \o (<<"_">> \o key)
  BY DEF Anonymous, Key, KEY_WIDTH, OBJ
<1> HIDE DEF key
<1> DEFINE mark == <<"_">>
           rest == mark \o key
           id == OBJ \o rest
<1>4. mark \in Seq(Marks) /\ OBJ \in Seq(Marks)
  BY DEF OBJ, Marks
<1>5. Len(mark) = 1 /\ Len(OBJ) = 3 /\ OBJ[1] = "o" /\ OBJ[2] = "b" /\ OBJ[3] = "j"
  BY DEF OBJ
<1>6. id = Anonymous(k) /\ rest = mark \o key /\ id = OBJ \o rest
  BY <1>3
<1> HIDE DEF mark, rest, id
<1>7. /\ rest \in Seq(Marks) /\ Len(rest) = Len(mark) + Len(key)
      /\ \A i \in 1 .. Len(mark) : rest[i] = mark[i]
      /\ \A i \in 1 .. Len(key) : rest[Len(mark) + i] = key[i]
  <2>1. rest \in Seq(Marks)
    BY <1>1, <1>4, <1>6, Concatenated
  <2>2. Len(rest) = Len(mark) + Len(key)
    BY <1>1, <1>4, <1>6, Concatenated
  <2>3. \A i \in 1 .. Len(mark) : rest[i] = mark[i]
    BY <1>1, <1>4, <1>6, Concatenated
  <2>4. \A i \in 1 .. Len(key) : rest[Len(mark) + i] = key[i]
    BY <1>1, <1>4, <1>6, Concatenated
  <2> QED
    BY <2>1, <2>2, <2>3, <2>4
<1>8. rest \in Seq(Marks)
  BY <1>7
<1>9. /\ id \in Seq(Marks) /\ Len(id) = Len(OBJ) + Len(rest)
      /\ \A i \in 1 .. Len(OBJ) : id[i] = OBJ[i]
      /\ \A i \in 1 .. Len(rest) : id[Len(OBJ) + i] = rest[i]
  <2>1. id \in Seq(Marks)
    BY <1>4, <1>6, <1>8, Concatenated
  <2>2. Len(id) = Len(OBJ) + Len(rest)
    BY <1>4, <1>6, <1>8, Concatenated
  <2>3. \A i \in 1 .. Len(OBJ) : id[i] = OBJ[i]
    BY <1>4, <1>6, <1>8, Concatenated
  <2>4. \A i \in 1 .. Len(rest) : id[Len(OBJ) + i] = rest[i]
    BY <1>4, <1>6, <1>8, Concatenated
  <2> QED
    BY <2>1, <2>2, <2>3, <2>4
<1>10. Len(id) = Len(key) + 4
  BY <1>2, <1>5, <1>7, <1>9
<1>11. id[1] = "o" /\ id[2] = "b" /\ id[3] = "j"
  <2>1. 1 \in 1 .. Len(OBJ) /\ 2 \in 1 .. Len(OBJ) /\ 3 \in 1 .. Len(OBJ)
    BY <1>5
  <2> QED
    BY <1>5, <1>9, <2>1
<1>12. \A i \in 1 .. Len(key) : id[i + 4] = key[i]
  <2> SUFFICES ASSUME NEW i \in 1 .. Len(key) PROVE id[i + 4] = key[i]
    OBVIOUS
  <2> DEFINE j == Len(mark) + i
  <2>1. j \in 1 .. Len(rest) /\ Len(OBJ) + j = i + 4
    BY <1>2, <1>5, <1>7
  <2>2. rest[j] = key[i]
    BY <1>7
  <2> HIDE DEF j
  <2>3. id[Len(OBJ) + j] = rest[j]
    BY <1>9, <2>1
  <2> QED
    BY <2>1, <2>2, <2>3
<1> QED
  BY <1>1, <1>2, <1>6, <1>9, <1>10, <1>11, <1>12 DEF key

\* And to one with an ID that was made up for it.
LEMMA EveryAnonymousLeadsBack ==
  ASSUME NEW k \in Nat, NEW n \in Nat
  PROVE  StubLeadsBack(Anonymous(k), n)
<1> DEFINE a == Anonymous(k)
<1>1. a \in Seq(Marks)
  BY AnonymousParts
<1>2. "#" \notin Marks
  BY DEF Marks, Digits
<1> HIDE DEF a
<1>3. \A i \in 1 .. Len(a) : a[i] # "#"
  BY <1>1, <1>2
<1>4. GetStub(FullID(a, n)) = a /\ GetStub(a) = a
  BY <1>1, <1>3, StubOfFull, StubOfNormal
<1> QED
  BY <1>4 DEF StubLeadsBack, a

\* No two cells have anonymous objects of one ID.
LEMMA CellsAreApart ==
  ASSUME NEW k \in Nat, NEW l \in Nat, SameID(Anonymous(k), Anonymous(l))
  PROVE  k = l
<1> DEFINE a == Padded(k, 16, 5)
           b == Padded(l, 16, 5)
           x == Anonymous(k)
           y == Anonymous(l)
<1>1. /\ a \in Seq(Marks) /\ Len(a) \in Nat /\ x \in Seq(Marks) /\ Len(x) = Len(a) + 4
      /\ \A i \in 1 .. Len(a) : x[i + 4] = a[i]
  BY AnonymousParts
<1>2. /\ b \in Seq(Marks) /\ Len(b) \in Nat /\ y \in Seq(Marks) /\ Len(y) = Len(b) + 4
      /\ \A i \in 1 .. Len(b) : y[i + 4] = b[i]
  BY AnonymousParts
<1>3. SameID(x, y)
  OBVIOUS
<1> HIDE DEF a, b, x, y
<1>4. Len(x) = Len(y) /\ \A i \in DOMAIN x : Upper(x[i]) = Upper(y[i])
  BY <1>3 DEF SameID
<1>5. Len(a) = Len(b) /\ DOMAIN x = 1 .. Len(x) /\ DOMAIN a = 1 .. Len(a)
  BY <1>1, <1>2, <1>4
<1>6. \A i \in 1 .. Len(a) : Upper(a[i]) = Upper(b[i])
  <2> SUFFICES ASSUME NEW i \in 1 .. Len(a) PROVE Upper(a[i]) = Upper(b[i])
    OBVIOUS
  <2> DEFINE j == i + 4
  <2>1. j \in 1 .. Len(x)
    BY <1>1
  <2>2. x[j] = a[i] /\ y[j] = b[i]
    BY <1>1, <1>2, <1>5
  <2> HIDE DEF j
  <2> QED
    BY <1>4, <1>5, <2>1, <2>2
<1>7. SameID(a, b)
  BY <1>5, <1>6 DEF SameID
<1> DEFINE n == IF k < l THEN l ELSE k
           w == 5
<1>8. n \in Nat /\ k \in 0 .. n /\ l \in 0 .. n /\ w \in Nat \ {0}
  OBVIOUS
<1>9. SameID(Padded(k, 16, w), Padded(l, 16, w))
  BY <1>7 DEF a, b
<1> HIDE DEF n, w
<1> QED
  BY <1>8, <1>9, SpelledApart

\* The prefix in capitals.
LEMMA Capitals3 ==
  /\ Upper("o") = "O" /\ Upper("b") = "B" /\ Upper("j") = "J"
  /\ Upper("O") = "O" /\ Upper("B") = "B" /\ Upper("J") = "J"
BY DEF Upper

\* What begins with the reserved prefix, in capitals or not, is reserved.
LEMMA PrefixIsReserved ==
  ASSUME NEW id, Len(id) \in Nat, 3 <= Len(id),
         Upper(id[1]) = "O", Upper(id[2]) = "B", Upper(id[3]) = "J"
  PROVE  Reserved(id)
<1> DEFINE p == 1
           read == [i \in 1 .. 3 |-> Upper(id[p + i - 1])]
<1>1. p \in 1 .. 3 /\ p + 2 <= Len(id)
  OBVIOUS
<1>2. \A i \in 1 .. 3 : p + i - 1 = i
  OBVIOUS
<1>3. \A i \in 1 .. 3 : read[i] = Upper(id[i])
  BY <1>2
<1>4. read[1] = "O" /\ read[2] = "B" /\ read[3] = "J"
  BY <1>3
<1>5. read = <<"O", "B", "J">>
  <2>1. /\ read = [i \in 1 .. 3 |-> read[i]]
        /\ <<"O", "B", "J">> = [i \in 1 .. 3 |-> <<"O", "B", "J">>[i]]
    OBVIOUS
  <2>2. \A i \in 1 .. 3 : read[i] = <<"O", "B", "J">>[i]
    <3> SUFFICES ASSUME NEW i \in 1 .. 3 PROVE read[i] = <<"O", "B", "J">>[i]
      OBVIOUS
    <3>1. i = 1 \/ i = 2 \/ i = 3
      OBVIOUS
    <3> HIDE DEF read
    <3> QED
      BY <1>4, <3>1
  <2> HIDE DEF read
  <2> QED
    BY <2>1, <2>2
<1> QED
  BY <1>1, <1>5 DEF Reserved, ANONPREFIX

\* Anonymous objects are apart from those that users name, and from each other.
LEMMA EveryAnonymousIsApart ==
  ASSUME NEW S, NEW id \in Seq(S), NEW keyCount \in Nat, NEW others, others \subseteq Nat,
         NEW n \in Nat
  PROVE  AnonymousIsApart(id, keyCount, others, n)
<1>1. Len(id) \in Nat
  OBVIOUS
<1>2. ASSUME Accepted(id), Len(id) >= 3, SameID(SubSeq(id, 1, 3), ANONPREFIX)
      PROVE  FALSE
  <2> DEFINE s == SubSeq(id, 1, 3)
  <2>1. s \in Seq(S) /\ Len(s) = 3 /\ \A i \in 1 .. 3 : s[i] = id[i]
    BY <1>1, <1>2
  <2>2. SameID(s, ANONPREFIX)
    BY <1>2
  <2> HIDE DEF s
  <2>3. DOMAIN s = 1 .. 3
    BY <2>1
  <2>4. \A i \in 1 .. 3 : Upper(id[i]) = Upper(ANONPREFIX[i])
    BY <2>1, <2>2, <2>3 DEF SameID
  <2>5. ANONPREFIX[1] = "O" /\ ANONPREFIX[2] = "B" /\ ANONPREFIX[3] = "J"
    BY DEF ANONPREFIX
  <2>6. Upper(id[1]) = "O" /\ Upper(id[2]) = "B" /\ Upper(id[3]) = "J"
    BY <2>4, <2>5, Capitals3
  <2>7. Reserved(id)
    BY <1>1, <1>2, <2>6, PrefixIsReserved
  <2> QED
    BY <1>2, <2>7 DEF Accepted
<1>3. ASSUME Accepted(id), NEW k \in others,
             SameID(GetStub(FullID(Anonymous(k), n)), GetStub(id))
      PROVE  FALSE
  <2> DEFINE a == Anonymous(k)
  <2>1. /\ a \in Seq(Marks) /\ Len(a) \in Nat /\ Len(a) >= 4
        /\ a[1] = "o" /\ a[2] = "b" /\ a[3] = "j"
    <3>1. k \in Nat
      OBVIOUS
    <3> DEFINE key == Padded(k, 16, 5)
    <3>2. Len(key) \in Nat /\ a \in Seq(Marks) /\ Len(a) = Len(key) + 4
          /\ a[1] = "o" /\ a[2] = "b" /\ a[3] = "j"
      BY <3>1, AnonymousParts
    <3> HIDE DEF key, a
    <3> QED
      BY <3>2
  <2>2. GetStub(FullID(a, n)) = a
    <3> HIDE DEF a
    <3> QED
      BY <2>1, StubOfFull
  <2>3. GetStub(id) = id
    BY <1>3, EveryStubLeadsBack DEF StubLeadsBack
  <2>4. SameID(a, id)
    BY <1>3, <2>2, <2>3
  <2> HIDE DEF a
  <2>5. DOMAIN a = 1 .. Len(a)
    BY <2>1
  <2>6. Len(id) = Len(a) /\ \A i \in 1 .. Len(a) : Upper(a[i]) = Upper(id[i])
    BY <2>4, <2>5 DEF SameID
  <2>7. 1 \in 1 .. Len(a) /\ 2 \in 1 .. Len(a) /\ 3 \in 1 .. Len(a)
    BY <2>1
  <2>8. Upper(id[1]) = "O" /\ Upper(id[2]) = "B" /\ Upper(id[3]) = "J"
    BY <2>1, <2>6, <2>7, Capitals3
  <2>9. Reserved(id)
    BY <1>1, <2>1, <2>6, <2>8, PrefixIsReserved
  <2> QED
    BY <1>3, <2>9 DEF Accepted
<1>4. ASSUME NEW k \in others \ {keyCount}
      PROVE  ~SameID(Anonymous(k), Anonymous(keyCount))
  BY CellsAreApart
<1> QED
  BY <1>2, <1>3, <1>4 DEF AnonymousIsApart

-----------------------------------------------------------------------------
(* Ranges of cells *)

\* The members of S before g in the order R.
Below(S, R, g) == {h \in S : <<h, g>> \in R}

\* R is a strict order of S, without ties.
Orders(R, S) ==
  /\ \A g \in S : <<g, g>> \notin R
  /\ \A f, g, h \in S : <<f, g>> \in R /\ <<g, h>> \in R => <<f, h>> \in R
  /\ \A g, h \in S : g # h => <<g, h>> \in R \/ <<h, g>> \in R

\* More comes before what is later.
LEMMA BelowGrows ==
  ASSUME NEW S, IsFiniteSet(S), NEW R, Orders(R, S),
         NEW g \in S, NEW h \in S, <<g, h>> \in R
  PROVE  Cardinality(Below(S, R, g)) # Cardinality(Below(S, R, h))
<1>1. /\ Below(S, R, g) \in SUBSET Below(S, R, h) /\ Below(S, R, h) \in SUBSET S
      /\ g \in Below(S, R, h) /\ g \notin Below(S, R, g)
  BY DEF Below, Orders
<1>2. IsFiniteSet(Below(S, R, h))
  BY <1>1, FS_Subset
<1> QED
  BY <1>1, <1>2, FS_Subset

\* A finite set has a member at every place of its order.
LEMMA EveryPlaceTaken ==
  ASSUME NEW S, IsFiniteSet(S), NEW R, Orders(R, S)
  PROVE  /\ \A g \in S : Cardinality(Below(S, R, g)) \in 0 .. Cardinality(S) - 1
         /\ \A n \in 0 .. Cardinality(S) - 1 : \E g \in S : Cardinality(Below(S, R, g)) = n
         /\ \A g, h \in S : Cardinality(Below(S, R, g)) = Cardinality(Below(S, R, h)) => g = h
<1> DEFINE N == Cardinality(S)
           place == [g \in S |-> Cardinality(Below(S, R, g))]
<1>1. N \in Nat
  BY FS_CardinalityType
<1>2. IsFiniteSet(0 .. N - 1) /\ Cardinality(0 .. N - 1) = N
  <2> HIDE DEF N
  <2>1. /\ IsFiniteSet(0 .. N - 1)
        /\ Cardinality(0 .. N - 1) = IF 0 > N - 1 THEN 0 ELSE (N - 1) - 0 + 1
    BY <1>1, FS_Interval
  <2> QED
    BY <1>1, <2>1
<1>3. ASSUME NEW g \in S PROVE Cardinality(Below(S, R, g)) \in 0 .. N - 1
  <2>1. Below(S, R, g) \in SUBSET S /\ g \notin Below(S, R, g)
    BY DEF Below, Orders
  <2>2. /\ IsFiniteSet(Below(S, R, g)) /\ Cardinality(Below(S, R, g)) <= N
        /\ Cardinality(Below(S, R, g)) # N
    BY <2>1, FS_Subset
  <2>3. Cardinality(Below(S, R, g)) \in Nat
    BY <2>2, FS_CardinalityType
  <2> HIDE DEF N
  <2> QED
    BY <1>1, <2>2, <2>3
<1>4. \A g, h \in S : Cardinality(Below(S, R, g)) = Cardinality(Below(S, R, h)) => g = h
  BY BelowGrows DEF Orders
<1>5. place \in Injection(S, 0 .. N - 1)
  <2>1. place \in [S -> 0 .. N - 1]
    BY <1>3
  <2>2. \A g, h \in S : place[g] = place[h] => g = h
    BY <1>4
  <2> HIDE DEF place, N
  <2> QED
    BY <2>1, <2>2 DEF Injection, IsInjective
<1>6. place \in Surjection(S, 0 .. N - 1)
  <2> HIDE DEF place
  <2>1. Cardinality(S) = Cardinality(0 .. N - 1) <=> place \in Surjection(S, 0 .. N - 1)
    BY <1>2, <1>5, FS_Injection
  <2> QED
    BY <1>2, <2>1 DEF N
<1>7. \A n \in 0 .. N - 1 : \E g \in S : place[g] = n
  <2> HIDE DEF place, N
  <2> QED
    BY <1>6 DEF Surjection
<1> QED
  BY <1>3, <1>4, <1>7

-----------------------------------------------------------------------------
(* Ranges of cells *)

\* A cell has an index in its array, from which its row and column are read back.
LEMMA Positions ==
  ASSUME NEW r \in Nat, NEW c \in Nat, NEW i \in Indices(r), NEW j \in Indices(c)
  PROVE  /\ i * c + j \in Indices(r * c)
         /\ (i * c + j) \div c = i
         /\ (i * c + j) % c = j
<1>1. c > 0 /\ i \in Nat /\ j \in Nat /\ j < c /\ i + 1 <= r
  BY DEF Indices
<1>2. (i + 1) * c <= r * c /\ (i + 1) * c = i * c + c
  BY <1>1
<1>3. i * c \in Nat /\ r * c \in Nat
  BY <1>1
<1>4. i * c + j \in Indices(r * c)
  BY <1>1, <1>2, <1>3 DEF Indices
<1>5. (i * c + j) \div c = i
  BY <1>1
<1>6. (i * c + j) % c = j
  BY <1>1
<1> QED
  BY <1>4, <1>5, <1>6

\* An index of an array is that of a row and a column.
LEMMA Indexed ==
  ASSUME NEW r \in Nat, NEW c \in Nat, NEW k \in Indices(r * c)
  PROVE  /\ k \div c \in Indices(r) /\ k % c \in Indices(c)
         /\ k = (k \div c) * c + (k % c)
<1>0. r * c \in Nat /\ k \in Nat /\ k < r * c
  BY DEF Indices
<1>1. c # 0
  BY <1>0
<1>2. c > 0
  BY <1>1
<1>3. k = (k \div c) * c + (k % c) /\ k % c \in 0 .. c - 1 /\ k \div c \in Nat
  BY <1>0, <1>2
<1>4. k \div c < r
  <2> DEFINE q == k \div c
  <2>0. q \in Nat /\ q * c <= k
    BY <1>3, <1>0, <1>2
  <2> HIDE DEF q
  <2>1. SUFFICES ASSUME r <= q PROVE FALSE
    BY <2>0 DEF q
  <2>2. r * c <= q * c
    BY <2>0, <2>1
  <2>3. q * c \in Nat
    BY <2>0
  <2> QED
    BY <1>0, <2>0, <2>2, <2>3
<1> QED
  BY <1>3, <1>4 DEF Indices

\* An array of this size.
IsArray(x, r, c) ==
  x = [rows |-> r, columns |-> c, lparray |-> [k \in Indices(r * c) |-> x.lparray[k]]]

\* Arrays of one size are equal where their cells are.
LEMMA SameCells ==
  ASSUME NEW r \in Nat, NEW c \in Nat, NEW x, NEW y, IsArray(x, r, c), IsArray(y, r, c),
         \A i \in Indices(r), j \in Indices(c) : Cell(x, i, j) = Cell(y, i, j)
  PROVE  x = y
<1>1. x.columns = c /\ y.columns = c
  BY DEF IsArray
<1>2. ASSUME NEW k \in Indices(r * c) PROVE x.lparray[k] = y.lparray[k]
  <2>1. Cell(x, k \div c, k % c) = Cell(y, k \div c, k % c)
    BY Indexed
  <2>2. k = (k \div c) * c + (k % c)
    BY Indexed
  <2>3. /\ x.lparray[(k \div c) * c + (k % c)] = y.lparray[(k \div c) * c + (k % c)]
    BY <1>1, <2>1 DEF Cell, Position
  <2> QED
    BY <2>2, <2>3
<1>3. [k \in Indices(r * c) |-> x.lparray[k]] = [k \in Indices(r * c) |-> y.lparray[k]]
  BY <1>2
<1> QED
  BY <1>3 DEF IsArray

\* A bounded set of numbers has a largest one.
LEMMA LargestExists ==
  ASSUME NEW n \in Nat, NEW S \in SUBSET (1 .. n), S # {}
  PROVE  Largest(S) \in S /\ \A m \in S : m <= Largest(S)
<1> DEFINE T == {k \in Nat : \A m \in S : m <= k}
<1>1. n \in T
  OBVIOUS
<1>2. PICK k \in T : \A j \in T : ~(<<j, k>> \in OpToRel(<, Nat))
  <2>1. T \in SUBSET Nat /\ T # {}
    BY <1>1
  <2> QED
    BY <2>1, NatLessThanWellFounded, WFMin
<1>3. \A j \in T : ~(j < k)
  BY <1>2 DEF OpToRel
<1>4. k \in S
  <2>1. SUFFICES ASSUME k \notin S PROVE FALSE
    OBVIOUS
  <2>2. k \in Nat /\ \A m \in S : m \in Nat /\ m <= k /\ m # k
    BY <2>1
  <2>3. PICK m \in S : m \in 1 .. n
    OBVIOUS
  <2>4. k - 1 \in Nat /\ k - 1 < k
    BY <2>2, <2>3
  <2>5. \A j \in S : j <= k - 1
    BY <2>2, <2>4
  <2> QED
    BY <1>3, <2>4, <2>5
<1> QED
  BY <1>2, <1>4 DEF Largest

\* A range of at least one row and column.
IsRange(x) ==
  /\ x.rows \in Nat \ {0} /\ x.columns \in Nat \ {0}
  /\ IsArray(x, x.rows, x.columns)

\* The last row that counts is the last one with a valid cell.
LEMMA RowsCounted ==
  ASSUME NEW x, IsRange(x)
  PROVE  LET n == CountValidRows(x)
         IN /\ n \in 1 .. x.rows
            /\ \A i \in Indices(x.rows), j \in Indices(x.columns) : Valid(x, i, j) => i < n
            /\ n = 1 \/ \E j \in Indices(x.columns) : Valid(x, n - 1, j)
<1> DEFINE n == CountValidRows(x)
           S == {m \in 1 .. x.rows : \E j \in Indices(x.columns) : Valid(x, m - 1, j)} \cup {1}
<1>1. x.rows \in Nat /\ S \in SUBSET (1 .. x.rows) /\ S # {}
  BY DEF IsRange
<1>2. n = Largest(S)
  BY DEF CountValidRows
<1>3. n \in S /\ \A m \in S : m <= n
  <2> HIDE DEF S, n
  <2> QED
    BY <1>1, <1>2, LargestExists
<1>4. ASSUME NEW i \in Indices(x.rows), NEW j \in Indices(x.columns), Valid(x, i, j)
      PROVE  i < n
  <2>1. i \in Nat /\ i + 1 \in 1 .. x.rows /\ (i + 1) - 1 = i
    BY <1>1 DEF Indices
  <2>2. i + 1 \in S
    BY <1>4, <2>1
  <2>3. n \in Nat /\ i + 1 <= n
    BY <1>1, <1>3, <2>2
  <2> HIDE DEF n
  <2> QED
    BY <2>1, <2>3
<1> HIDE DEF n
<1> QED
  BY <1>1, <1>3, <1>4 DEF n

\* So it is with columns.
LEMMA ColumnsCounted ==
  ASSUME NEW x, IsRange(x)
  PROVE  LET n == CountValidCols(x)
         IN /\ n \in 1 .. x.columns
            /\ \A i \in Indices(x.rows), j \in Indices(x.columns) : Valid(x, i, j) => j < n
            /\ n = 1 \/ \E i \in Indices(x.rows) : Valid(x, i, n - 1)
<1> DEFINE n == CountValidCols(x)
           S == {m \in 1 .. x.columns : \E i \in Indices(x.rows) : Valid(x, i, m - 1)} \cup {1}
<1>1. x.columns \in Nat /\ S \in SUBSET (1 .. x.columns) /\ S # {}
  BY DEF IsRange
<1>2. n = Largest(S)
  BY DEF CountValidCols
<1>3. n \in S /\ \A m \in S : m <= n
  <2> HIDE DEF S, n
  <2> QED
    BY <1>1, <1>2, LargestExists
<1>4. ASSUME NEW i \in Indices(x.rows), NEW j \in Indices(x.columns), Valid(x, i, j)
      PROVE  j < n
  <2>1. j \in Nat /\ j + 1 \in 1 .. x.columns /\ (j + 1) - 1 = j
    BY <1>1 DEF Indices
  <2>2. j + 1 \in S
    BY <1>4, <2>1
  <2>3. n \in Nat /\ j + 1 <= n
    BY <1>1, <1>3, <2>2
  <2> HIDE DEF n
  <2> QED
    BY <2>1, <2>3
<1> HIDE DEF n
<1> QED
  BY <1>1, <1>3, <1>4 DEF n

\* ohPack, on any range.
LEMMA PackedRanges ==
  ASSUME NEW x, IsRange(x) PROVE PackKeepsAll(x)
<1> DEFINE r == CountValidRows(x)
           c == CountValidCols(x)
           packed == Pack(x)
<1>1. /\ x.rows \in Nat /\ x.columns \in Nat /\ r \in Nat /\ c \in Nat
      /\ r \in 1 .. x.rows /\ c \in 1 .. x.columns
  BY RowsCounted, ColumnsCounted DEF IsRange
<1>2. /\ packed.rows = r /\ packed.columns = c
      /\ packed.lparray = [k \in Indices(r * c) |-> Cell(x, k \div c, k % c)]
  BY DEF Pack, Array
<1> HIDE DEF packed, r, c
<1>3. \A i \in Indices(r), j \in Indices(c) : Cell(packed, i, j) = Cell(x, i, j)
  <2> TAKE i \in Indices(r), j \in Indices(c)
  <2>1. Cell(packed, i, j) = packed.lparray[i * c + j]
    BY <1>2 DEF Cell, Position
  <2>2. /\ i * c + j \in Indices(r * c)
        /\ (i * c + j) \div c = i /\ (i * c + j) % c = j
    BY <1>1, Positions
  <2>3. packed.lparray[i * c + j] = Cell(x, (i * c + j) \div c, (i * c + j) % c)
    BY <1>2, <2>2
  <2> QED
    BY <2>1, <2>2, <2>3
<1>4. ASSUME NEW i \in Indices(x.rows), NEW j \in Indices(x.columns)
      PROVE  IF i < r /\ j < c THEN Cell(packed, i, j) = Cell(x, i, j) ELSE ~Valid(x, i, j)
  <2>1. CASE i < r /\ j < c
    <3>1. i \in Indices(r) /\ j \in Indices(c)
      BY <1>1, <2>1 DEF Indices
    <3> QED
      BY <1>3, <2>1, <3>1
  <2>2. CASE ~(i < r /\ j < c)
    BY <2>2, RowsCounted, ColumnsCounted DEF r, c
  <2> QED
    BY <2>1, <2>2
<1>5. r = 1 \/ \E j \in Indices(c) : Valid(packed, r - 1, j)
  <2>1. SUFFICES ASSUME r # 1 PROVE \E j \in Indices(c) : Valid(packed, r - 1, j)
    OBVIOUS
  <2>2. PICK j \in Indices(x.columns) : Valid(x, r - 1, j)
    BY <2>1, RowsCounted DEF r
  <2>3. r - 1 \in Indices(r) /\ r - 1 \in Indices(x.rows)
    BY <1>1 DEF Indices
  <2>4. j < c
    BY <2>2, <2>3, ColumnsCounted DEF c
  <2>5. j \in Indices(c)
    BY <1>1, <2>4 DEF Indices
  <2> QED
    BY <1>3, <2>2, <2>3, <2>5 DEF Valid
<1>6. c = 1 \/ \E i \in Indices(r) : Valid(packed, i, c - 1)
  <2>1. SUFFICES ASSUME c # 1 PROVE \E i \in Indices(r) : Valid(packed, i, c - 1)
    OBVIOUS
  <2>2. PICK i \in Indices(x.rows) : Valid(x, i, c - 1)
    BY <2>1, ColumnsCounted DEF c
  <2>3. c - 1 \in Indices(c) /\ c - 1 \in Indices(x.columns)
    BY <1>1 DEF Indices
  <2>4. i < r
    BY <2>2, <2>3, RowsCounted DEF r
  <2>5. i \in Indices(r)
    BY <1>1, <2>4 DEF Indices
  <2> QED
    BY <1>3, <2>2, <2>3, <2>5 DEF Valid
<1> QED
  BY <1>2, <1>4, <1>5, <1>6 DEF PackKeepsAll, packed

\* Nth finds a member for every place.
LEMMA NthIsMember ==
  ASSUME NEW S \in SUBSET Nat, IsFiniteSet(S), NEW k \in Indices(Cardinality(S))
  PROVE  Nth(S, k) \in S
<1> DEFINE R == {p \in S \X S : p[1] < p[2]}
<1>1. Orders(R, S)
  BY DEF Orders
<1> HIDE DEF R
<1>2. PICK g \in S : Cardinality(Below(S, R, g)) = k
  <2>1. k \in 0 .. Cardinality(S) - 1
    BY DEF Indices
  <2>2. /\ \A g \in S : Cardinality(Below(S, R, g)) \in 0 .. Cardinality(S) - 1
        /\ \A n \in 0 .. Cardinality(S) - 1 : \E g \in S : Cardinality(Below(S, R, g)) = n
        /\ \A g, h \in S :
             Cardinality(Below(S, R, g)) = Cardinality(Below(S, R, h)) => g = h
    BY <1>1, EveryPlaceTaken
  <2> QED
    BY <2>1, <2>2
<1>3. Below(S, R, g) = {m \in S : m < g}
  BY DEF Below, R
<1>4. \E n \in S : Cardinality({m \in S : m < n}) = k
  BY <1>2, <1>3
<1> QED
  BY <1>4 DEF Nth

\* A set of indices is finite, and has an index for each of its places.
LEMMA NthIsIndex ==
  ASSUME NEW n \in Nat, NEW S \in SUBSET Indices(n)
  PROVE  /\ Cardinality(S) \in Nat /\ (S # {} => Cardinality(S) # 0)
         /\ \A k \in Indices(Cardinality(S)) : Nth(S, k) \in S
<1>1. IsFiniteSet(0 .. n - 1)
  BY FS_Interval
<1>2. IsFiniteSet(S) /\ S \in SUBSET Nat
  <2>1. S \in SUBSET (0 .. n - 1)
    BY DEF Indices
  <2>2. IsFiniteSet(S)
    BY <1>1, <2>1, FS_Subset
  <2>3. \A i \in 0 .. n - 1 : i \in Nat
    OBVIOUS
  <2> QED
    BY <2>1, <2>2, <2>3
<1> QED
  BY <1>2, FS_CardinalityType, FS_EmptySet, NthIsMember

\* Transposing swaps rows and columns.
LEMMA TransposedCells ==
  ASSUME NEW x, x.rows \in Nat, x.columns \in Nat
  PROVE  /\ Transposed(x).rows = x.columns /\ Transposed(x).columns = x.rows
         /\ IsArray(Transposed(x), x.columns, x.rows)
         /\ \A i \in Indices(x.rows), j \in Indices(x.columns) :
              Cell(Transposed(x), j, i) = Cell(x, i, j)
<1> DEFINE t == Transposed(x)  r == x.rows  c == x.columns
<1>1. t = [rows |-> c, columns |-> r,
           lparray |-> [k \in Indices(c * r) |-> Cell(x, k % r, k \div r)]]
  BY DEF Transposed, Array
<1> HIDE DEF t
<1>2. \A i \in Indices(r), j \in Indices(c) : Cell(t, j, i) = Cell(x, i, j)
  <2> TAKE i \in Indices(r), j \in Indices(c)
  <2>1. /\ j * r + i \in Indices(c * r)
        /\ (j * r + i) \div r = j /\ (j * r + i) % r = i
    BY Positions
  <2>2. t.lparray[j * r + i] = Cell(x, (j * r + i) % r, (j * r + i) \div r)
    BY <1>1, <2>1
  <2>3. Cell(t, j, i) = t.lparray[j * r + i]
    BY <1>1 DEF Cell, Position
  <2> QED
    BY <2>1, <2>2, <2>3
<1> QED
  BY <1>1, <1>2 DEF IsArray, t

\* ohRemoveInvalidColumns, on any range.
LEMMA ColumnsRemoved ==
  ASSUME NEW x, IsRange(x) PROVE ColumnsLikeRows(x)
<1> DEFINE r == x.rows
           c == x.columns
           t == Transposed(x)
           V == {j \in Indices(c) : ColumnIsValid(x, j)}
           n == Cardinality(V)
           columns == RemoveInvalidColumns(x)
           rows == RemoveInvalidRows(t)
<1>1. r \in Nat /\ c \in Nat
  BY DEF IsRange
<1>2. /\ t.rows = c /\ t.columns = r
      /\ \A i \in Indices(r), j \in Indices(c) : Cell(t, j, i) = Cell(x, i, j)
  BY <1>1, TransposedCells
<1> HIDE DEF r, c, t
<1>3. \A j \in Indices(c) : RowIsValid(t, j) <=> ColumnIsValid(x, j)
  BY <1>2 DEF RowIsValid, ColumnIsValid, Valid, r
<1>4. {j \in Indices(t.rows) : RowIsValid(t, j)} = V
  BY <1>2, <1>3
<1>5. /\ columns =
           IF V = {} THEN Nothing
           ELSE [rows |-> r, columns |-> n,
                 lparray |-> [k \in Indices(r * n) |-> Cell(x, k \div n, Nth(V, k % n))]]
      /\ rows =
           IF V = {} THEN Nothing
           ELSE [rows |-> n, columns |-> r,
                 lparray |-> [k \in Indices(n * r) |-> Cell(t, Nth(V, k \div r), k % r)]]
  <2>1. V = {j \in Indices(x.columns) : ColumnIsValid(x, j)}
    BY DEF c
  <2> HIDE DEF V
  <2>2. columns =
           IF V = {} THEN Nothing
           ELSE [rows |-> r, columns |-> n,
                 lparray |-> [k \in Indices(r * n) |-> Cell(x, k \div n, Nth(V, k % n))]]
    BY <2>1 DEF RemoveInvalidColumns, Array, r
  <2>3. rows =
           IF V = {} THEN Nothing
           ELSE [rows |-> n, columns |-> r,
                 lparray |-> [k \in Indices(n * r) |-> Cell(t, Nth(V, k \div r), k % r)]]
    BY <1>2, <1>4 DEF RemoveInvalidRows, Array
  <2> QED
    BY <2>2, <2>3
<1>6. /\ n \in Nat /\ (V # {} => n # 0)
      /\ \A k \in Indices(n) : Nth(V, k) \in V
  <2>1. V \in SUBSET Indices(c)
    OBVIOUS
  <2> HIDE DEF V
  <2> QED
    BY <1>1, <2>1, NthIsIndex
<1>7. \A k \in Indices(n) : Nth(V, k) \in Indices(c) /\ ColumnIsValid(x, Nth(V, k))
  BY <1>6
<1> HIDE DEF V, n, columns, rows
<1>8. CASE V = {}
  BY <1>5, <1>8 DEF ColumnsLikeRows, Nothing, columns, rows, t
<1>9. CASE V # {}
  <2>1. /\ columns = [rows |-> r, columns |-> n,
                      lparray |-> [k \in Indices(r * n) |-> Cell(x, k \div n, Nth(V, k % n))]]
        /\ rows = [rows |-> n, columns |-> r,
                   lparray |-> [k \in Indices(n * r) |-> Cell(t, Nth(V, k \div r), k % r)]]
    BY <1>5, <1>9
  <2>2. columns # Nothing /\ rows # Nothing
    BY <1>6, <1>9, <2>1 DEF Nothing
  <2>3. \A i \in Indices(r), k \in Indices(n) : Cell(columns, i, k) = Cell(x, i, Nth(V, k))
    <3> TAKE i \in Indices(r), k \in Indices(n)
    <3>1. /\ i * n + k \in Indices(r * n)
          /\ (i * n + k) \div n = i /\ (i * n + k) % n = k
      BY <1>1, <1>6, Positions
    <3>2. columns.lparray[i * n + k] = Cell(x, (i * n + k) \div n, Nth(V, (i * n + k) % n))
      BY <2>1, <3>1
    <3>3. Cell(columns, i, k) = columns.lparray[i * n + k]
      BY <2>1 DEF Cell, Position
    <3> QED
      BY <3>1, <3>2, <3>3
  <2>4. \A i \in Indices(r), k \in Indices(n) : Cell(rows, k, i) = Cell(x, i, Nth(V, k))
    <3> TAKE i \in Indices(r), k \in Indices(n)
    <3>1. /\ k * r + i \in Indices(n * r)
          /\ (k * r + i) \div r = k /\ (k * r + i) % r = i
      BY <1>1, <1>6, Positions
    <3>2. rows.lparray[k * r + i] = Cell(t, Nth(V, (k * r + i) \div r), (k * r + i) % r)
      BY <2>1, <3>1
    <3>3. Cell(rows, k, i) = rows.lparray[k * r + i]
      BY <2>1 DEF Cell, Position
    <3>4. Cell(rows, k, i) = Cell(t, Nth(V, k), i)
      BY <3>1, <3>2, <3>3
    <3> QED
      BY <1>2, <1>7, <3>4
  <2>5. columns = Transposed(rows)
    <3>1. IsArray(columns, r, n)
      BY <2>1 DEF IsArray
    <3>2. rows.rows = n /\ rows.columns = r
      BY <2>1
    <3>3. /\ IsArray(Transposed(rows), r, n)
          /\ \A k \in Indices(n), i \in Indices(r) : Cell(Transposed(rows), i, k) = Cell(rows, k, i)
      BY <1>1, <1>6, <3>2, TransposedCells
    <3>4. \A i \in Indices(r), k \in Indices(n) : Cell(columns, i, k) = Cell(Transposed(rows), i, k)
      BY <2>3, <2>4, <3>3
    <3> QED
      BY <1>1, <1>6, <3>1, <3>3, <3>4, SameCells
  <2>6. ASSUME NEW k \in DOMAIN columns.lparray PROVE columns.lparray[k] # Invalid
    <3>1. k \in Indices(r * n)
      BY <2>1, <2>6
    <3>2. k \div n \in Indices(r) /\ k % n \in Indices(n)
      BY <1>1, <1>6, <3>1, Indexed
    <3>3. columns.lparray[k] = Cell(x, k \div n, Nth(V, k % n))
      BY <2>1, <3>1
    <3>4. Valid(x, k \div n, Nth(V, k % n))
      BY <1>7, <3>2 DEF ColumnIsValid, r
    <3> QED
      BY <3>3, <3>4 DEF Valid
  <2> QED
    BY <2>2, <2>5, <2>6 DEF ColumnsLikeRows, columns, rows, t
<1> QED
  BY <1>8, <1>9

\* ohFilter, on any range.
LEMMA CellsFiltered ==
  ASSUME NEW x, IsRange(x) PROVE FilterLikeRows(x)
<1> DEFINE s == x.rows * x.columns
           col == AsColumn(x)
           V == {k \in Indices(s) : x.lparray[k] # Invalid}
           n == Cardinality(V)
<1>1. s \in Nat /\ DOMAIN x.lparray = Indices(s)
  <2>1. x.rows \in Nat /\ x.columns \in Nat
    BY DEF IsRange
  <2>2. x.lparray = [k \in Indices(s) |-> x.lparray[k]]
    BY DEF IsRange, IsArray
  <2> QED
    BY <2>1, <2>2
<1> HIDE DEF s
<1>2. col = [rows |-> s, columns |-> 1, lparray |-> [k \in Indices(s * 1) |-> x.lparray[k \div 1]]]
  BY DEF AsColumn, Array, s
<1>3. \A k \in Indices(s) : k \in Indices(s * 1) /\ k \div 1 = k
  BY <1>1 DEF Indices
<1> HIDE DEF col
<1>4. \A k \in Indices(s) : Cell(col, k, 0) = x.lparray[k]
  <2> TAKE k \in Indices(s)
  <2>1. k * 1 + 0 = k
    BY <1>1 DEF Indices
  <2>2. Cell(col, k, 0) = col.lparray[k]
    BY <1>2, <2>1 DEF Cell, Position
  <2> QED
    BY <1>2, <1>3, <2>2
<1>5. {i \in Indices(col.rows) : RowIsValid(col, i)} = V
  <2>1. Indices(col.columns) = {0} /\ col.rows = s
    BY <1>2 DEF Indices
  <2> QED
    BY <1>4, <2>1 DEF RowIsValid, Valid
<1>6. n \in Nat /\ \A k \in Indices(n) : Nth(V, k) \in V
  <2>1. V \in SUBSET Indices(s)
    OBVIOUS
  <2> HIDE DEF V
  <2> QED
    BY <1>1, <2>1, NthIsIndex
<1>7. RemoveInvalidRows(col) =
        IF V = {} THEN Nothing
        ELSE [rows |-> n, columns |-> 1,
              lparray |-> [k \in Indices(n * 1) |-> Cell(col, Nth(V, k \div 1), k % 1)]]
  BY <1>2, <1>5 DEF RemoveInvalidRows, Array
<1>8. {k \in DOMAIN x.lparray : [m \in DOMAIN x.lparray |-> x.lparray[m] # Invalid][k]} = V
  BY <1>1
<1>9. Filter(x, [m \in DOMAIN x.lparray |-> x.lparray[m] # Invalid]) =
        [rows |-> n, columns |-> 1,
         lparray |-> [k \in Indices(n * 1) |-> x.lparray[Nth(V, k \div 1)]]]
  BY <1>8 DEF Filter, Array
<1> HIDE DEF n
<1>10. ASSUME NEW k \in Indices(n * 1)
       PROVE  Cell(col, Nth(V, k \div 1), k % 1) = x.lparray[Nth(V, k \div 1)]
  <2>1. k \div 1 \in Indices(n) /\ k % 1 = 0
    BY <1>6 DEF Indices
  <2> QED
    BY <1>4, <1>6, <2>1
<1> HIDE DEF V
<1> QED
  BY <1>7, <1>9, <1>10 DEF FilterLikeRows, col

-----------------------------------------------------------------------------
(* Joint calendars *)

\* F is the function that FlattenSeq defines for the first n sequences.
Flattening(F, seqs, n) ==
  F = [i \in 1 .. n |-> IF i = 1 THEN seqs[i] ELSE F[i - 1] \o seqs[i]]

\* There is such a function, for any length.
LEMMA FlatteningExists ==
  ASSUME NEW seqs, NEW n \in Nat PROVE \E F : Flattening(F, seqs, n)
<1> DEFINE S == {m \in Nat : \E F : Flattening(F, seqs, m)}
<1>1. 0 \in S
  <2>1. Flattening([i \in 1 .. 0 |-> 0], seqs, 0)
    BY DEF Flattening
  <2> QED
    BY <2>1
<1>2. ASSUME NEW m \in Nat, m \in S
      PROVE  m + 1 \in S
  <2>1. PICK F : Flattening(F, seqs, m)
    BY <1>2
  <2> DEFINE G == [i \in 1 .. m + 1 |->
                    IF i = m + 1 THEN IF m = 0 THEN seqs[1] ELSE F[m] \o seqs[m + 1]
                                         ELSE F[i]]
  <2>2. ASSUME NEW i \in 1 .. m + 1
        PROVE  G[i] = IF i = 1 THEN seqs[i] ELSE G[i - 1] \o seqs[i]
    <3>1. CASE i = m + 1 /\ i # 1
      <4>1. i - 1 = m /\ m \in 1 .. m + 1 /\ m # m + 1 /\ m # 0
        BY <3>1
      <4> QED
        BY <3>1, <4>1
    <3>2. CASE i = m + 1 /\ i = 1
      BY <3>2
    <3>3. CASE i # m + 1
      <4>1. i \in 1 .. m /\ (i # 1 => i - 1 \in 1 .. m + 1 /\ i - 1 # m + 1)
        BY <3>3
      <4>2. F[i] = IF i = 1 THEN seqs[i] ELSE F[i - 1] \o seqs[i]
        BY <2>1, <4>1 DEF Flattening
      <4> QED
        BY <3>3, <4>1, <4>2
    <3> QED
      BY <3>1, <3>2, <3>3
  <2>3. G = [i \in 1 .. m + 1 |-> G[i]]
    OBVIOUS
  <2> HIDE DEF G
  <2>4. Flattening(G, seqs, m + 1)
    BY <2>2, <2>3 DEF Flattening
  <2> QED
    BY <2>4
<1> HIDE DEF S
<1>3. n \in S
  BY <1>1, <1>2, EveryNumber
<1> QED
  BY <1>3 DEF S

\* What is flattened into one sequence is what is in the sequences.
LEMMA FlattenElements ==
  ASSUME NEW S, NEW seqs \in Seq(Seq(S))
  PROVE  ToSet(FlattenSeq(seqs)) = UNION {ToSet(seqs[i]) : i \in 1 .. Len(seqs)}
<1> DEFINE n == Len(seqs)
           F == CHOOSE f : Flattening(f, seqs, n)
           In(e, i) == e \in ToSet(seqs[i])
           R == {m \in Nat : m \in 1 .. n =>
                   F[m] \in Seq(S) /\ \A e : e \in ToSet(F[m]) <=> \E i \in 1 .. m : In(e, i)}
<1>1. n \in Nat /\ \A i \in 1 .. n : seqs[i] \in Seq(S)
  BY ElementOfSeq
<1>2. Flattening(F, seqs, n)
  BY <1>1, FlatteningExists
<1>3. n # 0 => FlattenSeq(seqs) = F[n]
  BY DEF FlattenSeq, Flattening
<1> HIDE DEF F
<1>4. \A i \in 1 .. n : F[i] = IF i = 1 THEN seqs[i] ELSE F[i - 1] \o seqs[i]
  BY <1>2 DEF Flattening
<1>5. 0 \in R
  OBVIOUS
<1>6. ASSUME NEW m \in Nat, m \in R
      PROVE  m + 1 \in R
  <2> SUFFICES ASSUME m + 1 \in 1 .. n
               PROVE  /\ F[m + 1] \in Seq(S)
                      /\ \A e : e \in ToSet(F[m + 1]) <=> \E i \in 1 .. m + 1 : In(e, i)
    OBVIOUS
  <2> HIDE DEF In
  <2>1. CASE m = 0
    <3>1. m + 1 = 1 /\ F[1] = seqs[1] /\ seqs[1] \in Seq(S)
      BY <1>1, <1>4, <2>1
    <3>2. 1 .. 1 = {1}
      OBVIOUS
    <3>3. \A e : e \in ToSet(F[1]) <=> \E i \in 1 .. 1 : In(e, i)
      BY <3>1, <3>2 DEF In
    <3> QED
      BY <3>1, <3>3
  <2>2. CASE m # 0
    <3>1. m \in 1 .. n /\ m + 1 # 1 /\ (m + 1) - 1 = m
      BY <1>1, <2>2
    <3>2. F[m + 1] = F[m] \o seqs[m + 1]
      BY <1>4, <3>1
    <3>3. F[m] \in Seq(S) /\ \A e : e \in ToSet(F[m]) <=> \E i \in 1 .. m : In(e, i)
      BY <1>6, <3>1
    <3> DEFINE s == F[m]  t == seqs[m + 1]
    <3>4. s \in Seq(S) /\ t \in Seq(S)
      BY <1>1, <3>3
    <3> HIDE DEF s, t
    <3>5. /\ s \o t \in Seq(S) /\ Len(s) \in Nat /\ Len(t) \in Nat
          /\ DOMAIN s = 1 .. Len(s) /\ DOMAIN t = 1 .. Len(t)
          /\ DOMAIN (s \o t) = 1 .. Len(s) + Len(t)
          /\ \A i \in 1 .. Len(s) + Len(t) :
               (s \o t)[i] = IF i <= Len(s) THEN s[i] ELSE t[i - Len(s)]
      BY <3>4
    <3>6. \A i \in 1 .. Len(s) : i \in 1 .. Len(s) + Len(t) /\ (s \o t)[i] = s[i]
      BY <3>5
    <3>7. \A i \in 1 .. Len(t) : Len(s) + i \in 1 .. Len(s) + Len(t) /\ (s \o t)[Len(s) + i] = t[i]
      BY <3>5
    <3>8. \A i \in 1 .. Len(s) + Len(t) : i \in 1 .. Len(s) \/ i - Len(s) \in 1 .. Len(t)
      BY <3>5
    <3>9. \A e : e \in ToSet(s \o t) <=> e \in ToSet(s) \/ e \in ToSet(t)
      <4> TAKE e
      <4>1. ASSUME e \in ToSet(s \o t) PROVE e \in ToSet(s) \/ e \in ToSet(t)
        BY <3>5, <3>8, <4>1 DEF ToSet
      <4>2. ASSUME e \in ToSet(s) PROVE e \in ToSet(s \o t)
        BY <3>5, <3>6, <4>2 DEF ToSet
      <4>3. ASSUME e \in ToSet(t) PROVE e \in ToSet(s \o t)
        <5>1. PICK i \in 1 .. Len(t) : e = t[i]
          BY <3>5, <4>3 DEF ToSet
        <5> QED
          BY <3>5, <3>7, <5>1 DEF ToSet
      <4> QED
        BY <4>1, <4>2, <4>3
    <3>10. \A i : i \in 1 .. m + 1 <=> i \in 1 .. m \/ i = m + 1
      BY <3>1
    <3>11. \A e : e \in ToSet(t) <=> In(e, m + 1)
      BY DEF t, In
    <3>12. \A e : e \in ToSet(s) <=> \E i \in 1 .. m : In(e, i)
      BY <3>3 DEF s
    <3>13. F[m + 1] = s \o t
      BY <3>2 DEF s, t
    <3> QED
      BY <3>5, <3>9, <3>10, <3>11, <3>12, <3>13
  <2> QED
    BY <2>1, <2>2
<1>7. CASE n = 0
  <2>1. FlattenSeq(seqs) = <<>> /\ 1 .. Len(seqs) = {}
    BY <1>7 DEF FlattenSeq
  <2> QED
    BY <2>1 DEF ToSet
<1>8. CASE n # 0
  <2> HIDE DEF R, n, In
  <2>1. n \in R
    BY <1>1, <1>5, <1>6, EveryNumber
  <2>2. n \in 1 .. n
    BY <1>1, <1>8
  <2>3. \A e : e \in ToSet(F[n]) <=> \E i \in 1 .. n : In(e, i)
    BY <2>1, <2>2 DEF R
  <2> QED
    BY <1>3, <1>8, <2>3 DEF In, n
<1> QED
  BY <1>7, <1>8

\* a is the beginning of b.
Begins(a, b) == Len(a) < Len(b) /\ \A i \in 1 .. Len(a) : a[i] = b[i]

\* a is less than b at the first place where they differ.
LessAt(a, b, i) ==
  /\ i \in 1 .. Len(a) /\ i \in 1 .. Len(b) /\ a[i] < b[i]
  /\ \A j \in 1 .. i - 1 : a[j] = b[j]

\* Before, on sequences of numbers.
LEMMA BeforeCases ==
  ASSUME NEW a \in Seq(Nat), NEW b \in Seq(Nat)
  PROVE  Before(a, b) <=> Begins(a, b) \/ \E i : LessAt(a, b, i)
<1>1. /\ Len(a) \in Nat /\ DOMAIN a = 1 .. Len(a) /\ Len(b) \in Nat /\ DOMAIN b = 1 .. Len(b)
  OBVIOUS
<1>2. ASSUME Len(a) <= Len(b)
      PROVE  SubSeq(a, 1, Len(a)) = SubSeq(b, 1, Len(a)) <=> \A i \in 1 .. Len(a) : a[i] = b[i]
  <2>1. SubSeq(a, 1, Len(a)) = [i \in 1 .. Len(a) |-> a[i]]
    BY <1>1
  <2>2. SubSeq(b, 1, Len(a)) = [i \in 1 .. Len(a) |-> b[i]]
    BY <1>1
  <2> QED
    BY <2>1, <2>2
<1>3. IsStrictPrefix(a, b) <=> Begins(a, b)
  <2>1. ASSUME IsStrictPrefix(a, b) PROVE Begins(a, b)
    <3>1. /\ Len(a) <= Len(b) /\ a # b
          /\ \A i \in 1 .. Len(a) : a[i] = b[i]
      BY SMTT(30), <1>2, <2>1 DEF IsStrictPrefix, IsPrefix
    <3>2. Len(a) # Len(b)
      <4>1. a = [i \in 1 .. Len(a) |-> a[i]] /\ b = [i \in 1 .. Len(b) |-> b[i]]
        BY SMTT(30)
      <4> QED
        BY <3>1, <4>1
    <3>3. Len(a) < Len(b)
      <4>1. \A m, n \in Nat : m <= n /\ m # n => m < n
        OBVIOUS
      <4> QED
        BY <1>1, <3>1, <3>2, <4>1
    <3> QED
      BY <3>1, <3>3 DEF Begins
  <2>2. ASSUME Begins(a, b) PROVE IsStrictPrefix(a, b)
    BY <1>1, <1>2, <2>2 DEF Begins, IsStrictPrefix, IsPrefix
  <2> QED
    BY <2>1, <2>2
<1>4. (\E i \in DOMAIN a \cap DOMAIN b : a[i] < b[i] /\ \A j \in 1 .. i - 1 : a[j] = b[j])
        <=> \E i : LessAt(a, b, i)
  BY <1>1 DEF LessAt
<1> QED
  BY <1>3, <1>4 DEF Before

\* No group comes before itself.
LEMMA BeforeIsStrict ==
  ASSUME NEW a \in Seq(Nat) PROVE ~Before(a, a)
<1>1. Len(a) \in Nat /\ \A i \in 1 .. Len(a) : a[i] \in Nat
  BY ElementOfSeq
<1>2. ~Begins(a, a)
  BY <1>1 DEF Begins
<1>3. \A i : ~LessAt(a, a, i)
  BY <1>1 DEF LessAt
<1> QED
  BY <1>2, <1>3, BeforeCases

\* A group before one that is before a third comes before the third.
LEMMA BeforeIsTransitive ==
  ASSUME NEW a \in Seq(Nat), NEW b \in Seq(Nat), NEW c \in Seq(Nat), Before(a, b), Before(b, c)
  PROVE  Before(a, c)
<1>1. /\ Len(a) \in Nat /\ Len(b) \in Nat /\ Len(c) \in Nat
      /\ \A i \in 1 .. Len(a) : a[i] \in Nat
      /\ \A i \in 1 .. Len(b) : b[i] \in Nat
      /\ \A i \in 1 .. Len(c) : c[i] \in Nat
  BY ElementOfSeq
<1>2. CASE Begins(a, b) /\ Begins(b, c)
  <2>1. Begins(a, c)
    BY <1>1, <1>2 DEF Begins
  <2> QED
    BY <2>1, BeforeCases
<1>3. ASSUME NEW i, Begins(a, b), LessAt(b, c, i) PROVE Before(a, c)
  <2>1. CASE i <= Len(a)
    <3>1. i \in 1 .. Len(a) /\ \A j \in 1 .. i - 1 : j \in 1 .. Len(a)
      BY <1>1, <1>3, <2>1 DEF LessAt
    <3>2. LessAt(a, c, i)
      BY <1>3, <3>1 DEF Begins, LessAt
    <3> QED
      BY <3>2, BeforeCases
  <2>2. CASE ~(i <= Len(a))
    <3>1. i \in Nat /\ Len(a) < Len(c) /\ \A j \in 1 .. Len(a) : j \in 1 .. i - 1
      BY <1>1, <1>3, <2>2 DEF LessAt
    <3>2. Begins(a, c)
      BY <1>3, <3>1 DEF Begins, LessAt
    <3> QED
      BY <3>2, BeforeCases
  <2> QED
    BY <2>1, <2>2
<1>4. ASSUME NEW i, LessAt(a, b, i), Begins(b, c) PROVE Before(a, c)
  <2>1. i \in 1 .. Len(c) /\ \A j \in 1 .. i : j \in 1 .. Len(b)
    BY SMTT(30), <1>1, <1>4 DEF LessAt, Begins
  <2>2. b[i] = c[i] /\ \A j \in 1 .. i - 1 : b[j] = c[j]
    BY <1>1, <1>4, <2>1 DEF LessAt, Begins
  <2>3. LessAt(a, c, i)
    BY <1>4, <2>1, <2>2 DEF LessAt
  <2> QED
    BY <2>3, BeforeCases
<1>5. ASSUME NEW i, NEW k, LessAt(a, b, i), LessAt(b, c, k) PROVE Before(a, c)
  <2>0. i \in Nat /\ k \in Nat
    BY <1>1, <1>5 DEF LessAt
  <2>1. CASE i < k
    <3>1. /\ i \in 1 .. Len(a) /\ i \in 1 .. Len(b) /\ k \in 1 .. Len(c)
          /\ a[i] < b[i]
      BY <1>5 DEF LessAt
    <3>2. i \in 1 .. Len(c) /\ i \in 1 .. k - 1
      BY <1>1, <2>0, <2>1, <3>1
    <3>3. \A j \in 1 .. i - 1 : j \in 1 .. k - 1
      BY <2>0, <2>1
    <3>4. b[i] = c[i] /\ \A j \in 1 .. i - 1 : b[j] = c[j]
      BY <1>5, <3>2, <3>3 DEF LessAt
    <3>5. \A j \in 1 .. i - 1 : a[j] = b[j]
      BY <1>5 DEF LessAt
    <3>6. LessAt(a, c, i)
      BY <3>1, <3>2, <3>4, <3>5 DEF LessAt
    <3> QED
      BY <3>6, BeforeCases
  <2>2. CASE i = k
    <3>1. a[i] < c[i]
      BY SMTT(30), <1>1, <1>5, <2>2 DEF LessAt
    <3>2. LessAt(a, c, i)
      BY <1>5, <2>2, <3>1 DEF LessAt
    <3> QED
      BY <3>2, BeforeCases
  <2>3. CASE k < i
    <3>1. /\ i \in 1 .. Len(a) /\ k \in 1 .. Len(b) /\ k \in 1 .. Len(c)
          /\ b[k] < c[k]
      BY <1>5 DEF LessAt
    <3>2. k \in 1 .. Len(a) /\ k \in 1 .. i - 1
      BY <1>1, <2>0, <2>3, <3>1
    <3>3. \A j \in 1 .. k - 1 : j \in 1 .. i - 1
      BY <2>0, <2>3
    <3>4. a[k] = b[k] /\ \A j \in 1 .. k - 1 : a[j] = b[j]
      BY <1>5, <3>2, <3>3 DEF LessAt
    <3>5. \A j \in 1 .. k - 1 : b[j] = c[j]
      BY <1>5 DEF LessAt
    <3>6. LessAt(a, c, k)
      BY <3>1, <3>2, <3>4, <3>5 DEF LessAt
    <3> QED
      BY <3>6, BeforeCases
  <2> QED
    BY <2>0, <2>1, <2>2, <2>3
<1> QED
  BY <1>2, <1>3, <1>4, <1>5, BeforeCases

\* Of two groups, one comes before the other.
LEMMA BeforeIsTotal ==
  ASSUME NEW a \in Seq(Nat), NEW b \in Seq(Nat), a # b
  PROVE  Before(a, b) \/ Before(b, a)
<1>1. /\ Len(a) \in Nat /\ Len(b) \in Nat
      /\ \A i \in 1 .. Len(a) : a[i] \in Nat
      /\ \A i \in 1 .. Len(b) : b[i] \in Nat
  BY ElementOfSeq
<1> DEFINE D == {i \in Nat : i \in 1 .. Len(a) /\ i \in 1 .. Len(b) /\ a[i] # b[i]}
<1>2. CASE D = {}
  <2>1. \A i \in 1 .. Len(a) : i \in 1 .. Len(b) => a[i] = b[i]
    BY <1>2
  <2>2. CASE Len(a) < Len(b)
    <3>1. Begins(a, b)
      BY <1>1, <2>1, <2>2 DEF Begins
    <3> QED
      BY <3>1, BeforeCases
  <2>3. CASE Len(b) < Len(a)
    <3>1. Begins(b, a)
      BY <1>1, <2>1, <2>3 DEF Begins
    <3> QED
      BY <3>1, BeforeCases
  <2>4. CASE Len(a) = Len(b)
    <3>1. a = [i \in 1 .. Len(a) |-> a[i]] /\ b = [i \in 1 .. Len(b) |-> b[i]]
      OBVIOUS
    <3> QED
      BY <2>1, <2>4, <3>1
  <2> QED
    BY <1>1, <2>2, <2>3, <2>4
<1>3. CASE D # {}
  <2>1. PICK k \in D : \A j \in D : ~(<<j, k>> \in OpToRel(<, Nat))
    <3>1. D \in SUBSET Nat
      OBVIOUS
    <3> QED
      BY <1>3, <3>1, NatLessThanWellFounded, WFMin
  <2>2. \A j \in D : ~(j < k)
    BY <2>1 DEF OpToRel
  <2>3. \A j \in 1 .. k - 1 : a[j] = b[j]
    <3> TAKE j \in 1 .. k - 1
    <3>1. k \in Nat /\ k \in 1 .. Len(a) /\ k \in 1 .. Len(b)
      OBVIOUS
    <3>2. j \in Nat /\ j < k /\ j \in 1 .. Len(a) /\ j \in 1 .. Len(b)
      BY <1>1, <3>1
    <3> QED
      BY <2>2, <3>2
  <2>4. a[k] < b[k] \/ b[k] < a[k]
    BY <1>1
  <2>5. LessAt(a, b, k) \/ LessAt(b, a, k)
    BY <2>3, <2>4 DEF LessAt
  <2> QED
    BY <2>5, BeforeCases
<1> QED
  BY <1>2, <1>3

\* std::less orders any groups.
LEMMA GroupsAreOrdered ==
  ASSUME NEW S \in SUBSET Seq(Nat)
  PROVE  Orders({p \in S \X S : Before(p[1], p[2])}, S)
<1> DEFINE R == {p \in S \X S : Before(p[1], p[2])}
<1>1. \A g, h \in S : <<g, h>> \in R <=> Before(g, h)
  OBVIOUS
<1>2. \A f, g, h \in S : Before(f, g) /\ Before(g, h) => Before(f, h)
  BY BeforeIsTransitive
<1> HIDE DEF R
<1> QED
  BY <1>1, <1>2, BeforeIsStrict, BeforeIsTotal DEF Orders, R

\* Two members are more than one.
LEMMA MoreThanOne ==
  ASSUME NEW S, IsFiniteSet(S)
  PROVE  Cardinality(S) > 1 <=> \E a, b \in S : a # b
<1>1. Cardinality(S) \in Nat
  BY FS_CardinalityType
<1>2. ASSUME NEW a \in S, NEW b \in S, a # b PROVE Cardinality(S) > 1
  <2>1. Cardinality(S) # 0
    BY FS_EmptySet
  <2>2. Cardinality(S) # 1
    <3>1. SUFFICES ASSUME NEW x, S = {x} PROVE FALSE
      BY FS_Singleton
    <3> QED
      BY <1>2, <3>1
  <2> QED
    BY <1>1, <2>1, <2>2
<1>3. ASSUME Cardinality(S) > 1 PROVE \E a, b \in S : a # b
  <2>1. SUFFICES ASSUME \A a, b \in S : a = b PROVE FALSE
    OBVIOUS
  <2>2. S # {}
    BY <1>3, FS_EmptySet
  <2>3. PICK a : S = {a}
    BY <2>1, <2>2
  <2>4. Cardinality(S) = 1
    BY <2>3, FS_Singleton
  <2> QED
    BY <1>3, <2>4
<1> QED
  BY <1>2, <1>3

\* The names of an ID, in capitals.
Names(id) == [i \in DOMAIN id.parts |-> Capitals[id.parts[i]]]

\* The names of an ID are one or more ranks, and those that it spells.
LEMMA NamesOfIDs ==
  ASSUME NEW id \in JointIDs
  PROVE  /\ id.rule \in Rules /\ Len(id.parts) \in Nat \ {0}
         /\ DOMAIN id.parts = 1 .. Len(id.parts)
         /\ Names(id) \in Seq(Nat) /\ Len(Names(id)) = Len(id.parts)
         /\ Spelled(id) = {Names(id)[i] : i \in 1 .. Len(id.parts)}
<1>1. PICK n \in 1 .. MaxParts : id.parts \in [1 .. n -> Spellings] /\ id.rule \in Rules
  BY DEF JointIDs
<1>2. n \in Nat \ {0}
  BY <1>1, JointCalendarsAssumption
<1>3. id.parts \in Seq(Spellings) /\ Len(id.parts) = n /\ DOMAIN id.parts = 1 .. n
  BY <1>1, <1>2
<1>4. Names(id) \in [1 .. n -> Nat]
  BY <1>1, <1>3, JointCalendarsAssumption DEF Names
<1>5. Names(id) \in Seq(Nat) /\ Len(Names(id)) = n
  BY <1>2, <1>4
<1>6. Spelled(id) = {Names(id)[i] : i \in 1 .. n}
  BY <1>3 DEF Spelled, Names
<1> QED
  BY <1>1, <1>2, <1>3, <1>5, <1>6

\* The groups are up to three names and what is left.
LEMMA GroupsOfIDs ==
  ASSUME NEW id \in JointIDs
  PROVE  LET s == Names(id)  n == Len(id.parts)
         IN /\ Groups(id) = {<<s[i]>> : i \in (1 .. n) \cap (1 .. 3)}
                              \cup IF n > 3 THEN {SubSeq(s, 4, n)} ELSE {}
            /\ Groups(id) \in SUBSET Seq(Nat)
            /\ IsFiniteSet(Groups(id))
<1> DEFINE s == Names(id)  n == Len(id.parts)
           D == (1 .. n) \cap (1 .. 3)
           singles == {<<s[i]>> : i \in D}
           rest == IF n > 3 THEN {SubSeq(s, 4, n)} ELSE {}
<1>1. n \in Nat /\ DOMAIN id.parts = 1 .. n /\ s \in Seq(Nat) /\ Len(s) = n /\ DOMAIN s = 1 .. n
  BY NamesOfIDs
<1>2. Groups(id) = singles \cup rest
  BY <1>1 DEF Groups, Names
<1>3. singles \in SUBSET Seq(Nat)
  <2>1. \A i \in 1 .. n : s[i] \in Nat
    BY <1>1, ElementOfSeq
  <2>2. \A k \in Nat : <<k>> \in Seq(Nat)
    OBVIOUS
  <2> HIDE DEF s, n
  <2> QED
    BY <2>1, <2>2
<1>4. rest \in SUBSET Seq(Nat)
  <2>1. n > 3 => SubSeq(s, 4, n) \in Seq(Nat)
    BY <1>1, SubSeqProperties
  <2> QED
    BY <2>1
<1>5. IsFiniteSet(singles)
  <2> DEFINE f == [i \in D |-> <<s[i]>>]
  <2>0. IsFiniteSet(1 .. n)
    BY <1>1, FS_Interval
  <2>1. D \in SUBSET (1 .. n)
    OBVIOUS
  <2>2. IsFiniteSet(D)
    BY <2>0, <2>1, FS_Subset
  <2>3. f \in Surjection(D, singles)
    BY DEF Surjection
  <2> HIDE DEF f, singles, D
  <2> QED
    BY <2>2, <2>3, FS_Surjection
<1>6. IsFiniteSet(rest)
  BY FS_EmptySet, FS_Singleton
<1> HIDE DEF singles, rest
<1>7. IsFiniteSet(Groups(id)) /\ Groups(id) \in SUBSET Seq(Nat)
  BY <1>2, <1>3, <1>4, <1>5, <1>6, FS_Union
<1> QED
  BY <1>2, <1>7 DEF singles, rest

\* What an ID spells is what is in its groups.
LEMMA SpelledInGroups ==
  ASSUME NEW id \in JointIDs
  PROVE  Spelled(id) = UNION {ToSet(g) : g \in Groups(id)}
<1> DEFINE s == Names(id)  n == Len(id.parts)
<1>1. n \in Nat /\ s \in Seq(Nat) /\ Len(s) = n /\ Spelled(id) = {s[i] : i \in 1 .. n}
  BY NamesOfIDs
<1>2. Groups(id) = {<<s[i]>> : i \in (1 .. n) \cap (1 .. 3)}
                      \cup IF n > 3 THEN {SubSeq(s, 4, n)} ELSE {}
  BY GroupsOfIDs
<1>3. \A i : ToSet(<<s[i]>>) = {s[i]}
  BY DEF ToSet
<1>4. n > 3 => ToSet(SubSeq(s, 4, n)) = {s[i] : i \in 4 .. n}
  <2> SUFFICES ASSUME n > 3 PROVE ToSet(SubSeq(s, 4, n)) = {s[i] : i \in 4 .. n}
    OBVIOUS
  <2>1. SubSeq(s, 4, n) = [i \in 1 .. n - 3 |-> s[i + 3]]
    BY <1>1
  <2>2. ToSet(SubSeq(s, 4, n)) = {s[i + 3] : i \in 1 .. n - 3}
    BY <2>1 DEF ToSet
  <2>3. \A i \in 4 .. n : i - 3 \in 1 .. n - 3 /\ (i - 3) + 3 = i
    BY <1>1
  <2>4. \A i \in 1 .. n - 3 : i + 3 \in 4 .. n
    BY <1>1
  <2> HIDE DEF s, n
  <2> QED
    BY <2>2, <2>3, <2>4
<1>5. \A i : i \in 1 .. n <=> i \in (1 .. n) \cap (1 .. 3) \/ (n > 3 /\ i \in 4 .. n)
  BY <1>1
<1> HIDE DEF s, n
<1>6. ASSUME NEW i \in 1 .. n PROVE \E g \in Groups(id) : s[i] \in ToSet(g)
  <2>1. CASE i \in (1 .. n) \cap (1 .. 3)
    BY <1>2, <1>3, <2>1
  <2>2. CASE n > 3 /\ i \in 4 .. n
    BY <1>2, <1>4, <2>2
  <2> QED
    BY <1>5, <2>1, <2>2
<1>7. ASSUME NEW g \in Groups(id) PROVE ToSet(g) \subseteq {s[i] : i \in 1 .. n}
  <2>1. CASE \E i \in (1 .. n) \cap (1 .. 3) : g = <<s[i]>>
    BY <1>3, <2>1
  <2>2. CASE n > 3 /\ g = SubSeq(s, 4, n)
    BY <1>4, <1>5, <2>2
  <2> QED
    BY <1>2, <2>1, <2>2
<1> QED
  BY <1>1, <1>6, <1>7

\* The names of idFull are those that the ID spells.
LEMMA FullNames ==
  ASSUME NEW id \in JointIDs
  PROVE  IdFull(id).rule = id.rule /\ ToSet(IdFull(id).names) = Spelled(id)
<1> DEFINE groups == Groups(id)
           N == Cardinality(groups)
           Place(g) == Cardinality({h \in groups : Before(h, g)})
           sorted == [i \in 1 .. N |-> CHOOSE g \in groups : Place(g) = i - 1]
           R == {p \in groups \X groups : Before(p[1], p[2])}
<1>1. groups \in SUBSET Seq(Nat) /\ IsFiniteSet(groups) /\ N \in Nat
  BY GroupsOfIDs, FS_CardinalityType
<1>2. IdFull(id) = [rule |-> id.rule, names |-> FlattenSeq(sorted)]
  BY DEF IdFull
<1> HIDE DEF groups
<1>3. \A g \in groups : Below(groups, R, g) = {h \in groups : Before(h, g)}
  BY DEF Below
<1>4. Orders(R, groups)
  BY <1>1, GroupsAreOrdered
<1> HIDE DEF R, sorted
<1>5. /\ \A g \in groups : Cardinality(Below(groups, R, g)) \in 0 .. N - 1
      /\ \A n \in 0 .. N - 1 : \E g \in groups : Cardinality(Below(groups, R, g)) = n
      /\ \A g, h \in groups :
           Cardinality(Below(groups, R, g)) = Cardinality(Below(groups, R, h)) => g = h
  BY <1>1, <1>4, EveryPlaceTaken
<1>6. /\ \A g \in groups : Place(g) \in 0 .. N - 1
      /\ \A n \in 0 .. N - 1 : \E g \in groups : Place(g) = n
      /\ \A g, h \in groups : Place(g) = Place(h) => g = h
  <2>1. \A g \in groups : Place(g) = Cardinality(Below(groups, R, g))
    BY <1>3
  <2> HIDE DEF Place
  <2>2. \A g \in groups : Place(g) \in 0 .. N - 1
    BY <1>5, <2>1
  <2>3. \A n \in 0 .. N - 1 : \E g \in groups : Place(g) = n
    BY <1>5, <2>1
  <2>4. \A g, h \in groups : Place(g) = Place(h) => g = h
    BY <1>5, <2>1
  <2> QED
    BY <2>2, <2>3, <2>4
<1> HIDE DEF N, Place
<1>7. \A i \in 1 .. N : sorted[i] \in groups /\ Place(sorted[i]) = i - 1
  <2> TAKE i \in 1 .. N
  <2>1. i - 1 \in 0 .. N - 1
    BY <1>1
  <2>2. sorted[i] = CHOOSE g \in groups : Place(g) = i - 1
    BY DEF sorted
  <2> QED
    BY <1>6, <2>1, <2>2
<1>8. \A g \in groups : \E i \in 1 .. N : sorted[i] = g
  <2> TAKE g \in groups
  <2>1. Place(g) + 1 \in 1 .. N /\ (Place(g) + 1) - 1 = Place(g)
    BY <1>1, <1>6
  <2>2. sorted[Place(g) + 1] = g
    BY <1>6, <1>7, <2>1
  <2> QED
    BY <2>1, <2>2
<1>9. sorted \in Seq(Seq(Nat)) /\ Len(sorted) = N
  <2>1. sorted = [i \in 1 .. N |-> sorted[i]]
    BY DEF sorted
  <2>2. sorted \in [1 .. N -> Seq(Nat)]
    BY <1>1, <1>7, <2>1
  <2> QED
    BY <1>1, <2>2
<1>10. ToSet(FlattenSeq(sorted)) = UNION {ToSet(sorted[i]) : i \in 1 .. N}
  BY <1>9, FlattenElements
<1>11. UNION {ToSet(sorted[i]) : i \in 1 .. N} = UNION {ToSet(g) : g \in groups}
  BY <1>7, <1>8
<1>12. Spelled(id) = UNION {ToSet(g) : g \in groups}
  BY SpelledInGroups DEF groups
<1> QED
  BY <1>2, <1>10, <1>11, <1>12

\* The groups of up to four names are the names.
LEMMA FewGroups ==
  ASSUME NEW id \in JointIDs, Len(id.parts) <= 4
  PROVE  Groups(id) = {<<c>> : c \in Spelled(id)}
<1> DEFINE s == Names(id)  n == Len(id.parts)
<1>1. /\ n \in Nat /\ n <= 4 /\ s \in Seq(Nat) /\ Len(s) = n
      /\ Spelled(id) = {s[i] : i \in 1 .. n}
  BY NamesOfIDs
<1>2. Groups(id) = {<<s[i]>> : i \in (1 .. n) \cap (1 .. 3)}
                      \cup IF n > 3 THEN {SubSeq(s, 4, n)} ELSE {}
  BY GroupsOfIDs
<1>3. n > 3 => SubSeq(s, 4, n) = <<s[4]>> /\ n = 4
  <2> SUFFICES ASSUME n > 3 PROVE SubSeq(s, 4, n) = <<s[4]>> /\ n = 4
    OBVIOUS
  <2> HIDE DEF s, n
  <2>1. n = 4 /\ s[4] \in Nat
    BY <1>1, ElementOfSeq
  <2>2. \A i \in 4 .. 4 : s[i] \in Nat
    BY <2>1
  <2>3. /\ SubSeq(s, 4, 4) \in Seq(Nat) /\ Len(SubSeq(s, 4, 4)) = 1
        /\ SubSeq(s, 4, 4)[1] = s[4]
    BY <2>2, SubSeqProperties
  <2>4. \A t \in Seq(Nat) : Len(t) = 1 => t = <<t[1]>>
    OBVIOUS
  <2> QED
    BY <2>1, <2>3, <2>4
<1>4. \A i : i \in 1 .. n <=> i \in (1 .. n) \cap (1 .. 3) \/ (n > 3 /\ i = 4)
  BY <1>1
<1> HIDE DEF s, n
<1> QED
  BY ZenonT(40), <1>1, <1>2, <1>3, <1>4

\* More than four names leave a group that is no calendar.
LEMMA ManyNotMade ==
  ASSUME NEW id \in JointIDs, Len(id.parts) > 4
  PROVE  ~Makeable(id)
<1> DEFINE s == Names(id)  n == Len(id.parts)
<1>1. n \in Nat /\ n > 4 /\ s \in Seq(Nat) /\ Len(s) = n
  BY NamesOfIDs
<1>2. Groups(id) = {<<s[i]>> : i \in (1 .. n) \cap (1 .. 3)}
                      \cup IF n > 3 THEN {SubSeq(s, 4, n)} ELSE {}
  BY GroupsOfIDs
<1> HIDE DEF s, n
<1>3. n > 3 /\ n - 3 # 1 /\ Len(SubSeq(s, 4, n)) = n - 3
  BY <1>1
<1>4. SubSeq(s, 4, n) \in Groups(id)
  BY <1>2, <1>3
<1>5. \A c : SubSeq(s, 4, n) # <<c>>
  BY <1>3
<1> QED
  BY <1>4, <1>5 DEF Makeable

\* Calendars are made of IDs whose groups are calendars of the library, one each.
LEMMA MadeOfNames ==
  ASSUME NEW id \in JointIDs, Makeable(id)
  PROVE  /\ Groups(id) = {<<c>> : c \in Spelled(id)}
         /\ Spelled(id) \subseteq Library
         /\ Made(id) = [rule |-> id.rule, of |-> Spelled(id)]
<1>1. \A c : ToSet(<<c>>) = {c} /\ <<c>>[1] = c
  BY DEF ToSet
<1>2. Spelled(id) = UNION {ToSet(g) : g \in Groups(id)}
  BY SpelledInGroups
<1>3. \A g \in Groups(id) : \E c \in Library : g = <<c>>
  BY DEF Makeable
<1>4. Spelled(id) = {g[1] : g \in Groups(id)}
  <2>1. \A g \in Groups(id) : ToSet(g) = {g[1]}
    BY <1>1, <1>3
  <2> QED
    BY <1>2, <2>1
<1>5. Spelled(id) \subseteq Library
  BY <1>1, <1>3, <1>4
<1>6. \A g \in Groups(id) : g = <<g[1]>>
  BY <1>1, <1>3
<1>7. Groups(id) = {<<c>> : c \in Spelled(id)}
  BY <1>4, <1>6
<1> QED
  BY <1>4, <1>5, <1>7 DEF Made

\* Two names or more are two groups or more.
LEMMA JointByNames ==
  ASSUME NEW id \in JointIDs, Groups(id) = {<<c>> : c \in Spelled(id)}
  PROVE  Cardinality(Groups(id)) > 1 <=> Cardinality(Spelled(id)) > 1
<1>1. IsFiniteSet(Groups(id))
  BY GroupsOfIDs
<1>2. IsFiniteSet(Spelled(id))
  <2> DEFINE s == Names(id)  n == Len(id.parts)
             f == [i \in 1 .. n |-> s[i]]
  <2>1. n \in Nat /\ Spelled(id) = {s[i] : i \in 1 .. n}
    BY NamesOfIDs
  <2>2. IsFiniteSet(1 .. n)
    BY <2>1, FS_Interval
  <2>3. f \in Surjection(1 .. n, Spelled(id))
    BY <2>1 DEF Surjection
  <2> HIDE DEF f, n
  <2> QED
    BY <2>2, <2>3, FS_Surjection
<1>3. \A c, d : <<c>> = <<d>> <=> c = d
  OBVIOUS
<1>4. (\E a, b \in Groups(id) : a # b) <=> \E a, b \in Spelled(id) : a # b
  <2>1. \A g : g \in Groups(id) <=> \E c \in Spelled(id) : g = <<c>>
    OBVIOUS
  <2>2. ASSUME NEW a \in Groups(id), NEW b \in Groups(id), a # b
        PROVE  \E c, d \in Spelled(id) : c # d
    BY <2>1, <2>2
  <2>3. ASSUME NEW c \in Spelled(id), NEW d \in Spelled(id), c # d
        PROVE  \E a, b \in Groups(id) : a # b
    <3>1. <<c>> \in Groups(id) /\ <<d>> \in Groups(id) /\ <<c>> # <<d>>
      BY <1>3, <2>1, <2>3
    <3> QED
      BY <3>1
  <2> QED
    BY <2>2, <2>3
<1> QED
  BY <1>1, <1>2, <1>4, MoreThanOne

-----------------------------------------------------------------------------

\* The registry has what was made, under its full ID.
Registered ==
  \A key \in DOMAIN registry : \E id \in JointIDs :
    /\ IsJoint(id) /\ Makeable(id)
    /\ key = IdFull(id) /\ registry[key] = Made(id)

\* A calendar that is made is registered under the full ID of who asked.
LEMMA CreateRegisters ==
  ASSUME Registered, NEW id \in JointIDs, CreateJoint(id) PROVE Registered'
<1> DEFINE idFull == IdFull(id)
<1>1. /\ IsJoint(id) /\ Makeable(id)
      /\ registry' = [key \in DOMAIN registry \cup {idFull} |->
                        IF key = idFull THEN Made(id) ELSE registry[key]]
  BY DEF CreateJoint
<1> HIDE DEF idFull
<1> SUFFICES ASSUME NEW key \in DOMAIN registry'
             PROVE  \E j \in JointIDs : /\ IsJoint(j) /\ Makeable(j)
                                        /\ key = IdFull(j) /\ registry'[key] = Made(j)
  BY DEF Registered
<1>2. CASE key = idFull
  BY <1>1, <1>2 DEF idFull
<1>3. CASE key # idFull
  <2>1. key \in DOMAIN registry /\ registry'[key] = registry[key]
    BY <1>1, <1>3
  <2> QED
    BY <2>1 DEF Registered
<1> QED
  BY <1>2, <1>3

\* Whatever is registered under the full ID of an ID is the calendar asked for.
LEMMA RegisteredAsAsked ==
  ASSUME Registered, NEW id \in JointIDs, IdFull(id) \in DOMAIN registry
  PROVE  /\ registry[IdFull(id)] = [rule |-> id.rule, of |-> Spelled(id)]
         /\ Cardinality(Spelled(id)) > 1 /\ Spelled(id) \subseteq Library
<1>1. PICK j \in JointIDs : /\ IsJoint(j) /\ Makeable(j)
                            /\ IdFull(id) = IdFull(j) /\ registry[IdFull(id)] = Made(j)
  BY DEF Registered
<1>2. id.rule = j.rule /\ Spelled(id) = Spelled(j)
  BY <1>1, FullNames
<1>3. /\ Made(j) = [rule |-> j.rule, of |-> Spelled(j)]
      /\ Spelled(j) \subseteq Library
      /\ Groups(j) = {<<c>> : c \in Spelled(j)}
  BY <1>1, MadeOfNames
<1>4. Cardinality(Spelled(j)) > 1
  BY <1>1, <1>3, JointByNames DEF IsJoint
<1> QED
  BY <1>1, <1>2, <1>3, <1>4

\* A joint calendar is the one asked for.
LEMMA RegisteredThenAsked == Registered => JointAsAsked
<1> SUFFICES ASSUME Registered, NEW id \in JointIDs
             PROVE  LET asked == [rule |-> id.rule, of |-> Spelled(id)]
                    IN IF Len(id.parts) \in 2 .. 4
                         THEN Result(id) =
                                IF Cardinality(asked.of) > 1 /\ asked.of \subseteq Library
                                  THEN asked ELSE Error
                         ELSE Result(id) \in {asked, Error}
  BY DEF JointAsAsked
<1> DEFINE asked == [rule |-> id.rule, of |-> Spelled(id)]
           n == Len(id.parts)
<1>1. n \in Nat \ {0} /\ asked.of = Spelled(id)
  BY NamesOfIDs
<1>2. Result(id) = IF ~IsJoint(id) THEN Error
                   ELSE IF IdFull(id) \in DOMAIN registry THEN registry[IdFull(id)]
                   ELSE IF Makeable(id) THEN Made(id) ELSE Error
  BY DEF Result
<1>3. Result(id) \in {asked, Error}
  BY <1>2, RegisteredAsAsked, MadeOfNames
<1>4. ASSUME n \in 2 .. 4
      PROVE  Result(id) = IF Cardinality(Spelled(id)) > 1 /\ Spelled(id) \subseteq Library
                            THEN asked ELSE Error
  <2> HIDE DEF n
  <2>0. n >= 2 /\ n <= 4
    BY <1>4
  <2>1. Groups(id) = {<<c>> : c \in Spelled(id)}
    BY <2>0, FewGroups DEF n
  <2>2. IsJoint(id) <=> Cardinality(Spelled(id)) > 1
    BY <2>0, <2>1, JointByNames DEF IsJoint, n
  <2>3. Makeable(id) <=> Spelled(id) \subseteq Library
    <3>1. \A c, d : <<c>> = <<d>> => c = d
      OBVIOUS
    <3>2. \A c : <<c>> \in {<<d>> : d \in Library} <=> c \in Library
      BY <3>1
    <3> QED
      BY <2>1, <3>2 DEF Makeable
  <2>4. CASE IdFull(id) \in DOMAIN registry
    BY <1>2, <2>2, <2>4, RegisteredAsAsked
  <2>5. CASE IdFull(id) \notin DOMAIN registry
    BY <1>2, <2>2, <2>3, <2>5, MadeOfNames
  <2> QED
    BY <2>4, <2>5
<1> HIDE DEF asked
<1> QED
  BY <1>1, <1>3, <1>4 DEF asked

\* There is one calendar for all IDs of the same names.
LEMMA RegisteredThenOnce == Registered => RegisteredOnce
<1> SUFFICES ASSUME Registered, NEW j \in DOMAIN registry, NEW k \in DOMAIN registry,
                    registry[j] = registry[k]
             PROVE  j = k
  BY DEF RegisteredOnce
<1>1. PICK a \in JointIDs : Makeable(a) /\ j = IdFull(a) /\ registry[j] = Made(a)
  BY DEF Registered
<1>2. PICK b \in JointIDs : Makeable(b) /\ k = IdFull(b) /\ registry[k] = Made(b)
  BY DEF Registered
<1>3. /\ Made(a) = [rule |-> a.rule, of |-> Spelled(a)] /\ Groups(a) = {<<c>> : c \in Spelled(a)}
      /\ Made(b) = [rule |-> b.rule, of |-> Spelled(b)] /\ Groups(b) = {<<c>> : c \in Spelled(b)}
  BY <1>1, <1>2, MadeOfNames
<1>4. a.rule = b.rule /\ Groups(a) = Groups(b)
  BY <1>1, <1>2, <1>3
<1>5. IdFull(a) = IdFull(b)
  BY <1>4 DEF IdFull
<1> QED
  BY <1>1, <1>2, <1>5

-----------------------------------------------------------------------------
(* The specification *)

\* What is converted stays one of the cases, and the registry has the calendars that were
\* made, under the full IDs of those who asked.
IInv == at \in Cases /\ Registered

\* So it is in every state.
LEMMA InvariantAlways == Spec => []IInv
<1>1. Init => IInv
  BY DEF Init, CalendarsInit, IInv, Registered
<1>2. IInv /\ [Next]_vars => IInv'
  <2> SUFFICES ASSUME IInv, [Next]_vars PROVE IInv'
    OBVIOUS
  <2>1. CASE Next
    <3>1. at' = at /\ CalendarsNext
      BY <2>1 DEF Next
    <3>2. PICK id \in JointIDs : CreateJoint(id)
      BY <3>1 DEF CalendarsNext
    <3>3. Registered'
      BY <3>2, CreateRegisters DEF IInv
    <3> QED
      BY <3>1, <3>3 DEF IInv
  <2>2. CASE UNCHANGED vars
    BY <2>2 DEF IInv, Registered, vars
  <2> QED
    BY <2>1, <2>2
<1> QED
  BY <1>1, <1>2, PTL DEF Spec

\* A case of each kind is of the inputs given for its kind.
LEMMA CasesByKind ==
  ASSUME at \in Cases
  PROVE  /\ at.of = "date" => at.date \in Dates(Years)
         /\ at.of = "ID" => at.id \in IDs
         /\ at.of = "range" => IsRange(at.range)
<1>1. \/ \E d \in Dates(Years) : at = [of |-> "date", date |-> d]
      \/ \E id \in IDs : at = [of |-> "ID", id |-> id]
      \/ \E x \in UNION {RangesOf(r, c) : r, c \in 1 .. Size} : at = [of |-> "range", range |-> x]
      \/ at = [of |-> "calendar"]
  BY DEF Cases
<1>2. ASSUME NEW x \in UNION {RangesOf(r, c) : r, c \in 1 .. Size}
      PROVE  IsRange(x)
  <2> DEFINE F(r, c, valid) == [k \in Indices(r * c) |->
                                  IF <<k \div c, k % c>> \in valid
                                    THEN <<k \div c, k % c>> ELSE Invalid]
  <2>1. PICK r \in 1 .. Size, c \in 1 .. Size : x \in RangesOf(r, c)
    OBVIOUS
  <2>2. r \in Nat \ {0} /\ c \in Nat \ {0}
    BY ConversionsAssumption
  <2>3. PICK valid : x = [rows |-> r, columns |-> c, lparray |-> F(r, c, valid)]
    BY <2>1 DEF RangesOf, Array
  <2>4. F(r, c, valid) = [k \in Indices(r * c) |-> F(r, c, valid)[k]]
    OBVIOUS
  <2> HIDE DEF F
  <2> QED
    BY <2>2, <2>3, <2>4 DEF IsRange, IsArray
<1> QED
  BY <1>1, <1>2

\* A time is printed as the date it was taken on, but for those of the last days of
\* years and those from 2199 on, which formatTime refuses: for every year from 1970.
THEOREM DatesAlwaysPrinted == Spec => []DatesPrinted
<1>1. IInv => DatesPrinted
  BY ConversionsAssumption, CasesByKind, DatePrinted DEF IInv, DatesPrinted
<1> QED
  BY <1>1, InvariantAlways, PTL

\* Every ID that a cell shows leads back to its object, given by a user or made up, at
\* every update count; no ID that a user may give is taken for that of an anonymous
\* object, nor one of these for another's: for IDs and keys of every length.
THEOREM IDsAlwaysLeadBack == Spec => []IDsLeadBack
<1>1. IInv => IDsLeadBack
  <2> SUFFICES ASSUME IInv, at.of = "ID", NEW n \in Counters
               PROVE  /\ Accepted(at.id) => StubLeadsBack(at.id, n)
                      /\ \A k \in KeyCounts : /\ StubLeadsBack(Anonymous(k), n)
                                               /\ AnonymousIsApart(at.id, k, KeyCounts, n)
    BY DEF IDsLeadBack
  <2> DEFINE S == STRING
             id == at.id
  <2>1. id \in Seq(S) /\ n \in Nat /\ KeyCounts \subseteq Nat
    BY ConversionsAssumption, CasesByKind DEF IInv
  <2> HIDE DEF S, id
  <2>2. Accepted(id) => StubLeadsBack(id, n)
    BY <2>1, EveryStubLeadsBack
  <2>3. \A k \in KeyCounts : AnonymousIsApart(id, k, KeyCounts, n)
    BY <2>1, EveryAnonymousIsApart
  <2>4. \A k \in KeyCounts : StubLeadsBack(Anonymous(k), n)
    BY <2>1, EveryAnonymousLeadsBack
  <2> QED
    BY <2>2, <2>3, <2>4 DEF id
<1> QED
  BY <1>1, InvariantAlways, PTL

\* ohPack keeps every valid cell in its place, and the functions that drop rows, columns
\* and cells keep the others in order: for ranges of every size.
THEOREM RangesAlwaysReduced == Spec => []RangesReduced
<1>1. IInv => RangesReduced
  <2> SUFFICES ASSUME IInv, at.of = "range"
               PROVE  /\ PackKeepsAll(at.range) /\ ColumnsLikeRows(at.range)
                      /\ FilterLikeRows(at.range)
    BY DEF RangesReduced
  <2> DEFINE x == at.range
  <2>1. IsRange(x)
    BY CasesByKind DEF IInv
  <2> HIDE DEF x
  <2>2. PackKeepsAll(x) /\ ColumnsLikeRows(x) /\ FilterLikeRows(x)
    BY <2>1, PackedRanges, ColumnsRemoved, CellsFiltered
  <2> QED
    BY <2>2 DEF x
<1> QED
  BY <1>1, InvariantAlways, PTL

\* The calendar factory returns the joint calendar that is asked for, whatever was asked
\* for before, and keeps one for all who ask: for every library, and for lists of every
\* length.
THEOREM CalendarsAlwaysAsAsked == Spec => []CalendarsAsAsked
<1>1. IInv => CalendarsAsAsked
  BY RegisteredThenAsked, RegisteredThenOnce DEF IInv, CalendarsAsAsked
<1> QED
  BY <1>1, InvariantAlways, PTL
=============================================================================
