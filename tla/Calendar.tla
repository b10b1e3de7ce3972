------------------------------ MODULE Calendar ------------------------------
(***************************************************************************)
(* Dates as the program counts them, the periods of favourite queries, and *)
(* the columns of a periodic query (src/CommonTypes.cpp,                   *)
(* src/RelativePeriod.cpp, TopicPeriodicSubQuery in src/Query.cpp).        *)
(*                                                                         *)
(* The clock goes on day by day, and with it a plain calendar, against     *)
(* which the arithmetic of the code is checked.                            *)
(***************************************************************************)
EXTENDS Integers

CONSTANTS
  FirstDay, \* [day, month, year] where the clock begins
  LastSerial, \* bound: the number of the day where it stops
  Years     \* the N of "last_N_whole_years" that are asked for

ASSUME CalendarAssumption ==
  /\ FirstDay \in [day : 1..28, month : 1..12, year : Nat]
  /\ LastSerial \in Nat
  /\ Years \subseteq Nat \ {0}

VARIABLES
  today, \* GetToday()->GetInExcelFormat()
  now,   \* the day, month and year that every keyword makes of it
  civil  \* the same day in the plain calendar

vars == <<today, now, civil>>

-----------------------------------------------------------------------------
(* The plain calendar.                                                     *)
Leap(y) == y % 4 = 0 /\ (y % 100 # 0 \/ y % 400 = 0)

LengthOf(m, y) == CASE m \in {4, 6, 9, 11} -> 30
                    [] m = 2 -> IF Leap(y) THEN 29 ELSE 28
                    [] OTHER -> 31

DayAfter(c) ==
  IF c.day < LengthOf(c.month, c.year) THEN [c EXCEPT !.day = @ + 1]
  ELSE IF c.month < 12 THEN [day |-> 1, month |-> c.month + 1, year |-> c.year]
  ELSE [day |-> 1, month |-> 1, year |-> c.year + 1]

-----------------------------------------------------------------------------
(* The arithmetic of the code. Its division rounds towards zero.           *)
Quot_Floor(a, b) == a \div b \* (Seeded fault: it rounds down.)
Quot(a, b) == IF a < 0 THEN -((-a) \div b) ELSE a \div b

Word(n) == n % 65536 \* uint16_t

DayOf(l) == \* l: what is left of the number once the century is known
  LET i == Quot(4000 * (l + 1), 1461001)
      j == Quot(80 * (l - Quot(1461 * i, 4) + 31), 2447)
  IN  [day   |-> l - Quot(1461 * i, 4) + 31 - Quot(2447 * j, 80),
       month |-> j + 2 - 12 * Quot(j, 11),
       year  |-> i + Quot(j, 11)]

ExcelSerialDateToDMY(serial) ==
  LET l == serial + 68569 + 2415019
      n == Quot(4 * l, 146097)
  IN  [DayOf(l - Quot(146097 * n + 3, 4)) EXCEPT !.year = 100 * (n - 49) + @]

DMYToExcelSerialDate(day, month, year) ==
  LET c == Quot(month - 14, 12)
  IN  Quot(1461 * (year + 4800 + c), 4) + Quot(367 * (month - 2 - 12 * c), 12)
        - Quot(3 * Quot(year + 4900 + c, 100), 4) + day - 2415019 - 32075

-----------------------------------------------------------------------------
(* Every year that a period begins or ends in has day numbers of 16 bits:  *)
(* none before 1900, and 2078 is the last one whose days all have; its     *)
(* last day is number 65380.                                               *)
ASSUME SixteenBits ==
  /\ FirstDay.year <= 2078 /\ LastSerial <= 65380
  /\ \A n \in Years \cup {1} : FirstDay.year - n >= 1900

-----------------------------------------------------------------------------
(* Ranges of whole months. Months count from 0 here.                       *)
FirstDayOfMonth(month0, year) ==
  Word(DMYToExcelSerialDate(1, month0 + 1, year))

LastDayOfMonth(month0, year) ==
  Word(IF month0 = 11 THEN FirstDayOfMonth(0, year + 1) - 1
                      ELSE FirstDayOfMonth(month0 + 1, year) - 1)

MonthSpanRange(start0, span, year) ==
  [from |-> FirstDayOfMonth(start0, year),
   to   |-> LastDayOfMonth(start0 + span - 1, year)]

\* TodayYearMonth0(): every keyword begins with a look at the clock.
Year   == now.year
Month0 == now.month - 1

Kinds == {"month", "quarter", "half", "year"}
Span == [month |-> 1, quarter |-> 3, half |-> 6, year |-> 12]

\* "this_month", "this_quarter", "this_half", "this_year"
ThisPeriod(k) ==
  MonthSpanRange((Month0 \div Span[k]) * Span[k], Span[k], Year)

\* "last_month", ...: before the first period of a year is one of the year
\* before. (Seeded fault: is the same one of this year.)
LastPeriod_SameYear(k) ==
  MonthSpanRange(((Month0 \div Span[k]) * Span[k] + 12 - Span[k]) % 12,
                 Span[k], Year)

LastPeriod(k) ==
  IF Month0 < Span[k]
    THEN MonthSpanRange(12 - Span[k], Span[k], Year - 1)
    ELSE MonthSpanRange((Month0 \div Span[k]) * Span[k] - Span[k], Span[k], Year)

\* "start_of_this_month", ..., "end_of_last_month", ...
StartOfThis(k) == FirstDayOfMonth(Month0 - (Month0 % Span[k]), Year)

EndOfLast(k) ==
  IF Month0 < Span[k] THEN LastDayOfMonth(11, Year - 1)
                      ELSE LastDayOfMonth(Month0 - (Month0 % Span[k]) - 1, Year)

Last30Days == [from |-> Word(today - 29), to |-> today]

Last12Months ==
  LET start0 == Month0 - 11
  IN  [from |-> IF start0 < 0 THEN FirstDayOfMonth(start0 + 12, Year - 1)
                              ELSE FirstDayOfMonth(start0, Year),
       to   |-> LastDayOfMonth(Month0, Year)]

LastWholeYears(n) == [from |-> FirstDayOfMonth(0, Year - n),
                      to   |-> LastDayOfMonth(11, Year - 1)]

-----------------------------------------------------------------------------
(* The column of a periodic query that a day belongs to. (Seeded fault: the *)
(* months count from 1.)                                                   *)
DateId_FromOne(k, c) == c.year * (12 \div Span[k]) + c.month \div Span[k]

DateId(k, c) == c.year * (12 \div Span[k]) + (c.month - 1) \div Span[k]

Column(k, day) == DateId(k, ExcelSerialDateToDMY(day))

-----------------------------------------------------------------------------
Init ==
  /\ today = Word(DMYToExcelSerialDate(FirstDay.day, FirstDay.month, FirstDay.year))
  /\ now = ExcelSerialDateToDMY(today)
  /\ civil = FirstDay

Midnight ==
  /\ today < LastSerial
  /\ today' = today + 1
  /\ now' = ExcelSerialDateToDMY(today + 1)
  /\ civil' = DayAfter(civil)

Next == Midnight

Spec == Init /\ [][Next]_vars

-----------------------------------------------------------------------------
(* The number of a day and the day of a number are those of the calendar,  *)
(* over leap years and the turn of a century.                              *)
CivilDates ==
  /\ Word(today) = today
  /\ now = civil
  /\ DMYToExcelSerialDate(civil.day, civil.month, civil.year) = today

(* Today is in this period, the last one ends the day before this one      *)
(* begins, and the single-day keywords, which are computed on their own,   *)
(* name the same days. The rolling windows are as long as they say: thirty *)
(* days, this month and eleven columns of months before it, N whole years  *)
(* up to this one.                                                         *)
PeriodsTile ==
  /\ \A k \in Kinds :
       /\ today \in ThisPeriod(k).from..ThisPeriod(k).to
       /\ LastPeriod(k).to + 1 = ThisPeriod(k).from
       /\ StartOfThis(k) = ThisPeriod(k).from
       /\ EndOfLast(k) = LastPeriod(k).to
  /\ Last30Days.to - Last30Days.from = 29
  /\ Last12Months.to = ThisPeriod("month").to
  /\ Column("month", Last12Months.from) = DateId("month", now) - 11
  /\ Column("month", Last12Months.from - 1) = DateId("month", now) - 12
  /\ \A n \in Years :
       /\ LastWholeYears(n).to + 1 = ThisPeriod("year").from
       /\ Column("year", LastWholeYears(n).from) = civil.year - n
       /\ Column("year", LastWholeYears(n).from - 1) = civil.year - n - 1

(* A period changes at the midnight after its last day: what was "this"    *)
(* period until then is the "last" one from then on, and in a periodic     *)
(* query, which computes its columns on its own, the next column begins.   *)
PeriodsHandOver ==
  [][\A k \in Kinds :
       IF today = ThisPeriod(k).to
         THEN /\ LastPeriod(k)' = ThisPeriod(k)
              /\ DateId(k, now') = DateId(k, now) + 1
         ELSE /\ ThisPeriod(k)' = ThisPeriod(k) /\ LastPeriod(k)' = LastPeriod(k)
              /\ DateId(k, now') = DateId(k, now)]_vars
=============================================================================
