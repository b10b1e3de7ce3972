-------------------------- MODULE Calendar_proofs ---------------------------
(***************************************************************************)
(* The dates of the code are those of the calendar, and its periods tile   *)
(* it, whatever days the clock begins and ends on within the years that 16 *)
(* bits hold.                                                              *)
(***************************************************************************)
EXTENDS Calendar, TLAPS

-----------------------------------------------------------------------------
(* From a day to its number.                                               *)

(* Rounding towards zero is rounding down where nothing is negative.       *)
LEMMA QuotUp ==
  ASSUME NEW a \in Nat, NEW b \in Nat, b > 0 PROVE Quot(a, b) = a \div b
  BY DEF Quot

(* The three parts of what DMYToExcelSerialDate() computes.                *)
Quarters(y) == (1461 * (y + 4800)) \div 4
Centuries(y) == (3 * ((y + 4900) \div 100)) \div 4
Months(m) == (367 * m) \div 12

(* The code counts January and February to the year before.                *)
LEMMA Encoded ==
  ASSUME NEW d \in Int, NEW m \in 1 .. 12, NEW y \in Nat
  PROVE  /\ m <= 2 => DMYToExcelSerialDate(d, m, y)
                        = Quarters(y - 1) + Months(m + 10) - Centuries(y - 1) + d - 2447094
         /\ m > 2 => DMYToExcelSerialDate(d, m, y)
                        = Quarters(y) + Months(m - 2) - Centuries(y) + d - 2447094
<1> DEFINE c == Quot(m - 14, 12)
<1>1. c = IF m <= 2 THEN -1 ELSE 0
  BY SMT DEF Quot
<1> HIDE DEF c
<1>2. /\ Quot(1461 * (y + 4800 + c), 4) = (1461 * (y + 4800 + c)) \div 4
      /\ Quot(y + 4900 + c, 100) = (y + 4900 + c) \div 100
      /\ Quot(3 * ((y + 4900 + c) \div 100), 4) = (3 * ((y + 4900 + c) \div 100)) \div 4
      /\ Quot(367 * (m - 2 - 12 * c), 12) = (367 * (m - 2 - 12 * c)) \div 12
  BY <1>1, SMT DEF Quot
<1>3. DMYToExcelSerialDate(d, m, y)
        = (1461 * (y + 4800 + c)) \div 4 + (367 * (m - 2 - 12 * c)) \div 12
            - (3 * ((y + 4900 + c) \div 100)) \div 4 + d - 2447094
  BY <1>2, SMT DEF DMYToExcelSerialDate, c
<1>4. CASE m <= 2
  <2>1. c = -1 /\ y + 4800 + c = (y - 1) + 4800 /\ y + 4900 + c = (y - 1) + 4900
        /\ m - 2 - 12 * c = m + 10
    BY <1>1, <1>4, SMT
  <2> QED
    BY <1>3, <1>4, <2>1, SMT DEF Quarters, Centuries, Months
<1>5. CASE m > 2
  <2>1. c = 0 /\ y + 4800 + c = y + 4800 /\ y + 4900 + c = y + 4900 /\ m - 2 - 12 * c = m - 2
    BY <1>1, <1>5, SMT
  <2> QED
    BY <1>3, <1>5, <2>1, SMT DEF Quarters, Centuries, Months
<1> QED
  BY <1>4, <1>5

(* The days from March on, as 367/12 of a month gives them.                *)
LEMMA MonthsAre ==
  /\ Months(1) = 30 /\ Months(2) = 61 /\ Months(3) = 91 /\ Months(4) = 122
  /\ Months(5) = 152 /\ Months(6) = 183 /\ Months(7) = 214 /\ Months(8) = 244
  /\ Months(9) = 275 /\ Months(10) = 305 /\ Months(11) = 336 /\ Months(12) = 367
  BY SMT DEF Months

(* The days that a leap year has more.                                     *)
LeapDay(y) == IF Leap(y) THEN 1 ELSE 0

(* A year more is 365 days, and one more every fourth ...                  *)
LEMMA QuartersStep ==
  ASSUME NEW y \in Nat
  PROVE  Quarters(y) = Quarters(y - 1) + 365 + IF y % 4 = 0 THEN 1 ELSE 0
  BY SMT DEF Quarters

(* ... but none at the turn of three centuries of four.                    *)
LEMMA CenturiesStep ==
  ASSUME NEW y \in Nat
  PROVE  Centuries(y) = Centuries(y - 1) + IF y % 100 = 0 /\ y % 400 # 0 THEN 1 ELSE 0
<1>1. CASE y % 100 = 0
  <2> PICK k \in Nat : y = 100 * k
    <3>1. y \div 100 \in Nat /\ y = 100 * (y \div 100)
      BY <1>1, SMT
    <3> QED
      BY <3>1
  <2>1. (y + 4900) \div 100 = k + 49 /\ ((y - 1) + 4900) \div 100 = k + 48
    BY SMT
  <2>2. y % 400 = 0 <=> k % 4 = 0
    BY SMT
  <2>3. (3 * (k + 49)) \div 4 = (3 * (k + 48)) \div 4 + IF k % 4 = 0 THEN 0 ELSE 1
    BY SMT
  <2> QED
    BY <1>1, <2>1, <2>2, <2>3, SMT DEF Centuries
<1>2. CASE y % 100 # 0
  <2>1. (y + 4900) \div 100 = ((y - 1) + 4900) \div 100
    BY <1>2, SMT
  <2> QED
    BY <1>2, <2>1, SMT DEF Centuries
<1> QED
  BY <1>1, <1>2

(* That makes the leap years of the calendar.                              *)
LEMMA LeapIs ==
  ASSUME NEW y \in Nat
  PROVE  /\ LeapDay(y) \in 0 .. 1
         /\ LeapDay(y) = (IF y % 4 = 0 THEN 1 ELSE 0) - (IF y % 100 = 0 /\ y % 400 # 0 THEN 1 ELSE 0)
         /\ LeapDay(y) = 1 <=> Leap(y)
  BY SMT DEF LeapDay, Leap

(* So a year is as long in the code as in the calendar.                    *)
LEMMA YearStep ==
  ASSUME NEW y \in Nat
  PROVE  /\ Quarters(y) \in Int /\ Quarters(y - 1) \in Int
         /\ Centuries(y) \in Int /\ Centuries(y - 1) \in Int
         /\ Quarters(y) - Centuries(y) = Quarters(y - 1) - Centuries(y - 1) + 365 + LeapDay(y)
<1>1. /\ Quarters(y) \in Int /\ Quarters(y - 1) \in Int
      /\ Centuries(y) \in Int /\ Centuries(y - 1) \in Int
  BY SMT DEF Quarters, Centuries
<1> QED
  BY <1>1, QuartersStep, CenturiesStep, LeapIs, SMT

(* The days of a year before its m-th month, and its first day.            *)
Before(m, y) ==
  CASE m = 1 -> 0 [] m = 2 -> 31 [] m = 3 -> 59 + LeapDay(y) [] m = 4 -> 90 + LeapDay(y)
    [] m = 5 -> 120 + LeapDay(y) [] m = 6 -> 151 + LeapDay(y) [] m = 7 -> 181 + LeapDay(y)
    [] m = 8 -> 212 + LeapDay(y) [] m = 9 -> 243 + LeapDay(y) [] m = 10 -> 273 + LeapDay(y)
    [] m = 11 -> 304 + LeapDay(y) [] m = 12 -> 334 + LeapDay(y) [] m = 13 -> 365 + LeapDay(y)

NewYear(y) == DMYToExcelSerialDate(1, 1, y)

(* The number of New Year without the months.                              *)
LEMMA NewYearIs ==
  ASSUME NEW y \in Nat
  PROVE  /\ NewYear(y) = Quarters(y - 1) - Centuries(y - 1) - 2446757
         /\ NewYear(y) \in Int
<1>1. NewYear(y) = Quarters(y - 1) + Months(11) - Centuries(y - 1) + 1 - 2447094
  BY Encoded, SMT DEF NewYear
<1> QED
  BY <1>1, YearStep, MonthsAre, SMT

(* From New Year to New Year.                                              *)
LEMMA NewYearStep ==
  ASSUME NEW y \in Nat
  PROVE  NewYear(y + 1) = NewYear(y) + 365 + LeapDay(y)
<1>1. y + 1 - 1 = y /\ y + 1 \in Nat
  BY SMT
<1>2. NewYear(y + 1) = Quarters(y) - Centuries(y) - 2446757
  BY <1>1, NewYearIs
<1>3. NewYear(y) = Quarters(y - 1) - Centuries(y - 1) - 2446757
  BY NewYearIs
<1> QED
  BY <1>2, <1>3, YearStep, LeapIs, SMT

(* The number of a day is that of New Year and the days since.             *)
LEMMA DayNumbers ==
  ASSUME NEW d \in Int, NEW m \in 1 .. 12, NEW y \in Nat
  PROVE  DMYToExcelSerialDate(d, m, y) = NewYear(y) + Before(m, y) + d - 1
<1>1. /\ Quarters(y) \in Int /\ Quarters(y - 1) \in Int
      /\ Centuries(y) \in Int /\ Centuries(y - 1) \in Int
      /\ Quarters(y) - Centuries(y) = Quarters(y - 1) - Centuries(y - 1) + 365 + LeapDay(y)
      /\ LeapDay(y) \in 0 .. 1
  BY YearStep, LeapIs
<1>2. NewYear(y) = Quarters(y - 1) - Centuries(y - 1) - 2446757
  BY NewYearIs
<1>3. CASE m <= 2
  <2>1. DMYToExcelSerialDate(d, m, y)
          = Quarters(y - 1) + Months(m + 10) - Centuries(y - 1) + d - 2447094
    BY <1>3, Encoded
  <2>2. CASE m = 1
    <3>1. Months(m + 10) = 336 /\ Before(m, y) = 0
      BY <2>2, MonthsAre, SMT DEF Before
    <3> QED
      BY <1>1, <1>2, <2>1, <3>1, SMT
  <2>3. CASE m = 2
    <3>1. Months(m + 10) = 367 /\ Before(m, y) = 31
      BY <2>3, MonthsAre, SMT DEF Before
    <3> QED
      BY <1>1, <1>2, <2>1, <3>1, SMT
  <2> QED
    BY <1>3, <2>2, <2>3, SMT
<1>4. CASE m > 2
  <2>1. DMYToExcelSerialDate(d, m, y)
          = Quarters(y) + Months(m - 2) - Centuries(y) + d - 2447094
    BY <1>4, Encoded
  <2>2. Months(m - 2) \in Int /\ Before(m, y) = Months(m - 2) + 29 + LeapDay(y)
    BY <1>1, <1>4, MonthsAre, SMT DEF Before
  <2> QED
    BY <1>1, <1>2, <2>1, <2>2, SMT
<1> QED
  BY <1>3, <1>4, SMT

-----------------------------------------------------------------------------
(* From a number to its day.                                               *)

(* A day d of the m-th month from March on, of the i-th year of a century  *)
(* n that begins in March. Only every fourth year has the 29 February at   *)
(* its end, and at the end of the century only every fourth century.       *)
Late(i, m, d, n) ==
  /\ i \in 0 .. 99 /\ m \in 1 .. 12 /\ d \in 1 .. 31 /\ n \in Nat
  /\ m \in {2, 4, 7, 9} => d <= 30
  /\ m = 12 => d <= 29
  /\ m = 12 /\ d = 29 => i % 4 = 3 /\ (i = 99 => n % 4 = 0)

(* DayOf() finds it again, given how many days of the century went before. *)
LEMMA DayOfIs ==
  ASSUME NEW i, NEW m, NEW d, NEW n, Late(i, m, d, n)
  PROVE  DayOf((1461 * i) \div 4 + Months(m) + d - 31)
           = [day |-> d, month |-> m + 2 - 12 * (m \div 11), year |-> i + m \div 11]
<1>0. /\ i \in Nat /\ i <= 99 /\ m \in 1 .. 12 /\ d \in Nat /\ d >= 1 /\ d <= 31
      /\ m \in {2, 4, 7, 9} => d <= 30
      /\ m = 12 => d <= 29
      /\ m = 12 /\ d = 29 => i % 4 = 3
  BY SMT DEF Late
<1> DEFINE s == Months(m) + d - 31
           t == Months(m) + d
           q == (1461 * i) \div 4
           l == q + Months(m) + d - 31
<1>1. /\ s \in Nat /\ s <= 365 /\ (s = 365 => i % 4 = 3)
      /\ t \in Nat /\ s + 31 = t
  BY <1>0, MonthsAre, SMT
<1>2. Months(m) \in Nat /\ q \in Nat /\ l = q + s /\ l \in Nat
  BY <1>0, <1>1, MonthsAre, SMT
<1> HIDE DEF s, t, l
<1>3. (4000 * (l + 1)) \div 1461001 = i
  <2>1. 4 * q = 1461 * i - (i % 4)
    BY <1>0, SMT
  <2> HIDE DEF q
  <2>2. i % 4 \in 0 .. 3
    BY <1>0, SMT
  <2>3. 1461001 * i <= 4000 * (l + 1) /\ 4000 * (l + 1) < 1461001 * (i + 1)
    BY <1>0, <1>1, <1>2, <2>1, <2>2, SMT
  <2> QED
    BY <1>0, <1>2, <2>3, SMT
<1>4. Quot(4000 * (l + 1), 1461001) = i /\ Quot(1461 * i, 4) = q
  BY <1>0, <1>2, <1>3, SMT DEF Quot
<1>5. (80 * t) \div 2447 = m
  BY <1>0, MonthsAre, SMT DEF t
<1>6. Quot(80 * t, 2447) = m /\ Quot(2447 * m, 80) = Months(m) /\ Quot(m, 11) = m \div 11
  <2>1. (2447 * m) \div 80 = Months(m)
    BY <1>0, MonthsAre, SMT
  <2> QED
    BY <1>0, <1>1, <1>5, <2>1, SMT DEF Quot
<1>7. l - q + 31 = t
  BY <1>1, <1>2, SMT
<1> HIDE DEF q
<1>8. DayOf(l) = [day |-> t - Months(m), month |-> m + 2 - 12 * (m \div 11), year |-> i + m \div 11]
  BY <1>0, <1>1, <1>2, <1>4, <1>6, <1>7, SMT DEF DayOf
<1>9. t - Months(m) = d
  BY <1>0, <1>2, SMT DEF t
<1> QED
  BY <1>8, <1>9 DEF l, q

(* The number of such a day.                                               *)
Number(i, m, d, n) ==
  (146097 * n + 3) \div 4 + (1461 * i) \div 4 + Months(m) + d - 31 - 2483588

(* ExcelSerialDateToDMY() finds the century, and so the day.               *)
LEMMA Decoded ==
  ASSUME NEW i, NEW m, NEW d, NEW n, Late(i, m, d, n)
  PROVE  ExcelSerialDateToDMY(Number(i, m, d, n))
           = [day |-> d, month |-> m + 2 - 12 * (m \div 11),
              year |-> 100 * (n - 49) + (i + m \div 11)]
<1>0. /\ i \in Nat /\ i <= 99 /\ m \in 1 .. 12 /\ d \in Nat /\ d >= 1 /\ d <= 31 /\ n \in Nat
      /\ m = 12 => d <= 29
      /\ m = 12 /\ d = 29 => i % 4 = 3 /\ (i = 99 => n % 4 = 0)
  BY SMT DEF Late
<1> DEFINE r == (1461 * i) \div 4 + Months(m) + d - 31
           b == (146097 * n + 3) \div 4
<1>1. /\ r \in Nat /\ r <= 36524 /\ (r = 36524 => n % 4 = 0)
  <2>1. /\ Months(m) + d - 31 \in 0 .. 365 /\ Months(m) \in Nat
        /\ Months(m) + d - 31 = 365 => m = 12 /\ d = 29
    BY <1>0, MonthsAre, SMT
  <2>2. (1461 * i) \div 4 \in Nat /\ (1461 * i) \div 4 <= 36159
        /\ (i < 99 => (1461 * i) \div 4 <= 35794)
    BY <1>0, SMT
  <2> QED
    BY <1>0, <2>1, <2>2, SMT
<1>2. b \in Nat /\ 146097 * n <= 4 * b /\ 4 * b <= 146097 * n + 3
      /\ (n % 4 = 0 => 4 * b = 146097 * n)
  BY <1>0, SMT
<1>3. Number(i, m, d, n) + 68569 + 2415019 = b + r
  <2>1. Months(m) \in Int /\ (1461 * i) \div 4 \in Int
    BY <1>0, MonthsAre, SMT
  <2> QED
    BY <1>0, <1>2, <2>1, SMT DEF Number
<1>r. DayOf(r) = [day |-> d, month |-> m + 2 - 12 * (m \div 11), year |-> i + m \div 11]
  BY DayOfIs
<1> HIDE DEF r, b
<1>4. (4 * (b + r)) \div 146097 = n
  <2>1. 146097 * n <= 4 * (b + r) /\ 4 * (b + r) < 146097 * (n + 1)
    BY <1>0, <1>1, <1>2, SMT
  <2> QED
    BY <1>0, <1>1, <1>2, <2>1, SMT
<1>5. Quot(4 * (b + r), 146097) = n /\ Quot(146097 * n + 3, 4) = b
  BY <1>0, <1>1, <1>2, <1>4, SMT DEF Quot, b
<1>6. b + r - b = r
  BY <1>1, <1>2, SMT
<1>7. ExcelSerialDateToDMY(Number(i, m, d, n)) = [DayOf(r) EXCEPT !.year = 100 * (n - 49) + @]
  BY <1>0, <1>1, <1>2, <1>3, <1>5, <1>6, SMT DEF ExcelSerialDateToDMY
<1> QED
  BY <1>7, <1>r

-----------------------------------------------------------------------------
(* There and back.                                                         *)

(* The days there are.                                                     *)
Day(d, m, y) ==
  y \in Nat \ {0} /\ m \in 1 .. 12 /\ d \in Nat \ {0} /\ d <= LengthOf(m, y)

(* How long the months are.                                                *)
LEMMA Lengths ==
  ASSUME NEW m \in 1 .. 12, NEW y \in Nat
  PROVE  /\ LengthOf(m, y) \in 28 .. 31
         /\ m \in {4, 6, 9, 11} => LengthOf(m, y) = 30
         /\ m = 2 => LengthOf(m, y) = 28 + LeapDay(y)
         /\ m \in {1, 3, 5, 7, 8, 10, 12} => LengthOf(m, y) = 31
  BY SMT DEF LengthOf, LeapDay

(* The day of the number of a day is that day.                             *)
LEMMA RoundTrip ==
  ASSUME NEW d, NEW m, NEW y, Day(d, m, y)
  PROVE  ExcelSerialDateToDMY(DMYToExcelSerialDate(d, m, y))
           = [day |-> d, month |-> m, year |-> y]
<1> DEFINE M == IF m <= 2 THEN m + 10 ELSE m - 2
           Y == IF m <= 2 THEN y - 1 ELSE y
           k == Y \div 100
           i == Y % 100
           n == k + 49
<1>0. /\ y \in Nat /\ y > 0 /\ m \in 1 .. 12 /\ d \in Nat /\ d >= 1 /\ d <= LengthOf(m, y)
      /\ d <= 31
  BY Lengths, SMT DEF Day
<1>1. /\ M \in 1 .. 12 /\ Y \in Nat
      /\ (m <= 2 => M = m + 10 /\ Y = y - 1) /\ (m > 2 => M = m - 2 /\ Y = y)
      /\ m = M + 2 - 12 * (M \div 11) /\ y = Y + M \div 11
  BY <1>0, SMT
<1> HIDE DEF M, Y
<1>2. k \in Nat /\ i \in 0 .. 99 /\ Y = 100 * k + i /\ n \in Nat /\ n = k + 49
  BY <1>1, SMT
<1> HIDE DEF k, i, n
<1>3. Late(i, M, d, n)
  <2>1. M \in {2, 4, 7, 9} => d <= 30
    BY <1>0, <1>1, Lengths, SMT
  <2>2. M = 12 => d <= 28 + LeapDay(y) /\ y = Y + 1
    BY <1>0, <1>1, Lengths, SMT
  <2>3. M = 12 => d <= 29
    BY <1>0, <2>2, LeapIs, SMT
  <2>4. M = 12 /\ d = 29 => Leap(y) /\ y = Y + 1
    BY <1>0, <2>2, LeapIs, SMT
  <2>5. Leap(y) /\ y = Y + 1 => i % 4 = 3
    BY <1>0, <1>2, SMT DEF Leap
  <2>6. Leap(y) /\ y = Y + 1 /\ i = 99 => n % 4 = 0
    <3>1. SUFFICES ASSUME Leap(y), y = Y + 1, i = 99 PROVE n % 4 = 0
      OBVIOUS
    <3>2. y = 100 * (k + 1)
      BY <3>1, <1>2, SMT
    <3>3. y % 100 = 0
      BY <3>2, <1>2, SMT
    <3>4. y % 400 = 0
      BY <3>1, <3>3 DEF Leap
    <3>5. (k + 1) % 4 = 0
      BY <3>2, <3>4, <1>2, SMT
    <3> QED
      BY <3>5, <1>2, SMT
  <2> QED
    BY <1>0, <1>1, <1>2, <2>1, <2>3, <2>4, <2>5, <2>6, SMT DEF Late
<1>4. DMYToExcelSerialDate(d, m, y) = Quarters(Y) + Months(M) - Centuries(Y) + d - 2447094
  <2>1. CASE m <= 2
    <3>1. M = m + 10 /\ Y = y - 1
      BY <1>1, <2>1
    <3>2. DMYToExcelSerialDate(d, m, y)
            = Quarters(y - 1) + Months(m + 10) - Centuries(y - 1) + d - 2447094
      BY <1>0, <2>1, Encoded, SMTT(30)
    <3> QED
      BY <3>1, <3>2, SMT
  <2>2. CASE m > 2
    <3>1. M = m - 2 /\ Y = y
      BY <1>1, <2>2
    <3>2. DMYToExcelSerialDate(d, m, y)
            = Quarters(y) + Months(m - 2) - Centuries(y) + d - 2447094
      BY <1>0, <2>2, Encoded, SMTT(30)
    <3> QED
      BY <3>1, <3>2, SMT
  <2> QED
    BY <1>0, <2>1, <2>2, SMT
<1>5. /\ Quarters(Y) = 36525 * (k + 48) + (1461 * i) \div 4
      /\ Centuries(Y) = (3 * n) \div 4
  <2>1. (1461 * (Y + 4800)) \div 4 = 36525 * (k + 48) + (1461 * i) \div 4
    BY <1>2, SMT
  <2>2. (Y + 4900) \div 100 = n
    BY <1>2, SMT
  <2> QED
    BY <2>1, <2>2 DEF Quarters, Centuries
<1>6. (146097 * n + 3) \div 4 = 36525 * n - (3 * n) \div 4
  BY <1>2, SMT
<1>7. DMYToExcelSerialDate(d, m, y) = Number(i, M, d, n)
  <2>1. Months(M) \in Int /\ (1461 * i) \div 4 \in Int /\ (3 * n) \div 4 \in Int
    BY <1>1, <1>2, MonthsAre, SMT
  <2> QED
    BY <1>0, <1>2, <1>4, <1>5, <1>6, <2>1, SMT DEF Number
<1>8. ExcelSerialDateToDMY(Number(i, M, d, n))
        = [day |-> d, month |-> M + 2 - 12 * (M \div 11), year |-> 100 * (n - 49) + (i + M \div 11)]
  BY <1>3, Decoded
<1>9. 100 * (n - 49) + (i + M \div 11) = y
  BY <1>1, <1>2, SMT
<1> QED
  BY <1>1, <1>7, <1>8, <1>9, Zenon

-----------------------------------------------------------------------------
(* The clock and the plain calendar.                                       *)

(* What makes the properties inductive: the plain calendar stands on a day *)
(* that there is, in the years that have numbers of 16 bits.               *)
CInv ==
  /\ civil \in [day : Nat, month : 1 .. 12, year : Nat]
  /\ Day(civil.day, civil.month, civil.year)
  /\ civil.year >= FirstDay.year /\ civil.year <= 2078
  /\ today = DMYToExcelSerialDate(civil.day, civil.month, civil.year)
  /\ now = civil

(* The numbers of New Year in these years.                                 *)
LEMMA NewYears ==
  ASSUME NEW y \in Nat, y >= 1900, y <= 2079
  PROVE  NewYear(y) >= 2 /\ NewYear(y) <= 65381
<1>1. NewYear(y) = Quarters(y - 1) - Centuries(y - 1) - 2446757
  BY NewYearIs
<1>2. y - 1 + 4800 = y + 4799 /\ y - 1 + 4900 = y + 4899
  BY SMT
<1>3. NewYear(y) = (1461 * (y + 4799)) \div 4 - (3 * ((y + 4899) \div 100)) \div 4 - 2446757
  BY <1>1, <1>2 DEF Quarters, Centuries
<1> QED
  BY <1>3, SMT

(* The number of New Year is a number.                                     *)
LEMMA NewYearInt ==
  ASSUME NEW y \in Nat PROVE NewYear(y) \in Int
  BY NewYearIs, SMT

(* The days before the first month, and before the next year.              *)
LEMMA BeforeIs ==
  ASSUME NEW y \in Nat
  PROVE  Before(1, y) = 0 /\ Before(13, y) = 365 + LeapDay(y)
  BY SMT DEF Before

(* No month begins later than the next year.                               *)
LEMMA BeforeRange ==
  ASSUME NEW y \in Nat, NEW m \in 1 .. 13
  PROVE  Before(m, y) \in Nat /\ Before(m, y) <= Before(13, y)
<1>0. LeapDay(y) \in 0 .. 1
  BY LeapIs
<1> QED
  BY <1>0, SMT DEF Before

(* The days before a month and its own are those before the next.          *)
LEMMA MonthStep ==
  ASSUME NEW y \in Nat, NEW m \in 1 .. 12
  PROVE  Before(m + 1, y) = Before(m, y) + LengthOf(m, y)
<1>0. LeapDay(y) \in 0 .. 1
  BY LeapIs
<1> QED
  BY <1>0, Lengths, SMT DEF Before

(* Months begin one after the other.                                       *)
LEMMA BeforeOrder ==
  ASSUME NEW y \in Nat, NEW a \in 1 .. 13, NEW b \in 1 .. 13, a < b
  PROVE  Before(a, y) < Before(b, y)
<1>0. LeapDay(y) \in 0 .. 1
  BY LeapIs
<1> QED
  BY <1>0, SMT DEF Before

(* The number of a day lies between the beginning of its month and that of *)
(* the next.                                                               *)
LEMMA InYear ==
  ASSUME NEW d, NEW m, NEW y, Day(d, m, y)
  PROVE  /\ Before(m, y) \in Nat
         /\ DMYToExcelSerialDate(d, m, y) = NewYear(y) + Before(m, y) + d - 1
         /\ DMYToExcelSerialDate(d, m, y) >= NewYear(y) + Before(m, y)
         /\ DMYToExcelSerialDate(d, m, y) < NewYear(y) + Before(m + 1, y)
         /\ DMYToExcelSerialDate(d, m, y) < NewYear(y + 1)
         /\ DMYToExcelSerialDate(d, m, y) \in Int
<1>0. /\ y \in Nat /\ m \in 1 .. 12 /\ d \in Nat /\ d >= 1 /\ d <= LengthOf(m, y)
      /\ LengthOf(m, y) \in Nat
  BY Lengths, SMT DEF Day
<1>1. DMYToExcelSerialDate(d, m, y) = NewYear(y) + Before(m, y) + d - 1
  BY <1>0, DayNumbers, SMT
<1>2. NewYear(y) \in Int /\ Before(m, y) \in Nat
      /\ Before(m + 1, y) = Before(m, y) + LengthOf(m, y)
  <2>1. m \in 1 .. 13
    BY <1>0, SMT
  <2> QED
    BY <1>0, <2>1, NewYearInt, BeforeRange, MonthStep, Zenon
<1>3. Before(m + 1, y) <= 365 + LeapDay(y) /\ NewYear(y + 1) = NewYear(y) + 365 + LeapDay(y)
      /\ LeapDay(y) \in Int
  <2>1. m + 1 \in 1 .. 13
    BY <1>0, SMT
  <2>2. Before(m + 1, y) <= Before(13, y)
    BY <1>0, <2>1, BeforeRange, Zenon
  <2> QED
    BY <1>0, <2>2, NewYearStep, BeforeIs, LeapIs, SMT
<1> QED
  BY <1>0, <1>1, <1>2, <1>3, SMT

(* The day after in the plain calendar has the next number.                *)
LEMMA NextDay ==
  ASSUME NEW c \in [day : Nat, month : 1 .. 12, year : Nat], Day(c.day, c.month, c.year)
  PROVE  LET e == DayAfter(c)
         IN  /\ e \in [day : Nat, month : 1 .. 12, year : Nat]
             /\ Day(e.day, e.month, e.year)
             /\ e.year \in c.year .. c.year + 1
             /\ e.year = c.year + 1 => DMYToExcelSerialDate(e.day, e.month, e.year) = NewYear(c.year + 1)
             /\ DMYToExcelSerialDate(e.day, e.month, e.year)
                  = DMYToExcelSerialDate(c.day, c.month, c.year) + 1
<1>0. /\ c.year \in Nat /\ c.year > 0 /\ c.month \in 1 .. 12 /\ c.day \in Nat /\ c.day >= 1
      /\ c.day <= LengthOf(c.month, c.year) /\ LengthOf(c.month, c.year) \in 28 .. 31
  BY Lengths, SMT DEF Day
<1>1. DMYToExcelSerialDate(c.day, c.month, c.year) = NewYear(c.year) + Before(c.month, c.year) + c.day - 1
      /\ NewYear(c.year) \in Int /\ Before(c.month, c.year) \in Nat
  <2>1. c.month \in 1 .. 13
    BY <1>0, SMT
  <2> QED
    BY <1>0, <2>1, InYear, NewYearInt, BeforeRange, Zenon
<1>2. CASE c.day < LengthOf(c.month, c.year)
  <2> DEFINE e == [c EXCEPT !.day = @ + 1]
  <2>1. DayAfter(c) = e /\ e.day = c.day + 1 /\ e.month = c.month /\ e.year = c.year
    BY <1>2, SMT DEF DayAfter
  <2>2. e \in [day : Nat, month : 1 .. 12, year : Nat]
    BY <1>0, SMT
  <2> HIDE DEF e
  <2>3. Day(e.day, e.month, e.year)
    BY <1>0, <1>2, <2>1, SMT DEF Day
  <2>4. DMYToExcelSerialDate(e.day, e.month, e.year) = NewYear(c.year) + Before(c.month, c.year) + c.day + 1 - 1
    BY <1>0, <1>1, <2>1, <2>3, InYear, SMT
  <2>5. e.year \in c.year .. c.year + 1 /\ e.year # c.year + 1
    BY <1>0, <2>1, SMT
  <2> QED
    BY <1>0, <1>1, <2>1, <2>2, <2>3, <2>4, <2>5, SMT
<1>3. CASE c.day >= LengthOf(c.month, c.year) /\ c.month < 12
  <2> DEFINE e == [day |-> 1, month |-> c.month + 1, year |-> c.year]
  <2>1. DayAfter(c) = e /\ e.day = 1 /\ e.month = c.month + 1 /\ e.year = c.year
    BY <1>0, <1>3, SMT DEF DayAfter
  <2>2. e \in [day : Nat, month : 1 .. 12, year : Nat]
    <3>1. c.month + 1 \in 1 .. 12 /\ 1 \in Nat
      BY <1>0, <1>3, SMT
    <3> QED
      BY <1>0, <3>1
  <2> HIDE DEF e
  <2>3. Day(e.day, e.month, e.year)
    <3>1. LengthOf(c.month + 1, c.year) \in 28 .. 31 /\ c.month + 1 \in 1 .. 12
      BY <1>0, <1>3, Lengths, SMT
    <3> QED
      BY <1>0, <1>3, <2>1, <3>1, SMT DEF Day
  <2>4. DMYToExcelSerialDate(e.day, e.month, e.year) = NewYear(c.year) + Before(c.month + 1, c.year) + 1 - 1
    BY <1>0, <1>1, <2>1, <2>3, InYear
  <2>5. c.day = LengthOf(c.month, c.year)
        /\ Before(c.month + 1, c.year) = Before(c.month, c.year) + LengthOf(c.month, c.year)
    BY <1>0, <1>3, MonthStep, SMT
  <2>6. e.year \in c.year .. c.year + 1 /\ e.year # c.year + 1
    BY <1>0, <2>1, SMT
  <2> QED
    BY <1>0, <1>1, <2>1, <2>2, <2>3, <2>4, <2>5, <2>6, SMT
<1>4. CASE c.day >= LengthOf(c.month, c.year) /\ c.month >= 12
  <2> DEFINE e == [day |-> 1, month |-> 1, year |-> c.year + 1]
  <2>1. DayAfter(c) = e /\ e.day = 1 /\ e.month = 1 /\ e.year = c.year + 1
    BY <1>0, <1>4, SMT DEF DayAfter
  <2>2. e \in [day : Nat, month : 1 .. 12, year : Nat]
    BY <1>0, SMT
  <2> HIDE DEF e
  <2>3. Day(e.day, e.month, e.year)
    <3>1. LengthOf(1, c.year + 1) \in 28 .. 31 /\ c.year + 1 \in Nat
      BY <1>0, Lengths, SMT
    <3> QED
      BY <1>0, <2>1, <3>1, SMT DEF Day
  <2>4. DMYToExcelSerialDate(e.day, e.month, e.year) = NewYear(c.year + 1)
    BY <2>1 DEF NewYear
  <2>5. c.day = LengthOf(c.month, c.year) /\ c.month = 12
        /\ Before(13, c.year) = Before(c.month, c.year) + LengthOf(c.month, c.year)
        /\ Before(13, c.year) = 365 + LeapDay(c.year) /\ LeapDay(c.year) \in Int
    <3>1. c.day = LengthOf(c.month, c.year) /\ c.month = 12 /\ 12 + 1 = 13
      BY <1>0, <1>4, SMT
    <3>2. Before(12 + 1, c.year) = Before(12, c.year) + LengthOf(12, c.year)
      BY <1>0, <3>1, MonthStep
    <3> QED
      BY <1>0, <3>1, <3>2, BeforeIs, LeapIs
  <2>6. NewYear(c.year + 1) = NewYear(c.year) + 365 + LeapDay(c.year)
    BY <1>0, NewYearStep
  <2> QED
    BY <1>0, <1>1, <2>1, <2>2, <2>3, <2>4, <2>5, <2>6, SMT
<1> QED
  BY <1>0, <1>2, <1>3, <1>4, SMT

(* The numbers of these years fit a uint16_t.                              *)
LEMMA InSixteenBits ==
  ASSUME NEW d, NEW m, NEW y, Day(d, m, y), y >= 1900, y <= 2078
  PROVE  /\ DMYToExcelSerialDate(d, m, y) >= 2
         /\ DMYToExcelSerialDate(d, m, y) <= 65380
         /\ DMYToExcelSerialDate(d, m, y) \in Int
<1>0. y \in Nat /\ m \in 1 .. 12 /\ y + 1 \in Nat
  BY SMT DEF Day
<1>1. NewYear(y) >= 2 /\ NewYear(y) \in Int
  BY <1>0, NewYears, NewYearInt, SMT
<1>2. NewYear(y + 1) <= 65381 /\ NewYear(y + 1) \in Int
  <2>1. y + 1 >= 1900 /\ y + 1 <= 2079
    BY <1>0, SMT
  <2> HIDE DEF NewYear
  <2> QED
    BY <1>0, <2>1, NewYears, NewYearInt, SMT
<1> QED
  BY <1>1, <1>2, InYear, SMT

(* A number that fits a uint16_t is not changed by it.                     *)
LEMMA WordKeeps ==
  ASSUME NEW n \in Int, 0 <= n, n <= 65535 PROVE Word(n) = n
  BY SMT DEF Word

(* The clock begins on a day of the calendar.                              *)
LEMMA CInvInit == Init => CInv
<1> SUFFICES ASSUME Init PROVE CInv
  OBVIOUS
<1>1. /\ civil = FirstDay /\ civil \in [day : 1 .. 28, month : 1 .. 12, year : Nat]
      /\ civil.year >= 1901 /\ civil.year <= 2078
      /\ now = ExcelSerialDateToDMY(today)
  BY CalendarAssumption, SixteenBits, SMT DEF Init
<1>2. Day(civil.day, civil.month, civil.year)
  BY <1>1, Lengths, SMT DEF Day
<1>a. today = DMYToExcelSerialDate(civil.day, civil.month, civil.year)
  <2> DEFINE n == DMYToExcelSerialDate(civil.day, civil.month, civil.year)
  <2>1. today = Word(n)
    BY <1>1 DEF Init
  <2>2. civil.year >= 1900
    BY <1>1, SMT
  <2>3. n >= 2 /\ n <= 65380 /\ n \in Int
    BY <1>1, <1>2, <2>2, InSixteenBits, SMT
  <2> HIDE DEF n
  <2>4. Word(n) = n
    BY <2>3, WordKeeps, SMT
  <2> QED
    BY <2>1, <2>4 DEF n
<1>3. civil = [day |-> civil.day, month |-> civil.month, year |-> civil.year]
  BY <1>1
<1>4. now = civil
  BY <1>1, <1>2, <1>3, <1>a, RoundTrip
<1>5. civil \in [day : Nat, month : 1 .. 12, year : Nat]
  BY <1>1, SMT
<1> QED
  BY <1>1, <1>2, <1>4, <1>5, <1>a, CalendarAssumption, SMT DEF CInv

(* Every midnight keeps the clock on the days of the calendar.             *)
LEMMA CInvStep == CInv /\ [Next]_vars => CInv'
<1> SUFFICES ASSUME CInv, [Next]_vars PROVE CInv'
  OBVIOUS
<1>1. CASE UNCHANGED vars
  BY <1>1 DEF CInv, vars
<1>2. CASE Midnight
  <2>0. /\ civil \in [day : Nat, month : 1 .. 12, year : Nat]
        /\ Day(civil.day, civil.month, civil.year)
        /\ civil.year >= FirstDay.year /\ civil.year <= 2078 /\ civil.year \in Nat
        /\ today = DMYToExcelSerialDate(civil.day, civil.month, civil.year)
        /\ FirstDay.year \in Nat
    BY CalendarAssumption, SMT DEF CInv
  <2>1. /\ civil' \in [day : Nat, month : 1 .. 12, year : Nat]
        /\ Day(civil'.day, civil'.month, civil'.year)
        /\ civil'.year \in civil.year .. civil.year + 1
        /\ civil'.year = civil.year + 1 => today' = NewYear(civil.year + 1)
        /\ today' = DMYToExcelSerialDate(civil'.day, civil'.month, civil'.year)
    <3>1. civil' = DayAfter(civil) /\ today' = today + 1
      BY <1>2 DEF Midnight
    <3> QED
      BY <2>0, <3>1, NextDay
  <2>2. now' = civil'
    <3>1. now' = ExcelSerialDateToDMY(today')
      BY <1>2 DEF Midnight
    <3>2. civil' = [day |-> civil'.day, month |-> civil'.month, year |-> civil'.year]
      BY <2>1
    <3> QED
      BY <2>1, <3>1, <3>2, RoundTrip
  <2>3. civil'.year <= 2078
    <3>1. SUFFICES ASSUME civil.year = 2078, civil'.year = civil.year + 1 PROVE FALSE
      BY <2>0, <2>1, SMT
    <3>2. NewYear(2078 + 1) = 65381
      <4>1. NewYear(2079) = Quarters(2078) - Centuries(2078) - 2446757
        <5>1. 2079 \in Nat /\ 2079 >= 1 /\ 2079 - 1 = 2078
          BY SMT
        <5> QED
          BY <5>1, NewYearIs, SMT
      <4>2. Quarters(2078) = 2512189 /\ Centuries(2078) = 51
        BY SMT DEF Quarters, Centuries
      <4> QED
        BY <4>1, <4>2, SMT
    <3>3. today' = NewYear(2078 + 1) /\ NewYear(2078 + 1) \in Int
      <4>1. 2078 + 1 \in Nat
        BY SMT
      <4> QED
        BY <2>1, <3>1, <4>1, NewYearInt
    <3>4. today' <= LastSerial
      <4>1. today < LastSerial /\ today' = today + 1 /\ today \in Int
        BY <1>2, <2>0, InYear DEF Midnight
      <4> QED
        BY <4>1, CalendarAssumption, SMT
    <3> QED
      BY <3>2, <3>3, <3>4, SixteenBits, CalendarAssumption, SMT
  <2> QED
    BY <2>0, <2>1, <2>2, <2>3, SMT DEF CInv
<1> QED
  BY <1>1, <1>2 DEF Next

(* From the first day to the last, over leap years and turns of centuries, *)
(* the number of a day is that of the same day in the plain calendar, and  *)
(* what the keywords make of the number is that day again                  *)
(* (DMYToExcelSerialDate(), ExcelSerialDateToDMY()).                       *)
THEOREM TheClockIsTheCalendar == Spec => []CInv
  BY CInvInit, CInvStep, PTL DEF Spec

(* What the invariant says of dates.                                       *)
LEMMA CInvDates == CInv => CivilDates
<1> SUFFICES ASSUME CInv PROVE CivilDates
  OBVIOUS
<1>0. /\ Day(civil.day, civil.month, civil.year)
      /\ civil.year >= 1900 /\ civil.year <= 2078
      /\ today = DMYToExcelSerialDate(civil.day, civil.month, civil.year)
      /\ now = civil
  BY CalendarAssumption, SixteenBits, SMT DEF CInv
<1>1. today >= 2 /\ today <= 65380 /\ today \in Int
  BY <1>0, InSixteenBits, SMT
<1>2. Word(today) = today
  BY <1>1, SMT DEF Word
<1>3. DMYToExcelSerialDate(civil.day, civil.month, civil.year) = today /\ now = civil
  BY <1>0, SMT
<1> QED
  BY <1>2, <1>3, SMT DEF CivilDates

(* The same in the words of the property: today fits a uint16_t, its day   *)
(* is the day of the calendar, and the number of that day is today.        *)
THEOREM CivilDatesAlways == Spec => []CivilDates
  BY TheClockIsTheCalendar, CInvDates, PTL

-----------------------------------------------------------------------------
(* Months and ranges of months.                                            *)

(* The years whose days all have a number of 16 bits.                      *)
Known(y) == y \in Nat /\ y >= 1900 /\ y <= 2078

(* FirstDayOfMonth() is the number of that day.                            *)
LEMMA MonthStarts ==
  ASSUME NEW y, Known(y), NEW m0 \in 0 .. 11
  PROVE  /\ DMYToExcelSerialDate(1, m0 + 1, y) = NewYear(y) + Before(m0 + 1, y)
         /\ FirstDayOfMonth(m0, y) = NewYear(y) + Before(m0 + 1, y)
         /\ NewYear(y) \in Nat /\ NewYear(y) >= 2 /\ Before(m0 + 1, y) \in Nat
<1>0. y \in Nat /\ y > 0 /\ y >= 1900 /\ y <= 2078 /\ m0 + 1 \in 1 .. 12 /\ 1 \in Nat \ {0}
  BY SMT DEF Known
<1>1. Day(1, m0 + 1, y)
  <2>1. LengthOf(m0 + 1, y) >= 1
    BY <1>0, Lengths, SMT
  <2> QED
    BY <1>0, <2>1, SMT DEF Day
<1>2. /\ DMYToExcelSerialDate(1, m0 + 1, y) = NewYear(y) + Before(m0 + 1, y) + 1 - 1
      /\ Before(m0 + 1, y) \in Nat
  BY <1>1, InYear, SMT
<1>3. NewYear(y) \in Int /\ NewYear(y) >= 2
  BY <1>0, NewYears, NewYearInt, SMT
<1>4. DMYToExcelSerialDate(1, m0 + 1, y) = NewYear(y) + Before(m0 + 1, y)
  BY <1>2, <1>3, SMT
<1>5. DMYToExcelSerialDate(1, m0 + 1, y) <= 65380
  BY <1>0, <1>1, InSixteenBits, SMT
<1>6. Word(DMYToExcelSerialDate(1, m0 + 1, y)) = DMYToExcelSerialDate(1, m0 + 1, y)
  BY <1>2, <1>3, <1>4, <1>5, WordKeeps, SMT
<1> QED
  BY <1>2, <1>3, <1>4, <1>6, SMT DEF FirstDayOfMonth

(* LastDayOfMonth() is the day before the next month begins, that of       *)
(* another year in December.                                               *)
LEMMA MonthEnds ==
  ASSUME NEW y, Known(y), NEW m0 \in 0 .. 11
  PROVE  LastDayOfMonth(m0, y) = NewYear(y) + Before(m0 + 2, y) - 1
<1>0. y \in Nat /\ y >= 1900 /\ y <= 2078 /\ y + 1 \in Nat
  BY SMT DEF Known
<1>1. CASE m0 = 11
  <2>1. NewYear(y + 1) \in Int /\ NewYear(y + 1) >= 2 /\ NewYear(y + 1) <= 65381
    <3>1. y + 1 >= 1900 /\ y + 1 <= 2079
      BY <1>0, SMT
    <3> QED
      BY <1>0, <3>1, NewYears, NewYearInt, SMT
  <2>2. FirstDayOfMonth(0, y + 1) = NewYear(y + 1)
    <3>1. FirstDayOfMonth(0, y + 1) = Word(NewYear(y + 1))
      BY SMT DEF FirstDayOfMonth, NewYear
    <3> QED
      BY <2>1, <3>1, WordKeeps, SMT
  <2>3. LastDayOfMonth(m0, y) = NewYear(y + 1) - 1
    <3>1. LastDayOfMonth(m0, y) = Word(NewYear(y + 1) - 1)
      BY <1>1, <2>2, SMT DEF LastDayOfMonth
    <3> QED
      BY <2>1, <3>1, WordKeeps, SMT
  <2>4. NewYear(y + 1) = NewYear(y) + Before(13, y) /\ NewYear(y) \in Int /\ Before(13, y) \in Int
    <3>1. NewYear(y + 1) = NewYear(y) + 365 + LeapDay(y) /\ Before(13, y) = 365 + LeapDay(y)
          /\ NewYear(y) \in Int /\ LeapDay(y) \in 0 .. 1
      BY <1>0, NewYearStep, NewYearInt, BeforeIs, LeapIs
    <3> QED
      BY <3>1, SMT
  <2> QED
    BY <1>1, <2>3, <2>4, SMT
<1>2. CASE m0 # 11
  <2>1. m0 + 1 \in 0 .. 11 /\ m0 + 1 + 1 = m0 + 2 /\ m0 + 2 \in 1 .. 13
    BY <1>2, SMT
  <2>2. /\ DMYToExcelSerialDate(1, m0 + 1 + 1, y) = NewYear(y) + Before(m0 + 1 + 1, y)
        /\ FirstDayOfMonth(m0 + 1, y) = NewYear(y) + Before(m0 + 1 + 1, y)
        /\ NewYear(y) \in Nat /\ NewYear(y) >= 2 /\ Before(m0 + 1 + 1, y) \in Nat
    BY <2>1, MonthStarts
  <2>3. NewYear(y) <= 65381 /\ Before(m0 + 2, y) <= 366
    <3>1. LeapDay(y) \in 0 .. 1
      BY <1>0, LeapIs, SMT
    <3>2. Before(m0 + 2, y) <= 366
      BY <2>1, <3>1, SMT DEF Before
    <3>3. NewYear(y) <= 65381
      BY <1>0, NewYears, SMT
    <3> QED
      BY <3>2, <3>3, SMT
  <2>4. FirstDayOfMonth(m0 + 1, y) = NewYear(y) + Before(m0 + 2, y)
        /\ NewYear(y) \in Nat /\ NewYear(y) >= 2 /\ Before(m0 + 2, y) \in Nat
    BY <2>1, <2>2
  <2>5. FirstDayOfMonth(m0 + 1, y) <= 65380
    <3>1. Day(1, m0 + 2, y)
      <4>1. m0 + 2 \in 1 .. 12 /\ 1 \in Nat \ {0}
        BY <2>1, <1>2, SMT
      <4>2. LengthOf(m0 + 2, y) >= 1
        BY <1>0, <4>1, Lengths, SMT
      <4> QED
        BY <1>0, <4>1, <4>2, SMT DEF Day
    <3>2. DMYToExcelSerialDate(1, m0 + 2, y) <= 65380
      BY <1>0, <3>1, InSixteenBits, SMT
    <3> QED
      BY <2>1, <2>2, <3>2
  <2>6. LastDayOfMonth(m0, y) = Word(FirstDayOfMonth(m0 + 1, y) - 1)
    BY <1>2, SMT DEF LastDayOfMonth
  <2>7. Word(FirstDayOfMonth(m0 + 1, y) - 1) = FirstDayOfMonth(m0 + 1, y) - 1
    BY <2>4, <2>5, WordKeeps, SMT
  <2> QED
    BY <2>4, <2>6, <2>7, SMT
<1> QED
  BY <1>1, <1>2

(* A range of whole months of one year.                                    *)
LEMMA Ranges ==
  ASSUME NEW y, Known(y), NEW p \in 0 .. 11, NEW s \in 1 .. 12, p + s <= 12
  PROVE  /\ MonthSpanRange(p, s, y).from = NewYear(y) + Before(p + 1, y)
         /\ MonthSpanRange(p, s, y).to = NewYear(y) + Before(p + s + 1, y) - 1
<1>1. FirstDayOfMonth(p, y) = NewYear(y) + Before(p + 1, y)
  BY MonthStarts
<1>2. LastDayOfMonth(p + s - 1, y) = NewYear(y) + Before(p + s + 1, y) - 1
  <2>1. p + s - 1 \in 0 .. 11 /\ p + s - 1 + 2 = p + s + 1
    BY SMT
  <2>2. LastDayOfMonth(p + s - 1, y) = NewYear(y) + Before(p + s - 1 + 2, y) - 1
    BY <2>1, MonthEnds
  <2> QED
    BY <2>1, <2>2
<1> QED
  BY <1>1, <1>2 DEF MonthSpanRange

(* Where the period of a month begins.                                     *)
Start(k, m0) == (m0 \div Span[k]) * Span[k]

(* It begins in the same year, not after the month, and ends not before    *)
(* it.                                                                     *)
LEMMA Starts ==
  ASSUME NEW k \in Kinds, NEW m0 \in 0 .. 11
  PROVE  /\ Span[k] \in 1 .. 12 /\ 12 - Span[k] \in 0 .. 11
         /\ Start(k, m0) \in 0 .. 11 /\ Start(k, m0) + Span[k] <= 12
         /\ Start(k, m0) <= m0 /\ m0 < Start(k, m0) + Span[k]
         /\ m0 - (m0 % Span[k]) = Start(k, m0)
         /\ m0 < Span[k] <=> Start(k, m0) = 0
         /\ ~(m0 < Span[k]) => Start(k, m0) - Span[k] \in 0 .. 11
         /\ Start("month", m0) = m0 /\ Start("year", m0) = 0
<1>1. CASE k = "month"
  <2>1. Span[k] = 1 /\ Start(k, m0) = m0 /\ m0 % 1 = 0
    BY <1>1, SMT DEF Span, Start
  <2>2. Start("year", m0) = 0 /\ Start("month", m0) = m0
    BY SMT DEF Span, Start
  <2> QED
    BY <2>1, <2>2, SMT
<1>2. CASE k = "quarter"
  <2>1. Span[k] = 3 /\ Start(k, m0) = (m0 \div 3) * 3
    BY <1>2, SMT DEF Span, Start
  <2>2. Start("year", m0) = 0 /\ Start("month", m0) = m0
    BY SMT DEF Span, Start
  <2> QED
    BY <2>1, <2>2, SMT
<1>3. CASE k = "half"
  <2>1. Span[k] = 6 /\ Start(k, m0) = (m0 \div 6) * 6
    BY <1>3, SMT DEF Span, Start
  <2>2. Start("year", m0) = 0 /\ Start("month", m0) = m0
    BY SMT DEF Span, Start
  <2> QED
    BY <2>1, <2>2, SMT
<1>4. CASE k = "year"
  <2>1. Span[k] = 12 /\ Start(k, m0) = 0 /\ m0 % 12 = m0
    BY <1>4, SMT DEF Span, Start
  <2>2. Start("year", m0) = 0 /\ Start("month", m0) = m0
    BY SMT DEF Span, Start
  <2> QED
    BY <2>1, <2>2, SMT
<1> QED
  BY <1>1, <1>2, <1>3, <1>4 DEF Kinds

-----------------------------------------------------------------------------
(* This period and the last one.                                           *)

(* What the keywords know of today.                                        *)
LEMMA Today ==
  ASSUME CInv
  PROVE  /\ Known(Year) /\ Known(Year - 1) /\ Year = civil.year
         /\ Month0 \in 0 .. 11 /\ Month0 + 1 = civil.month
         /\ now = civil /\ civil \in [day : Nat, month : 1 .. 12, year : Nat]
         /\ Day(civil.day, Month0 + 1, Year)
         /\ today = DMYToExcelSerialDate(civil.day, Month0 + 1, Year)
<1>1. /\ civil \in [day : Nat, month : 1 .. 12, year : Nat]
      /\ now = civil /\ civil.year \in Nat /\ civil.month \in 1 .. 12
      /\ Day(civil.day, civil.month, civil.year)
      /\ today = DMYToExcelSerialDate(civil.day, civil.month, civil.year)
      /\ civil.year >= 1901 /\ civil.year <= 2078
  BY CalendarAssumption, SixteenBits, SMT DEF CInv
<1>2. Year = civil.year /\ Month0 = civil.month - 1
  BY <1>1 DEF Year, Month0
<1>3. Month0 \in 0 .. 11 /\ Month0 + 1 = civil.month
  BY <1>1, <1>2, SMT
<1>4. Known(Year) /\ Known(Year - 1)
  BY <1>1, <1>2, SMT DEF Known
<1> HIDE DEF Year, Month0
<1> QED
  BY <1>1, <1>2, <1>3, <1>4

(* A year begins where the year before ends.                               *)
LEMMA YearBefore ==
  ASSUME NEW y, Known(y), Known(y - 1)
  PROVE  /\ NewYear(y) = NewYear(y - 1) + Before(13, y - 1)
         /\ NewYear(y) \in Int /\ NewYear(y - 1) \in Int /\ Before(13, y - 1) \in Int
<1>1. y - 1 \in Nat /\ y \in Nat /\ y - 1 + 1 = y
  BY SMT DEF Known
<1>2. NewYear(y - 1 + 1) = NewYear(y - 1) + 365 + LeapDay(y - 1)
  BY <1>1, NewYearStep
<1>3. Before(13, y - 1) = 365 + LeapDay(y - 1) /\ LeapDay(y - 1) \in 0 .. 1
  BY <1>1, BeforeIs, LeapIs
<1>4. NewYear(y) \in Int /\ NewYear(y - 1) \in Int
  BY <1>1, NewYearInt
<1> QED
  BY <1>1, <1>2, <1>3, <1>4, SMT

(* The period of a month.                                                  *)
LEMMA ThisOne ==
  ASSUME NEW y, Known(y), NEW k \in Kinds, NEW m0 \in 0 .. 11
  PROVE  LET r == MonthSpanRange(Start(k, m0), Span[k], y)
         IN  /\ r.from = NewYear(y) + Before(Start(k, m0) + 1, y)
             /\ r.to = NewYear(y) + Before(Start(k, m0) + Span[k] + 1, y) - 1
<1>1. Start(k, m0) \in 0 .. 11 /\ Span[k] \in 1 .. 12 /\ Start(k, m0) + Span[k] <= 12
  BY Starts
<1> QED
  BY <1>1, Ranges

(* A day is in the period of its month, and is its last one only at the    *)
(* end of its last month.                                                  *)
LEMMA TodayInThis ==
  ASSUME NEW d, NEW y, Known(y), NEW k \in Kinds, NEW m0 \in 0 .. 11, Day(d, m0 + 1, y)
  PROVE  LET r == MonthSpanRange(Start(k, m0), Span[k], y)
             t == DMYToExcelSerialDate(d, m0 + 1, y)
         IN  /\ r.from \in Int /\ r.to \in Int /\ t \in Int
             /\ r.from <= t /\ t <= r.to
             /\ t = r.to <=> d = LengthOf(m0 + 1, y) /\ m0 + 1 = Start(k, m0) + Span[k]
<1> DEFINE p == Start(k, m0)
           s == Span[k]
           r == MonthSpanRange(p, s, y)
           t == DMYToExcelSerialDate(d, m0 + 1, y)
<1>1. /\ p \in 0 .. 11 /\ s \in 1 .. 12 /\ p + s <= 12 /\ p <= m0 /\ m0 < p + s
  BY Starts
<1>2. r.from = NewYear(y) + Before(p + 1, y) /\ r.to = NewYear(y) + Before(p + s + 1, y) - 1
  BY ThisOne
<1> HIDE DEF p, s, r
<1>3. y \in Nat /\ NewYear(y) \in Int
  BY NewYearInt, SMT DEF Known
<1>4. /\ p + 1 \in 1 .. 13 /\ m0 + 1 \in 1 .. 13 /\ m0 + 1 \in 1 .. 12 /\ m0 + 2 \in 1 .. 13
      /\ p + s + 1 \in 1 .. 13 /\ m0 + 1 + 1 = m0 + 2
      /\ (p + 1 = m0 + 1 \/ p + 1 < m0 + 1) /\ (m0 + 2 = p + s + 1 \/ m0 + 2 < p + s + 1)
  BY <1>1, SMT
<1> DEFINE a == p + 1
           b == m0 + 1
           c == m0 + 2
           e == p + s + 1
<1>5. Before(a, y) \in Nat /\ Before(b, y) \in Nat /\ Before(c, y) \in Nat /\ Before(e, y) \in Nat
  BY <1>3, <1>4, BeforeRange, Zenon
<1>6. /\ a = b \/ Before(a, y) < Before(b, y)
      /\ c = e \/ Before(c, y) < Before(e, y)
  BY <1>3, <1>4, BeforeOrder, Zenon
<1>7. Before(c, y) = Before(b, y) + LengthOf(b, y)
  <2>1. Before(b + 1, y) = Before(b, y) + LengthOf(b, y)
    BY <1>3, <1>4, MonthStep, Zenon
  <2> QED
    BY <1>4, <2>1, Zenon
<1>8. t = NewYear(y) + Before(b, y) + d - 1 /\ d \in Nat /\ d >= 1 /\ d <= LengthOf(b, y)
      /\ LengthOf(b, y) \in Nat
  <2>1. d \in Nat /\ d >= 1 /\ d <= LengthOf(b, y)
    BY SMT DEF Day
  <2>2. LengthOf(b, y) \in Nat
    BY <1>3, <1>4, Lengths, SMT
  <2>3. t = NewYear(y) + Before(b, y) + d - 1
    BY InYear
  <2> QED
    BY <2>1, <2>2, <2>3
<1>9. /\ r.from = NewYear(y) + Before(a, y) /\ r.to = NewYear(y) + Before(e, y) - 1
      /\ c = e <=> m0 + 1 = p + s
  BY <1>1, <1>2, SMT
<1> HIDE DEF a, b, c, e, t
<1>10. /\ r.from \in Int /\ r.to \in Int /\ t \in Int
       /\ r.from <= t /\ t <= r.to
       /\ t = r.to <=> d = LengthOf(b, y) /\ c = e
  BY <1>3, <1>5, <1>6, <1>7, <1>8, <1>9, SMT
<1> QED
  BY <1>9, <1>10 DEF p, s, r, t, b

(* The periods that the keywords name.                                     *)
LEMMA LastOne ==
  ASSUME CInv, NEW k \in Kinds
  PROVE  /\ ThisPeriod(k) = MonthSpanRange(Start(k, Month0), Span[k], Year)
         /\ Month0 < Span[k] => LastPeriod(k) = MonthSpanRange(12 - Span[k], Span[k], Year - 1)
         /\ ~(Month0 < Span[k])
              => LastPeriod(k) = MonthSpanRange(Start(k, Month0) - Span[k], Span[k], Year)
  BY DEF ThisPeriod, LastPeriod, Start

(* The last period ends the day before this one begins, and the keywords   *)
(* for single days agree.                                                  *)
LEMMA TilesMeet ==
  ASSUME CInv, NEW k \in Kinds
  PROVE  /\ LastPeriod(k).to + 1 = ThisPeriod(k).from
         /\ StartOfThis(k) = ThisPeriod(k).from
         /\ EndOfLast(k) = LastPeriod(k).to
<1> DEFINE m0 == Month0
           y == Year
           p == Start(k, m0)
           s == Span[k]
<1>1. Known(y) /\ Known(y - 1) /\ m0 \in 0 .. 11
  BY Today
<1>2. /\ s \in 1 .. 12 /\ 12 - s \in 0 .. 11 /\ p \in 0 .. 11 /\ p + s <= 12
      /\ p <= m0 /\ m0 < p + s /\ m0 - (m0 % s) = p
      /\ m0 < s <=> p = 0
      /\ ~(m0 < s) => p - s \in 0 .. 11
  BY <1>1, Starts
<1>3. /\ ThisPeriod(k) = MonthSpanRange(p, s, y)
      /\ m0 < s => LastPeriod(k) = MonthSpanRange(12 - s, s, y - 1)
      /\ ~(m0 < s) => LastPeriod(k) = MonthSpanRange(p - s, s, y)
  BY LastOne
<1>4. StartOfThis(k) = FirstDayOfMonth(p, y)
  BY <1>2 DEF StartOfThis
<1>5. EndOfLast(k) = IF m0 < s THEN LastDayOfMonth(11, y - 1) ELSE LastDayOfMonth(p - 1, y)
  BY <1>2 DEF EndOfLast
<1> HIDE DEF m0, y, p, s
<1>6. ThisPeriod(k).from = NewYear(y) + Before(p + 1, y) /\ StartOfThis(k) = ThisPeriod(k).from
  <2>1. ThisPeriod(k).from = FirstDayOfMonth(p, y)
    BY <1>3 DEF MonthSpanRange
  <2> QED
    BY <1>1, <1>2, <1>4, <2>1, MonthStarts
<1>7. CASE m0 < s
  <2>1. 12 - s + s - 1 = 11 /\ 11 \in 0 .. 11 /\ 11 + 2 = 13
    BY <1>2, SMT
  <2>2. LastPeriod(k).to = LastDayOfMonth(11, y - 1)
    BY <1>3, <1>7, <2>1 DEF MonthSpanRange
  <2>3. LastDayOfMonth(11, y - 1) = NewYear(y - 1) + Before(13, y - 1) - 1
    BY <1>1, <2>1, MonthEnds
  <2>4. p + 1 = 1 /\ Before(1, y) = 0
    <3>1. y \in Nat
      BY <1>1, SMT DEF Known
    <3> QED
      BY <1>2, <1>7, <3>1, BeforeIs, SMT
  <2>5. NewYear(y) = NewYear(y - 1) + Before(13, y - 1)
        /\ NewYear(y) \in Int /\ NewYear(y - 1) \in Int /\ Before(13, y - 1) \in Int
    BY <1>1, YearBefore
  <2>6. LastPeriod(k).to = NewYear(y) - 1 /\ ThisPeriod(k).from = NewYear(y)
    <3>1. ThisPeriod(k).from = NewYear(y) + 0
      BY <1>6, <2>4
    <3> QED
      BY <2>2, <2>3, <2>5, <3>1, SMT
  <2>7. LastPeriod(k).to + 1 = ThisPeriod(k).from
    BY <2>5, <2>6, SMT
  <2> QED
    BY <1>5, <1>6, <1>7, <2>2, <2>7
<1>8. CASE ~(m0 < s)
  <2>1. p - s \in 0 .. 11 /\ p - s + s - 1 = p - 1 /\ p - 1 \in 0 .. 11 /\ p - 1 + 2 = p + 1
    BY <1>2, <1>8, SMT
  <2>2. LastPeriod(k).to = LastDayOfMonth(p - 1, y)
    BY <1>3, <1>8, <2>1 DEF MonthSpanRange
  <2>3. LastDayOfMonth(p - 1, y) = NewYear(y) + Before(p + 1, y) - 1
    BY <1>1, <2>1, MonthEnds
  <2>4. NewYear(y) \in Int /\ Before(p + 1, y) \in Int
    BY <1>1, <1>2, MonthStarts, SMT
  <2>5. LastPeriod(k).to + 1 = ThisPeriod(k).from
    BY <1>6, <2>2, <2>3, <2>4, SMT
  <2> QED
    BY <1>5, <1>6, <1>8, <2>2, <2>5
<1> QED
  BY <1>7, <1>8

-----------------------------------------------------------------------------
(* Columns, and the windows that roll.                                     *)

(* The column of a day.                                                    *)
LEMMA ColumnOf ==
  ASSUME NEW d, NEW m, NEW y, Day(d, m, y)
  PROVE  /\ Column("month", DMYToExcelSerialDate(d, m, y)) = y * 12 + m - 1
         /\ Column("year", DMYToExcelSerialDate(d, m, y)) = y
<1>1. ExcelSerialDateToDMY(DMYToExcelSerialDate(d, m, y)) = [day |-> d, month |-> m, year |-> y]
  BY RoundTrip
<1>2. y \in Nat /\ m \in 1 .. 12
  BY SMT DEF Day
<1>3. DateId("month", [day |-> d, month |-> m, year |-> y]) = y * 12 + m - 1
  <2>1. DateId("month", [day |-> d, month |-> m, year |-> y]) = y * (12 \div 1) + (m - 1) \div 1
    BY DEF DateId, Span
  <2> QED
    BY <1>2, <2>1, SMT
<1>4. DateId("year", [day |-> d, month |-> m, year |-> y]) = y
  <2>1. DateId("year", [day |-> d, month |-> m, year |-> y]) = y * (12 \div 12) + (m - 1) \div 12
    BY DEF DateId, Span
  <2> QED
    BY <1>2, <2>1, SMT
<1> QED
  BY <1>1, <1>3, <1>4 DEF Column

(* The day before a month is the last one of the month before.             *)
LEMMA DayBefore ==
  ASSUME NEW y, Known(y), NEW m \in 1 .. 12
  PROVE  /\ m > 1 => /\ Day(LengthOf(m - 1, y), m - 1, y)
                     /\ DMYToExcelSerialDate(1, m, y) - 1
                          = DMYToExcelSerialDate(LengthOf(m - 1, y), m - 1, y)
         /\ m = 1 => /\ Day(LengthOf(12, y - 1), 12, y - 1)
                     /\ DMYToExcelSerialDate(1, m, y) - 1
                          = DMYToExcelSerialDate(LengthOf(12, y - 1), 12, y - 1)
<1>0. y \in Nat /\ y > 0 /\ y - 1 \in Nat /\ y - 1 > 0 /\ y - 1 + 1 = y
  BY SMT DEF Known
<1>1. Day(1, m, y)
  <2>1. LengthOf(m, y) >= 1
    BY <1>0, Lengths, SMT
  <2> QED
    BY <1>0, <2>1, SMT DEF Day
<1>2. /\ DMYToExcelSerialDate(1, m, y) = NewYear(y) + Before(m, y) + 1 - 1
      /\ Before(m, y) \in Nat /\ NewYear(y) \in Int
  BY <1>0, <1>1, InYear, NewYearInt
<1>3. CASE m > 1
  <2> DEFINE j == m - 1
             x == LengthOf(j, y)
  <2>1. j \in 1 .. 12 /\ j + 1 = m /\ ~(m = 1)
    BY <1>3, SMT
  <2>2. x \in 28 .. 31
    BY <1>0, <2>1, Lengths
  <2> HIDE DEF x, j
  <2>3. Day(x, j, y)
    BY <1>0, <2>1, <2>2, SMT DEF Day, x
  <2>4. Before(m, y) = Before(j, y) + x
    BY <1>0, <2>1, MonthStep, Zenon DEF x
  <2>5. DMYToExcelSerialDate(x, j, y) = NewYear(y) + Before(j, y) + x - 1 /\ Before(j, y) \in Nat
    BY <2>3, InYear
  <2>6. DMYToExcelSerialDate(1, m, y) - 1 = DMYToExcelSerialDate(x, j, y)
    BY <1>2, <2>2, <2>4, <2>5, SMT
  <2> QED
    BY <2>1, <2>3, <2>6 DEF x, j
<1>4. CASE m = 1
  <2> DEFINE x == LengthOf(12, y - 1)
  <2>1. 12 \in 1 .. 12 /\ 12 + 1 = 13 /\ ~(m > 1)
    BY <1>4, SMT
  <2>2. x \in 28 .. 31
    BY <1>0, <2>1, Lengths
  <2> HIDE DEF x
  <2>3. Day(x, 12, y - 1)
    BY <1>0, <2>1, <2>2, SMT DEF Day, x
  <2>4. Before(13, y - 1) = Before(12, y - 1) + x
    BY <1>0, <2>1, MonthStep, Zenon DEF x
  <2>5. DMYToExcelSerialDate(x, 12, y - 1) = NewYear(y - 1) + Before(12, y - 1) + x - 1
        /\ Before(12, y - 1) \in Nat
    BY <2>3, InYear
  <2>6. NewYear(y) = NewYear(y - 1) + Before(13, y - 1)
    <3>1. NewYear(y - 1 + 1) = NewYear(y - 1) + 365 + LeapDay(y - 1)
      BY <1>0, NewYearStep
    <3>2. Before(13, y - 1) = 365 + LeapDay(y - 1) /\ NewYear(y - 1) \in Int /\ LeapDay(y - 1) \in 0 .. 1
      BY <1>0, BeforeIs, NewYearInt, LeapIs
    <3> QED
      BY <1>0, <3>1, <3>2, SMT
  <2>7. Before(m, y) = 0 /\ NewYear(y - 1) \in Int
    BY <1>0, <1>4, BeforeIs, NewYearInt
  <2>8. DMYToExcelSerialDate(1, m, y) - 1 = DMYToExcelSerialDate(x, 12, y - 1)
    BY <1>2, <2>2, <2>4, <2>5, <2>6, <2>7, SMT
  <2> QED
    BY <2>1, <2>3, <2>8 DEF x
<1> QED
  BY <1>3, <1>4, SMT

(* The columns of the first day of a month and of the day before.          *)
LEMMA MonthColumns ==
  ASSUME NEW y, Known(y), NEW m0 \in 0 .. 11
  PROVE  /\ FirstDayOfMonth(m0, y) = DMYToExcelSerialDate(1, m0 + 1, y)
         /\ Column("month", FirstDayOfMonth(m0, y)) = y * 12 + m0
         /\ Column("month", FirstDayOfMonth(m0, y) - 1) = y * 12 + m0 - 1
         /\ Column("year", FirstDayOfMonth(0, y)) = y
         /\ Column("year", FirstDayOfMonth(0, y) - 1) = y - 1
<1>0. /\ y \in Nat /\ y > 0 /\ y - 1 \in Nat /\ m0 + 1 \in 1 .. 12 /\ 0 + 1 \in 1 .. 12
      /\ 0 \in 0 .. 11 /\ 0 + 1 = 1 /\ 1 \in 1 .. 12
  BY SMT DEF Known
<1>2. \A n \in 0 .. 11 : FirstDayOfMonth(n, y) = DMYToExcelSerialDate(1, n + 1, y)
  BY MonthStarts
<1>3. \A m \in 1 .. 12 : Day(1, m, y)
  <2> SUFFICES ASSUME NEW m \in 1 .. 12 PROVE Day(1, m, y)
    OBVIOUS
  <2>1. LengthOf(m, y) >= 1
    BY <1>0, Lengths, SMT
  <2> QED
    BY <1>0, <2>1, SMT DEF Day
<1>4. FirstDayOfMonth(m0, y) = DMYToExcelSerialDate(1, m0 + 1, y)
      /\ FirstDayOfMonth(0, y) = DMYToExcelSerialDate(1, 1, y)
  BY <1>0, <1>2, Zenon
<1>5. Column("month", FirstDayOfMonth(m0, y)) = y * 12 + m0
  <2>1. Day(1, m0 + 1, y)
    BY <1>0, <1>3, Zenon
  <2>2. Column("month", DMYToExcelSerialDate(1, m0 + 1, y)) = y * 12 + (m0 + 1) - 1
    BY <2>1, ColumnOf, SMT
  <2> QED
    BY <1>0, <1>4, <2>2, SMT
<1>6. Column("year", FirstDayOfMonth(0, y)) = y
  <2>1. Day(1, 1, y)
    BY <1>0, <1>3, Zenon
  <2> QED
    BY <1>4, <2>1, ColumnOf, SMT
<1>7. Column("month", FirstDayOfMonth(m0, y) - 1) = y * 12 + m0 - 1
  <2>1. CASE m0 > 0
    <3> DEFINE x == LengthOf(m0, y)
    <3>1. m0 + 1 > 1 /\ m0 + 1 - 1 = m0
      BY <2>1, SMT
    <3>2. Day(x, m0, y) /\ FirstDayOfMonth(m0, y) - 1 = DMYToExcelSerialDate(x, m0, y)
      BY <1>0, <1>4, <3>1, DayBefore
    <3> HIDE DEF x
    <3>3. Column("month", DMYToExcelSerialDate(x, m0, y)) = y * 12 + m0 - 1
      BY <3>2, ColumnOf, SMT
    <3> QED
      BY <3>2, <3>3, Zenon
  <2>2. CASE m0 = 0
    <3> DEFINE x == LengthOf(12, y - 1)
    <3>2. Day(x, 12, y - 1) /\ FirstDayOfMonth(0, y) - 1 = DMYToExcelSerialDate(x, 12, y - 1)
      BY <1>0, <1>4, DayBefore
    <3> HIDE DEF x
    <3>3. Column("month", DMYToExcelSerialDate(x, 12, y - 1)) = (y - 1) * 12 + 12 - 1
      BY <3>2, ColumnOf, SMT
    <3>4. Column("month", FirstDayOfMonth(m0, y) - 1) = (y - 1) * 12 + 12 - 1
      BY <2>2, <3>2, <3>3, Zenon
    <3> QED
      BY <1>0, <2>2, <3>4, SMT
  <2> QED
    BY <2>1, <2>2, SMT
<1>8. Column("year", FirstDayOfMonth(0, y) - 1) = y - 1
  <2> DEFINE x == LengthOf(12, y - 1)
  <2>1. Day(x, 12, y - 1) /\ FirstDayOfMonth(0, y) - 1 = DMYToExcelSerialDate(x, 12, y - 1)
    BY <1>0, <1>4, DayBefore
  <2> HIDE DEF x
  <2> QED
    BY <2>1, ColumnOf, SMT
<1> QED
  BY <1>4, <1>5, <1>6, <1>7, <1>8

(* What the invariant says of periods.                                     *)
LEMMA CInvTiles == CInv => PeriodsTile
<1> SUFFICES ASSUME CInv PROVE PeriodsTile
  OBVIOUS
<1>0. /\ Known(Year) /\ Known(Year - 1) /\ Year = civil.year
      /\ Month0 \in 0 .. 11 /\ Month0 + 1 = civil.month
      /\ now = civil
      /\ Day(civil.day, Month0 + 1, Year)
      /\ today = DMYToExcelSerialDate(civil.day, Month0 + 1, Year)
  BY Today
<1>1. ASSUME NEW k \in Kinds
      PROVE  /\ today \in ThisPeriod(k).from .. ThisPeriod(k).to
             /\ LastPeriod(k).to + 1 = ThisPeriod(k).from
             /\ StartOfThis(k) = ThisPeriod(k).from
             /\ EndOfLast(k) = LastPeriod(k).to
  <2>1. ThisPeriod(k) = MonthSpanRange(Start(k, Month0), Span[k], Year)
    BY LastOne
  <2>2. /\ ThisPeriod(k).from \in Int /\ ThisPeriod(k).to \in Int /\ today \in Int
        /\ ThisPeriod(k).from <= today /\ today <= ThisPeriod(k).to
    BY <1>0, <2>1, TodayInThis
  <2>3. today \in ThisPeriod(k).from .. ThisPeriod(k).to
    BY <2>2, SMT
  <2> QED
    BY <2>3, TilesMeet
<1>2. Last30Days.to - Last30Days.from = 29
  <2>1. today \in Int /\ today - 29 >= 0 /\ today - 29 <= 65535
    <3> DEFINE y == Year
    <3> HIDE DEF y
    <3>1. y \in Nat /\ y >= 1901 /\ y <= 2078 /\ y - 1 \in Nat /\ y - 1 >= 1900 /\ y - 1 <= 2079
      BY <1>0, SMT DEF Known, y
    <3>2. NewYear(y - 1) >= 2
      BY <3>1, NewYears, SMT
    <3>3. /\ NewYear(y) = NewYear(y - 1) + Before(13, y - 1)
          /\ NewYear(y) \in Int /\ NewYear(y - 1) \in Int /\ Before(13, y - 1) >= 365
          /\ Before(13, y - 1) \in Int
      <4>1. Before(13, y - 1) = 365 + LeapDay(y - 1) /\ LeapDay(y - 1) \in 0 .. 1
        BY <3>1, BeforeIs, LeapIs, SMT
      <4>2. /\ NewYear(y) = NewYear(y - 1) + Before(13, y - 1)
            /\ NewYear(y) \in Int /\ NewYear(y - 1) \in Int
        BY <1>0, YearBefore, SMT DEF y
      <4> QED
        BY <4>1, <4>2, SMT
    <3>4. /\ today >= NewYear(y) + Before(Month0 + 1, y) /\ Before(Month0 + 1, y) \in Nat
          /\ today \in Int /\ today <= 65380
      BY <1>0, <3>1, InYear, InSixteenBits, SMT DEF y
    <3> QED
      BY <3>2, <3>3, <3>4, SMT
  <2>2. Word(today - 29) = today - 29
    BY <2>1, WordKeeps, SMT
  <2>3. Last30Days.to = today /\ Last30Days.from = today - 29
    BY <2>2, SMT DEF Last30Days
  <2> QED
    BY <2>1, <2>3, SMT
<1> DEFINE m0 == Month0
           y == Year
<1> HIDE DEF m0, y
<1>3. y \in Nat /\ y - 1 \in Nat /\ m0 \in 0 .. 11 /\ m0 = Month0 /\ y = Year
  BY <1>0, SMT DEF Known, m0, y
<1>4. Last12Months.to = ThisPeriod("month").to
  <2>1. "month" \in Kinds /\ Span["month"] = 1 /\ m0 + 1 - 1 = m0
    BY <1>3, SMT DEF Kinds, Span
  <2>2. ThisPeriod("month") = MonthSpanRange(Start("month", m0), 1, y)
    BY <1>3, <2>1, LastOne, Zenon
  <2>3. Start("month", m0) = m0
    BY <1>3, <2>1, Starts, Zenon
  <2>4. ThisPeriod("month").to = LastDayOfMonth(m0, y)
    BY <2>1, <2>2, <2>3 DEF MonthSpanRange
  <2>5. Last12Months.to = LastDayOfMonth(m0, y)
    BY <1>3 DEF Last12Months
  <2> QED
    BY <2>4, <2>5
<1>5. DateId("month", now) = y * 12 + m0
  <2>1. now.year = y /\ now.month - 1 = m0
    BY <1>3 DEF Year, Month0
  <2>2. Span["month"] = 1
    BY DEF Span
  <2>3. DateId("month", now) = y * (12 \div 1) + m0 \div 1
    BY <2>1, <2>2 DEF DateId
  <2> QED
    BY <1>3, <2>3, SMT
<1>6. /\ Column("month", Last12Months.from) = DateId("month", now) - 11
      /\ Column("month", Last12Months.from - 1) = DateId("month", now) - 12
  <2>1. CASE m0 < 11
    <3>1. m0 - 11 < 0 /\ m0 - 11 + 12 = m0 + 1 /\ m0 + 1 \in 0 .. 11
      BY <1>3, <2>1, SMT
    <3>2. Last12Months.from = FirstDayOfMonth(m0 + 1, y - 1)
      BY <1>3, <3>1 DEF Last12Months
    <3>3. /\ Column("month", FirstDayOfMonth(m0 + 1, y - 1)) = (y - 1) * 12 + (m0 + 1)
          /\ Column("month", FirstDayOfMonth(m0 + 1, y - 1) - 1) = (y - 1) * 12 + (m0 + 1) - 1
      BY <1>0, <1>3, <3>1, MonthColumns
    <3> QED
      BY <1>3, <1>5, <3>2, <3>3, SMT
  <2>2. CASE m0 = 11
    <3>1. ~(m0 - 11 < 0) /\ m0 - 11 = 0 /\ 0 \in 0 .. 11
      BY <1>3, <2>2, SMT
    <3>2. Last12Months.from = FirstDayOfMonth(0, y)
      BY <1>3, <3>1 DEF Last12Months
    <3>3. /\ Column("month", FirstDayOfMonth(0, y)) = y * 12 + 0
          /\ Column("month", FirstDayOfMonth(0, y) - 1) = y * 12 + 0 - 1
      BY <1>0, <1>3, <3>1, MonthColumns
    <3> QED
      BY <1>3, <1>5, <2>2, <3>2, <3>3, SMT
  <2> QED
    BY <1>3, <2>1, <2>2, SMT
<1>7. ASSUME NEW n \in Years
      PROVE  /\ LastWholeYears(n).to + 1 = ThisPeriod("year").from
             /\ Column("year", LastWholeYears(n).from) = civil.year - n
             /\ Column("year", LastWholeYears(n).from - 1) = civil.year - n - 1
  <2>1. Known(y - n)
    <3>1. n \in Nat \ {0} /\ FirstDay.year - n >= 1900 /\ FirstDay.year \in Nat
      BY CalendarAssumption, SixteenBits, SMT
    <3>2. civil.year >= FirstDay.year
      BY DEF CInv
    <3> QED
      BY <1>0, <1>3, <3>1, <3>2, SMT DEF Known
  <2>2. LastWholeYears(n).from = FirstDayOfMonth(0, y - n) /\ LastWholeYears(n).to = LastDayOfMonth(11, y - 1)
    BY <1>3 DEF LastWholeYears
  <2>3. /\ Column("year", FirstDayOfMonth(0, y - n)) = y - n
        /\ Column("year", FirstDayOfMonth(0, y - n) - 1) = y - n - 1
    BY <2>1, MonthColumns, <1>3
  <2>4. LastDayOfMonth(11, y - 1) + 1 = ThisPeriod("year").from
    <3>1. "year" \in Kinds /\ Span["year"] = 12 /\ m0 < 12
      BY <1>3, SMT DEF Kinds, Span
    <3>2. EndOfLast("year") = LastDayOfMonth(11, y - 1)
      BY <1>3, <3>1 DEF EndOfLast
    <3> QED
      BY <1>1, <3>1, <3>2
  <2> QED
    BY <1>0, <1>3, <2>2, <2>3, <2>4
<1> QED
  BY <1>1, <1>2, <1>4, <1>6, <1>7 DEF PeriodsTile

(* On every day, for every kind of period: today is in "this" period, the  *)
(* "last" one ends the day before it begins, and the windows that roll are *)
(* as long as they say (MonthSpanRange(), FirstDayOfMonth(),               *)
(* LastDayOfMonth() and the keywords of src/RelativePeriod.cpp; the        *)
(* columns of TopicPeriodicSubQuery).                                      *)
THEOREM PeriodsTileAlways == Spec => []PeriodsTile
  BY TheClockIsTheCalendar, CInvTiles, PTL

-----------------------------------------------------------------------------
(* Midnight.                                                               *)

(* The columns of a period begin with it: the month after is in the next   *)
(* one only if the period ends in between.                                 *)
LEMMA ColumnIs ==
  ASSUME NEW k \in Kinds, NEW m0 \in 0 .. 11
  PROVE  /\ 12 \div Span[k] \in Nat
         /\ m0 \div Span[k] \in Nat
         /\ Start(k, 0) = 0 /\ 0 \div Span[k] = 0
         /\ Start(k, 11) = 12 - Span[k] /\ 11 \div Span[k] + 1 = 12 \div Span[k]
         /\ m0 < 11 /\ m0 + 1 = Start(k, m0) + Span[k]
              => /\ Start(k, m0 + 1) = m0 + 1 /\ ~(m0 + 1 < Span[k])
                 /\ (m0 + 1) \div Span[k] = m0 \div Span[k] + 1
         /\ m0 < 11 /\ m0 + 1 # Start(k, m0) + Span[k]
              => /\ Start(k, m0 + 1) = Start(k, m0)
                 /\ m0 + 1 < Span[k] <=> m0 < Span[k]
                 /\ (m0 + 1) \div Span[k] = m0 \div Span[k]
<1>1. CASE k = "month"
  <2>1. Span[k] = 1 /\ \A j \in 0 .. 11 : Start(k, j) = j /\ j \div 1 = j
    BY <1>1, SMT DEF Span, Start
  <2>2. m0 < 11 => m0 + 1 \in 0 .. 11
    BY SMT
  <2> QED
    BY <2>1, <2>2, SMT
<1>2. CASE k = "quarter"
  <2>1. Span[k] = 3 /\ \A j \in 0 .. 11 : Start(k, j) = (j \div 3) * 3
    BY <1>2, SMT DEF Span, Start
  <2>2. m0 < 11 => m0 + 1 \in 0 .. 11
    BY SMT
  <2> QED
    BY <2>1, <2>2, SMT
<1>3. CASE k = "half"
  <2>1. Span[k] = 6 /\ \A j \in 0 .. 11 : Start(k, j) = (j \div 6) * 6
    BY <1>3, SMT DEF Span, Start
  <2>2. m0 < 11 => m0 + 1 \in 0 .. 11
    BY SMT
  <2> QED
    BY <2>1, <2>2, SMT
<1>4. CASE k = "year"
  <2>1. Span[k] = 12 /\ \A j \in 0 .. 11 : Start(k, j) = (j \div 12) * 12
    BY <1>4, SMT DEF Span, Start
  <2>2. m0 < 11 => m0 + 1 \in 0 .. 11
    BY SMT
  <2> QED
    BY <2>1, <2>2, SMT
<1> QED
  BY <1>1, <1>2, <1>3, <1>4 DEF Kinds

(* What PeriodsHandOver says of one midnight and one kind of period.       *)
HandsOver(k) ==
  IF today = ThisPeriod(k).to
    THEN /\ LastPeriod(k)' = ThisPeriod(k)
         /\ DateId(k, now') = DateId(k, now) + 1
    ELSE /\ ThisPeriod(k)' = ThisPeriod(k) /\ LastPeriod(k)' = LastPeriod(k)
         /\ DateId(k, now') = DateId(k, now)

(* A midnight does that within a month, between months, and between years. *)
LEMMA MidnightHandsOver ==
  ASSUME CInv, CInv', Midnight, NEW k \in Kinds
  PROVE  HandsOver(k)
<1> DEFINE m0 == Month0
           y == Year
           d == civil.day
           s == Span[k]
           n0 == Month0'
           z == Year'
<1>0. /\ Known(y) /\ Known(y - 1) /\ y = civil.year
      /\ m0 \in 0 .. 11 /\ m0 + 1 = civil.month
      /\ now = civil /\ civil \in [day : Nat, month : 1 .. 12, year : Nat]
      /\ Day(d, m0 + 1, y)
      /\ today = DMYToExcelSerialDate(d, m0 + 1, y)
  BY Today
<1>1. now' = civil' /\ civil' = DayAfter(civil)
  <2>1. now' = civil'
    BY DEF CInv
  <2>2. civil' = DayAfter(civil)
    BY DEF Midnight
  <2> QED
    BY <2>1, <2>2
<1>2. z = civil'.year /\ n0 = civil'.month - 1
  BY <1>1 DEF Year, Month0
<1>3. /\ ThisPeriod(k) = MonthSpanRange(Start(k, m0), s, y)
      /\ m0 < s => LastPeriod(k) = MonthSpanRange(12 - s, s, y - 1)
      /\ ~(m0 < s) => LastPeriod(k) = MonthSpanRange(Start(k, m0) - s, s, y)
  BY LastOne
<1>4. /\ ThisPeriod(k)' = MonthSpanRange(Start(k, n0), s, z)
      /\ n0 < s => LastPeriod(k)' = MonthSpanRange(12 - s, s, z - 1)
      /\ ~(n0 < s) => LastPeriod(k)' = MonthSpanRange(Start(k, n0) - s, s, z)
  BY DEF ThisPeriod, LastPeriod, Start
<1>5. /\ DateId(k, now) = y * (12 \div s) + m0 \div s
      /\ DateId(k, now') = z * (12 \div s) + n0 \div s
  BY DEF DateId, Year, Month0
<1> DEFINE e == m0 + 1 = Start(k, m0) + s
           l == LengthOf(m0 + 1, y)
<1>6. today = ThisPeriod(k).to <=> d = l /\ e
  BY <1>0, <1>3, TodayInThis
<1>7. /\ y \in Nat /\ d \in Nat /\ d <= l /\ l \in Nat
  BY <1>0, Lengths, SMT DEF Known, Day
<1>8. l = LengthOf(civil.month, civil.year)
  BY <1>0
<1>s. s \in 1 .. 12
  BY <1>0, Starts
<1>c. /\ 12 \div s \in Nat /\ m0 \div s \in Nat
      /\ Start(k, 0) = 0 /\ 0 \div s = 0
      /\ Start(k, 11) = 12 - s /\ 11 \div s + 1 = 12 \div s
      /\ m0 < 11 /\ e => /\ Start(k, m0 + 1) = m0 + 1 /\ ~(m0 + 1 < s)
                         /\ (m0 + 1) \div s = m0 \div s + 1
      /\ m0 < 11 /\ ~e => /\ Start(k, m0 + 1) = Start(k, m0)
                          /\ m0 + 1 < s <=> m0 < s
                          /\ (m0 + 1) \div s = m0 \div s
  BY <1>0, ColumnIs
<1>e. e <=> m0 + 1 = Start(k, m0) + s
  OBVIOUS
<1> HIDE DEF m0, y, d, s, n0, z, e, l
<1>9. CASE d < l
  <2>1. civil' = [civil EXCEPT !.day = @ + 1]
    BY <1>1, <1>8, <1>9 DEF DayAfter, d
  <2>2. civil'.month = civil.month /\ civil'.year = civil.year
    BY <1>0, <2>1
  <2>3. z = y /\ n0 = m0
    BY <1>0, <1>2, <2>2, SMT
  <2>4. today # ThisPeriod(k).to
    BY <1>6, <1>7, <1>9, SMT
  <2>5. ThisPeriod(k)' = ThisPeriod(k) /\ DateId(k, now') = DateId(k, now)
    BY <1>3, <1>4, <1>5, <2>3
  <2>6. LastPeriod(k)' = LastPeriod(k)
    BY <1>3, <1>4, <2>3
  <2> QED
    BY <2>4, <2>5, <2>6 DEF HandsOver
<1>10. CASE d >= l /\ m0 < 11
  <2>0. civil.month < 12 /\ ~(d < l) /\ d = l
    BY <1>0, <1>7, <1>10, SMT
  <2>1. civil' = [day |-> 1, month |-> civil.month + 1, year |-> civil.year]
    BY <1>1, <1>8, <2>0 DEF DayAfter, d
  <2>2. civil'.month = civil.month + 1 /\ civil'.year = civil.year
    BY <2>1
  <2>3. z = y /\ n0 = m0 + 1
    BY <1>0, <1>2, <2>2, SMT
  <2>4. CASE e
    <3>1. Start(k, n0) - s = Start(k, m0)
      <4>1. Start(k, m0) \in 0 .. 11
        BY <1>0, Starts
      <4> QED
        BY <1>c, <1>e, <1>s, <1>10, <2>3, <2>4, <4>1, SMT
    <3>2. LastPeriod(k)' = ThisPeriod(k)
      BY <1>3, <1>4, <1>c, <1>10, <2>3, <2>4, <3>1
    <3>3. DateId(k, now') = DateId(k, now) + 1
      <4> DEFINE x == y * (12 \div s)
                 u == m0 \div s
      <4>1. x \in Nat /\ u \in Nat
        BY <1>7, <1>c, SMT
      <4>2. DateId(k, now) = x + u /\ DateId(k, now') = x + (u + 1)
        BY <1>5, <1>c, <1>10, <2>3, <2>4
      <4> HIDE DEF x, u
      <4> QED
        BY <4>1, <4>2, SMT
    <3> QED
      BY <1>6, <2>0, <2>4, <3>2, <3>3 DEF HandsOver
  <2>5. CASE ~e
    <3>1. ThisPeriod(k)' = ThisPeriod(k) /\ DateId(k, now') = DateId(k, now)
      BY <1>3, <1>4, <1>5, <1>c, <1>10, <2>3, <2>5
    <3>2. LastPeriod(k)' = LastPeriod(k)
      BY <1>3, <1>4, <1>c, <1>10, <2>3, <2>5
    <3> QED
      BY <1>6, <2>5, <3>1, <3>2 DEF HandsOver
  <2> QED
    BY <2>4, <2>5
<1>11. CASE d >= l /\ ~(m0 < 11)
  <2>0. ~(civil.month < 12) /\ ~(d < l) /\ d = l /\ m0 = 11
    BY <1>0, <1>7, <1>11, SMT
  <2>1. civil' = [day |-> 1, month |-> 1, year |-> civil.year + 1]
    BY <1>1, <1>8, <2>0 DEF DayAfter, d
  <2>2. civil'.month = 1 /\ civil'.year = civil.year + 1
    BY <2>1
  <2>3. z = y + 1 /\ n0 = 0 /\ z - 1 = y /\ n0 < s
    BY <1>0, <1>2, <1>7, <1>s, <2>2, SMT
  <2>4. e
    BY <1>c, <1>e, <1>s, <2>0, SMT
  <2>5. LastPeriod(k)' = ThisPeriod(k)
    BY <1>3, <1>4, <1>c, <2>0, <2>3
  <2>6. DateId(k, now') = DateId(k, now) + 1
    <3> DEFINE x == 12 \div s
               u == 11 \div s
    <3>1. DateId(k, now) = y * x + u /\ DateId(k, now') = (y + 1) * x + 0
      BY <1>5, <1>c, <2>0, <2>3
    <3>2. x \in Nat /\ u \in Nat /\ u + 1 = x
      BY <1>c, <2>0
    <3> HIDE DEF x, u
    <3>3. (y + 1) * x = y * x + x /\ y * x \in Nat
      BY <1>7, <3>2, SMT
    <3> QED
      BY <3>1, <3>2, <3>3, SMT
  <2> QED
    BY <1>6, <2>0, <2>4, <2>5, <2>6 DEF HandsOver
<1> QED
  BY <1>7, <1>9, <1>10, <1>11, SMT

(* Every midnight either leaves "this" and "last" period and the column    *)
(* alone or, after the last day of a period, makes "last" of what was      *)
(* "this" and begins the next column (src/RelativePeriod.cpp,              *)
(* TopicPeriodicSubQuery).                                                 *)
THEOREM PeriodsHandOverAlways == Spec => PeriodsHandOver
<1>1. CInv /\ CInv' /\ [Next]_vars => [\A k \in Kinds : HandsOver(k)]_vars
  <2> SUFFICES ASSUME CInv, CInv', Midnight, NEW k \in Kinds PROVE HandsOver(k)
    BY DEF Next
  <2> QED
    BY MidnightHandsOver
<1>2. Spec => [][\A k \in Kinds : HandsOver(k)]_vars
  BY <1>1, TheClockIsTheCalendar, PTL DEF Spec
<1> QED
  BY <1>2 DEF PeriodsHandOver, HandsOver
=============================================================================
