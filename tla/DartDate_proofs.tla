--------------------------- MODULE DartDate_proofs ---------------------------
(***************************************************************************)
(* The calendar functions are inverse: a date that exists is the date of   *)
(* its day number, in every year.  The day number of a date is the first   *)
(* day of its year, counted from March, plus that of its month.            *)
(***************************************************************************)
EXTENDS DartDate, TLAPS

\* The days before the March year Y, and before its month k.
YearStart(Y) == 365 * Y + (Y \div 4) - (Y \div 100) + (Y \div 400)

MonthStart(k) == (153 * k + 2) \div 5

\* The leap day is the last day of the March year before.
Leap(y) == y % 4 = 0 /\ (y % 100 # 0 \/ y % 400 = 0)

LastYearDay(Y) == IF Leap(Y + 1) THEN 365 ELSE 364

\* The March year and the month of it, from 0, that hold month m of year y, and the
\* days of the month.
MarchYear(y, m) == IF m < 3 THEN y - 1 ELSE y

MarchIndex(m) == IF m < 3 THEN m + 9 ELSE m - 3

MonthDays(Y, k) ==
  IF k = 11 THEN LastYearDay(Y) + 1 - MonthStart(11) ELSE MonthStart(k + 1) - MonthStart(k)

\* Y is the March year b in a group of 4, of 25 groups in a century c, of 4 centuries
\* in an era E: the first day of it, and whether it ends with a leap day.
IsYear(Y, E, c, a, b) ==
  /\ Y = 400 * E + 100 * c + 4 * a + b
  /\ YearStart(Y) = 146097 * E + 36524 * c + 1461 * a + 365 * b
  /\ Leap(Y + 1) <=> b = 3 /\ (a # 24 \/ c = 3)

LEMMA YearParts ==
  ASSUME NEW Y \in Int
  PROVE  \E E \in Int, c \in 0..3, a \in 0..24, b \in 0..3 : IsYear(Y, E, c, a, b)
<1> DEFINE E == Y \div 400
           y == Y % 400
           c == y \div 100
           z == y % 100
           a == z \div 4
           b == z % 4
<1>1. E \in Int /\ y \in 0..399 /\ Y = 400 * E + y
  OBVIOUS
<1> HIDE DEF E, y
<1>2. c \in 0..3 /\ z \in 0..99 /\ y = 100 * c + z
  BY <1>1
<1> HIDE DEF c, z
<1>3. a \in 0..24 /\ b \in 0..3 /\ z = 4 * a + b
  BY <1>2
<1> HIDE DEF a, b
<1>4. Y = 400 * E + 100 * c + 4 * a + b
  BY <1>1, <1>2, <1>3
<1>5. Y \div 4 = 100 * E + 25 * c + a /\ Y \div 100 = 4 * E + c /\ Y \div 400 = E
  BY <1>1, <1>2, <1>3, <1>4
<1>6. YearStart(Y) = 146097 * E + 36524 * c + 1461 * a + 365 * b
  BY <1>1, <1>2, <1>3, <1>4, <1>5 DEF YearStart
<1>7. /\ (Y + 1) % 4 = 0 <=> b = 3
      /\ (Y + 1) % 100 = 0 <=> a = 24 /\ b = 3
      /\ (Y + 1) % 400 = 0 <=> a = 24 /\ b = 3 /\ c = 3
  BY <1>1, <1>2, <1>3, <1>4
<1>8. Leap(Y + 1) <=> b = 3 /\ (a # 24 \/ c = 3)
  BY <1>7 DEF Leap
<1>9. IsYear(Y, E, c, a, b)
  BY <1>4, <1>6, <1>8, SMT DEF IsYear
<1>10. E \in Int /\ c \in 0..3 /\ a \in 0..24 /\ b \in 0..3
  BY <1>1, <1>2, <1>3
<1> QED
  BY <1>9, <1>10

\* A day of a March year belongs to it, and is the day of it that it is.
LEMMA DayOfYear ==
  ASSUME NEW Y \in Int, NEW r \in 0..LastYearDay(Y)
  PROVE  /\ EraYear(YearStart(Y) + r) + 400 * ((YearStart(Y) + r) \div 146097) = Y
         /\ YearDay(YearStart(Y) + r) = r
<1>1. PICK E \in Int, c \in 0..3, a \in 0..24, b \in 0..3 :
        IsYear(Y, E, c, a, b)
  BY YearParts, Zenon
<1>2. /\ r \in 0..365
      /\ r = 365 => b = 3 /\ (a # 24 \/ c = 3)
  BY <1>1, SMT DEF IsYear, LastYearDay
\* The day and the year of the era; the leap days before it that EraYear counts.
<1> DEFINE e == 36524 * c + 1461 * a + 365 * b + r
           y == 100 * c + 4 * a + b
           q == IF b = 3 /\ 24 * c + a + r >= 365 THEN 1 ELSE 0
           p == 25 * c + a + q
           n == YearStart(Y) + r
<1>3. e \in Int /\ 0 <= e /\ e <= 146096 /\ n = 146097 * E + e
  BY <1>1, <1>2, SMT DEF IsYear
<1>4. e = 146096 <=> c = 3 /\ a = 24 /\ b = 3 /\ r = 365
  BY <1>2, SMT
<1>5. e # 146096 => 0 <= e - 36524 * c /\ e - 36524 * c < 36524
  BY <1>2, SMT
<1>6. q \in Int /\ p \in Int /\ 0 <= e - 1460 * p /\ e - 1460 * p < 1460
  BY <1>2, SMT
<1>7. 0 <= r - q /\ r - q < 365 /\ y \in Int
  BY <1>2, SMT
<1>8. e - p + c = 365 * y + (r - q)
  BY <1>2, SMT
<1>9. e - (365 * y + (25 * c + a) - c) = r
  BY <1>2, SMT
<1>10. y \div 4 = 25 * c + a /\ y \div 100 = c /\ Y = y + 400 * E
  BY <1>1, SMT DEF IsYear
<1> HIDE DEF e, y, q, p, n
<1>11. (e \div 36524) - (e \div 146096) = c
  <2>1. CASE e = 146096
    BY <1>4, <2>1, SMT
  <2>2. CASE e # 146096
    <3>1. e \div 36524 = c
      BY <1>3, <1>5, <2>2, SMT
    <3>2. e \div 146096 = 0
      BY <1>3, <2>2, SMT
    <3> QED
      BY <3>1, <3>2, SMT
  <2> QED
    BY <2>1, <2>2, SMT
<1>12. e \div 1460 = p
  BY <1>3, <1>6, SMT
<1>13. (365 * y + (r - q)) \div 365 = y
  BY <1>2, <1>6, <1>7, SMT
<1>14. e - (e \div 1460) + (e \div 36524) - (e \div 146096) = 365 * y + (r - q)
  BY <1>2, <1>3, <1>6, <1>7, <1>8, <1>11, <1>12, SMT
<1>15. EraDay(n) = e /\ n \div 146097 = E
  BY <1>3, SMT DEF EraDay
<1>16. EraYear(n) = y
  BY <1>13, <1>14, <1>15, SMT DEF EraYear
<1>17. YearDay(n) = r
  BY <1>9, <1>10, <1>15, <1>16, SMT DEF YearDay
<1> QED
  BY <1>7, <1>10, <1>15, <1>16, <1>17, SMT DEF n

-----------------------------------------------------------------------------
(* Months. *)

\* Months end where the next begins, and February with its year.
LEMMA MonthBounds ==
  ASSUME NEW Y \in Int, NEW k \in 0..11
  PROVE  /\ MonthStart(k) \in 0..337 /\ MonthDays(Y, k) \in 28..31
         /\ MonthStart(k) + MonthDays(Y, k) <= LastYearDay(Y) + 1
         /\ MonthStart(k) + MonthDays(Y, k) <= MonthStart(k + 1)
<1>1. k # 11 => /\ MonthStart(k) \in 0..306 /\ MonthStart(k + 1) <= 337
                /\ MonthStart(k + 1) - MonthStart(k) \in 30..31
  BY SMT DEF MonthStart
<1>2. MonthStart(11) = 337 /\ MonthStart(12) = 367
  BY SMT DEF MonthStart
<1>3. LastYearDay(Y) \in 364..365
  BY DEF LastYearDay
<1>4. CASE k # 11
  <2>1. MonthDays(Y, k) = MonthStart(k + 1) - MonthStart(k)
    BY <1>4 DEF MonthDays
  <2>2. MonthStart(k) \in Int /\ MonthStart(k + 1) \in Int
    BY SMT DEF MonthStart
  <2> QED
    BY <1>1, <1>3, <1>4, <2>1, <2>2, SMT
<1>5. CASE k = 11
  <2>1. MonthDays(Y, k) = LastYearDay(Y) - 336
    BY <1>2, <1>3, <1>5, SMT DEF MonthDays
  <2> QED
    BY <1>2, <1>3, <1>5, <2>1, SMT
<1> QED
  BY <1>4, <1>5

\* The month of a day of the year.
LEMMA MonthOfYearDay ==
  ASSUME NEW k \in 0..11, NEW r \in Int, MonthStart(k) <= r, r < MonthStart(k + 1)
  PROVE  (5 * r + 2) \div 153 = k
<1>1. /\ 153 * k + 2 <= 5 * MonthStart(k) + 4
      /\ 5 * MonthStart(k + 1) <= 153 * k + 155
  BY SMT DEF MonthStart
<1>2. MonthStart(k) \in Int /\ MonthStart(k + 1) \in Int
  BY SMT DEF MonthStart
<1>3. 0 <= (5 * r + 2) - 153 * k /\ (5 * r + 2) - 153 * k < 153
  BY <1>1, <1>2, SMT
<1> QED
  BY <1>3, SMT

\* A March year begins the day after the last one ends.
LEMMA NextYear ==
  ASSUME NEW Y \in Int
  PROVE  YearStart(Y + 1) = YearStart(Y) + LastYearDay(Y) + 1
<1>1. /\ (Y + 1) \div 4 = (Y \div 4) + (IF (Y + 1) % 4 = 0 THEN 1 ELSE 0)
      /\ (Y + 1) \div 100 = (Y \div 100) + (IF (Y + 1) % 100 = 0 THEN 1 ELSE 0)
      /\ (Y + 1) \div 400 = (Y \div 400) + (IF (Y + 1) % 400 = 0 THEN 1 ELSE 0)
  BY SMT
<1>2. /\ (Y + 1) % 100 = 0 => (Y + 1) % 4 = 0
      /\ (Y + 1) % 400 = 0 => (Y + 1) % 100 = 0
  BY SMT
<1> QED
  BY <1>1, <1>2, SMT DEF YearStart, LastYearDay, Leap

\* The date of the d-th day of month k of the March year Y.
LEMMA MarchDate ==
  ASSUME NEW Y \in Int, NEW k \in 0..11, NEW d \in 1..MonthDays(Y, k)
  PROVE  LET n == YearStart(Y) + (MonthStart(k) + d - 1)
         IN  /\ YearOf(n) = (IF k >= 10 THEN Y + 1 ELSE Y)
             /\ MonthOf(n) = ((k + 2) % 12) + 1
             /\ DayOf(n) = d
<1> DEFINE r == MonthStart(k) + d - 1
           n == YearStart(Y) + r
<1>1. /\ MonthStart(k) \in 0..337 /\ MonthDays(Y, k) \in 28..31
      /\ MonthStart(k) + MonthDays(Y, k) <= LastYearDay(Y) + 1
      /\ MonthStart(k) + MonthDays(Y, k) <= MonthStart(k + 1)
  BY MonthBounds
<1>2. LastYearDay(Y) \in 364..365 /\ MonthStart(k + 1) \in Int
  BY SMT DEF LastYearDay, MonthStart
<1>3. r \in 0..LastYearDay(Y) /\ MonthStart(k) <= r /\ r < MonthStart(k + 1)
  BY <1>1, <1>2, SMT
<1> HIDE DEF r
<1>4. YearDay(n) = r
  BY <1>3, DayOfYear, SMT
<1>10. EraYear(n) + 400 * (n \div 146097) = Y
  BY <1>3, DayOfYear, SMT
<1>5. MarchMonth(n) = k
  <2>1. r \in Int
    BY <1>2, <1>3
  <2> QED
    BY <1>3, <1>4, <2>1, MonthOfYearDay DEF MarchMonth
<1> HIDE DEF n
<1>6. DayOf(n) = r - MonthStart(k) + 1
  BY <1>4, <1>5 DEF DayOf, MonthStart
<1>7. DayOf(n) = d
  BY <1>1, <1>6, SMT DEF r
<1>8. YearOf(n) = IF k >= 10 THEN Y + 1 ELSE Y
  <2>1. YearOf(n) = EraYear(n) + 400 * (n \div 146097) + (IF k >= 10 THEN 1 ELSE 0)
    BY <1>5, SMT DEF YearOf
  <2> QED
    BY <1>10, <2>1, SMT
<1>9. MonthOf(n) = ((k + 2) % 12) + 1
  BY <1>5 DEF MonthOf
<1> QED
  BY <1>7, <1>8, <1>9 DEF n, r

\* The number of a day counts from its March year and its month there.
LEMMA DayNumberSplit ==
  ASSUME NEW y \in Int, NEW m \in 1..12, NEW d \in Int
  PROVE  /\ DayNumber(y, m, d)
              = YearStart(MarchYear(y, m)) + (MonthStart(MarchIndex(m)) + d - 1)
         /\ MarchYear(y, m) \in Int /\ MarchIndex(m) \in 0..11
         /\ MarchIndex(m) >= 10 <=> m < 3
         /\ ((MarchIndex(m) + 2) % 12) + 1 = m
<1>1. MarchYear(y, m) = y + ((m - 1) \div 12) - (IF (m - 1) % 12 < 2 THEN 1 ELSE 0)
  BY SMT DEF MarchYear
<1>2. MarchIndex(m) = (m + 9) % 12
  BY SMT DEF MarchIndex
<1>3. MarchYear(y, m) \in Int /\ MarchIndex(m) \in 0..11
  BY SMT DEF MarchYear, MarchIndex
<1>4. YearStart(MarchYear(y, m)) \in Int /\ MonthStart(MarchIndex(m)) \in Int
  BY <1>3, SMT DEF YearStart, MonthStart
<1>5. DayNumber(y, m, d)
        = YearStart(MarchYear(y, m)) + MonthStart(MarchIndex(m)) + d - 1
  BY <1>1, <1>2 DEF DayNumber, YearStart, MonthStart
<1>6. (MarchIndex(m) >= 10 <=> m < 3) /\ ((MarchIndex(m) + 2) % 12) + 1 = m
  BY SMT DEF MarchIndex
<1> QED
  BY <1>3, <1>4, <1>5, <1>6, SMT

\* Day 0 of the next month is the last of this one.
LEMMA DayBeforeNextMonth ==
  ASSUME NEW y \in Int, NEW m \in 1..12
  PROVE  LET Y == MarchYear(y, m)
             k == MarchIndex(m)
         IN  DayNumber(y, m + 1, 0) = YearStart(Y) + (MonthStart(k) + MonthDays(Y, k) - 1)
<1> DEFINE Y == MarchYear(y, m)
           k == MarchIndex(m)
           l == MonthDays(Y, k)
<1>1. Y \in Int /\ k \in 0..11
  BY DayNumberSplit
<1>2. \A X \in Int, j \in 0..12 : YearStart(X) \in Int /\ MonthStart(j) \in Int
  BY SMT DEF YearStart, MonthStart
<1>3. \A x \in 1..12 :
        DayNumber(y, x, 0)
          = YearStart(MarchYear(y, x)) + (MonthStart(MarchIndex(x)) + 0 - 1)
  <2>1. 0 \in Int
    OBVIOUS
  <2> QED
    BY <2>1, DayNumberSplit, Zenon
<1>4. CASE m \in 1..11 /\ m # 2
  <2>1. m + 1 \in 1..12 /\ MarchYear(y, m + 1) = Y /\ MarchIndex(m + 1) = k + 1 /\ k # 11
    BY <1>4, SMT DEF MarchYear, MarchIndex
  <2>2. DayNumber(y, m + 1, 0) = YearStart(Y) + (MonthStart(k + 1) + 0 - 1)
    BY <1>3, <2>1, Zenon
  <2>3. l = MonthStart(k + 1) - MonthStart(k)
    BY <2>1 DEF MonthDays
  <2>4. /\ k + 1 \in 0..12 /\ MonthStart(k) \in Int /\ MonthStart(k + 1) \in Int
        /\ YearStart(Y) \in Int
    BY <1>1, <1>2, SMT
  <2> HIDE DEF l, k, Y
  <2>5. DayNumber(y, m + 1, 0) = YearStart(Y) + (MonthStart(k) + l - 1)
    BY <2>2, <2>3, <2>4, SMT
  <2> QED
    BY <2>5 DEF l, k, Y
<1>5. CASE m = 2
  <2>1. m + 1 \in 1..12 /\ MarchYear(y, m + 1) = Y + 1 /\ MarchIndex(m + 1) = 0 /\ k = 11
    BY <1>5, SMT DEF MarchYear, MarchIndex
  <2>2. DayNumber(y, m + 1, 0) = YearStart(Y + 1) + (MonthStart(0) + 0 - 1)
    BY <1>3, <2>1, Zenon
  <2>3. YearStart(Y + 1) = YearStart(Y) + LastYearDay(Y) + 1
    BY <1>1, NextYear
  <2>4. l = LastYearDay(Y) + 1 - MonthStart(11)
    BY <2>1 DEF MonthDays
  <2>5. MonthStart(0) = 0 /\ MonthStart(11) = 337 /\ LastYearDay(Y) \in 364..365
    BY SMT DEF MonthStart, LastYearDay
  <2>6. YearStart(Y) \in Int
    BY <1>1, <1>2
  <2> HIDE DEF l, k, Y
  <2>7. DayNumber(y, m + 1, 0) = YearStart(Y) + (MonthStart(k) + l - 1)
    BY <2>1, <2>2, <2>3, <2>4, <2>5, <2>6, SMT
  <2> QED
    BY <2>7 DEF l, k, Y
<1>6. CASE m = 12
  <2>1. Y = y /\ k = 9
    BY <1>6, SMT DEF MarchYear, MarchIndex
  <2>2. /\ y + ((m + 1 - 1) \div 12) - (IF (m + 1 - 1) % 12 < 2 THEN 1 ELSE 0) = y
        /\ (m + 1 + 9) % 12 = 10
    BY <1>6, SMT
  <2>3. DayNumber(y, m + 1, 0) = YearStart(y) + MonthStart(10) + 0 - 1
    BY <2>2 DEF DayNumber, YearStart, MonthStart
  <2>4. l = MonthStart(10) - MonthStart(9)
    BY <2>1, SMT DEF MonthDays
  <2>5. YearStart(y) \in Int /\ MonthStart(10) \in Int /\ MonthStart(9) \in Int
    BY <1>2, SMT
  <2> HIDE DEF l, k, Y
  <2>6. DayNumber(y, m + 1, 0) = YearStart(Y) + (MonthStart(k) + l - 1)
    BY <2>1, <2>3, <2>4, <2>5, SMT
  <2> QED
    BY <2>6 DEF l, k, Y
<1> QED
  BY <1>4, <1>5, <1>6

\* ... and its day is the length of the month.
LEMMA LengthOfMonth ==
  ASSUME NEW y \in Int, NEW m \in 1..12
  PROVE  DaysInMonth(y, m) = MonthDays(MarchYear(y, m), MarchIndex(m))
<1> DEFINE Y == MarchYear(y, m)
           k == MarchIndex(m)
           l == MonthDays(Y, k)
<1>1. Y \in Int /\ k \in 0..11
  BY DayNumberSplit
<1>2. l \in 28..31 /\ l \in 1..l
  BY <1>1, MonthBounds, SMT
<1>3. DayNumber(y, m + 1, 0) = YearStart(Y) + (MonthStart(k) + l - 1)
  BY DayBeforeNextMonth
<1> HIDE DEF l
<1>4. DayOf(YearStart(Y) + (MonthStart(k) + l - 1)) = l
  BY <1>1, <1>2, MarchDate DEF l
<1> QED
  BY <1>3, <1>4 DEF DaysInMonth, l

\* The days of a month follow one another, and the next month follows them.
LEMMA DaysOfMonth ==
  ASSUME NEW y \in Int, NEW m \in 1..12
  PROVE  /\ DayNumber(y, m, 1) \in Int
         /\ \A d \in Int : DayNumber(y, m, d) = DayNumber(y, m, 1) + d - 1
         /\ DayNumber(y, m + 1, 0) = DayNumber(y, m, 1) + DaysInMonth(y, m) - 1
         /\ DayNumber(y, m + 1, 1) = DayNumber(y, m, 1) + DaysInMonth(y, m)
<1> DEFINE Y == MarchYear(y, m)
           k == MarchIndex(m)
           f == YearStart(Y) + MonthStart(k)
           l == MonthDays(Y, k)
<1>1. Y \in Int /\ k \in 0..11
  BY DayNumberSplit
<1>2. YearStart(Y) \in Int /\ MonthStart(k) \in Int /\ l \in Int
  <2>1. l \in 28..31
    BY <1>1, MonthBounds
  <2> QED
    BY <1>1, <2>1, SMT DEF YearStart, MonthStart
<1>3. \A d \in Int : DayNumber(y, m, d) = YearStart(Y) + (MonthStart(k) + d - 1)
  BY DayNumberSplit, Zenon
<1>4. DayNumber(y, m + 1, 0) = YearStart(Y) + (MonthStart(k) + l - 1)
  BY DayBeforeNextMonth
<1>5. DaysInMonth(y, m) = l
  BY LengthOfMonth
<1>6. DayNumber(y, m + 1, 1) = DayNumber(y, m + 1, 0) + 1
  BY SMT DEF DayNumber
<1> HIDE DEF Y, k, l
<1>7. f \in Int /\ \A d \in Int : DayNumber(y, m, d) = f + d - 1
  BY <1>2, <1>3, SMT
<1>8. DayNumber(y, m + 1, 0) = f + l - 1
  BY <1>2, <1>4, SMT
<1> HIDE DEF f
<1>9. DayNumber(y, m, 1) = f
  BY <1>7, SMT
<1> QED
  BY <1>2, <1>5, <1>6, <1>7, <1>8, <1>9, SMT

\* January follows December.
LEMMA NewYear ==
  ASSUME NEW y \in Int
  PROVE  DayNumber(y + 1, 1, 1) = DayNumber(y, 13, 1)
  BY SMT DEF DayNumber

\* A date that exists is the date of its day number.
THEOREM DateRoundTrip ==
  ASSUME NEW y \in Int, NEW m \in 1..12, NEW d \in 1..DaysInMonth(y, m)
  PROVE  /\ YearOf(DayNumber(y, m, d)) = y
         /\ MonthOf(DayNumber(y, m, d)) = m
         /\ DayOf(DayNumber(y, m, d)) = d
<1> DEFINE Y == MarchYear(y, m)
           k == MarchIndex(m)
           n == YearStart(Y) + (MonthStart(k) + d - 1)
<1>1. /\ Y \in Int /\ k \in 0..11 /\ d \in 1..MonthDays(Y, k)
      /\ k >= 10 <=> m < 3
      /\ ((k + 2) % 12) + 1 = m
  BY DayNumberSplit, LengthOfMonth
<1>2. /\ YearOf(n) = (IF k >= 10 THEN Y + 1 ELSE Y)
      /\ MonthOf(n) = ((k + 2) % 12) + 1
      /\ DayOf(n) = d
  BY <1>1, MarchDate
<1>3. (IF k >= 10 THEN Y + 1 ELSE Y) = y
  BY <1>1, SMT DEF MarchYear
<1>4. DayNumber(y, m, d) = n
  <2>1. d \in Int
    BY <1>1, MonthBounds, SMT
  <2> QED
    BY <2>1, DayNumberSplit
<1> QED
  BY <1>1, <1>2, <1>3, <1>4

\* A month has 28 to 31 days; no month is longer in another year than in a leap year.
LEMMA MonthLengths ==
  ASSUME NEW y \in Int, NEW z \in Int, NEW m \in 1..12
  PROVE  /\ DaysInMonth(y, m) \in 28..31
         /\ ~Leap(z) => DaysInMonth(z, m) <= DaysInMonth(y, m)
<1>1. /\ MarchYear(y, m) \in Int /\ MarchYear(z, m) \in Int /\ MarchIndex(m) \in 0..11
  BY DayNumberSplit
<1>2. DaysInMonth(y, m) \in 28..31
  BY <1>1, LengthOfMonth, MonthBounds
<1>3. ASSUME ~Leap(z)
      PROVE  MonthDays(MarchYear(z, m), MarchIndex(m)) <= MonthDays(MarchYear(y, m), MarchIndex(m))
  <2>1. CASE MarchIndex(m) = 11
    <3>1. MarchYear(z, m) + 1 = z
      BY <2>1, SMT DEF MarchYear, MarchIndex
    <3>2. LastYearDay(MarchYear(z, m)) = 364 /\ LastYearDay(MarchYear(y, m)) \in 364..365
      BY <1>3, <3>1 DEF LastYearDay
    <3> QED
      BY <2>1, <3>2, SMT DEF MonthDays, MonthStart
  <2>2. CASE MarchIndex(m) # 11
    BY <1>1, <2>2, SMT DEF MonthDays, MonthStart
  <2> QED
    BY <2>1, <2>2
<1> QED
  BY <1>2, <1>3, LengthOfMonth

\* The parts of a date are integers.
LEMMA DatePartsAreInt ==
  ASSUME NEW n \in Int
  PROVE  YearOf(n) \in Int /\ MonthOf(n) \in Int /\ DayOf(n) \in Int
<1>1. EraDay(n) \in Int
  BY DEF EraDay
<1>2. EraYear(n) \in Int
  BY <1>1 DEF EraYear
<1>3. YearDay(n) \in Int
  BY <1>1, <1>2 DEF YearDay
<1>4. MarchMonth(n) \in Int
  BY <1>3 DEF MarchMonth
<1> QED
  BY <1>2, <1>3, <1>4 DEF YearOf, MonthOf, DayOf

\* Every day has a month and a day of the month.
LEMMA DateRanges ==
  ASSUME NEW n \in Int
  PROVE  MonthOf(n) \in 1..12 /\ DayOf(n) \in 1..31
<1>1. EraDay(n) \in Int
  BY DEF EraDay
<1>2. EraYear(n) \in Int
  BY <1>1 DEF EraYear
<1>3. YearDay(n) \in Int
  BY <1>1, <1>2 DEF YearDay
<1>4. MonthOf(n) \in 1..12
  <2>1. MarchMonth(n) \in Int
    BY <1>3 DEF MarchMonth
  <2> QED
    BY <2>1, SMT DEF MonthOf
<1>5. DayOf(n) \in 1..31
  <2> DEFINE r == YearDay(n)
  <2>1. r - ((153 * ((5 * r + 2) \div 153) + 2) \div 5) + 1 \in 1..31
    BY <1>3, SMT
  <2> QED
    BY <2>1 DEF DayOf, MarchMonth
<1> QED
  BY <1>4, <1>5
=============================================================================
