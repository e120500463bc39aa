--------------------------- MODULE MonthGrid_proofs ---------------------------
(***************************************************************************)
(* Theorems about the month pages, for every page, every zone whose summer *)
(* times are longer than the weeks of a page, and events of any length:    *)
(* what a page shows, where a tap on a day leads, and the days an event is *)
(* listed on.                                                              *)
(***************************************************************************)
EXTENDS MonthGrid, DartDate_proofs, FiniteSetTheorems

-----------------------------------------------------------------------------
(* Clocks. *)

LEMMA ShiftValues ==
  ASSUME NEW z \in Zone, NEW t \in Int
  PROVE  z.offset \in Int /\ Shift(z, t) \in {z.offset, z.offset + 60}
<1>1. z.offset \in -720..840
  BY OffsetAssumption
<1>2. z.offset \in Int
  <2> DEFINE o == z.offset
  <2>1. o \in -720..840
    BY <1>1
  <2> HIDE DEF o
  <2>2. o \in Int
    BY <2>1, SMT
  <2> QED
    BY <2>2 DEF o
<1> QED
  BY <1>2 DEF Shift

\* The midnight of a day is on that day.
LEMMA MidnightValue ==
  ASSUME NEW z \in Zone, NEW n \in Int
  PROVE  /\ Midnight(z, n) \in {1440 * n - z.offset, 1440 * n - z.offset - 60}
         /\ Midnight(z, n) \in Int
         /\ DateOf(z, Midnight(z, n)) = n
<1> DEFINE o == z.offset
           w == 1440 * n - o
<1>1. o \in Int /\ w \in Int /\ w - 60 \in Int
  BY ShiftValues, 0 \in Int, SMT
<1>2. Midnight(z, n) = IF Shift(z, w - 60) = o THEN w ELSE w - 60
  <2>1. Moment(n, 0, 0) - o = w
    BY <1>1, SMT DEF Moment
  <2> QED
    BY <2>1 DEF Midnight
<1>3. /\ Shift(z, w) \in {o, o + 60} /\ Shift(z, w - 60) \in {o, o + 60}
  BY <1>1, ShiftValues
<1>4. DayAt(Midnight(z, n) + Shift(z, Midnight(z, n))) = n
  <2>1. CASE Shift(z, w - 60) = o
    <3>1. Midnight(z, n) = w
      BY <1>2, <2>1
    <3>2. \A s \in {o, o + 60} : DayAt(w + s) = n
      BY <1>1, SMT DEF DayAt
    <3> HIDE DEF w
    <3> QED
      BY <1>3, <3>1, <3>2
  <2>2. CASE Shift(z, w - 60) # o
    <3>1. Midnight(z, n) = w - 60 /\ Shift(z, w - 60) = o + 60
      BY <1>2, <1>3, <2>2
    <3>2. DayAt((w - 60) + (o + 60)) = n
      BY <1>1, SMT DEF DayAt
    <3> HIDE DEF w
    <3> QED
      BY <3>1, <3>2
  <2> QED
    BY <2>1, <2>2
<1>5. Midnight(z, n) \in {w, w - 60}
  BY <1>2
<1> QED
  BY <1>1, <1>4, <1>5 DEF DateOf

\* A span no longer than a summer time, or the winter between two, has one shift if
\* its ends have.
LEMMA SpanOfOneShift ==
  ASSUME NEW z \in Zone, NEW a \in Int, NEW b \in Int, b - a <= SevenWeeks,
         Shift(z, a) = Shift(z, b),
         NEW t \in Int, a <= t, t <= b
  PROVE  Shift(z, t) = Shift(z, a)
<1>1. /\ z.offset \in Int /\ SevenWeeks \in Int
      /\ \A s \in z.summer : s.from \in Int /\ s.to \in Int /\ s.from + SevenWeeks < s.to
      /\ \A r, s \in z.summer : \/ r = s
                                \/ r.to + SevenWeeks < s.from
                                \/ s.to + SevenWeeks < r.from
  <2>1. z.offset \in Int /\ SevenWeeks \in Int
    BY ShiftValues, 0 \in Int, SMT DEF SevenWeeks
  <2> QED
    BY <2>1, ChangesAssumption, SummerAssumption, WinterAssumption
<1> DEFINE Covers(s, x) == s.from <= x /\ x < s.to
           In(x) == \E s \in z.summer : Covers(s, x)
<1>2. \A x \in Int : Shift(z, x) = IF In(x) THEN z.offset + 60 ELSE z.offset
  BY DEF Shift
<1>3. In(a) <=> In(b)
  <2> HIDE DEF In
  <2> QED
    BY <1>1, <1>2
<1>4. CASE In(a)
  <2>1. PICK s \in z.summer : Covers(s, a)
    BY <1>4
  <2>2. PICK r \in z.summer : Covers(r, b)
    BY <1>3, <1>4
  <2>3. r = s
    BY <1>1, <2>1, <2>2
  <2>4. In(t)
    BY <1>1, <2>1, <2>2, <2>3
  <2> HIDE DEF In
  <2> QED
    BY <1>2, <1>4, <2>4
<1>5. CASE ~In(a)
  <2>1. ASSUME NEW s \in z.summer, Covers(s, t)
        PROVE  FALSE
    <3>1. ~Covers(s, a) /\ ~Covers(s, b)
      BY <1>3, <1>5
    <3>2. s.from \in Int /\ s.to \in Int /\ s.from + SevenWeeks < s.to
      BY <1>1
    <3> QED
      BY <1>1, <2>1, <3>1, <3>2
  <2>2. ~In(t)
    BY <2>1
  <2> HIDE DEF In
  <2> QED
    BY <1>2, <1>5, <2>2
<1> QED
  BY <1>4, <1>5

-----------------------------------------------------------------------------
(* Pages and their months. *)

LEMMA WeekdayFacts ==
  ASSUME NEW n \in Int
  PROVE  /\ Weekday(n) \in 1..7
         /\ Weekday(n - (Weekday(n) - 1)) = 1
         /\ Weekday(n + (7 - Weekday(n))) = 7
  BY SMT DEF Weekday

LEMMA PageFacts ==
  ASSUME NEW p \in Pages
  PROVE  /\ YearAt(p) \in 2015..2024 /\ MonthAt(p) \in 1..12
         /\ p = (YearAt(p) - 2015) * 12 + (MonthAt(p) - 1)
  BY SMT DEF Pages, YearAt, MonthAt, FirstYear

\* A date of a listed year is on the page of its index.
LEMMA PageOfDate ==
  ASSUME NEW y \in 2015..2024, NEW m \in 1..12
  PROVE  LET p == (y - 2015) * 12 + (m - 1)
         IN  p \in Pages /\ YearAt(p) = y /\ MonthAt(p) = m
  BY SMT DEF Pages, YearAt, MonthAt, FirstYear

\* The months by rote have the days of DateTime.
LEMMA RoteIsRight ==
  ASSUME NEW y \in Int, NEW m \in 1..12
  PROVE  MonthLength(y, m) = DaysInMonth(y, m)
<1>1. DaysInMonth(y, m) = MonthDays(MarchYear(y, m), MarchIndex(m))
  BY LengthOfMonth
<1>2. CASE m # 2
  <2>1. MonthDays(MarchYear(y, m), MarchIndex(m)) = IF m \in {4, 6, 9, 11} THEN 30 ELSE 31
    BY <1>2, SMT DEF MonthDays, MarchIndex, MonthStart
  <2> QED
    BY <1>1, <1>2, <2>1 DEF MonthLength
<1>3. CASE m = 2
  <2>1. MarchIndex(m) = 11 /\ MarchYear(y, m) + 1 = y /\ MonthStart(11) = 337
    BY <1>3, SMT DEF MarchIndex, MarchYear, MonthStart
  <2>2. MonthDays(MarchYear(y, m), MarchIndex(m)) = IF Leap(y) THEN 29 ELSE 28
    BY <2>1, SMT DEF MonthDays, LastYearDay
  <2> QED
    BY <1>1, <1>3, <2>2 DEF MonthLength, Leap
<1> QED
  BY <1>2, <1>3

\* The days from the first of a month have its year and month.
LEMMA DatesOfMonth ==
  ASSUME NEW y \in Int, NEW m \in 1..12, NEW n \in Int,
         DayNumber(y, m, 1) <= n, n < DayNumber(y, m, 1) + DaysInMonth(y, m)
  PROVE  YearOf(n) = y /\ MonthOf(n) = m
<1> DEFINE f == DayNumber(y, m, 1)
           d == n - f + 1
<1>1. /\ f \in Int /\ DaysInMonth(y, m) \in 28..31
      /\ \A k \in Int : DayNumber(y, m, k) = f + k - 1
  BY DaysOfMonth, MonthLengths
<1> HIDE DEF f
<1>2. d \in Int /\ 1 <= d /\ d <= DaysInMonth(y, m) /\ f + d - 1 = n
  BY <1>1 DEF f
<1> HIDE DEF d
<1>3. d \in 1..DaysInMonth(y, m) /\ DayNumber(y, m, d) = n
  BY <1>1, <1>2
<1> QED
  BY <1>3, DateRoundTrip

\* The days of the page's month, and those of the months next to it.
LEMMA DatesAround ==
  ASSUME NEW p \in Pages, NEW n \in Int
  PROVE  LET f == FirstOf(p)
             l == LastOf(p)
         IN  /\ f \in Int /\ l = f + MonthLength(YearAt(p), MonthAt(p)) - 1
             /\ MonthLength(YearAt(p), MonthAt(p)) \in 28..31
             /\ f <= n /\ n <= l => YearOf(n) = YearAt(p) /\ MonthOf(n) = MonthAt(p)
             /\ f - 6 <= n /\ n < f => GetPageIndex(n) = p - 1
             /\ l < n /\ n <= l + 6 => GetPageIndex(n) = p + 1
<1> DEFINE y == YearAt(p)
           m == MonthAt(p)
           f == FirstOf(p)
           l == LastOf(p)
           d == DaysInMonth(y, m)
<1>1. y \in 2015..2024 /\ y \in Int /\ m \in 1..12 /\ p = (y - 2015) * 12 + (m - 1)
  BY PageFacts
<1>2. d \in 28..31 /\ MonthLength(y, m) = d
  BY <1>1, MonthLengths, RoteIsRight
<1>3. /\ f = DayNumber(y, m, 1) /\ f \in Int
      /\ l = f + d - 1
      /\ DayNumber(y, m + 1, 1) = f + d
  <2>1. f = DayNumber(y, m, 1) /\ l = DayNumber(y, m + 1, 0)
    BY DEF FirstOf, LastOf
  <2> HIDE DEF y, m, f, l, d
  <2>2. /\ DayNumber(y, m, 1) \in Int
        /\ DayNumber(y, m + 1, 0) = DayNumber(y, m, 1) + d - 1
        /\ DayNumber(y, m + 1, 1) = DayNumber(y, m, 1) + d
    <3>1. y \in Int /\ m \in 1..12
      BY <1>1
    <3>2. DayNumber(y, m, 1) \in Int
      BY <3>1, DaysOfMonth
    <3>3. DayNumber(y, m + 1, 0) = DayNumber(y, m, 1) + DaysInMonth(y, m) - 1
      BY <3>1, DaysOfMonth
    <3>4. DayNumber(y, m + 1, 1) = DayNumber(y, m, 1) + DaysInMonth(y, m)
      BY <3>1, DaysOfMonth
    <3> QED
      BY <3>2, <3>3, <3>4 DEF d
  <2> QED
    BY <2>1, <2>2
<1> HIDE DEF y, m, f, l, d
<1>4. ASSUME f <= n, n <= l
      PROVE  YearOf(n) = y /\ MonthOf(n) = m
  <2>1. n < f + d
    BY <1>2, <1>3, <1>4
  <2> QED
    BY <1>1, <1>3, <1>4, <2>1, DatesOfMonth DEF d
<1>5. ASSUME f - 6 <= n, n < f
      PROVE  GetPageIndex(n) = p - 1
  <2>1. CASE m # 1
    <3> DEFINE k == m - 1
    <3>1. k \in 1..12 /\ k + 1 = m
      BY <1>1, <2>1
    <3> HIDE DEF k
    <3>2. /\ DayNumber(y, k, 1) \in Int /\ DaysInMonth(y, k) \in 28..31
          /\ f = DayNumber(y, k, 1) + DaysInMonth(y, k)
      <4>1. /\ DayNumber(y, k, 1) \in Int
            /\ DayNumber(y, k + 1, 1) = DayNumber(y, k, 1) + DaysInMonth(y, k)
        <5>1. y \in Int /\ k \in 1..12
          BY <1>1, <3>1
        <5>2. DayNumber(y, k, 1) \in Int
          BY <5>1, DaysOfMonth
        <5>3. DayNumber(y, k + 1, 1) = DayNumber(y, k, 1) + DaysInMonth(y, k)
          BY <5>1, DaysOfMonth
        <5> QED
          BY <5>2, <5>3
      <4> QED
        BY <1>1, <1>3, <3>1, <4>1, MonthLengths
    <3>3. DayNumber(y, k, 1) <= n /\ n < DayNumber(y, k, 1) + DaysInMonth(y, k)
      BY <1>3, <1>5, <3>2
    <3>4. YearOf(n) = y /\ MonthOf(n) = k
      BY <1>1, <3>1, <3>3, DatesOfMonth
    <3> QED
      BY <1>1, <3>1, <3>4 DEF GetPageIndex, YearIndex, FirstYear
  <2>2. CASE m = 1
    <3> DEFINE x == y - 1
    <3>1. x \in Int /\ x + 1 = y /\ 12 \in 1..12 /\ 12 + 1 = 13
      BY <1>1
    <3> HIDE DEF x
    <3>2. DayNumber(x, 13, 1) = DayNumber(x, 12, 1) + DaysInMonth(x, 12)
      BY <3>1, DaysOfMonth
    <3>3. /\ DayNumber(x, 12, 1) \in Int /\ DaysInMonth(x, 12) \in 28..31
          /\ f = DayNumber(x, 12, 1) + DaysInMonth(x, 12)
      BY <1>3, <2>2, <3>1, <3>2, DaysOfMonth, MonthLengths, NewYear
    <3>4. DayNumber(x, 12, 1) <= n /\ n < DayNumber(x, 12, 1) + DaysInMonth(x, 12)
      BY <1>3, <1>5, <3>3
    <3>5. YearOf(n) = x /\ MonthOf(n) = 12
      BY <3>1, <3>4, DatesOfMonth
    <3> QED
      BY <1>1, <2>2, <3>1, <3>5 DEF GetPageIndex, YearIndex, FirstYear
  <2> QED
    BY <2>1, <2>2
<1>6. ASSUME l < n, n <= l + 6
      PROVE  GetPageIndex(n) = p + 1
  <2>1. f + d <= n /\ n < f + d + 28
    BY <1>2, <1>3, <1>6
  <2>2. CASE m # 12
    <3> DEFINE k == m + 1
    <3>1. k \in 1..12 /\ k = m + 1
      BY <1>1, <2>2
    <3> HIDE DEF k
    <3>2. DayNumber(y, k, 1) = f + d /\ DaysInMonth(y, k) \in 28..31
      BY <1>1, <1>3, <3>1, MonthLengths
    <3>3. DayNumber(y, k, 1) <= n /\ n < DayNumber(y, k, 1) + DaysInMonth(y, k)
      BY <1>2, <1>3, <2>1, <3>2
    <3>4. YearOf(n) = y /\ MonthOf(n) = k
      BY <1>1, <3>1, <3>3, DatesOfMonth
    <3> QED
      BY <1>1, <3>1, <3>4 DEF GetPageIndex, YearIndex, FirstYear
  <2>3. CASE m = 12
    <3> DEFINE x == y + 1
    <3>1. x \in Int /\ x = y + 1 /\ 1 \in 1..12 /\ m + 1 = 13
      BY <1>1, <2>3
    <3> HIDE DEF x
    <3>2. DayNumber(x, 1, 1) = f + d /\ DaysInMonth(x, 1) \in 28..31
      BY <1>1, <1>3, <3>1, MonthLengths, NewYear
    <3>3. DayNumber(x, 1, 1) <= n /\ n < DayNumber(x, 1, 1) + DaysInMonth(x, 1)
      BY <1>2, <1>3, <2>1, <3>2
    <3>4. YearOf(n) = x /\ MonthOf(n) = 1
      BY <3>1, <3>3, DatesOfMonth
    <3> QED
      BY <1>1, <2>3, <3>1, <3>4 DEF GetPageIndex, YearIndex, FirstYear
  <2> QED
    BY <2>2, <2>3
<1> QED
  BY <1>2, <1>3, <1>4, <1>5, <1>6 DEF y, m, f, l

\* A day that has the index of a page has its year and month.
LEMMA PageOfDay ==
  ASSUME NEW n \in Int, GetPageIndex(n) \in Pages
  PROVE  YearAt(GetPageIndex(n)) = YearOf(n) /\ MonthAt(GetPageIndex(n)) = MonthOf(n)
<1> DEFINE y == YearOf(n)
           m == MonthOf(n)
           p == GetPageIndex(n)
<1>1. y \in Int /\ m \in 1..12
  BY DatePartsAreInt, DateRanges
<1>2. p = YearIndex(y) * 12 + (m - 1)
  BY DEF GetPageIndex
<1> HIDE DEF y, m, p
<1>3. y \in 2015..2024
  <2>1. p \in 0..119
    BY DEF Pages, p
  <2>2. YearIndex(y) \in 0..9
    BY <1>1, <1>2, <2>1 DEF YearIndex, FirstYear
  <2> QED
    BY <1>1, <2>2 DEF YearIndex, FirstYear
<1>4. p = (y - 2015) * 12 + (m - 1)
  BY <1>1, <1>2, <1>3 DEF YearIndex, FirstYear
<1>5. YearAt(p) = y /\ MonthAt(p) = m
  BY <1>1, <1>3, <1>4, PageOfDate
<1> QED
  BY <1>5 DEF y, m, p

-----------------------------------------------------------------------------
(* A page whose weeks see no change of the clocks. *)

\* Its first and last day.
FirstShown(p) == FirstOf(p) - (Weekday(FirstOf(p)) - 1)

LastShown(p) == LastOf(p) + (7 - Weekday(LastOf(p)))

LEMMA ShownFacts ==
  ASSUME NEW p \in Pages
  PROVE  /\ FirstOf(p) \in Int /\ LastOf(p) \in Int
         /\ FirstShown(p) \in Int /\ LastShown(p) \in Int
         /\ Weekday(FirstShown(p)) = 1 /\ Weekday(LastShown(p)) = 7
         /\ FirstShown(p) <= FirstOf(p) /\ FirstOf(p) - 6 <= FirstShown(p)
         /\ LastOf(p) <= LastShown(p) /\ LastShown(p) <= LastOf(p) + 6
         /\ FirstOf(p) + 27 <= LastOf(p) /\ LastOf(p) <= FirstOf(p) + 30
<1> DEFINE f == FirstOf(p)
           l == LastOf(p)
           d == MonthLength(YearAt(p), MonthAt(p))
<1>1. f \in Int /\ l = f + d - 1 /\ d \in 28..31
  BY 0 \in Int, DatesAround
<1> HIDE DEF f, l, d
<1>2. l \in Int /\ f + 27 <= l /\ l <= f + 30
  BY <1>1
<1>3. Weekday(f) \in 1..7 /\ Weekday(l) \in 1..7
  BY <1>1, <1>2, WeekdayFacts
<1>4. Weekday(f - (Weekday(f) - 1)) = 1 /\ Weekday(l + (7 - Weekday(l))) = 7
  BY <1>1, <1>2, WeekdayFacts
<1>5. /\ f - (Weekday(f) - 1) \in Int /\ f - (Weekday(f) - 1) <= f
      /\ f - 6 <= f - (Weekday(f) - 1)
      /\ l + (7 - Weekday(l)) \in Int /\ l <= l + (7 - Weekday(l))
      /\ l + (7 - Weekday(l)) <= l + 6
  BY <1>1, <1>2, <1>3
<1> QED
  BY <1>1, <1>2, <1>4, <1>5 DEF FirstShown, LastShown, f, l

\* Its cells are the midnights of its days.
LEMMA CellsOfPage ==
  ASSUME NEW z \in Zone, NEW p \in Pages,
         Shift(z, CalStart(z, p) - 60) = Shift(z, CalEnd(z, p))
  PROVE  /\ CellCount(z, p) = LastShown(p) - FirstShown(p) + 1
         /\ \A i \in 0..(LastShown(p) - FirstShown(p)) :
              /\ Cell(z, p, i) = Midnight(z, FirstShown(p) + i)
              /\ DateOf(z, Cell(z, p, i)) = FirstShown(p) + i
         /\ \A n \in FirstShown(p)..LastShown(p) :
              /\ n < FirstOf(p) <=> Midnight(z, n) < Midnight(z, FirstOf(p))
              /\ n > LastOf(p) <=> Midnight(z, n) > Midnight(z, LastOf(p))
<1> DEFINE o == z.offset
           f == FirstOf(p)
           l == LastOf(p)
           a == FirstShown(p)
           b == LastShown(p)
           from == CalStart(z, p)
           to == CalEnd(z, p)
           s == Shift(z, to)
           Mid(n) == Midnight(z, n)
<1>1. /\ f \in Int /\ l \in Int /\ a \in Int /\ b \in Int
      /\ a <= f /\ f - 6 <= a /\ l <= b /\ b <= l + 6 /\ f + 27 <= l /\ l <= f + 30
  BY ShownFacts
<1>2. o \in Int
  BY 0 \in Int, ShiftValues
<1>3. \A n \in Int : Mid(n) \in {1440 * n - o, 1440 * n - o - 60} /\ Mid(n) \in Int
  BY MidnightValue
<1>4. from = Mid(f) - 1440 * (f - a) /\ to = Mid(l) + 1440 * (b - l)
  <2>1. Weekday(f) \in Int /\ Weekday(l) \in Int
    BY <1>1, WeekdayFacts
  <2>2. f - a = Weekday(f) - 1 /\ b - l = 7 - Weekday(l)
    BY <1>1, <2>1 DEF FirstShown, LastShown
  <2> QED
    BY <2>2 DEF CalStart, CalEnd
<1>5. Shift(z, from - 60) = s
  OBVIOUS
<1> HIDE DEF o, f, l, a, b, from, to, s, Mid
<1>6. /\ from \in {1440 * a - o, 1440 * a - o - 60} /\ from \in Int
      /\ to \in {1440 * b - o, 1440 * b - o - 60} /\ to \in Int
  <2>1. Mid(f) \in {1440 * f - o, 1440 * f - o - 60}
        /\ Mid(l) \in {1440 * l - o, 1440 * l - o - 60}
    BY <1>1, <1>3
  <2> QED
    BY <1>1, <1>2, <1>4, <2>1, SMT
<1>7. \A t \in Int : from - 60 <= t /\ t <= to => Shift(z, t) = s
  <2>1. from - 60 \in Int /\ to - (from - 60) <= SevenWeeks
    BY <1>1, <1>2, <1>6, SMT DEF SevenWeeks
  <2>2. Shift(z, from - 60) = Shift(z, to)
    BY <1>5 DEF s
  <2> QED
    BY <1>5, <1>6, <2>1, <2>2, SpanOfOneShift
<1>8. s \in {o, o + 60}
  BY <1>6, ShiftValues DEF s, o
<1>9. ASSUME NEW n \in Int, a <= n, n <= b,
             1440 * n - o - 60 <= to
      PROVE  Mid(n) = 1440 * n - s
  <2> DEFINE w == 1440 * n - o
  <2>1. w - 60 \in Int /\ from - 60 <= w - 60 /\ w - 60 <= to
    BY <1>1, <1>2, <1>6, <1>9, SMT
  <2>2. Shift(z, w - 60) = s
    BY <1>7, <2>1
  <2>3. Moment(n, 0, 0) - o = w
    BY <1>2, SMT DEF Moment
  <2>4. Mid(n) = IF Shift(z, w - 60) = o THEN w ELSE w - 60
    BY <2>3 DEF Midnight, Mid, o
  <2> HIDE DEF w
  <2>5. Mid(n) = IF s = o THEN w ELSE w - 60
    BY <2>2, <2>4
  <2> QED
    BY <1>2, <1>8, <2>5, SMT DEF w
<1>10. from = 1440 * a - s
  <2>1. Mid(f) = 1440 * f - s
    <3>1. 1440 * f - o - 60 <= to
      BY <1>1, <1>2, <1>6, SMT
    <3>2. a <= f /\ f <= b
      BY <1>1
    <3> QED
      BY <1>1, <1>9, <3>1, <3>2
  <2> QED
    BY <1>1, <1>2, <1>4, <1>8, <2>1, SMT
<1>11. \A n \in Int : a <= n /\ n <= b => Mid(n) = 1440 * n - s
  <2>1. \A n \in Int : n <= b => 1440 * n - o - 60 <= to
    BY <1>1, <1>2, <1>6, SMT
  <2> QED
    BY <1>9, <2>1
<1>12. to = 1440 * b - s
  <2>1. Mid(l) = 1440 * l - s
    BY <1>1, <1>11
  <2> QED
    BY <1>1, <1>2, <1>4, <1>8, <2>1, SMT
<1>13. s \in Int
  BY <1>2, <1>8
<1>14. CellCount(z, p) = b - a + 1
  <2>1. (to - from) \div 1440 = b - a
    BY <1>1, <1>10, <1>12, <1>13, SMT
  <2> QED
    BY <2>1 DEF CellCount, from, to
<1>15. ASSUME NEW i \in 0..(b - a)
       PROVE  Cell(z, p, i) = Mid(a + i) /\ DateOf(z, Cell(z, p, i)) = a + i
  <2>1. a + i \in Int /\ a <= a + i /\ a + i <= b
    BY <1>1
  <2>2. Mid(a + i) = 1440 * (a + i) - s
    BY <1>11, <2>1
  <2>3. from + 1440 * i = 1440 * (a + i) - s
    BY <1>1, <1>10, <1>13, SMT
  <2>4. Cell(z, p, i) = Mid(a + i)
    BY <2>2, <2>3 DEF Cell, from
  <2>5. DateOf(z, Midnight(z, a + i)) = a + i
    BY <2>1, MidnightValue
  <2> QED
    BY <2>4, <2>5 DEF Mid
<1>16. ASSUME NEW n \in a..b
       PROVE  (n < f <=> Mid(n) < Mid(f)) /\ (n > l <=> Mid(n) > Mid(l))
  <2>1. /\ n \in Int /\ Mid(n) = 1440 * n - s
        /\ Mid(f) = 1440 * f - s /\ Mid(l) = 1440 * l - s
    BY <1>1, <1>11
  <2> QED
    BY <1>1, <1>13, <2>1, SMT
<1> QED
  BY <1>14, <1>15, <1>16 DEF a, b, f, l, Mid

-----------------------------------------------------------------------------
(* What the user reaches. *)

\* An event was made on the selected day, which stays.
GridInv ==
  /\ zone \in Zone
  /\ page \in Pages
  /\ selectedDay \in Int
  /\ event # NoEvent =>
       \E length \in Nat :
         event = StoredEvent(zone, DateOf(zone, selectedDay),
                             DateOf(zone, selectedDay) + length)

LEMMA DateIsInt ==
  ASSUME NEW z \in Zone, NEW t \in Int
  PROVE  DateOf(z, t) \in Int /\ GetPageIndex(DateOf(z, t)) \in Int
<1> DEFINE n == DateOf(z, t)
<1>1. z.offset \in Int /\ Shift(z, t) \in {z.offset, z.offset + 60}
  BY ShiftValues
<1>2. n \in Int
  BY <1>1, SMT DEF DateOf, DayAt
<1> HIDE DEF n
<1>3. YearOf(n) \in Int /\ MonthOf(n) \in Int
  BY <1>2, DatePartsAreInt
<1>4. YearIndex(YearOf(n)) \in Int
  BY <1>3 DEF YearIndex, FirstYear
<1>5. GetPageIndex(n) \in Int
  BY <1>3, <1>4 DEF GetPageIndex
<1> QED
  BY <1>2, <1>5 DEF n

LEMMA CellIsInt ==
  ASSUME NEW z \in Zone, NEW p \in Pages
  PROVE  CellCount(z, p) \in Int /\ \A i \in Int : Cell(z, p, i) \in Int
<1>1. /\ FirstOf(p) \in Int /\ LastOf(p) \in Int
      /\ Weekday(FirstOf(p)) \in Int /\ Weekday(LastOf(p)) \in Int
  BY ShownFacts, WeekdayFacts
<1>2. Midnight(z, FirstOf(p)) \in Int /\ Midnight(z, LastOf(p)) \in Int
  BY <1>1, MidnightValue
<1>3. CalStart(z, p) \in Int /\ CalEnd(z, p) \in Int
  BY <1>1, <1>2, SMT DEF CalStart, CalEnd
<1> QED
  BY <1>3, SMT DEF CellCount, Cell

LEMMA GridInvInit == Init => GridInv
<1> SUFFICES ASSUME Init
             PROVE  GridInv
  OBVIOUS
<1>1. zone \in Zone /\ event = NoEvent /\ page = GetPageIndex(Today)
      /\ selectedDay = Midnight(zone, Today)
  BY DEF Init
<1>2. selectedDay \in Int
  BY <1>1, TodayAssumption, MidnightValue
<1>3. page \in Pages
  <2> DEFINE y == YearOf(Today)
             m == MonthOf(Today)
  <2>1. y \in 2015..2024 /\ m \in 1..12
    BY TodayAssumption, DateRanges
  <2>2. page = YearIndex(y) * 12 + (m - 1)
    BY <1>1 DEF GetPageIndex
  <2> HIDE DEF y, m
  <2> QED
    BY <2>1, <2>2 DEF YearIndex, FirstYear, Pages
<1> QED
  BY <1>1, <1>2, <1>3 DEF GridInv

LEMMA GridInvNext == GridInv /\ [Next]_gridVars => GridInv'
<1> SUFFICES ASSUME GridInv, [Next]_gridVars
             PROVE  GridInv'
  OBVIOUS
<1>0. zone \in Zone /\ page \in Pages /\ selectedDay \in Int
  BY DEF GridInv
<1>1. CASE Swipe
  <2>1. event' = NoEvent /\ page' \in Pages
    BY <1>1 DEF Swipe, Untouched
  <2> QED
    BY <1>0, <1>1, <2>1 DEF GridInv, Swipe
<1>2. CASE TapDay
  <2>1. PICK i \in 0..(CellCount(zone, page) - 1) :
          LET t == Cell(zone, page, i)
              p == GetPageIndex(DateOf(zone, t))
          IN  /\ selectedDay' = t
              /\ page' = IF ~NotInCal(zone, page, t) THEN page
                         ELSE IF p < 0 THEN 0 ELSE IF p > 119 THEN 119 ELSE p
    BY <1>2 DEF TapDay
  <2> DEFINE t == Cell(zone, page, i)
             p == GetPageIndex(DateOf(zone, t))
  <2>2. t \in Int
    BY <1>0, CellIsInt
  <2>3. p \in Int
    BY <1>0, <2>2, DateIsInt
  <2>4. /\ selectedDay' = t
        /\ page' = page \/ page' = IF p < 0 THEN 0 ELSE IF p > 119 THEN 119 ELSE p
    BY <2>1
  <2> HIDE DEF t, p
  <2>5. page' \in Pages
    BY <1>0, <2>3, <2>4 DEF Pages
  <2>6. event' = NoEvent /\ zone' = zone
    BY <1>2 DEF TapDay, Untouched
  <2> QED
    BY <1>0, <2>2, <2>4, <2>5, <2>6 DEF GridInv
<1>3. CASE AddEvent
  <2>1. PICK length \in 0..MaxLength :
          event' = StoredEvent(zone, DateOf(zone, selectedDay),
                               DateOf(zone, selectedDay) + length)
    BY <1>3 DEF AddEvent
  <2>2. length \in Nat
    BY LengthAssumption
  <2>3. zone' = zone /\ page' = page /\ selectedDay' = selectedDay
    BY <1>3 DEF AddEvent
  <2> QED
    BY <1>0, <2>1, <2>2, <2>3 DEF GridInv
<1>4. CASE UNCHANGED gridVars
  BY <1>4 DEF GridInv, gridVars
<1> QED
  BY <1>1, <1>2, <1>3, <1>4 DEF Next

\* GridInv of the calendar, for every zone and first day.
THEOREM GridInvariant == Spec => []GridInv
  BY GridInvInit, GridInvNext, PTL DEF Spec

-----------------------------------------------------------------------------
(* The grid. *)

\* GridShowsWeeks of the page of any month: whole weeks, and the days of the month.
THEOREM PagesShowWeeks == Spec => []GridShowsWeeks
<1>1. ASSUME GridInv, ClocksStay
      PROVE  LET cells == 0..(CellCount(zone, page) - 1)
                 Date(i) == DateOf(zone, Cell(zone, page, i))
                 black == {i \in cells : ~NotInCal(zone, page, Cell(zone, page, i))}
             IN  /\ Weekday(Date(0)) = 1 /\ Weekday(Date(CellCount(zone, page) - 1)) = 7
                 /\ \A i \in cells : Cell(zone, page, i) = Midnight(zone, Date(0) + i)
                 /\ \A i \in black :
                      YearOf(Date(i)) = YearAt(page) /\ MonthOf(Date(i)) = MonthAt(page)
                 /\ Cardinality(black) = MonthLength(YearAt(page), MonthAt(page))
  <2> DEFINE f == FirstOf(page)
             l == LastOf(page)
             a == FirstShown(page)
             b == LastShown(page)
             cells == 0..(CellCount(zone, page) - 1)
             Date(i) == DateOf(zone, Cell(zone, page, i))
             Grey(i) == NotInCal(zone, page, Cell(zone, page, i))
             black == {i \in cells : ~Grey(i)}
             length == MonthLength(YearAt(page), MonthAt(page))
  <2>1. zone \in Zone /\ page \in Pages
    BY <1>1 DEF GridInv
  <2>2. /\ f \in Int /\ l \in Int /\ a \in Int /\ b \in Int
        /\ Weekday(a) = 1 /\ Weekday(b) = 7
        /\ a <= f /\ f + 27 <= l /\ l <= b
    BY <2>1, ShownFacts
  <2>3. Shift(zone, CalStart(zone, page) - 60) = Shift(zone, CalEnd(zone, page))
    BY <1>1 DEF ClocksStay
  <2>4. /\ CellCount(zone, page) = b - a + 1
        /\ \A i \in 0..(b - a) :
             Cell(zone, page, i) = Midnight(zone, a + i) /\ Date(i) = a + i
        /\ \A n \in a..b :
             /\ n < f <=> Midnight(zone, n) < Midnight(zone, f)
             /\ n > l <=> Midnight(zone, n) > Midnight(zone, l)
    BY <2>1, <2>3, CellsOfPage
  <2>5. length \in 28..31 /\ l = f + length - 1
    BY <2>1, <2>2, DatesAround
  <2>6. \A i \in 0..(b - a) : Grey(i) <=> a + i < f \/ a + i > l
    <3> SUFFICES ASSUME NEW i \in 0..(b - a)
                 PROVE  Grey(i) <=> a + i < f \/ a + i > l
      OBVIOUS
    <3>1. a + i \in a..b
      BY <2>2
    <3>2. Cell(zone, page, i) = Midnight(zone, a + i)
      BY <2>4
    <3>3. Grey(i) <=> \/ Midnight(zone, a + i) < Midnight(zone, f)
                      \/ Midnight(zone, a + i) > Midnight(zone, l)
      BY <3>2 DEF NotInCal
    <3> HIDE DEF f, l, a, b, Grey
    <3> QED
      BY <2>4, <3>1, <3>3
  <2>7. \A i \in 0..(b - a) : a + i >= f /\ a + i <= l
          => YearOf(a + i) = YearAt(page) /\ MonthOf(a + i) = MonthAt(page)
    <3> SUFFICES ASSUME NEW i \in 0..(b - a), a + i >= f, a + i <= l
                 PROVE  YearOf(a + i) = YearAt(page) /\ MonthOf(a + i) = MonthAt(page)
      OBVIOUS
    <3>1. a + i \in Int /\ f <= a + i
      BY <2>2
    <3> QED
      BY <2>1, <3>1, DatesAround
  <2> HIDE DEF f, l, a, b, Date, Grey, length
  <2>8. cells = 0..(b - a) /\ CellCount(zone, page) - 1 = b - a
    BY <2>2, <2>4
  <2> HIDE DEF cells
  <2>9. Date(0) = a /\ Date(b - a) = b
    BY <2>2, <2>4
  <2>10. black = (f - a)..(l - a)
    BY <2>2, <2>6, <2>8
  <2>11. Cardinality(black) = length
    <3>1. f - a \in Int /\ l - a \in Int /\ f - a <= l - a
      BY <2>2
    <3>2. Cardinality((f - a)..(l - a)) = (l - a) - (f - a) + 1
      BY <3>1, FS_Interval
    <3>3. (l - a) - (f - a) + 1 = length
      BY <2>2, <2>5
    <3> HIDE DEF black
    <3> QED
      BY <2>10, <3>2, <3>3
  <2>12. \A i \in cells : Cell(zone, page, i) = Midnight(zone, Date(0) + i)
    BY <2>4, <2>8, <2>9
  <2>13. \A i \in black : YearOf(Date(i)) = YearAt(page) /\ MonthOf(Date(i)) = MonthAt(page)
    <3> SUFFICES ASSUME NEW i \in black
                 PROVE  YearOf(Date(i)) = YearAt(page) /\ MonthOf(Date(i)) = MonthAt(page)
      OBVIOUS
    <3>1. i \in 0..(b - a) /\ a + i >= f /\ a + i <= l
      BY <2>2, <2>10
    <3> QED
      BY <2>4, <2>7, <3>1
  <2>14. Weekday(Date(0)) = 1 /\ Weekday(Date(CellCount(zone, page) - 1)) = 7
    BY <2>2, <2>8, <2>9
  <2> QED
    BY <2>11, <2>12, <2>13, <2>14 DEF cells, Date, Grey, length
<1>2. GridInv => GridShowsWeeks
  BY <1>1 DEF GridShowsWeeks
<1> QED
  BY <1>2, GridInvariant, PTL

-----------------------------------------------------------------------------
(* A tap on a day. *)

\* GreyDaysLeadNextDoor of every page: the grey days are of the months next door.
THEOREM TapsLeadToMonth == Spec => GreyDaysLeadNextDoor
<1>1. ASSUME GridInv, Next, ClocksStay, selectedDay' # selectedDay
      PROVE  LET n == DateOf(zone, selectedDay')
             IN  /\ page' \in page - 1..page + 1
                 /\ \/ YearAt(page') = YearOf(n) /\ MonthAt(page') = MonthOf(n)
                    \/ page' = page /\ page \in {0, 119}
  <2> DEFINE f == FirstOf(page)
             l == LastOf(page)
             a == FirstShown(page)
             b == LastShown(page)
  <2>1. zone \in Zone /\ page \in Pages /\ page \in 0..119
    BY <1>1 DEF GridInv, Pages
  <2>2. /\ f \in Int /\ l \in Int /\ a \in Int /\ b \in Int
        /\ a <= f /\ f - 6 <= a /\ f + 27 <= l /\ l <= b /\ b <= l + 6
    BY <2>1, ShownFacts
  <2>3. Shift(zone, CalStart(zone, page) - 60) = Shift(zone, CalEnd(zone, page))
    BY <1>1 DEF ClocksStay
  <2>4. /\ CellCount(zone, page) = b - a + 1
        /\ \A i \in 0..(b - a) :
             /\ Cell(zone, page, i) = Midnight(zone, a + i)
             /\ DateOf(zone, Cell(zone, page, i)) = a + i
        /\ \A n \in a..b :
             /\ n < f <=> Midnight(zone, n) < Midnight(zone, f)
             /\ n > l <=> Midnight(zone, n) > Midnight(zone, l)
    BY <2>1, <2>3, CellsOfPage
  <2>5. TapDay
    BY <1>1 DEF Next, Swipe, AddEvent
  <2>6. PICK i \in 0..(CellCount(zone, page) - 1) :
          LET t == Cell(zone, page, i)
              p == GetPageIndex(DateOf(zone, t))
          IN  /\ selectedDay' = t
              /\ page' = IF ~NotInCal(zone, page, t) THEN page
                         ELSE IF p < 0 THEN 0 ELSE IF p > 119 THEN 119 ELSE p
    BY <2>5 DEF TapDay
  <2> DEFINE n == a + i
             p == GetPageIndex(n)
             Grey == NotInCal(zone, page, Cell(zone, page, i))
  <2>7. i \in 0..(b - a) /\ n \in a..b /\ n \in Int
    BY <2>2, <2>4, <2>6
  <2>8. /\ Cell(zone, page, i) = Midnight(zone, n)
        /\ DateOf(zone, Cell(zone, page, i)) = n
    BY <2>4, <2>7
  <2>9. /\ DateOf(zone, selectedDay') = n
        /\ page' = IF ~Grey THEN page
                   ELSE IF p < 0 THEN 0 ELSE IF p > 119 THEN 119 ELSE p
    BY <2>6, <2>8
  <2>10. Grey <=> n < f \/ n > l
    <3>1. Grey <=> Midnight(zone, n) < Midnight(zone, f) \/ Midnight(zone, n) > Midnight(zone, l)
      BY <2>8 DEF NotInCal
    <3> HIDE DEF f, l, a, b, n, Grey
    <3> QED
      BY <2>4, <2>7, <3>1
  <2>11. /\ f <= n /\ n <= l => YearOf(n) = YearAt(page) /\ MonthOf(n) = MonthAt(page)
         /\ f - 6 <= n /\ n < f => p = page - 1
         /\ l < n /\ n <= l + 6 => p = page + 1
    BY <2>1, <2>7, DatesAround
  <2>12. ASSUME p \in Pages, f - 6 <= n, n <= l + 6
         PROVE  YearAt(p) = YearOf(n) /\ MonthAt(p) = MonthOf(n)
    BY <2>7, <2>12, PageOfDay
  <2> HIDE DEF f, l, a, b, n, p, Grey
  <2>13. CASE ~Grey
    BY <2>1, <2>2, <2>7, <2>9, <2>10, <2>11, <2>13
  <2>14. CASE Grey
    <3>1. f - 6 <= n /\ n <= l + 6 /\ p \in {page - 1, page + 1}
      BY <2>2, <2>7, <2>10, <2>11, <2>14
    <3>2. CASE p \in 0..119
      <4>1. page' = p
        BY <2>9, <2>14, <3>2
      <4> QED
        BY <2>1, <2>9, <2>12, <3>1, <3>2, <4>1 DEF Pages
    <3>3. CASE p \notin 0..119
      <4>1. page' = page /\ page \in {0, 119}
        BY <2>1, <2>9, <2>14, <3>1, <3>3
      <4> QED
        BY <2>1, <4>1
    <3> QED
      BY <3>2, <3>3
  <2> QED
    BY <2>9, <2>13, <2>14
<1>2. GridInv /\ [Next]_gridVars
        => [ClocksStay /\ selectedDay' # selectedDay =>
              LET n == DateOf(zone, selectedDay')
              IN  /\ page' \in page - 1..page + 1
                  /\ \/ YearAt(page') = YearOf(n) /\ MonthAt(page') = MonthOf(n)
                     \/ page' = page /\ page \in {0, 119}]_gridVars
  BY <1>1
<1> QED
  BY <1>2, GridInvariant, PTL DEF Spec, GreyDaysLeadNextDoor

-----------------------------------------------------------------------------
(* The days of an event. *)

\* Midnights follow one another 23 to 25 hours apart, whatever the zone does.
LEMMA MidnightsFollow ==
  ASSUME NEW z \in Zone, NEW m \in Int, NEW n \in Int, m < n
  PROVE  /\ Midnight(z, m) < Midnight(z, n)
         /\ Midnight(z, n) - Midnight(z, m) >= 1440 * (n - m) - 60
         /\ Midnight(z, n) - Midnight(z, m) <= 1440 * (n - m) + 60
<1> DEFINE o == z.offset
           M == Midnight(z, m)
           N == Midnight(z, n)
<1>1. o \in Int
  BY 0 \in Int, ShiftValues
<1>2. M \in {1440 * m - o, 1440 * m - o - 60} /\ N \in {1440 * n - o, 1440 * n - o - 60}
  BY MidnightValue
<1> HIDE DEF o, M, N
<1>3. M < N /\ N - M >= 1440 * (n - m) - 60 /\ N - M <= 1440 * (n - m) + 60
  BY <1>1, <1>2, SMT
<1> QED
  BY <1>3 DEF M, N

\* The last midnight of a zone before an event, at most two days before its first.
LEMMA MidnightBefore ==
  ASSUME NEW y \in Zone, NEW z \in Zone, NEW first \in Int
  PROVE  \E k \in (first - 2)..(first + 1) :
           Midnight(z, k) < Midnight(y, first) /\ Midnight(y, first) <= Midnight(z, k + 1)
<1> DEFINE t == Midnight(y, first)
           M(k) == Midnight(z, k)
           o == y.offset
           q == z.offset
<1>1. o \in -720..840 /\ q \in -720..840
  BY OffsetAssumption
<1>2. t \in {1440 * first - o, 1440 * first - o - 60}
  BY MidnightValue
<1>3. \A k \in Int : M(k) \in Int /\ M(k) \in {1440 * k - q, 1440 * k - q - 60}
  BY MidnightValue
<1> HIDE DEF t, M, o, q
<1>4. /\ first - 2 \in Int /\ first - 1 \in Int /\ first + 1 \in Int /\ first + 2 \in Int
      /\ (first - 2) + 1 = first - 1 /\ (first - 1) + 1 = first
      /\ (first + 1) + 1 = first + 2
  OBVIOUS
<1>5. /\ o \in Int /\ -720 <= o /\ o <= 840 /\ q \in Int /\ -720 <= q /\ q <= 840
      /\ t \in Int /\ 1440 * first - o - 60 <= t /\ t <= 1440 * first - o
  BY <1>1, <1>2, SMT
<1>6. M(first - 2) < t /\ t <= M(first + 2)
  <2>1. M(first - 2) \in {1440 * (first - 2) - q, 1440 * (first - 2) - q - 60}
        /\ M(first + 2) \in {1440 * (first + 2) - q, 1440 * (first + 2) - q - 60}
    BY <1>3, <1>4
  <2> QED
    BY <1>5, <2>1, SMT
<1>7. \/ M(first - 2) < t /\ t <= M(first - 1)
      \/ M(first - 1) < t /\ t <= M(first)
      \/ M(first) < t /\ t <= M(first + 1)
      \/ M(first + 1) < t /\ t <= M(first + 2)
  <2>1. M(first - 1) \in Int /\ M(first) \in Int /\ M(first + 1) \in Int
    BY <1>3, <1>4
  <2> QED
    BY <1>5, <1>6, <2>1
<1>8. /\ first - 2 \in (first - 2)..(first + 1) /\ first - 1 \in (first - 2)..(first + 1)
      /\ first \in (first - 2)..(first + 1) /\ first + 1 \in (first - 2)..(first + 1)
  OBVIOUS
<1>9. \E k \in (first - 2)..(first + 1) : M(k) < t /\ t <= M(k + 1)
  BY <1>4, <1>7, <1>8
<1> QED
  BY <1>9 DEF M, t

\* EventOnItsDays for zones and events of all lengths.
THEOREM EventsOnTheirDays == Spec => []EventOnItsDays
<1>1. ASSUME GridInv, event # NoEvent
      PROVE  LET first == DateOf(zone, event.startDate)
                 last == DateOf(zone, event.endDate)
                 Days(z) == {n \in (first - 1)..(last + 1) : Listed(event, Midnight(z, n))}
                 Missed(z) == last - first + 1 - Cardinality(Days(z))
             IN  /\ selectedDay = Midnight(zone, DateOf(zone, selectedDay))
                      => Listed(event, selectedDay)
                 /\ Days(zone) = first..last
                 /\ \A z \in Zone :
                      /\ Missed(z) <= 2
                      /\ EvenDays(zone, first, last) /\ EvenDays(z, first - 2, last + 1)
                           => Missed(z) <= 1
  <2> DEFINE first == DateOf(zone, event.startDate)
             last == DateOf(zone, event.endDate)
             Days(z) == {n \in (first - 1)..(last + 1) : Listed(event, Midnight(z, n))}
             Missed(z) == last - first + 1 - Cardinality(Days(z))
             from == Midnight(zone, first)
             to == Midnight(zone, last)
  <2>1. PICK length \in Nat :
          event = StoredEvent(zone, DateOf(zone, selectedDay),
                              DateOf(zone, selectedDay) + length)
    BY <1>1 DEF GridInv
  <2>2. zone \in Zone /\ DateOf(zone, selectedDay) \in Int
    BY <1>1, DateIsInt DEF GridInv
  <2>3. /\ event.startDate = Midnight(zone, DateOf(zone, selectedDay))
        /\ event.endDate = Midnight(zone, DateOf(zone, selectedDay) + length)
    BY <2>1 DEF StoredEvent
  <2>4. /\ first = DateOf(zone, selectedDay) /\ last = first + length
        /\ first \in Int /\ last \in Int /\ first <= last
    <3> DEFINE n == DateOf(zone, selectedDay)
    <3>1. n \in Int /\ n + length \in Int /\ n <= n + length
      BY <2>2
    <3>2. first = n /\ last = n + length
      BY <2>2, <2>3, <3>1, MidnightValue
    <3> HIDE DEF n
    <3> QED
      BY <3>1, <3>2 DEF n
  <2>5. event.startDate = from /\ event.endDate = to
    BY <2>3, <2>4
  <2>6. \A t : Listed(event, t) <=> from <= t /\ to >= t
    BY <2>5 DEF Listed
  <2> HIDE DEF first, last
  <2>7. \A z \in Zone, m \in Int, n \in Int :
          /\ Midnight(z, m) \in Int
          /\ m < n => /\ Midnight(z, m) < Midnight(z, n)
                      /\ Midnight(z, n) - Midnight(z, m) >= 1440 * (n - m) - 60
                      /\ Midnight(z, n) - Midnight(z, m) <= 1440 * (n - m) + 60
    BY MidnightValue, MidnightsFollow
  <2>8. from \in Int /\ to \in Int /\ from <= to
    BY <2>2, <2>4, <2>7
  <2>9. ASSUME selectedDay = Midnight(zone, DateOf(zone, selectedDay))
        PROVE  Listed(event, selectedDay)
    <3>1. selectedDay = from
      BY <2>4, <2>9
    <3> HIDE DEF from, to
    <3> QED
      BY <2>6, <2>8, <3>1
  <2>10. Days(zone) = first..last
    <3>1. ASSUME NEW n \in (first - 1)..(last + 1)
          PROVE  Listed(event, Midnight(zone, n)) <=> n \in first..last
      <4>1. n \in Int /\ Midnight(zone, n) \in Int
        BY <2>2, <2>4, <2>7
      <4>2. /\ n < first <=> Midnight(zone, n) < from
            /\ n > last <=> Midnight(zone, n) > to
        <5>1. ASSUME NEW m \in Int
              PROVE  n < m <=> Midnight(zone, n) < Midnight(zone, m)
          <6>1. /\ n < m => Midnight(zone, n) < Midnight(zone, m)
                /\ m < n => Midnight(zone, m) < Midnight(zone, n)
                /\ Midnight(zone, n) \in Int /\ Midnight(zone, m) \in Int
            BY <2>2, <2>7, <4>1
          <6>2. n = m => Midnight(zone, n) = Midnight(zone, m)
            OBVIOUS
          <6> QED
            BY <4>1, <6>1, <6>2
        <5>2. ASSUME NEW m \in Int
              PROVE  n > m <=> Midnight(zone, n) > Midnight(zone, m)
          <6>1. /\ n < m => Midnight(zone, n) < Midnight(zone, m)
                /\ m < n => Midnight(zone, m) < Midnight(zone, n)
                /\ Midnight(zone, n) \in Int /\ Midnight(zone, m) \in Int
            BY <2>2, <2>7, <4>1
          <6>2. n = m => Midnight(zone, n) = Midnight(zone, m)
            OBVIOUS
          <6> QED
            BY <4>1, <6>1, <6>2
        <5> QED
          BY <2>4, <5>1, <5>2
      <4> HIDE DEF from, to
      <4> QED
        BY <2>4, <2>6, <2>8, <4>1, <4>2
    <3>2. first..last \subseteq (first - 1)..(last + 1)
      BY <2>4
    <3> QED
      BY <3>1, <3>2
  <2>11. ASSUME NEW z \in Zone
         PROVE  /\ Missed(z) <= 2
                /\ EvenDays(zone, first, last) /\ EvenDays(z, first - 2, last + 1)
                     => Missed(z) <= 1
    <3> DEFINE M(n) == Midnight(z, n)
               L == last - first
    <3>1. PICK k \in (first - 2)..(first + 1) : M(k) < from /\ from <= M(k + 1)
      BY <2>2, <2>4, MidnightBefore
    <3>2. /\ k \in Int /\ L \in Int /\ 0 <= L /\ first - 2 <= k /\ k <= first + 1
          /\ last = first + L
      BY <2>4
    <3>3. \A m, n \in Int : m <= n => M(m) <= M(n) /\ M(m) \in Int /\ M(n) \in Int
      BY <2>7
    <3>4. ASSUME NEW j \in Int, 0 <= j, j <= L, M(k + j) <= to
          PROVE  Cardinality(Days(z)) >= j
      <4>1. (k + 1)..(k + j) \subseteq Days(z)
        <5> SUFFICES ASSUME NEW n \in (k + 1)..(k + j)
                     PROVE  n \in Days(z)
          OBVIOUS
        <5>1. /\ n \in Int /\ k + 1 \in Int /\ k + j \in Int /\ k + 1 <= n /\ n <= k + j
              /\ n \in (first - 1)..(last + 1)
          BY <2>4, <3>2, <3>4
        <5>2. M(k + 1) <= M(n) /\ M(n) <= M(k + j)
              /\ M(k + 1) \in Int /\ M(n) \in Int /\ M(k + j) \in Int
          BY <3>3, <5>1
        <5>3. from <= M(n) /\ M(n) <= to
          <6> HIDE DEF from, to, M
          <6> QED
            BY <2>8, <3>1, <3>4, <5>2
        <5>4. Listed(event, Midnight(z, n))
          BY <2>6, <2>8, <5>2, <5>3
        <5> QED
          BY <5>1, <5>4
      <4>2. Cardinality((k + 1)..(k + j)) = j
        <5>1. k + 1 \in Int /\ k + j \in Int
          BY <3>2
        <5>2. Cardinality((k + 1)..(k + j))
                = IF k + 1 > k + j THEN 0 ELSE (k + j) - (k + 1) + 1
          BY <5>1, FS_Interval
        <5> QED
          BY <3>2, <3>4, <5>2
      <4>3. IsFiniteSet(Days(z)) /\ Cardinality(Days(z)) \in Nat
        <5>1. IsFiniteSet((first - 1)..(last + 1))
          BY <2>4, FS_Interval
        <5>2. Days(z) \subseteq (first - 1)..(last + 1)
          OBVIOUS
        <5>3. IsFiniteSet(Days(z))
          BY <5>1, <5>2, FS_Subset
        <5> QED
          BY <5>3, FS_CardinalityType
      <4>4. Cardinality((k + 1)..(k + j)) <= Cardinality(Days(z))
        BY <4>1, <4>3, FS_Subset
      <4> HIDE DEF Days
      <4> QED
        BY <4>2, <4>3, <4>4
    <3>5. Cardinality(Days(z)) \in Nat
      <4>1. IsFiniteSet((first - 1)..(last + 1))
        BY <2>4, FS_Interval
      <4>2. Days(z) \subseteq (first - 1)..(last + 1)
        OBVIOUS
      <4> QED
        BY <4>1, <4>2, FS_Subset, FS_CardinalityType
    <3>6. L = 0 \/ to - from >= 1440 * L - 60
      <4>1. first < last => to - from >= 1440 * (last - first) - 60
        BY <2>2, <2>4, <2>7
      <4> HIDE DEF from, to
      <4> QED
        BY <2>4, <3>2, <4>1
    <3>7. Missed(z) <= 2
      <4>1. CASE L = 0
        <5>1. last - first + 1 = 1
          BY <2>4, <4>1
        <5> HIDE DEF Days
        <5> QED
          BY <2>4, <3>5, <4>1, <5>1
      <4>2. CASE L > 0
        <5>1. L - 1 \in Int /\ 0 <= L - 1 /\ L - 1 <= L /\ k + (L - 1) \in Int
          BY <3>2, <4>2
        <5>2. M(k + (L - 1)) \in Int /\ M(k) \in Int
              /\ M(k + (L - 1)) - M(k) <= 1440 * (L - 1) + 60
          <6>1. CASE L - 1 = 0
            <7>1. k + (L - 1) = k /\ M(k) \in Int
              BY <2>7, <3>2, <6>1
            <7> HIDE DEF M, L
            <7> QED
              BY <6>1, <7>1
          <6>2. CASE L - 1 # 0
            <7>1. k < k + (L - 1) /\ (k + (L - 1)) - k = L - 1
              BY <3>2, <5>1, <6>2
            <7> QED
              BY <2>7, <3>2, <5>1, <7>1
          <6> QED
            BY <6>1, <6>2
        <5>3. M(k + (L - 1)) <= to
          <6> HIDE DEF M, L, from, to
          <6> QED
            BY <2>8, <3>1, <3>2, <3>6, <4>2, <5>1, <5>2, SMT
        <5>4. Cardinality(Days(z)) >= L - 1
          BY <3>4, <5>1, <5>3
        <5> HIDE DEF Days
        <5> QED
          BY <2>4, <3>2, <3>5, <5>4
      <4> QED
        BY <3>2, <4>1, <4>2
    <3>8. ASSUME EvenDays(zone, first, last), EvenDays(z, first - 2, last + 1)
          PROVE  Missed(z) <= 1
      <4>1. to = from + 1440 * L
        <5>1. last \in first..last
          BY <2>4
        <5> QED
          BY <3>8, <5>1 DEF EvenDays
      <4>2. /\ M(k) = M(first - 2) + 1440 * (k - (first - 2))
            /\ M(k + L) = M(first - 2) + 1440 * ((k + L) - (first - 2))
        <5>1. k \in (first - 2)..(last + 1) /\ k + L \in (first - 2)..(last + 1)
          BY <2>4, <3>2
        <5> QED
          BY <3>8, <5>1 DEF EvenDays
      <4>3. M(first - 2) \in Int
        BY <2>4, <2>7
      <4>4. M(k + L) <= to
        <5> HIDE DEF M, L, from, to
        <5> QED
          BY <2>4, <2>8, <3>1, <3>2, <4>1, <4>2, <4>3, SMT
      <4>5. Cardinality(Days(z)) >= L
        BY <3>2, <3>4, <4>4
      <4> HIDE DEF Days
      <4> QED
        BY <2>4, <3>2, <3>5, <4>5
    <3> QED
      BY <3>7, <3>8
  <2> HIDE DEF Days, Missed
  <2>12. /\ selectedDay = Midnight(zone, DateOf(zone, selectedDay)) => Listed(event, selectedDay)
         /\ Days(zone) = first..last
         /\ \A z \in Zone :
              /\ Missed(z) <= 2
              /\ EvenDays(zone, first, last) /\ EvenDays(z, first - 2, last + 1)
                   => Missed(z) <= 1
    BY <2>9, <2>10, <2>11
  <2> QED
    BY <2>12, Zenon DEF Days, Missed, first, last
<1>2. GridInv => EventOnItsDays
  BY <1>1, Zenon DEF EventOnItsDays
<1> QED
  BY <1>2, GridInvariant, PTL
=============================================================================
