---------------------------- MODULE MCMonthGrid ----------------------------
(* The zone of the authors, two that change their clocks at the same time, *)
(* and two half an hour apart of which one changes them, at a midnight.    *)
EXTENDS MonthGrid

HongKong == [offset |-> 480, summer |-> {}]

\* Summer time from the last Sunday of March to that of October, 01:00 UTC.
SummerOf(y) ==
  LET LastSunday(month) ==
        LET n == DayNumber(y, month, 31) IN n - (Weekday(n) % 7)
  IN  [from |-> Moment(LastSunday(3), 1, 0), to |-> Moment(LastSunday(10), 1, 0)]

Europe(hours) == [offset |-> 60 * hours, summer |-> {SummerOf(y) : y \in 2015..2025}]

\* Summer time from a midnight of March to one of September, until 2022.
Tehran ==
  LET first == [y \in 2015..2022 |-> IF y % 4 = 0 THEN 21 ELSE 22]
      Begin(y, month) == Moment(DayNumber(y, month, first[y]), 0, 0)
  IN  [offset |-> 210,
       summer |-> {[from |-> Begin(y, 3) - 210, to |-> Begin(y, 9) - 270] : y \in 2015..2022}]

Dubai == [offset |-> 240, summer |-> {}]

MCZone == {HongKong, Europe(0), Europe(1), Tehran, Dubai}

\* A Saturday, in the middle of the pages.
MCToday == DayNumber(2019, 6, 1)
=============================================================================
