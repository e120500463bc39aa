------------------------------ MODULE DartDate ------------------------------
(***************************************************************************)
(* Dates of Dart's DateTime as the app uses them, in a time zone without   *)
(* daylight saving.  A day is the number of days since 1 March of year 0,  *)
(* a moment the number of minutes since then.                              *)
(***************************************************************************)
EXTENDS Integers

\* The year of the count starts in March, so that a leap day is its last.  A
\* month past 12 or a day past the end of the month runs over into the next one,
\* as in DateTime(y, m, d).
DayNumber(y, m, d) ==
  LET Y == y + ((m - 1) \div 12) - (IF (m - 1) % 12 < 2 THEN 1 ELSE 0)
  IN  365 * Y + (Y \div 4) - (Y \div 100) + (Y \div 400)
        + ((153 * ((m + 9) % 12) + 2) \div 5) + d - 1

\* Day within its 400-year era, year within the era, day within the year,
\* month counted from March.
EraDay(n) == n % 146097

EraYear(n) ==
  LET e == EraDay(n)
  IN  (e - (e \div 1460) + (e \div 36524) - (e \div 146096)) \div 365

YearDay(n) ==
  LET y == EraYear(n)
  IN  EraDay(n) - (365 * y + (y \div 4) - (y \div 100))

MarchMonth(n) == (5 * YearDay(n) + 2) \div 153

MonthOf(n) == ((MarchMonth(n) + 2) % 12) + 1

YearOf(n) ==
  EraYear(n) + 400 * (n \div 146097) + (IF MarchMonth(n) >= 10 THEN 1 ELSE 0)

DayOf(n) == YearDay(n) - ((153 * MarchMonth(n) + 2) \div 5) + 1

\* Day 0 of the next month is the last of this one.
DaysInMonth(y, m) == DayOf(DayNumber(y, m + 1, 0))

\* Monday is 1.
Weekday(n) == ((n + 2) % 7) + 1

Moment(day, hour, minute) == 1440 * day + 60 * hour + minute

DayAt(t) == t \div 1440

HourAt(t) == (t % 1440) \div 60

MinuteAt(t) == t % 60
=============================================================================
