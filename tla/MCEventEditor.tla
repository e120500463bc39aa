---------------------------- MODULE MCEventEditor ----------------------------
(* The sheet is opened in the last half hour of the last day of a month.      *)
EXTENDS EventEditor, TLC

MCDay == {DayNumber(2019, 1, 31)}

MCClock == {<<23, 30>>}

MCLateClock == {<<23, 0>>}

\* The days of the two halves: around the end of January, where the 31st of
\* February is; other days are reached but not continued from.
NearDays == {DayNumber(2019, 1, d) : d \in {30, 31}}
              \cup {DayNumber(2019, 2, 1), DayNumber(2019, 3, 3)}

\* Bounds of the run: the days, and the title is written when the picker is closed.
Bounded ==
  /\ start.day \in NearDays
  /\ end.day \in NearDays
  /\ titled => picking = "none" /\ ~allday
=============================================================================
