------------------------- MODULE EventEditor_proofs -------------------------
(***************************************************************************)
(* Theorems about the event sheet: the event keeps its type, a tap on the  *)
(* start or the end always leaves them in order, whatever hours and days   *)
(* the wheels have made, and the wheels open on the half they edit and     *)
(* stay with it as long as they show a date that exists.                   *)
(***************************************************************************)
EXTENDS EventEditor, DartDate_proofs

\* A half made of a moment stands for that moment.
LEMMA HalfStandsForMoment ==
  ASSUME NEW t \in Int
  PROVE  At(HalfAt(t)) = t /\ HalfAt(t) \in Half
<1>1. DayAt(t) \in Int /\ HourAt(t) \in Int /\ MinuteAt(t) \in Int
  BY DEF DayAt, HourAt, MinuteAt
<1>2. Moment(DayAt(t), HourAt(t), MinuteAt(t)) = t
  BY DEF Moment, DayAt, HourAt, MinuteAt
<1> QED
  BY <1>1, <1>2 DEF HalfAt, At, Half

\* A half with its type stands for an integer.
LEMMA MomentIsInt ==
  ASSUME NEW half \in Half
  PROVE  At(half) \in Int
  BY DEF Half, At, Moment

LEMMA DayNumberIsInt ==
  ASSUME NEW y \in Int, NEW m \in Int, NEW d \in Int
  PROVE  DayNumber(y, m, d) \in Int
  BY DEF DayNumber

\* endUpdate and startUpdate put the two halves in order and keep their type.
LEMMA EndUpdateOrders ==
  ASSUME EventOK
  PROVE  EndUpdate \in Half /\ At(start) < At(EndUpdate)
  BY HalfStandsForMoment, MomentIsInt DEF EventOK, EndUpdate

LEMMA StartUpdateOrders ==
  ASSUME EventOK
  PROVE  StartUpdate \in Half /\ At(StartUpdate) < At(end)
  BY HalfStandsForMoment, MomentIsInt DEF EventOK, StartUpdate

\* A new event has its type, at any time of the day.
LEMMA NewHalfTyped ==
  ASSUME NEW day \in Int, NEW hour \in Int, NEW minute \in Int
  PROVE  NewHalf(day, hour, minute) \in Half
  BY DEF NewHalf, Half

-----------------------------------------------------------------------------
(* The type of the sheet.  The minutes are those of a clock, which the hours  *)
(* need not be, and the day wheel has the days of some month: the items that  *)
(* stand for a half are only defined for a wheel that has any.                *)

EditorInv ==
  /\ TypeOK
  /\ dayCount \in 28..31
  /\ start.minute \in 0..59
  /\ end.minute \in 0..59

\* Items that stand for a half are integers.
LEMMA ItemsTyped ==
  ASSUME NEW half \in Half, NEW count \in 28..31
  PROVE  Items(half, count) \in Wheels
<1> DEFINE t == At(half)
           n == DayAt(t)
<1>1. t \in Int
  BY MomentIsInt
<1> HIDE DEF t
<1>2. n \in Int /\ HourAt(t) \in Int /\ MinuteAt(t) \in Int
  BY <1>1 DEF DayAt, HourAt, MinuteAt
<1> HIDE DEF n
<1>3. YearOf(n) \in Int /\ MonthOf(n) \in Int /\ DayOf(n) \in Int
  BY <1>2, DatePartsAreInt
<1>4. YearItem(YearOf(n)) \in Int
  BY <1>3 DEF YearItem
<1>5. (DayOf(n) - 1) % count \in Int /\ HourAt(t) % 12 \in Int /\ MonthOf(n) - 1 \in Int
  BY <1>2, <1>3
<1>6. (IF HourAt(t) < 12 THEN 0 ELSE 1) \in Int
  OBVIOUS
<1>7. Items(half, count) =
        [year |-> YearItem(YearOf(n)), month |-> MonthOf(n) - 1,
         date |-> (DayOf(n) - 1) % count, hour |-> HourAt(t) % 12,
         minute |-> MinuteAt(t), apm |-> IF HourAt(t) < 12 THEN 0 ELSE 1]
  BY Zenon DEF Items, n, t
<1> QED
  BY <1>2, <1>4, <1>5, <1>6, <1>7 DEF Wheels

\* What a tap makes of the half that is tapped.
LEMMA UpdatesTyped ==
  ASSUME EditorInv
  PROVE  /\ StartUpdate \in Half /\ StartUpdate.minute \in 0..59
         /\ EndUpdate \in Half /\ EndUpdate.minute \in 0..59
<1>1. StartUpdate \in Half /\ EndUpdate \in Half
  BY StartUpdateOrders, EndUpdateOrders DEF EditorInv, TypeOK
<1>2. ASSUME NEW t \in Int
      PROVE  HalfAt(t).minute \in 0..59
  BY DEF HalfAt, MinuteAt
<1>3. At(start) + 60 \in Int /\ At(end) - 60 \in Int
  BY MomentIsInt DEF EditorInv, TypeOK, EventOK
<1> QED
  BY <1>1, <1>2, <1>3 DEF StartUpdate, EndUpdate, EditorInv

LEMMA InitInv == Init => EditorInv
<1> SUFFICES ASSUME Init
             PROVE  EditorInv
  OBVIOUS
<1>1. PICK day \in Day, clock \in Clock :
        /\ start = NewHalf(day, clock[1], clock[2])
        /\ end = NewHalf(day, clock[1] + 1, clock[2])
        /\ dayCount = DaysInMonth(YearOf(day), MonthOf(day))
        /\ wheels = Items(NewHalf(day, clock[1] + 1, clock[2]),
                          DaysInMonth(YearOf(day), MonthOf(day)))
  BY DEF Init
<1>2. /\ day \in Int /\ clock[1] \in Int /\ clock[1] + 1 \in Int
      /\ clock[2] \in Int /\ clock[2] \in 0..59
  BY DayAssumption, ClockAssumption
<1>3. /\ start \in Half /\ end \in Half
      /\ start.minute \in 0..59 /\ end.minute \in 0..59
  BY <1>1, <1>2, NewHalfTyped DEF NewHalf
<1>4. dayCount \in 28..31
  BY <1>1, <1>2, DatePartsAreInt, DateRanges, MonthLengths
<1>5. wheels = Items(end, dayCount)
  BY <1>1
<1>6. wheels \in Wheels
  BY <1>3, <1>4, <1>5, ItemsTyped
<1>7. titled = FALSE /\ allday = FALSE /\ picking = "none" /\ saved = None
  BY Zenon DEF Init
<1>8. EventOK
  BY <1>3, <1>7, Zenon DEF EventOK
<1>9. dayCount \in Int
  BY <1>4
<1> QED
  BY <1>3, <1>4, <1>6, <1>7, <1>8, <1>9 DEF EditorInv, TypeOK

LEMMA EditedTyped ==
  ASSUME EditorInv
  PROVE  /\ Edited \in Half /\ Edited.minute \in 0..59
         /\ Edited.day \in Int /\ Edited.hour \in Int /\ Edited.apm \in {0, 1}
<1>1. Edited \in Half /\ Edited.minute \in 0..59
  BY DEF EditorInv, TypeOK, EventOK, Edited
<1> QED
  BY <1>1 DEF Half

\* A wheel sets a half with its type, and shows an item.
LEMMA TurnTyped ==
  ASSUME EditorInv, TurnSome
  PROVE  \E h \in Half, w \in Wheels : Turn(h, w) /\ h.minute \in 0..59
<1> Edited \in Half /\ Edited.minute \in 0..59 /\ wheels \in Wheels
  BY EditedTyped DEF EditorInv, TypeOK
<1>1. Edited.day \in Int /\ Edited.hour \in Int /\ Edited.apm \in {0, 1}
  BY EditedTyped
<1>2. YearOf(Edited.day) \in Int /\ MonthOf(Edited.day) \in Int /\ DayOf(Edited.day) \in Int
  BY <1>1, DatePartsAreInt
<1>3. ASSUME NEW n \in Int
      PROVE  /\ [Edited EXCEPT !.day = n] \in Half
             /\ [Edited EXCEPT !.day = n].minute \in 0..59
             /\ [wheels EXCEPT !.year = n] \in Wheels
             /\ [wheels EXCEPT !.month = n] \in Wheels
             /\ [wheels EXCEPT !.date = n] \in Wheels
             /\ [wheels EXCEPT !.hour = n] \in Wheels
             /\ [wheels EXCEPT !.minute = n] \in Wheels
             /\ [wheels EXCEPT !.apm = n] \in Wheels
  BY DEF Half, Wheels
<1>4. ASSUME NEW i \in Years, TurnYear(i)
      PROVE  \E h \in Half, w \in Wheels : Turn(h, w) /\ h.minute \in 0..59
  <2> DEFINE n == DayNumber(2015 + i, MonthOf(Edited.day), DayOf(Edited.day))
  <2>1. i \in Int /\ n \in Int
    BY <1>2, DayNumberIsInt, WheelAssumption
  <2>2. Turn([Edited EXCEPT !.day = n], [wheels EXCEPT !.year = i])
    BY <1>4 DEF TurnYear
  <2> HIDE DEF n
  <2> QED
    BY <1>3, <2>1, <2>2
<1>5. ASSUME NEW i \in Months, TurnMonth(i)
      PROVE  \E h \in Half, w \in Wheels : Turn(h, w) /\ h.minute \in 0..59
  <2> DEFINE n == DayNumber(YearOf(Edited.day), i + 1, DayOf(Edited.day))
  <2>1. i \in Int /\ n \in Int
    BY <1>2, DayNumberIsInt, WheelAssumption
  <2>2. Turn([Edited EXCEPT !.day = n], [wheels EXCEPT !.month = i])
    BY <1>5 DEF TurnMonth
  <2> HIDE DEF n
  <2> QED
    BY <1>3, <2>1, <2>2
<1>6. ASSUME NEW i \in Dates, TurnDate(i)
      PROVE  \E h \in Half, w \in Wheels : Turn(h, w) /\ h.minute \in 0..59
  <2> DEFINE n == DayNumber(YearOf(Edited.day), MonthOf(Edited.day), i + 1)
  <2>1. i \in Int /\ n \in Int
    BY <1>2, DayNumberIsInt, WheelAssumption
  <2>2. Turn([Edited EXCEPT !.day = n], [wheels EXCEPT !.date = i])
    BY <1>6 DEF TurnDate
  <2> HIDE DEF n
  <2> QED
    BY <1>3, <2>1, <2>2
<1>7. ASSUME NEW i \in Hours, TurnHour(i)
      PROVE  \E h \in Half, w \in Wheels : Turn(h, w) /\ h.minute \in 0..59
  <2>1. i \in Int /\ i + 12 * Edited.apm \in Int
    BY <1>1, WheelAssumption
  <2>2. /\ [Edited EXCEPT !.hour = i + 12 * Edited.apm] \in Half
        /\ [Edited EXCEPT !.hour = i + 12 * Edited.apm].minute \in 0..59
    BY <2>1 DEF Half
  <2> QED
    BY <1>3, <1>7, <2>1, <2>2 DEF TurnHour
<1>8. ASSUME NEW i \in Minutes, TurnMinute(i)
      PROVE  \E h \in Half, w \in Wheels : Turn(h, w) /\ h.minute \in 0..59
  <2>1. /\ i \in Int /\ [Edited EXCEPT !.minute = i] \in Half
        /\ [Edited EXCEPT !.minute = i].minute \in 0..59
    BY WheelAssumption DEF Half
  <2> QED
    BY <1>3, <1>8, <2>1 DEF TurnMinute
<1>9. ASSUME NEW a \in {0, 1}, TurnAPM(a)
      PROVE  \E h \in Half, w \in Wheels : Turn(h, w) /\ h.minute \in 0..59
  <2> DEFINE flagged == [Edited EXCEPT !.apm = a]
             h == [flagged EXCEPT !.hour = IF a = 0 THEN @ - 12 ELSE @ + 12]
  <2>1. flagged \in Half /\ flagged.minute \in 0..59
    BY DEF Half
  <2>2. h \in Half /\ h.minute \in 0..59
    <3> HIDE DEF flagged
    <3>1. flagged.hour - 12 \in Int /\ flagged.hour + 12 \in Int
      BY <2>1 DEF Half
    <3> QED
      BY <2>1, <3>1 DEF Half
  <2>3. Turn(h, [wheels EXCEPT !.apm = a]) /\ a \in Int
    BY <1>9 DEF TurnAPM
  <2> QED
    BY <1>3, <2>2, <2>3
<1> QED
  BY <1>4, <1>5, <1>6, <1>7, <1>8, <1>9 DEF TurnSome

LEMMA NextInv == EditorInv /\ [Next]_vars => EditorInv'
<1> SUFFICES ASSUME EditorInv, [Next]_vars
             PROVE  EditorInv'
  OBVIOUS
<1>0. /\ start \in Half /\ end \in Half /\ titled \in BOOLEAN /\ allday \in BOOLEAN
      /\ picking \in {"none", "start", "end"} /\ wheels \in Wheels
      /\ dayCount \in 28..31 /\ saved \in Document \cup {None}
      /\ start.minute \in 0..59 /\ end.minute \in 0..59
  BY DEF EditorInv, TypeOK, EventOK
<1>1. CASE StartTrigger
  <2>1. wheels' \in Wheels
    BY <1>0, <1>1, ItemsTyped, UpdatesTyped DEF StartTrigger, Shown
  <2> QED
    BY <1>0, <1>1, <2>1, UpdatesTyped DEF EditorInv, TypeOK, EventOK, StartTrigger
<1>2. CASE EndTrigger
  <2>1. wheels' \in Wheels
    BY <1>0, <1>2, ItemsTyped, UpdatesTyped DEF EndTrigger, Shown
  <2> QED
    BY <1>0, <1>2, <2>1, UpdatesTyped DEF EditorInv, TypeOK, EventOK, EndTrigger
<1>3. CASE PickerTrigger
  BY <1>0, <1>3 DEF EditorInv, TypeOK, EventOK, PickerTrigger
<1>4. CASE TurnSome
  <2>1. PICK h \in Half, w \in Wheels : Turn(h, w) /\ h.minute \in 0..59
    BY <1>4, TurnTyped
  <2> QED
    BY <1>0, <2>1 DEF EditorInv, TypeOK, EventOK, Turn
<1>5. CASE SetTitle
  BY <1>0, <1>5 DEF EditorInv, TypeOK, EventOK, SetTitle
<1>6. CASE SetAllday
  BY <1>0, <1>6 DEF EditorInv, TypeOK, EventOK, SetAllday
<1>7. CASE AddEvent
  <2>1. start.day \in Int /\ end.day \in Int /\ At(start) \in Int /\ At(end) \in Int
    BY <1>0, MomentIsInt DEF Half
  <2>2. saved' \in Document
    BY <1>7, <2>1 DEF AddEvent, Document
  <2> QED
    BY <1>0, <1>7, <2>2 DEF EditorInv, TypeOK, EventOK, AddEvent
<1>8. CASE UNCHANGED vars
  BY <1>0, <1>8 DEF EditorInv, TypeOK, EventOK, vars
<1> QED
  BY <1>1, <1>2, <1>3, <1>4, <1>5, <1>6, <1>7, <1>8 DEF Next

\* EditorInv of the sheet, through all taps and picks.
THEOREM EditorInvariant == Spec => []EditorInv
  BY InitInv, NextInv, PTL DEF Spec

\* The sheet keeps its type whatever is picked: integer dates and hours, flags that
\* are AM or PM, wheels that show items, a document with its moments and its days.
THEOREM EventTyped == Spec => []TypeOK
<1>1. EditorInv => TypeOK
  BY DEF EditorInv
<1> QED
  BY <1>1, EditorInvariant, PTL

\* TriggerOrders of the sheet: startUpdate and endUpdate leave a start before the
\* end, for every day, hour and order of picks.
THEOREM TapsOrder == Spec => TriggerOrders
<1>1. EditorInv /\ [Next]_vars => [StartTrigger \/ EndTrigger => At(start') < At(end')]_vars
  <2> SUFFICES ASSUME EditorInv, StartTrigger \/ EndTrigger
               PROVE  At(start') < At(end')
    OBVIOUS
  <2>0. EventOK
    BY DEF EditorInv, TypeOK
  <2>1. CASE StartTrigger
    BY <2>0, <2>1, StartUpdateOrders DEF StartTrigger
  <2>2. CASE EndTrigger
    BY <2>0, <2>2, EndUpdateOrders DEF EndTrigger
  <2> QED
    BY <2>1, <2>2
<1> QED
  BY <1>1, EditorInvariant, PTL DEF Spec, TriggerOrders

-----------------------------------------------------------------------------
(* The wheels and the half they edit. *)

\* A moment has the day and the time of day it is made of.
LEMMA PartsOfMoment ==
  ASSUME NEW n \in Int, NEW h \in Int, NEW m \in Int, 0 <= h, h < 24, 0 <= m, m < 60
  PROVE  /\ DayAt(Moment(n, h, m)) = n
         /\ HourAt(Moment(n, h, m)) = h
         /\ MinuteAt(Moment(n, h, m)) = m
<1> DEFINE c == 60 * h + m
           t == 1440 * n + c
<1>1. c \in Int /\ 0 <= c /\ c < 1440
  BY SMT
<1>2. c \div 60 = h
  BY SMT
<1>3. t % 60 = m
  <2>1. t = 60 * (24 * n + h) + m /\ 24 * n + h \in Int
    BY SMT
  <2> HIDE DEF t
  <2> QED
    BY <2>1, SMT
<1> HIDE DEF c
<1>4. t \div 1440 = n /\ t % 1440 = c
  BY <1>1, SMT
<1>5. Moment(n, h, m) = t
  BY SMT DEF Moment, c
<1> HIDE DEF t
<1> QED
  BY <1>2, <1>3, <1>4, <1>5, SMT DEF DayAt, HourAt, MinuteAt

\* What the items are for a half that a clock could show, on a wheel that has its
\* day.
LEMMA ItemsOfProper ==
  ASSUME NEW half \in Half, Proper(half), half.minute \in 0..59,
         NEW count \in 28..31, DayOf(half.day) <= count
  PROVE  Items(half, count) =
           [year |-> YearItem(YearOf(half.day)), month |-> MonthOf(half.day) - 1,
            date |-> DayOf(half.day) - 1, hour |-> half.hour % 12,
            minute |-> half.minute, apm |-> half.apm]
<1> DEFINE t == At(half)
           n == half.day
<1>1. n \in Int /\ half.hour \in 0..23 /\ half.apm = half.hour \div 12
  BY DEF Half, Proper
<1>2. /\ half.hour \in Int /\ 0 <= half.hour /\ half.hour < 24
      /\ half.minute \in Int /\ 0 <= half.minute /\ half.minute < 60
  BY <1>1
<1>3. DayAt(t) = n /\ HourAt(t) = half.hour /\ MinuteAt(t) = half.minute
  <2> DEFINE h == half.hour
             m == half.minute
  <2>1. t = Moment(n, h, m)
    BY DEF At
  <2>2. n \in Int /\ h \in Int /\ m \in Int /\ 0 <= h /\ h < 24 /\ 0 <= m /\ m < 60
    BY <1>1, <1>2
  <2> HIDE DEF n, t, h, m
  <2>3. DayAt(Moment(n, h, m)) = n /\ HourAt(Moment(n, h, m)) = h
        /\ MinuteAt(Moment(n, h, m)) = m
    BY <2>2, PartsOfMoment
  <2> QED
    BY <2>1, <2>3, Zenon DEF h, m
<1>4. (IF half.hour < 12 THEN 0 ELSE 1) = half.apm
  BY <1>1, SMT
<1>5. (DayOf(n) - 1) % count = DayOf(n) - 1
  <2> DEFINE d == DayOf(n)
  <2>1. d \in 1..31 /\ d <= count
    BY <1>1, DateRanges
  <2> HIDE DEF d
  <2>2. count \in 28..31
    OBVIOUS
  <2>3. (d - 1) % count = d - 1
    BY <2>1, <2>2, SMT
  <2> QED
    BY <2>3 DEF d
<1> HIDE DEF n
<1>6. Items(half, count) =
        [year |-> YearItem(YearOf(n)), month |-> MonthOf(n) - 1,
         date |-> (DayOf(n) - 1) % count, hour |-> half.hour % 12,
         minute |-> half.minute, apm |-> IF half.hour < 12 THEN 0 ELSE 1]
  BY <1>3, Zenon DEF Items
<1> QED
  BY <1>4, <1>5, <1>6, Zenon DEF n

\* A wheel that is short of the day's month shows what one with every day does.
LEMMA ItemsAgree ==
  ASSUME NEW half \in Half, Proper(half), half.minute \in 0..59,
         NEW count \in 28..31, DayOf(half.day) <= count
  PROVE  Items(half, count) = Items(half, 31)
<1>1. DayOf(half.day) <= 31
  <2>1. half.day \in Int
    BY DEF Half
  <2> QED
    BY <2>1, DateRanges
<1>2. 31 \in 28..31
  OBVIOUS
<1> QED
  BY <1>1, <1>2, ItemsOfProper

\* OpensInStep of the sheet: the picker opens on what it edits and follows it from
\* start to end, for every day and hour, when the event is in order and the day wheel
\* has the day.
THEOREM PickerOpensInStep == Spec => OpensInStep
<1> DEFINE Fits == Proper(Edited') /\ At(start) < At(end) /\ DayOf(Edited'.day) <= dayCount
<1>1. ASSUME EditorInv, EditorInv', StartTrigger \/ EndTrigger, Fits
      PROVE  InStep(Edited)'
  <2>1. Shown(start, StartUpdate) = Items(start, dayCount)
        /\ Shown(end, EndUpdate) = Items(end, dayCount)
    BY <1>1 DEF Shown, StartUpdate, EndUpdate
  <2>2. wheels' = Items(Edited', dayCount)
    <3>1. CASE StartTrigger
      <4>1. StartUpdate = start
        BY <1>1 DEF StartUpdate
      <4>2. wheels' = Items(start, dayCount) /\ Edited' = start
        BY <2>1, <3>1, <4>1 DEF StartTrigger, Edited
      <4> QED
        BY <4>2
    <3>2. CASE EndTrigger
      <4>1. EndUpdate = end
        BY <1>1 DEF EndUpdate
      <4>2. wheels' = Items(end, dayCount) /\ Edited' = end
        BY <2>1, <3>2, <4>1 DEF EndTrigger, Edited
      <4> QED
        BY <4>2
    <3> QED
      BY <1>1, <3>1, <3>2
  <2>3. /\ Edited' \in Half /\ Edited'.minute \in 0..59 /\ dayCount \in 28..31
    BY <1>1 DEF EditorInv, TypeOK, EventOK, Edited
  <2>4. Items(Edited', dayCount) = Items(Edited', 31)
    BY <1>1, <2>3, ItemsAgree
  <2> QED
    BY <1>1, <2>2, <2>4 DEF InStep, Proper
<1>2. EditorInv /\ EditorInv' /\ [Next]_vars
        => [StartTrigger \/ EndTrigger => (Fits => InStep(Edited)')]_vars
  BY <1>1
<1> QED
  BY <1>2, EditorInvariant, PTL DEF Spec, OpensInStep

-----------------------------------------------------------------------------
(* Turning a wheel that shows the half it edits. *)

\* What wheels with every day show for a half of a clock.
Showing(half) ==
  [year |-> YearItem(YearOf(half.day)), month |-> MonthOf(half.day) - 1,
   date |-> DayOf(half.day) - 1, hour |-> half.hour % 12,
   minute |-> half.minute, apm |-> half.apm]

LEMMA ItemsAreShown ==
  ASSUME NEW half \in Half, Proper(half), half.minute \in 0..59
  PROVE  Items(half, 31) = Showing(half)
<1>1. DayOf(half.day) <= 31
  <2>1. half.day \in Int
    BY DEF Half
  <2> QED
    BY <2>1, DateRanges
<1>2. 31 \in 28..31
  OBVIOUS
<1> QED
  BY <1>1, <1>2, ItemsOfProper DEF Showing

\* The half that is edited has what a wheel set.
LEMMA TurnSets ==
  ASSUME NEW h, NEW w, Turn(h, w)
  PROVE  Edited' = h /\ wheels' = w /\ w # wheels
  BY DEF Turn, Edited

\* A day wheel sets a date that exists: its year, month and day.
LEMMA DatePicked ==
  ASSUME NEW half \in Half, Proper(half), half.minute \in 0..59,
         NEW y \in Int, NEW m \in 1..12, NEW d \in 1..DaysInMonth(y, m)
  PROVE  LET h == [half EXCEPT !.day = DayNumber(y, m, d)]
         IN  /\ Proper(h)
             /\ Items(h, 31) = [year |-> YearItem(y), month |-> m - 1, date |-> d - 1,
                                hour |-> half.hour % 12, minute |-> half.minute,
                                apm |-> half.apm]
<1> DEFINE n == DayNumber(y, m, d)
           h == [half EXCEPT !.day = n]
<1>1. YearOf(n) = y /\ MonthOf(n) = m /\ DayOf(n) = d
  BY DateRoundTrip
<1>2. n \in Int
  <2>1. DaysInMonth(y, m) \in 28..31
    BY MonthLengths
  <2> QED
    BY <2>1, DayNumberIsInt
<1> HIDE DEF n
<1>3. /\ h \in Half /\ h.day = n /\ h.hour = half.hour /\ h.minute = half.minute
      /\ h.apm = half.apm
  BY <1>2 DEF Half
<1> HIDE DEF h
<1>4. Proper(h)
  BY <1>3 DEF Proper
<1>5. Items(h, 31) = Showing(h)
  BY <1>3, <1>4, ItemsAreShown
<1>6. Showing(h) = [year |-> YearItem(y), month |-> m - 1, date |-> d - 1,
                    hour |-> half.hour % 12, minute |-> half.minute, apm |-> half.apm]
  BY <1>1, <1>3 DEF Showing
<1> QED
  BY <1>4, <1>5, <1>6 DEF h, n

\* The date on the wheels exists in its year, 2014 standing for those before and
\* after the list: no month of 2014 is longer than that of another year.
LEMMA ShownDateExists ==
  ASSUME NEW y \in Int, NEW m \in 1..12
  PROVE  DaysInMonth(2015 + YearItem(y), m) <= DaysInMonth(y, m)
<1>1. DaysInMonth(y, m) \in 28..31
  BY MonthLengths
<1>2. CASE y \in 2015..2025
  <2>1. 2015 + YearItem(y) = y
    BY <1>2 DEF YearItem
  <2> QED
    BY <1>1, <2>1
<1>3. CASE y \notin 2015..2025
  <2>1. 2015 + YearItem(y) = 2014
    BY <1>3 DEF YearItem
  <2>2. ~Leap(2014) /\ 2014 \in Int
    BY SMT DEF Leap
  <2> QED
    BY <2>1, <2>2, MonthLengths
<1> QED
  BY <1>2, <1>3

LEMMA TurnKeepsStep ==
  ASSUME EditorInv, TurnSome, InStep(Edited), IsDate(wheels')
  PROVE  InStep(Edited)'
<1> DEFINE e == Edited
           y == YearOf(e.day)
           m == MonthOf(e.day)
           d == DayOf(e.day)
<1>1. e \in Half /\ e.minute \in 0..59 /\ Proper(e)
  BY EditedTyped DEF InStep
<1>2. wheels = Showing(e)
  BY <1>1, ItemsAreShown DEF InStep
<1>3. /\ e.day \in Int /\ e.hour \in 0..23 /\ e.apm = e.hour \div 12
      /\ e.apm \in {0, 1}
  BY <1>1 DEF Half, Proper
<1>4. y \in Int /\ m \in 1..12 /\ d \in 1..31
  BY <1>3, DatePartsAreInt, DateRanges
<1>5. ASSUME NEW h, NEW w, Turn(h, w), Proper(h), Items(h, 31) = w
      PROVE  InStep(Edited)'
  BY <1>5, TurnSets DEF InStep, Proper
<1> HIDE DEF e
<1>6. Showing(e) = [year |-> YearItem(y), month |-> m - 1, date |-> d - 1,
                    hour |-> e.hour % 12, minute |-> e.minute, apm |-> e.apm]
  BY DEF Showing
<1> HIDE DEF y, m, d
<1>7. ASSUME NEW i \in Years, TurnYear(i)
      PROVE  InStep(Edited)'
  <2> DEFINE h == [e EXCEPT !.day = DayNumber(2015 + i, m, d)]
             w == [wheels EXCEPT !.year = i]
  <2>1. Turn(h, w)
    BY <1>7 DEF TurnYear, e, m, d
  <2>2. i \in 0..10 /\ 2015 + i \in Int /\ YearItem(2015 + i) = i
    BY WheelAssumption DEF YearItem
  <2>3. d \in 1..DaysInMonth(2015 + i, m)
    <3>1. d - 1 < DaysInMonth(2015 + i, m - 1 + 1)
      BY <1>2, <1>6, <2>1, TurnSets DEF IsDate
    <3>2. m - 1 + 1 = m /\ DaysInMonth(2015 + i, m) \in 28..31
      BY <1>4, <2>2, MonthLengths
    <3> QED
      BY <1>4, <3>1, <3>2
  <2>4. /\ Proper(h)
        /\ Items(h, 31) = [year |-> YearItem(2015 + i), month |-> m - 1, date |-> d - 1,
                           hour |-> e.hour % 12, minute |-> e.minute, apm |-> e.apm]
    <3> DEFINE z == 2015 + i
    <3>1. z \in Int /\ d \in 1..DaysInMonth(z, m)
      BY <2>2, <2>3
    <3> HIDE DEF z
    <3>2. LET p == [e EXCEPT !.day = DayNumber(z, m, d)]
          IN  /\ Proper(p)
              /\ Items(p, 31) = [year |-> YearItem(z), month |-> m - 1, date |-> d - 1,
                                 hour |-> e.hour % 12, minute |-> e.minute,
                                 apm |-> e.apm]
      BY <1>1, <1>4, <3>1, DatePicked
    <3> QED
      BY <3>2 DEF z
  <2>5. Items(h, 31) = w
    BY <1>2, <1>6, <2>2, <2>4
  <2> HIDE DEF h, w
  <2> QED
    BY <1>5, <2>1, <2>4, <2>5
<1>8. ASSUME NEW i \in Months, TurnMonth(i)
      PROVE  InStep(Edited)'
  <2> DEFINE h == [e EXCEPT !.day = DayNumber(y, i + 1, d)]
             w == [wheels EXCEPT !.month = i]
  <2>1. Turn(h, w)
    BY <1>8 DEF TurnMonth, e, y, d
  <2>2. i \in 0..11 /\ i + 1 \in 1..12 /\ i + 1 - 1 = i
    BY WheelAssumption
  <2>3. d \in 1..DaysInMonth(y, i + 1)
    <3>1. d - 1 < DaysInMonth(2015 + YearItem(y), i + 1)
      BY <1>2, <1>6, <2>1, TurnSets DEF IsDate
    <3>2. YearItem(y) \in Int
      BY <1>4 DEF YearItem
    <3>3. /\ DaysInMonth(2015 + YearItem(y), i + 1) \in 28..31
          /\ DaysInMonth(y, i + 1) \in 28..31
          /\ DaysInMonth(2015 + YearItem(y), i + 1) <= DaysInMonth(y, i + 1)
      BY <1>4, <2>2, <3>2, MonthLengths, ShownDateExists
    <3> QED
      BY <1>4, <3>1, <3>3
  <2>4. /\ Proper(h)
        /\ Items(h, 31) = [year |-> YearItem(y), month |-> i, date |-> d - 1,
                           hour |-> e.hour % 12, minute |-> e.minute, apm |-> e.apm]
    <3> DEFINE k == i + 1
    <3>1. k - 1 = i /\ k \in 1..12 /\ d \in 1..DaysInMonth(y, k)
      BY <2>2, <2>3
    <3> HIDE DEF k
    <3>2. LET p == [e EXCEPT !.day = DayNumber(y, k, d)]
          IN  /\ Proper(p)
              /\ Items(p, 31) = [year |-> YearItem(y), month |-> k - 1, date |-> d - 1,
                                 hour |-> e.hour % 12, minute |-> e.minute,
                                 apm |-> e.apm]
      BY <1>1, <1>4, <3>1, DatePicked
    <3> QED
      BY <3>1, <3>2, Zenon DEF k
  <2>5. Items(h, 31) = w
    BY <1>2, <1>6, <2>2, <2>4
  <2> HIDE DEF h, w
  <2> QED
    BY <1>5, <2>1, <2>4, <2>5
<1>9. ASSUME NEW i \in Dates, TurnDate(i)
      PROVE  InStep(Edited)'
  <2> DEFINE h == [e EXCEPT !.day = DayNumber(y, m, i + 1)]
             w == [wheels EXCEPT !.date = i]
  <2>1. Turn(h, w)
    BY <1>9 DEF TurnDate, e, y, m
  <2>2. i \in 0..30 /\ i + 1 \in 1..31 /\ i + 1 - 1 = i
    BY WheelAssumption
  <2>3. i + 1 \in 1..DaysInMonth(y, m)
    <3>1. i < DaysInMonth(2015 + YearItem(y), m - 1 + 1)
      BY <1>2, <1>6, <2>1, TurnSets DEF IsDate
    <3>2. YearItem(y) \in Int /\ m - 1 + 1 = m
      BY <1>4 DEF YearItem
    <3>3. /\ DaysInMonth(2015 + YearItem(y), m) \in 28..31
          /\ DaysInMonth(y, m) \in 28..31
          /\ DaysInMonth(2015 + YearItem(y), m) <= DaysInMonth(y, m)
      BY <1>4, <3>2, MonthLengths, ShownDateExists
    <3> QED
      BY <2>2, <3>1, <3>2, <3>3
  <2>4. /\ Proper(h)
        /\ Items(h, 31) = [year |-> YearItem(y), month |-> m - 1, date |-> i,
                           hour |-> e.hour % 12, minute |-> e.minute, apm |-> e.apm]
    <3> DEFINE k == i + 1
    <3>1. k - 1 = i /\ k \in 1..DaysInMonth(y, m)
      BY <2>2, <2>3
    <3> HIDE DEF k
    <3>2. LET p == [e EXCEPT !.day = DayNumber(y, m, k)]
          IN  /\ Proper(p)
              /\ Items(p, 31) = [year |-> YearItem(y), month |-> m - 1, date |-> k - 1,
                                 hour |-> e.hour % 12, minute |-> e.minute,
                                 apm |-> e.apm]
      BY <1>1, <1>4, <3>1, DatePicked
    <3> QED
      BY <3>1, <3>2, Zenon DEF k
  <2>5. Items(h, 31) = w
    BY <1>2, <1>6, <2>2, <2>4
  <2> HIDE DEF h, w
  <2> QED
    BY <1>5, <2>1, <2>4, <2>5
<1>10. ASSUME NEW i \in Hours, TurnHour(i)
       PROVE  InStep(Edited)'
  <2> DEFINE k == i + 12 * e.apm
             h == [e EXCEPT !.hour = k]
             w == [wheels EXCEPT !.hour = i]
  <2>1. Turn(h, w)
    BY <1>10 DEF TurnHour, e
  <2>2. k \in 0..23 /\ k \div 12 = e.apm /\ k % 12 = i
    <3>1. i \in 0..11
      BY WheelAssumption
    <3>2. CASE e.apm = 0
      BY <3>1, <3>2
    <3>3. CASE e.apm = 1
      BY <3>1, <3>3
    <3> QED
      BY <1>3, <3>2, <3>3
  <2> HIDE DEF k
  <2>3. /\ h \in Half /\ h.day = e.day /\ h.hour = k /\ h.minute = e.minute
        /\ h.apm = e.apm
    BY <1>1, <2>2 DEF Half
  <2> HIDE DEF h
  <2>4. Proper(h)
    BY <2>2, <2>3 DEF Proper
  <2>5. Items(h, 31) = Showing(h)
    BY <1>1, <2>3, <2>4, ItemsAreShown
  <2>6. Showing(h) = w
    BY <1>2, <2>2, <2>3 DEF Showing
  <2> HIDE DEF w
  <2> QED
    BY <1>5, <2>1, <2>4, <2>5, <2>6
<1>11. ASSUME NEW i \in Minutes, TurnMinute(i)
       PROVE  InStep(Edited)'
  <2> DEFINE h == [e EXCEPT !.minute = i]
             w == [wheels EXCEPT !.minute = i]
  <2>1. Turn(h, w)
    BY <1>11 DEF TurnMinute, e
  <2>2. i \in 0..59
    BY WheelAssumption
  <2>3. /\ h \in Half /\ h.day = e.day /\ h.hour = e.hour /\ h.minute = i
        /\ h.apm = e.apm
    BY <1>1, <2>2 DEF Half
  <2> HIDE DEF h
  <2>4. Proper(h)
    BY <1>1, <2>3 DEF Proper
  <2>5. Items(h, 31) = Showing(h)
    BY <2>2, <2>3, <2>4, ItemsAreShown
  <2>6. Showing(h) = w
    BY <1>2, <2>3 DEF Showing
  <2> HIDE DEF w
  <2> QED
    BY <1>5, <2>1, <2>4, <2>5, <2>6
<1>12. ASSUME NEW a \in {0, 1}, TurnAPM(a)
       PROVE  InStep(Edited)'
  <2> DEFINE k == IF a = 0 THEN e.hour - 12 ELSE e.hour + 12
             h == [e EXCEPT !.apm = a, !.hour = k]
             w == [wheels EXCEPT !.apm = a]
  <2>1. Turn(h, w)
    BY <1>12 DEF TurnAPM, e
  <2>2. a # e.apm
    <3>1. w # wheels
      BY <2>1, TurnSets
    <3> QED
      BY <1>2, <1>6, <3>1
  <2>3. k \in 0..23 /\ k \div 12 = a /\ k % 12 = e.hour % 12
    BY <1>3, <2>2
  <2> HIDE DEF k
  <2>4. /\ h \in Half /\ h.day = e.day /\ h.hour = k /\ h.minute = e.minute
        /\ h.apm = a
    <3>1. k \in Int /\ a \in {0, 1}
      BY <2>3
    <3> QED
      BY <1>1, <3>1 DEF Half
  <2> HIDE DEF h
  <2>5. Proper(h)
    BY <2>3, <2>4 DEF Proper
  <2>6. Items(h, 31) = Showing(h)
    BY <1>1, <2>4, <2>5, ItemsAreShown
  <2>7. Showing(h) = w
    BY <1>2, <2>3, <2>4 DEF Showing
  <2> HIDE DEF w
  <2> QED
    BY <1>5, <2>1, <2>5, <2>6, <2>7
<1> QED
  BY <1>7, <1>8, <1>9, <1>10, <1>11, <1>12 DEF TurnSome

\* TurnsInStep of the sheet: a wheel turned on wheels that show the half they edit
\* sets what it then shows, for every date that exists, hour and half of the day.
THEOREM WheelsStayInStep == Spec => TurnsInStep
<1>1. EditorInv /\ [Next]_vars
        => [TurnSome /\ InStep(Edited) /\ IsDate(wheels') => InStep(Edited)']_vars
  BY TurnKeepsStep
<1> QED
  BY <1>1, EditorInvariant, PTL DEF Spec, TurnsInStep
=============================================================================
