----------------------------- MODULE EventEditor -----------------------------
(***************************************************************************)
(* The new-event sheet (lib/event/event_new.dart) over its EventModal      *)
(* (lib/event/event_modal.dart): two moments, start and end, each kept as  *)
(* a date, a time of day and an AM/PM flag, one set of wheels that edits   *)
(* one of them at a time, and the validation of the Add button.            *)
(*                                                                         *)
(* The wheels are widgets with a state of their own: turning one sets a    *)
(* part of the event, and opening the picker builds or moves all of them.  *)
(***************************************************************************)
EXTENDS DartDate

CONSTANTS Day,     \* days that may be selected in the calendar
          Clock,   \* <<hour, minute>> at which the sheet may be opened
          Years,   \* indices into yearlist that the year wheel is turned to,
          Months,  \* ... and those of the other wheels
          Dates,
          Hours,
          Minutes

ASSUME DayAssumption == Day \subseteq Int
ASSUME ClockAssumption == Clock \subseteq (0..23) \X (0..59)
ASSUME WheelAssumption ==
  /\ Years \subseteq 0..10
  /\ Months \subseteq 0..11
  /\ Dates \subseteq 0..30
  /\ Hours \subseteq 0..11
  /\ Minutes \subseteq 0..59

VARIABLES start,    \* startDate, startTime and startapm of the event
          end,      \* endDate, endTime and endapm
          titled,   \* the title is not empty
          allday,
          picking,  \* startFlag, endFlag: what the wheels edit
          wheels,   \* the items the wheels show
          dayCount, \* items of the day wheel
          saved     \* the event document that was added, none before

vars == <<start, end, titled, allday, picking, wheels, dayCount, saved>>

Half == [day : Int, hour : Int, minute : Int, apm : {0, 1}]

Wheels == [year : Int, month : Int, date : Int, hour : Int, minute : Int, apm : Int]

None == [none |-> TRUE]

\* yearlist is 2015 to 2025.
YearItem(y) == IF y \in 2015..2025 THEN y - 2015 ELSE -1

\* getStartandEnd: the moment a half stands for.
At(half) == Moment(half.day, half.hour, half.minute)

\* A half made of a moment, as endUpdate and startUpdate make it.
HalfAt(t) ==
  [day |-> DayAt(t), hour |-> HourAt(t), minute |-> MinuteAt(t),
   apm |-> IF HourAt(t) < 12 THEN 0 ELSE 1]

\* The items that stand for a half; the day wheel is a loop of dayCount items.
Items(half, count) ==
  LET t == At(half)
  IN  [year |-> YearItem(YearOf(DayAt(t))), month |-> MonthOf(DayAt(t)) - 1,
       date |-> (DayOf(DayAt(t)) - 1) % count,
       hour |-> HourAt(t) % 12, minute |-> MinuteAt(t),
       apm |-> IF HourAt(t) < 12 THEN 0 ELSE 1]

\* Wrong: the hour after 23 has no half of the day.
NewHalfByDivision(day, hour, minute) ==
  [day |-> day, hour |-> hour, minute |-> minute, apm |-> hour \div 12]

\* The start of a new event on a day, by the clock; its end has the same day and
\* the next hour, which is 24 after 23.
NewHalf(day, hour, minute) ==
  [day |-> day, hour |-> hour, minute |-> minute, apm |-> IF hour < 12 THEN 0 ELSE 1]

Init ==
  \E day \in Day, clock \in Clock :
    /\ start = NewHalf(day, clock[1], clock[2])
    /\ end = NewHalf(day, clock[1] + 1, clock[2])
    /\ dayCount = DaysInMonth(YearOf(day), MonthOf(day))
    /\ wheels = Items(NewHalf(day, clock[1] + 1, clock[2]),
                      DaysInMonth(YearOf(day), MonthOf(day)))
    /\ titled = FALSE
    /\ allday = FALSE
    /\ picking = "none"
    /\ saved = None

-----------------------------------------------------------------------------
(* Opening and closing the picker. *)

\* Wrong: an hour is not added.
EndUpdateToStart == IF At(start) < At(end) THEN end ELSE HalfAt(At(start))

\* endUpdate, startUpdate: the half just tapped gives way to the other.
EndUpdate == IF At(start) < At(end) THEN end ELSE HalfAt(At(start) + 60)

StartUpdate == IF At(start) < At(end) THEN start ELSE HalfAt(At(end) - 60)

\* Wrong: wheels that are on the screen stay.
ShownUnmoved(half, updated) ==
  IF picking = "none" THEN Items(half, dayCount) ELSE wheels

\* Wheels that are on the screen jump to the updated half (pickerAnimate); wheels
\* that are not are built before the update (initController), and the jump has
\* nothing to move.
Shown(half, updated) ==
  Items(IF picking = "none" THEN half ELSE updated, dayCount)

\* A tap on the start.
StartTrigger ==
  /\ saved = None
  /\ start' = StartUpdate
  /\ wheels' = Shown(start, StartUpdate)
  /\ picking' = "start"
  /\ UNCHANGED <<end, titled, allday, dayCount, saved>>

\* A tap on the end.
EndTrigger ==
  /\ saved = None
  /\ end' = EndUpdate
  /\ wheels' = Shown(end, EndUpdate)
  /\ picking' = "end"
  /\ UNCHANGED <<start, titled, allday, dayCount, saved>>

\* The Confirm button.
PickerTrigger ==
  /\ saved = None
  /\ picking # "none"
  /\ picking' = "none"
  /\ UNCHANGED <<start, end, titled, allday, wheels, dayCount, saved>>

-----------------------------------------------------------------------------
(* Turning a wheel. *)

\* A wheel now shows other items, and the half that is edited becomes h.
Turn(h, items) ==
  /\ saved = None
  /\ picking # "none"
  /\ items # wheels
  /\ wheels' = items
  /\ IF picking = "start" THEN start' = h /\ end' = end ELSE end' = h /\ start' = start
  /\ UNCHANGED <<titled, allday, picking, dayCount, saved>>

Edited == IF picking = "start" THEN start ELSE end

\* startYear, startMonth, startDay and the same of end: the DateTime of a day
\* that its month does not have is a day of the next month.
TurnYear(i) ==
  Turn([Edited EXCEPT !.day = DayNumber(2015 + i, MonthOf(@), DayOf(@))],
       [wheels EXCEPT !.year = i])

TurnMonth(i) ==
  Turn([Edited EXCEPT !.day = DayNumber(YearOf(@), i + 1, DayOf(@))],
       [wheels EXCEPT !.month = i])

TurnDate(i) ==
  /\ i < dayCount
  /\ Turn([Edited EXCEPT !.day = DayNumber(YearOf(@), MonthOf(@), i + 1)],
          [wheels EXCEPT !.date = i])

\* The time wheels are only there when the event does not last all day.
\* Wrong: the flag is forgotten.
TurnHourForgettingApm(i) ==
  /\ ~allday
  /\ Turn([Edited EXCEPT !.hour = i], [wheels EXCEPT !.hour = i])

TurnHour(i) ==
  /\ ~allday
  /\ Turn([Edited EXCEPT !.hour = i + 12 * Edited.apm], [wheels EXCEPT !.hour = i])

TurnMinute(i) ==
  /\ ~allday
  /\ Turn([Edited EXCEPT !.minute = i], [wheels EXCEPT !.minute = i])

TurnAPM(a) ==
  /\ ~allday
  /\ Turn([Edited EXCEPT !.apm = a, !.hour = IF a = 0 THEN @ - 12 ELSE @ + 12],
          [wheels EXCEPT !.apm = a])

-----------------------------------------------------------------------------
(* The other fields, and the Add button. *)

SetTitle ==
  /\ saved = None
  /\ titled' = ~titled
  /\ UNCHANGED <<start, end, allday, picking, wheels, dayCount, saved>>

\* The switch is ignored while the picker is open.
SetAllday ==
  /\ saved = None
  /\ picking = "none"
  /\ allday' = ~allday
  /\ UNCHANGED <<start, end, titled, picking, wheels, dayCount, saved>>

\* The event passes the validation and is added; an event that does not pass
\* leaves everything as it is.
AddEvent ==
  /\ saved = None
  /\ titled
  /\ At(start) <= At(end)
  /\ saved' = [start |-> At(start), startDate |-> start.day,
               end |-> At(end), endDate |-> end.day]
  /\ UNCHANGED <<start, end, titled, allday, picking, wheels, dayCount>>

TurnSome ==
  \/ \E i \in Years : TurnYear(i)
  \/ \E i \in Months : TurnMonth(i)
  \/ \E i \in Dates : TurnDate(i)
  \/ \E i \in Hours : TurnHour(i)
  \/ \E i \in Minutes : TurnMinute(i)
  \/ \E a \in {0, 1} : TurnAPM(a)

Next ==
  \/ StartTrigger
  \/ EndTrigger
  \/ PickerTrigger
  \/ TurnSome
  \/ SetTitle
  \/ SetAllday
  \/ AddEvent

Spec == Init /\ [][Next]_vars

-----------------------------------------------------------------------------
(* Properties. *)

Document == [start : Int, startDate : Int, end : Int, endDate : Int]

EventOK ==
  /\ start \in Half
  /\ end \in Half
  /\ titled \in BOOLEAN
  /\ allday \in BOOLEAN
  /\ picking \in {"none", "start", "end"}

\* Every variable has its type: the hours are integers and not 0..23, the flags
\* are AM or PM even after the last hour of the day.
TypeOK ==
  /\ EventOK
  /\ wheels \in Wheels
  /\ dayCount \in Int
  /\ saved \in Document \cup {None}

\* A tap on the start or the end leaves an event that starts before it ends,
\* whatever was picked before: across noon, midnight, months and years, and from
\* hours no clock has.
TriggerOrders ==
  [][StartTrigger \/ EndTrigger => At(start') < At(end')]_vars

\* A half that a clock could show, with the flag of its half of the day.
Proper(half) == half.hour \in 0..23 /\ half.apm = half.hour \div 12

\* The wheels show the half they edit, as wheels with every day would.
InStep(half) == Proper(half) /\ wheels = Items(half, 31)

\* The wheels show a date that exists.
IsDate(w) == w.date < DaysInMonth(2015 + w.year, w.month + 1)

\* A wheel turned on wheels that show the event sets what it shows: the wheels
\* and the event only part when the date they show does not exist.
TurnsInStep ==
  [][TurnSome /\ InStep(Edited) /\ IsDate(wheels') => InStep(Edited)']_vars

\* The picker opens on what it edits, and follows when it changes from start to
\* end, if the event was in order and the day wheel has the day.
OpensInStep ==
  [][StartTrigger \/ EndTrigger =>
       (Proper(Edited') /\ At(start) < At(end) /\ DayOf(Edited'.day) <= dayCount
          => InStep(Edited)')]_vars

\* The error "Start date cannot be later than end date" of event_new.dart: no
\* event is added whose start date is later than its end date.  The day list and
\* the grid look for events between the two.
AddedDatesInOrder ==
  saved # None => saved.startDate <= saved.endDate
=============================================================================
