------------------------------ MODULE MonthGrid ------------------------------
(***************************************************************************)
(* The days of a month page (lib/schedule/calendar_component.dart) and the *)
(* query for the events of a day, in time zones that may have summer time. *)
(*                                                                         *)
(* A DateTime is an instant, in minutes; a day in the local calendar is a  *)
(* DayNumber.  A duration of days that is added to an instant is so many   *)
(* times 24 hours, whatever the clocks do.                                 *)
(***************************************************************************)
EXTENDS DartDate, FiniteSets

CONSTANTS Zone,      \* [offset |-> minutes, summer |-> {[from |-> t, to |-> t]}]
          Today,
          MaxLength  \* bound: an event goes on for so many days

ASSUME OffsetAssumption == \A z \in Zone : z.offset \in -720..840
ASSUME ChangesAssumption ==
  \A z \in Zone : \A s \in z.summer : s.from \in Int /\ s.to \in Int

\* Summer times are longer than the weeks of a page, and so are the winters between:
\* zones where they pause for a month of fasting are not modelled.
SevenWeeks == 49 * 1440

ASSUME SummerAssumption ==
  \A z \in Zone : \A s \in z.summer : s.from + SevenWeeks < s.to
ASSUME WinterAssumption ==
  \A z \in Zone : \A r, s \in z.summer :
    r = s \/ r.to + SevenWeeks < s.from \/ s.to + SevenWeeks < r.from

ASSUME LengthAssumption == MaxLength \in Nat
ASSUME TodayAssumption == Today \in Int /\ YearOf(Today) \in 2015..2024

VARIABLES zone,         \* of the device
          page,         \* the month page
          selectedDay,  \* of the bloc
          event         \* the document added, or NoEvent

gridVars == <<zone, page, selectedDay, event>>

-----------------------------------------------------------------------------
(* DateTime. *)

Shift(z, t) ==
  IF \E s \in z.summer : s.from <= t /\ t < s.to THEN z.offset + 60 ELSE z.offset

DateOf(z, t) == DayAt(t + Shift(z, t))

\* DateTime(y, m, d): the instant the day n begins.
Midnight(z, n) ==
  LET winter == Moment(n, 0, 0) - z.offset
  IN  IF Shift(z, winter - 60) = z.offset THEN winter ELSE winter - 60

-----------------------------------------------------------------------------
(* The page of a month. *)

FirstYear == 2015

YearAt(p) == FirstYear + (p \div 12)
MonthAt(p) == (p % 12) + 1

\* indexOf: -1 if the year is not listed.
YearIndex(y) == IF y \in FirstYear..(FirstYear + 10) THEN y - FirstYear ELSE -1

\* Wrong: a month is its number.
PageIndexByMonth(n) == YearIndex(YearOf(n)) * 12 + MonthOf(n)

GetPageIndex(n) == YearIndex(YearOf(n)) * 12 + (MonthOf(n) - 1)

FirstOf(p) == DayNumber(YearAt(p), MonthAt(p), 1)
LastOf(p) == DayNumber(YearAt(p), MonthAt(p) + 1, 0)

CalStart(z, p) == Midnight(z, FirstOf(p)) - 1440 * (Weekday(FirstOf(p)) - 1)
CalEnd(z, p) == Midnight(z, LastOf(p)) + 1440 * (7 - Weekday(LastOf(p)))

\* Wrong: the last day is missed.
CellCountShort(z, p) == (CalEnd(z, p) - CalStart(z, p)) \div 1440

CellCount(z, p) == (CalEnd(z, p) - CalStart(z, p)) \div 1440 + 1

Cell(z, p, i) == CalStart(z, p) + 1440 * i

NotInCal(z, p, t) == t < Midnight(z, FirstOf(p)) \/ t > Midnight(z, LastOf(p))

\* An event of the days m to n made in the zone z (EventModal, addEvent).
StoredEvent(z, m, n) == [startDate |-> Midnight(z, m), endDate |-> Midnight(z, n)]

\* Wrong: the last day of an event is not one of its days.
ListedBeforeEnd(e, t) == e.startDate <= t /\ e.endDate > t

\* The event is one of the selected day t.
Listed(e, t) == e.startDate <= t /\ e.endDate >= t

-----------------------------------------------------------------------------
(* The user: swipes, taps a day, adds an event (bound: once each, in this order). *)

NoEvent == [startDate |-> 0, endDate |-> -1]

Untouched == selectedDay = Midnight(zone, Today) /\ event = NoEvent

Pages == 0..119

Swipe ==
  /\ Untouched
  /\ page' \in {page - 1, page + 1} \cap Pages
  /\ UNCHANGED <<zone, selectedDay, event>>

\* A grey day sends the calendar to its month, or to the end it is past.
TapDay ==
  /\ Untouched
  /\ \E i \in 0..(CellCount(zone, page) - 1) :
       LET t == Cell(zone, page, i)
           p == GetPageIndex(DateOf(zone, t))
       IN  /\ selectedDay' = t
           /\ page' = IF ~NotInCal(zone, page, t) THEN page
                      ELSE IF p < 0 THEN 0 ELSE IF p > 119 THEN 119 ELSE p
  /\ UNCHANGED <<zone, event>>

AddEvent ==
  /\ event = NoEvent
  /\ \E length \in 0..MaxLength :
       LET n == DateOf(zone, selectedDay) IN event' = StoredEvent(zone, n, n + length)
  /\ UNCHANGED <<zone, page, selectedDay>>

Init ==
  /\ zone \in Zone
  /\ page = GetPageIndex(Today)
  /\ selectedDay = Midnight(zone, Today)
  /\ event = NoEvent

Next == Swipe \/ TapDay \/ AddEvent

Spec == Init /\ [][Next]_gridVars

-----------------------------------------------------------------------------
(* Properties. *)

\* The months by rote.
MonthLength(y, m) ==
  IF m \in {4, 6, 9, 11} THEN 30
  ELSE IF m # 2 THEN 31
  ELSE IF y % 4 = 0 /\ (y % 100 # 0 \/ y % 400 = 0) THEN 29 ELSE 28

\* No change of the clocks in the weeks of the page, the first midnight included.
ClocksStay ==
  Shift(zone, CalStart(zone, page) - 60) = Shift(zone, CalEnd(zone, page))

\* The page shows whole weeks, from a Monday to a Sunday, midnight after midnight, and
\* of these the days of its month are not grey (calendar_component.dart:118-157), all
\* of them: as long as the clocks are not changed in these weeks.  Otherwise cells are
\* an hour off, so that days repeat or are missed.
GridShowsWeeks ==
  ClocksStay /\ event = NoEvent =>
    LET cells == 0..(CellCount(zone, page) - 1)
        Date(i) == DateOf(zone, Cell(zone, page, i))
        black == {i \in cells : ~NotInCal(zone, page, Cell(zone, page, i))}
    IN  /\ Weekday(Date(0)) = 1 /\ Weekday(Date(CellCount(zone, page) - 1)) = 7
        /\ \A i \in cells : Cell(zone, page, i) = Midnight(zone, Date(0) + i)
        /\ \A i \in black :
             YearOf(Date(i)) = YearAt(page) /\ MonthOf(Date(i)) = MonthAt(page)
        /\ Cardinality(black) = MonthLength(YearAt(page), MonthAt(page))

\* A tap on a day leads to the page of its month (calendar_component.dart:224), at most
\* one page away, or stays if that is past the end: what Calendar takes for granted of
\* its days.
GreyDaysLeadNextDoor ==
  [][ClocksStay /\ selectedDay' # selectedDay =>
       LET n == DateOf(zone, selectedDay')
       IN  /\ page' \in page - 1..page + 1
           /\ \/ YearAt(page') = YearOf(n) /\ MonthAt(page') = MonthOf(n)
              \/ page' = page /\ page \in {0, 119}]_gridVars

\* The days from m to n begin 24 hours after one another.
EvenDays(z, m, n) == \A k \in m..n : Midnight(z, k) = Midnight(z, m) + 1440 * (k - m)

\* An event is listed on the day that was tapped for it, if that is a midnight, and on
\* its days, clocks changed or not, for whoever shares it in the zone it was made in
\* (event_view.dart:59-60).  For a guest in another zone it is listed on one day less
\* at the most, so that an event of a day may be on none, or on two less if the clocks
\* of one of them change in the meantime.
EventOnItsDays ==
  event # NoEvent =>
    LET first == DateOf(zone, event.startDate)
        last == DateOf(zone, event.endDate)
        Days(z) == {n \in (first - 1)..(last + 1) : Listed(event, Midnight(z, n))}
        Missed(z) == last - first + 1 - Cardinality(Days(z))
    IN  /\ selectedDay = Midnight(zone, DateOf(zone, selectedDay))
             => Listed(event, selectedDay)
        /\ Days(zone) = first..last
        /\ \A z \in Zone :
             /\ Missed(z) <= 2
             /\ EvenDays(zone, first, last) /\ EvenDays(z, first - 2, last + 1)
                  => Missed(z) <= 1
=============================================================================
