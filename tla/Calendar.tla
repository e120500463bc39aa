------------------------------ MODULE Calendar ------------------------------
(***************************************************************************)
(* The calendar tab of the home page (lib/bloc.dart, lib/schedule,         *)
(* lib/screen/calendar_screen.dart): the day the bloc has selected, the    *)
(* day whose events are listed, the pages of months and the name of the    *)
(* month above them, which follows on a timer.  The screen is disposed of  *)
(* when its tab leaves the sight; the bloc and the timers stay.            *)
(*                                                                         *)
(* A day is the page of its month (getPageIndex) and a number.  A month    *)
(* page shows days of the months beside it as well.  Timers fire in the    *)
(* order of their deadlines; how long an animation takes is left open.     *)
(***************************************************************************)
EXTENDS Tabs, Sequences

CONSTANTS Pages,  \* the month pages (10 * 12)
          Day,    \* the days
          Today

ASSUME PageAssumption == Pages \in Nat \ {0}
ASSUME DayAssumption == Day \subseteq (-1..Pages) \X Nat /\ Today \in Day

VARIABLES session,      \* where the sign-out of the user tab is
          known,        \* the preferences hold the id of the user
          saved,        \* selectedDay of the SharedPreferences, or NoDay
          selectedDay,  \* of the bloc
          list,         \* the day whose events are listed
          page, goal,   \* the month page, and the one it is on its way to
          header,       \* the month named above
          timers,       \* those running, in the order they were started
          unmoved,      \* the page has not changed since it set out, or the
                        \* screen was built (history)
          asked,        \* the day tapped last (history)
          overtaken,    \* while an earlier tap waited for its timer (history)
          returned,     \* the list is that of the title (history)
          lingers       \* a day was selected after the preferences were cleared,
                        \* and no sign-out has run to its end since (history)

userVars == <<session, known>>
savedVars == <<saved, selectedDay, lingers>>
dayVars == <<userVars, savedVars, asked, overtaken>>
screenVars == <<list, page, goal, header, unmoved, returned>>
calendarVars == <<dayVars, screenVars, timers>>
homeVars == <<tabVars, calendarVars>>

NoDay == <<>>

PageOf(day) == day[1]

\* Wrong: pages that do not exist.
ClampedUnchecked(i) == i

\* The page an animation to i ends on.
Clamped(i) == IF i < 0 THEN 0 ELSE IF i < Pages THEN i ELSE Pages - 1

HeaderTimer(i) == [to |-> "header", page |-> i]   \* 100 ms
TapTimer(day) == [to |-> "bloc", day |-> day]     \* 500 ms

Waiting(to) == \E i \in 1..Len(timers) : timers[i].to = to

\* The screen is in sight, wholly or in part.
Built == session # "out" /\ pos["body"] \in 1..5

\* ... and hears of taps: a moving view hides them from what is in it.
InUse ==
  /\ session # "out"
  /\ pos["body"] = 3 /\ target["body"] = Still /\ ~held["body"]

\* Wrong: the day is only published.
SelectPublished(day) ==
  /\ list' = day /\ returned' = FALSE
  /\ UNCHANGED savedVars

\* The bloc handles a DayTap: stored, published, saved.
Select(day) ==
  /\ selectedDay' = day
  /\ list' = day /\ returned' = FALSE
  /\ saved' = day
  /\ lingers' = (lingers \/ ~known)

\* pageAnimatedTo but for its timer.
SetOut(i) ==
  /\ goal' = Clamped(i)
  /\ unmoved' = (goal' # page)

-----------------------------------------------------------------------------
(* The user on the calendar. *)

CalendarInput ==
  /\ InUse
  /\ Input
  /\ UNCHANGED <<pos, target, held, reported, currentPage, heldBack>>

\* A day of the month is selected at once, one of another month after the
\* calendar was sent to its page.
TapDay(day) ==
  /\ CalendarInput
  /\ goal = page
  /\ asked' = day
  /\ \/ /\ PageOf(day) = page
        /\ Select(day)
        /\ overtaken' = Waiting("bloc")
        /\ UNCHANGED <<goal, unmoved, timers>>
     \/ /\ PageOf(day) \in {page - 1, page + 1}
        /\ SetOut(PageOf(day))
        /\ timers' = timers \o <<HeaderTimer(PageOf(day)), TapTimer(day)>>
        /\ overtaken' = FALSE
        /\ UNCHANGED <<savedVars, list, returned>>
  /\ UNCHANGED <<userVars, page, header>>

\* The title is tapped: the list shows today, and the calendar goes there.
ReturnNow ==
  /\ CalendarInput
  /\ list' = Today /\ returned' = TRUE
  /\ SetOut(PageOf(Today))
  /\ timers' = Append(timers, HeaderTimer(PageOf(Today)))
  /\ UNCHANGED <<dayVars, page, header>>

\* A finger stops the moving page.
StopPage ==
  /\ CalendarInput
  /\ goal # page
  /\ goal' = page
  /\ UNCHANGED <<dayVars, list, page, header, unmoved, returned, timers>>

\* Wrong: only swipes tell the header.
PageChangeUntold(i) ==
  /\ page' = i
  /\ unmoved' = FALSE
  /\ timers' = IF goal = page THEN Append(timers, HeaderTimer(i)) ELSE timers

\* onPageChanged: the header is told after 100 ms.
PageChange(i) ==
  /\ page' = i
  /\ unmoved' = FALSE
  /\ timers' = Append(timers, HeaderTimer(i))

SwipePage ==
  /\ CalendarInput
  /\ \E i \in {page - 1, page + 1} \cap 0..(Pages - 1) : PageChange(i) /\ goal' = i
  /\ UNCHANGED <<dayVars, list, header, returned>>

-----------------------------------------------------------------------------
(* Animation, timers, tabs. *)

MovePage ==
  /\ Built
  /\ goal # page
  /\ PageChange(IF page < goal THEN page + 1 ELSE page - 1)
  /\ UNCHANGED <<tabVars, dayVars, list, goal, header, returned>>

\* The i-th timer is due: those of one delay keep their order, and what was
\* started before a tap with a shorter delay is done before it.
Due(i) ==
  \A j \in 1..(i - 1) : timers[i].to = "header" /\ timers[j].to = "bloc"

Without(i) == SubSeq(timers, 1, i - 1) \o SubSeq(timers, i + 1, Len(timers))

\* Nothing is there to animate when the screen is gone.
FireHeader(i) ==
  /\ timers[i].to = "header" /\ Due(i)
  /\ header' = IF Built THEN Clamped(timers[i].page) ELSE header
  /\ timers' = Without(i)
  /\ UNCHANGED <<tabVars, dayVars, list, page, goal, unmoved, returned>>

\* After the sign-out the bloc takes no taps.
FireTap(i) ==
  /\ timers[i].to = "bloc" /\ Due(i)
  /\ IF session = "out" THEN UNCHANGED <<savedVars, list, returned>>
                        ELSE Select(timers[i].day)
  /\ timers' = Without(i)
  /\ UNCHANGED <<tabVars, userVars, asked, overtaken, page, goal, header, unmoved>>

FireTimer == \E i \in 1..Len(timers) : FireHeader(i) \/ FireTap(i)

\* The controllers give a screen that is built again their first page.
ScreenFollows ==
  IF Built' /\ ~Built
  THEN /\ page' = Clamped(PageOf(Today)) /\ goal' = page' /\ header' = page'
       /\ list' = selectedDay /\ returned' = FALSE
       /\ unmoved' = Waiting("header")
  ELSE UNCHANGED screenVars

TabsStep ==
  /\ session # "out"
  /\ TabsNext
  /\ UNCHANGED <<dayVars, timers>>
  /\ ScreenFollows

-----------------------------------------------------------------------------
(* Leaving, and coming back. *)

\* The user tab's button: the sign-out waits for FirebaseAuth and the plugin ...
SignOut ==
  /\ session = "home"
  /\ pos["body"] = 0 /\ target["body"] = Still /\ ~held["body"]
  /\ Input
  /\ session' = "leaving"
  /\ UNCHANGED <<pos, target, held, reported, currentPage, heldBack>>
  /\ UNCHANGED <<known, savedVars, asked, overtaken, screenVars, timers>>

\* ... which may throw: the home page stays ...
SignOutFails ==
  /\ session = "leaving"
  /\ session' = "home"
  /\ UNCHANGED <<tabVars, known, savedVars, asked, overtaken, screenVars, timers>>

\* ... and for the preferences, cleared meanwhile ...
Clear ==
  /\ session = "leaving"
  /\ session' = "clearing"
  /\ known' = FALSE
  /\ saved' = NoDay
  /\ lingers' = FALSE
  /\ UNCHANGED <<tabVars, selectedDay, asked, overtaken, screenVars, timers>>

\* Wrong: the preferences are taken to be clear.
DisposeCleared ==
  /\ session = "clearing"
  /\ pos["body"] \in 0..2
  /\ session' = "out"
  /\ lingers' = FALSE
  /\ UNCHANGED <<tabVars, known, saved, selectedDay, asked, overtaken, screenVars, timers>>

\* ... and then disposes of the bloc, which removes the day, and of the home page.
Dispose ==
  /\ session = "clearing"
  /\ pos["body"] \in 0..2
  /\ session' = "out"
  /\ saved' = NoDay
  /\ lingers' = FALSE
  /\ UNCHANGED <<tabVars, known, selectedDay, asked, overtaken, screenVars, timers>>

\* The user tab has been left: the handler has no context, the home page stays.
DisposeFails ==
  /\ session = "clearing"
  /\ pos["body"] \notin 0..2
  /\ session' = "home"
  /\ UNCHANGED <<tabVars, known, savedVars, asked, overtaken, screenVars, timers>>

\* A home page is opened: its bloc selects the saved day, or today.  What the
\* timers of a bloc before would do reaches nothing.
Opens ==
  LET day == IF saved = NoDay THEN Today ELSE saved IN
  /\ pos' = [v \in View |-> 3] /\ reported' = [v \in View |-> 1]
  /\ target' = [v \in View |-> Still] /\ held' = [v \in View |-> FALSE]
  /\ currentPage' = 1 /\ heldBack' = FALSE
  /\ session' = "home"
  /\ selectedDay' = day
  /\ page' = Clamped(PageOf(Today)) /\ goal' = page' /\ header' = page'
  /\ list' = day /\ returned' = FALSE /\ unmoved' = FALSE
  /\ timers' = <<>>

\* The app is killed at any time, and with it a tap that waits for its timer,
\* and started again: a user who is known is at home ...
Restart ==
  /\ known
  /\ Input
  /\ Opens
  /\ IF Waiting("bloc") THEN asked' = selectedDay' /\ overtaken' = FALSE
                        ELSE UNCHANGED <<asked, overtaken>>
  /\ UNCHANGED <<known, saved, lingers>>

\* ... and one whose preferences were cleared finds the buttons to sign in.
RestartOut ==
  /\ ~known
  /\ Input
  /\ session' = "out"
  /\ timers' = <<>>
  /\ UNCHANGED <<pos, target, held, reported, currentPage, heldBack>>
  /\ UNCHANGED <<known, savedVars, asked, overtaken, screenVars>>

\* A user signs in or up, and the home page is pushed.
SignIn ==
  /\ session = "out"
  /\ known' = TRUE
  /\ Opens
  /\ asked' = selectedDay' /\ overtaken' = FALSE
  /\ lingers' = FALSE
  /\ UNCHANGED <<inputs, saved>>

-----------------------------------------------------------------------------

Init ==
  /\ TabsInit
  /\ session = "home" /\ known = TRUE /\ saved = NoDay /\ lingers = FALSE
  /\ selectedDay = Today /\ asked = Today /\ overtaken = FALSE
  /\ page = Clamped(PageOf(Today)) /\ goal = page /\ header = page
  /\ list = Today /\ returned = FALSE /\ unmoved = FALSE
  /\ timers = <<>>

Next ==
  \/ \E day \in Day : TapDay(day)
  \/ ReturnNow \/ StopPage \/ SwipePage \/ MovePage
  \/ FireTimer
  \/ TabsStep
  \/ SignOut \/ SignOutFails \/ Clear \/ Dispose \/ DisposeFails
  \/ Restart \/ RestartOut \/ SignIn

Spec == Init /\ [][Next]_homeVars

\* Frames are drawn, timers fire, and a finger is lifted in the end.
FairSpec ==
  /\ Spec
  /\ \A v \in View : WF_homeVars(TabsStep /\ (Animate(v) \/ Release(v)))
  /\ WF_homeVars(MovePage) /\ WF_homeVars(FireTimer)

-----------------------------------------------------------------------------
(* Properties. *)

Timer == [to : {"header"}, page : -1..Pages] \cup [to : {"bloc"}, day : Day]

\* Every variable keeps the shape the code gives it: no page that is shown or
\* named is one that does not exist.
TypeOK ==
  /\ TabsTypeOK
  /\ session \in {"home", "leaving", "clearing", "out"}
  /\ known \in BOOLEAN /\ lingers \in BOOLEAN
  /\ saved \in Day \cup {NoDay}
  /\ selectedDay \in Day /\ list \in Day /\ asked \in Day
  /\ page \in 0..(Pages - 1) /\ goal \in 0..(Pages - 1) /\ header \in 0..(Pages - 1)
  /\ timers \in Seq(Timer)
  /\ unmoved \in BOOLEAN /\ overtaken \in BOOLEAN /\ returned \in BOOLEAN

\* When all is still, the month named above the calendar (calendar_component.dart:32)
\* is the month below, through taps, swipes and animations that start on one
\* another's timers.  A page that was stopped before it changed is the exception:
\* the header has left for where the page was to go.
HeaderFollows ==
  Built /\ goal = page /\ ~Waiting("header") /\ ~unmoved => header = page

\* The day that was tapped last is the one a new event gets and, unless the title
\* was tapped since, the one the list shows (bloc.dart:92-97), after timers, other
\* tabs and kills, which find the day that was saved.  Only a tap made while that of
\* another month waits for its 500 ms is lost to it.
AskedIsSelected ==
  ~Waiting("bloc") /\ ~overtaken /\ session # "out" =>
    /\ selectedDay = asked
    /\ Built => list = IF returned THEN Today ELSE asked

\* Who signs in next is shown today, and no day of the user before
\* (bloc.dart:56-64), though a timer of that user's calendar may have saved one
\* after the preferences were cleared (bloc.dart:91-97, user_screen.dart:329): the
\* bloc removes it when it is disposed of (bloc.dart:108).  Only a sign-out that did
\* not get there, because the app was killed or the user tab left meanwhile, lets a
\* day that was selected after the clearing linger.
NextUserSeesToday ==
  [][session = "out" /\ session' = "home" /\ ~lingers => selectedDay' = Today]_homeVars

\* Nothing on the home page moves for ever: the two views of the tabs do not keep
\* answering each other, nor do the calendar and its header.
HomeSettles ==
  <>[](timers = <<>> /\ (session # "out" => TabsQuiet) /\ (Built => goal = page))
=============================================================================
