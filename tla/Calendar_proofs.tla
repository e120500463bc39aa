--------------------------- MODULE Calendar_proofs ---------------------------
(***************************************************************************)
(* Proofs about the tabs and the calendar, for every number of months, set *)
(* of days and number of inputs.                                           *)
(***************************************************************************)
EXTENDS Calendar, SequenceTheorems, TLAPS

-----------------------------------------------------------------------------
(* The tabs: every view that was not stopped lies nearest to the current   *)
(* page or is on its way there.                                            *)

Bound(v) == reported[v] = currentPage \/ target[v] = currentPage

TabsInv ==
  /\ TabsTypeOK
  /\ \A v \in View :
       /\ reported[v] = Nearest(pos[v])
       /\ target[v] = Still /\ ~held[v] => pos[v] = 3 * reported[v]
       /\ target[v] # Still => ~held[v] /\ pos[v] # 3 * target[v]
       /\ ~heldBack => Bound(v)

\* The nearest page is one of the three, and a view at a page is nearest to it.
LEMMA NearestPage ==
  /\ \A p \in 0..6 : Nearest(p) \in 0..2
  /\ \A i \in 0..2 : Nearest(3 * i) = i
BY DEF Nearest

\* Reporting a page change keeps the invariant, wherever the view v has moved
\* and whatever it aims at if it has not come nearer to another page.
LEMMA OnPageChangedKeeps ==
  ASSUME TabsInv, NEW v \in View, NEW s \in {Still} \cup 0..2,
         pos' \in [View -> 0..6],
         \A w \in View \ {v} : pos'[w] = pos[w],
         target[v] # Still => s = Towards(pos'[v], target[v]),
         target[v] = Still => held[v] /\ s = Still,
         OnPageChanged(v, s),
         UNCHANGED inputs
  PROVE  TabsInv'
<1> DEFINE i == Nearest(pos'[v])
<1>1. i \in 0..2
  BY NearestPage
<1>2. CASE i # reported[v]
  <2>1. /\ reported' = [reported EXCEPT ![v] = i]
        /\ target' = [w \in View |-> Towards(pos'[w], i)]
        /\ held' = [w \in View |-> FALSE]
        /\ currentPage' = i
        /\ heldBack' = FALSE
    BY <1>2 DEF OnPageChanged, PageAnimateTo
  <2>2. TabsTypeOK'
    BY <1>1, <2>1 DEF TabsInv, TabsTypeOK, Towards
  <2>3. \A w \in View : reported'[w] = Nearest(pos'[w])
    BY <2>1 DEF TabsInv, TabsTypeOK
  <2>4. \A w \in View : target'[w] = Still => pos'[w] = 3 * i
    BY <1>1, <2>1 DEF Towards, Still
  <2>5. \A w \in View : target'[w] # Still => target'[w] = i /\ pos'[w] # 3 * i
    BY <2>1 DEF Towards
  <2>6. \A w \in View : target'[w] = Still => reported'[w] = i
    BY <1>1, <2>3, <2>4, NearestPage
  <2> QED
    BY <2>1, <2>2, <2>3, <2>4, <2>5, <2>6 DEF TabsInv, Bound
<1>3. CASE i = reported[v]
  <2>1. /\ target' = [target EXCEPT ![v] = s]
        /\ UNCHANGED <<reported, held, currentPage, heldBack>>
    BY <1>3 DEF OnPageChanged
  <2>2. TabsTypeOK'
    BY <2>1 DEF TabsInv, TabsTypeOK
  <2>3. \A w \in View \ {v} : target'[w] = target[w] /\ pos'[w] = pos[w]
    BY <2>1 DEF TabsInv, TabsTypeOK
  <2>4. target'[v] = s
    BY <2>1 DEF TabsInv, TabsTypeOK
  <2>5. s = Still /\ target[v] # Still => pos'[v] = 3 * target[v] /\ i = target[v]
    BY NearestPage DEF Towards, Still, TabsInv, TabsTypeOK
  <2>6. s # Still => s = target[v] /\ pos'[v] # 3 * s
    BY DEF Towards
  <2> QED
    BY <1>3, <2>1, <2>2, <2>3, <2>4, <2>5, <2>6 DEF TabsInv, Bound
<1> QED
  BY <1>2, <1>3

LEMMA TabsStart == TabsInit => TabsInv
<1> SUFFICES ASSUME TabsInit PROVE TabsInv
  OBVIOUS
<1>1. TabsTypeOK
  <2>1. held \in [View -> BOOLEAN] /\ heldBack \in BOOLEAN
    BY Zenon DEF TabsInit
  <2>2. /\ pos \in [View -> 0..6] /\ target \in [View -> {Still} \cup 0..2]
        /\ reported \in [View -> 0..2] /\ currentPage \in 0..2 /\ inputs \in 0..MaxInputs
    BY InputAssumption DEF TabsInit
  <2> QED
    BY <2>1, <2>2 DEF TabsTypeOK
<1>2. \A v \in View : pos[v] = 3 /\ target[v] = Still /\ reported[v] = 1 /\ ~held[v]
  BY DEF TabsInit
<1> QED
  BY <1>1, <1>2 DEF TabsInv, TabsInit, Bound, Nearest

LEMMA Counted ==
  ASSUME inputs \in 0..MaxInputs, Input
  PROVE  inputs' \in 0..MaxInputs
BY InputAssumption DEF Input

LEMMA TabsNextKeeps ==
  ASSUME TabsInv, TabsNext
  PROVE  TabsInv'
<1>1. ASSUME NEW v \in View, Animate(v) PROVE TabsInv'
  <2>1. pos' \in [View -> 0..6] /\ \A w \in View \ {v} : pos'[w] = pos[w]
    BY <1>1 DEF Animate, TabsInv, TabsTypeOK, Still
  <2>2. Towards(pos'[v], target[v]) \in {Still} \cup 0..2
    BY <1>1 DEF Animate, Towards, TabsInv, TabsTypeOK
  <2> QED
    BY <1>1, <2>1, <2>2, OnPageChangedKeeps DEF Animate
<1>2. ASSUME NEW v \in View, Release(v) PROVE TabsInv'
  <2>1. PICK i \in {pos[v] \div 3, (pos[v] + 2) \div 3} :
          target' = [target EXCEPT ![v] = Towards(pos[v], i)]
    BY <1>2 DEF Release
  <2>2. i \in 0..2
    BY <2>1 DEF TabsInv, TabsTypeOK
  <2>3. target[v] = Still
    BY <1>2 DEF Release, TabsInv
  <2>4. target'[v] = Still => pos[v] = 3 * reported[v]
    BY <2>1, <2>2, NearestPage DEF Towards, Still, TabsInv, TabsTypeOK
  <2>5. target'[v] # Still => pos[v] # 3 * target'[v]
    BY <2>1 DEF Towards, TabsInv, TabsTypeOK
  <2>6. reported[v] = currentPage \/ heldBack
    BY <2>2, <2>3 DEF Still, TabsInv, TabsTypeOK, Bound
  <2>7. TabsTypeOK'
    BY <1>2, <2>1, <2>2 DEF Release, Towards, TabsInv, TabsTypeOK
  <2> QED
    BY <1>2, <2>1, <2>4, <2>5, <2>6, <2>7 DEF Release, TabsInv, TabsTypeOK, Bound
<1>3. ASSUME NEW i \in 0..2, TapTab(i) PROVE TabsInv'
  <2>1. /\ target' = [w \in View |-> Towards(pos[w], i)]
        /\ held' = [w \in View |-> FALSE]
        /\ currentPage' = i /\ heldBack' = FALSE
        /\ UNCHANGED <<pos, reported>>
    BY <1>3 DEF TapTab, PageAnimateTo
  <2>0. inputs' \in 0..MaxInputs
    BY <1>3, Counted DEF TapTab, TabsInv, TabsTypeOK
  <2>2. TabsTypeOK'
    BY <2>1, <2>0 DEF Towards, TabsInv, TabsTypeOK
  <2>3. \A w \in View : target'[w] = Still => pos[w] = 3 * i /\ reported[w] = i
    BY <2>1, NearestPage DEF Towards, Still, TabsInv
  <2>4. \A w \in View : target'[w] # Still => target'[w] = i /\ pos[w] # 3 * i
    BY <2>1 DEF Towards
  <2> QED
    BY <2>1, <2>2, <2>3, <2>4 DEF TabsInv, Bound
<1>4. ASSUME NEW v \in View, Touch(v) PROVE TabsInv'
  <2>0. inputs' \in 0..MaxInputs
    BY <1>4, Counted DEF Touch, TabsInv, TabsTypeOK
  <2>1. TabsTypeOK'
    BY <1>4, <2>0 DEF Touch, TabsInv, TabsTypeOK
  <2>2. ~heldBack' => ~heldBack /\ target[v] = Still
    BY <1>4, Zenon DEF Touch
  <2>3. ~heldBack' => reported[v] = currentPage
    BY <2>2 DEF TabsInv, TabsTypeOK, Bound, Still
  <2> QED
    BY <1>4, <2>1, <2>2, <2>3 DEF Touch, TabsInv, TabsTypeOK, Bound
<1>5. ASSUME NEW v \in View, Drag(v) PROVE TabsInv'
  <2>1. pos' \in [View -> 0..6] /\ \A w \in View \ {v} : pos'[w] = pos[w]
    BY <1>5 DEF Drag, TabsInv, TabsTypeOK
  <2>2. target[v] = Still
    BY <1>5 DEF Drag, TabsInv
  <2> QED
    BY <1>5, <2>1, <2>2, OnPageChangedKeeps DEF Drag
<1> QED
  BY <1>1, <1>2, <1>3, <1>4, <1>5 DEF TabsNext, TabsMove

LEMMA TabsInputKeeps ==
  ASSUME TabsInv, UNCHANGED <<pos, target, held, reported, currentPage, heldBack>>,
         UNCHANGED inputs \/ Input
  PROVE  TabsInv'
<1>1. inputs' \in 0..MaxInputs
  BY Counted DEF TabsInv, TabsTypeOK
<1> QED
  BY <1>1 DEF TabsInv, TabsTypeOK, Bound

LEMMA TabsRest == TabsInv => TabsAgree
BY DEF TabsInv, TabsAgree, TabsQuiet, Bound, TabsTypeOK, Still

-----------------------------------------------------------------------------
(* The timers: what is left when one fires, or was there before one starts. *)

LastOf(i, to) ==
  /\ i \in 1..Len(timers)
  /\ timers[i].to = to
  /\ \A j \in (i + 1)..Len(timers) : timers[j].to # to

LEMMA WithoutTimer ==
  ASSUME timers \in Seq(Timer), NEW i \in 1..Len(timers)
  PROVE  /\ Without(i) \in Seq(Timer)
         /\ Len(Without(i)) = Len(timers) - 1
         /\ \A j \in 1..(i - 1) : Without(i)[j] = timers[j]
         /\ \A j \in i..(Len(timers) - 1) : Without(i)[j] = timers[j + 1]
<1> DEFINE a == SubSeq(timers, 1, i - 1)
           b == SubSeq(timers, i + 1, Len(timers))
<1>1. Len(timers) \in Nat /\ \A j \in 1..Len(timers) : timers[j] \in Timer
  OBVIOUS
<1>2. a \in Seq(Timer) /\ Len(a) = i - 1 /\ \A j \in 1..(i - 1) : a[j] = timers[j]
  BY <1>1, SubSeqProperties
<1>3. /\ b \in Seq(Timer) /\ Len(b) = Len(timers) - i
      /\ \A j \in 1..(Len(timers) - i) : b[j] = timers[i + j]
  BY <1>1, SubSeqProperties
<1>4. Without(i) = a \o b
  BY DEF Without
<1> HIDE DEF a, b
<1>5. Without(i) \in Seq(Timer) /\ Len(Without(i)) = Len(timers) - 1
  BY <1>1, <1>2, <1>3, <1>4
<1>6. \A j \in 1..(i - 1) : Without(i)[j] = timers[j]
  BY <1>1, <1>2, <1>3, <1>4
<1>7. ASSUME NEW j \in i..(Len(timers) - 1) PROVE Without(i)[j] = timers[j + 1]
  <2>1. j - (i - 1) \in 1..(Len(timers) - i) /\ i + (j - (i - 1)) = j + 1
    BY <1>1
  <2>2. Without(i)[j] = b[j - (i - 1)]
    BY <1>1, <1>2, <1>3, <1>4, <2>1
  <2> QED
    BY <1>3, <2>1, <2>2
<1> QED
  BY <1>5, <1>6, <1>7

\* The last timer of a kind that is left was the last one before.
LEMMA Fired ==
  ASSUME timers \in Seq(Timer), NEW i \in 1..Len(timers), Due(i),
         timers' = Without(i), NEW to \in {"header", "bloc"}
  PROVE  /\ timers' \in Seq(Timer)
         /\ \A k : LastOf(k, to)' => \E l : LastOf(l, to) /\ timers'[k] = timers[l]
         /\ ~Waiting(to)' => IF timers[i].to = to THEN LastOf(i, to) ELSE ~Waiting(to)
<1>1. /\ timers' \in Seq(Timer)
      /\ Len(timers') = Len(timers) - 1
      /\ \A j \in 1..(i - 1) : timers'[j] = timers[j]
      /\ \A j \in i..(Len(timers) - 1) : timers'[j] = timers[j + 1]
  BY WithoutTimer
<1>2. Len(timers) \in Nat
  OBVIOUS
<1>3. \A j \in 1..(i - 1) : timers[i].to = "header" /\ timers[j].to = "bloc"
  BY DEF Due
<1>4. ASSUME NEW k, LastOf(k, to)' PROVE \E l : LastOf(l, to) /\ timers'[k] = timers[l]
  <2>1. /\ k \in 1..(Len(timers) - 1)
        /\ timers'[k].to = to
        /\ \A j \in (k + 1)..(Len(timers) - 1) : timers'[j].to # to
    BY <1>1, <1>4 DEF LastOf
  <2>2. CASE k < i
    <3>1. timers[k].to = to /\ timers[i].to # to
      BY <1>1, <1>2, <1>3, <2>1, <2>2
    <3>2. ASSUME NEW j \in (k + 1)..Len(timers) PROVE timers[j].to # to
      <4>1. CASE j < i
        BY <1>1, <1>2, <2>1, <2>2, <4>1
      <4>2. CASE j = i
        BY <3>1, <4>2
      <4>3. CASE j > i
        <5>1. j - 1 \in i..(Len(timers) - 1) /\ j - 1 \in (k + 1)..(Len(timers) - 1)
          BY <1>2, <2>1, <2>2, <4>3
        <5>2. timers'[j - 1] = timers[j - 1 + 1]
          BY <1>1, <5>1
        <5> QED
          BY <1>2, <2>1, <5>1, <5>2
      <4> QED
        BY <4>1, <4>2, <4>3, <1>2, <2>1
    <3>3. k \in 1..Len(timers)
      BY <1>2, <2>1
    <3>4. LastOf(k, to)
      BY <3>1, <3>2, <3>3 DEF LastOf
    <3>5. timers'[k] = timers[k]
      BY <1>1, <1>2, <2>1, <2>2
    <3> QED
      BY <3>4, <3>5
  <2>3. CASE k >= i
    <3>1. timers'[k] = timers[k + 1]
      BY <1>1, <1>2, <2>1, <2>3
    <3>2. ASSUME NEW j \in (k + 2)..Len(timers) PROVE timers[j].to # to
      <4>1. j - 1 \in i..(Len(timers) - 1) /\ j - 1 \in (k + 1)..(Len(timers) - 1)
        BY <1>2, <2>1, <2>3
      <4>2. timers'[j - 1] = timers[j - 1 + 1]
        BY <1>1, <4>1
      <4> QED
        BY <1>2, <2>1, <4>1, <4>2
    <3>3. LastOf(k + 1, to)
      BY <1>2, <2>1, <3>1, <3>2 DEF LastOf
    <3> QED
      BY <3>1, <3>3
  <2> QED
    BY <1>2, <2>1, <2>2, <2>3
<1>5. ASSUME ~Waiting(to)', NEW j \in 1..Len(timers), j # i PROVE timers[j].to # to
  <2>1. \A k \in 1..(Len(timers) - 1) : timers'[k].to # to
    BY <1>1, <1>5 DEF Waiting
  <2>2. CASE j < i
    BY <1>1, <1>2, <2>1, <2>2
  <2>3. CASE j > i
    <3>1. j - 1 \in i..(Len(timers) - 1)
      BY <1>2, <2>3
    <3>2. timers'[j - 1] = timers[j - 1 + 1]
      BY <1>1, <3>1
    <3> QED
      BY <1>2, <2>1, <3>1, <3>2
  <2> QED
    BY <1>2, <1>5, <2>2, <2>3
<1>6. ~Waiting(to)' => IF timers[i].to = to THEN LastOf(i, to) ELSE ~Waiting(to)
  BY <1>2, <1>5 DEF LastOf, Waiting
<1> QED
  BY <1>1, <1>4, <1>6

\* A timer that starts is the last of its kind, and changes nothing for the other.
LEMMA Started ==
  ASSUME timers \in Seq(Timer), NEW x \in Timer,
         timers' = Append(timers, x), NEW to \in {"header", "bloc"}
  PROVE  /\ timers' \in Seq(Timer)
         /\ x.to = to => Waiting(to)' /\ \A k : LastOf(k, to)' => timers'[k] = x
         /\ x.to # to => /\ Waiting(to)' = Waiting(to)
                         /\ \A k : LastOf(k, to)' => LastOf(k, to) /\ timers'[k] = timers[k]
<1>1. /\ timers' \in Seq(Timer)
      /\ Len(timers') = Len(timers) + 1 /\ Len(timers) \in Nat
      /\ timers'[Len(timers) + 1] = x
      /\ \A j \in 1..Len(timers) : timers'[j] = timers[j]
  OBVIOUS
<1>2. ASSUME x.to = to PROVE Waiting(to)' /\ \A k : LastOf(k, to)' => timers'[k] = x
  <2>1. Waiting(to)'
    BY <1>1, <1>2 DEF Waiting
  <2>2. ASSUME NEW k, LastOf(k, to)' PROVE timers'[k] = x
    BY <1>1, <1>2, <2>2 DEF LastOf
  <2> QED
    BY <2>1, <2>2
<1>3. ASSUME x.to # to
      PROVE  /\ Waiting(to)' <=> Waiting(to)
             /\ \A k : LastOf(k, to)' => LastOf(k, to) /\ timers'[k] = timers[k]
  <2>1. Waiting(to)' <=> Waiting(to)
    BY <1>1, <1>3 DEF Waiting
  <2>2. ASSUME NEW k, LastOf(k, to)' PROVE LastOf(k, to) /\ timers'[k] = timers[k]
    BY <1>1, <1>3, <2>2 DEF LastOf
  <2> QED
    BY <2>1, <2>2
<1> QED
  BY <1>1, <1>2, <1>3 DEF Waiting

\* A tap on a day of another month starts one of each.
LEMMA BothStarted ==
  ASSUME timers \in Seq(Timer), NEW h \in Timer, NEW d \in Timer,
         h.to = "header", d.to = "bloc", timers' = timers \o <<h, d>>
  PROVE  /\ timers' \in Seq(Timer)
         /\ Waiting("header")' /\ \A k : LastOf(k, "header")' => timers'[k] = h
         /\ Waiting("bloc")' /\ \A k : LastOf(k, "bloc")' => timers'[k] = d
<1>1. /\ timers' \in Seq(Timer)
      /\ Len(timers') = Len(timers) + 2 /\ Len(timers) \in Nat
      /\ timers'[Len(timers) + 1] = h /\ timers'[Len(timers) + 2] = d
  OBVIOUS
<1>2. Waiting("header")' /\ Waiting("bloc")'
  BY <1>1 DEF Waiting
<1>3. ASSUME NEW k, LastOf(k, "header")' PROVE timers'[k] = h
  <2>1. k \in 1..(Len(timers) + 2) /\ timers'[k].to = "header"
    BY <1>1, <1>3 DEF LastOf
  <2>2. k # Len(timers) + 2
    BY <1>1, <2>1
  <2>3. ~(Len(timers) + 1 \in (k + 1)..(Len(timers) + 2))
    BY <1>1, <1>3 DEF LastOf
  <2> QED
    BY <1>1, <2>1, <2>2, <2>3
<1>4. ASSUME NEW k, LastOf(k, "bloc")' PROVE timers'[k] = d
  <2>1. k \in 1..(Len(timers) + 2)
    BY <1>1, <1>4 DEF LastOf
  <2>2. ~(Len(timers) + 2 \in (k + 1)..(Len(timers) + 2))
    BY <1>1, <1>4 DEF LastOf
  <2> QED
    BY <1>1, <2>1, <2>2
<1> QED
  BY <1>1, <1>2, <1>3, <1>4

-----------------------------------------------------------------------------
(* The header: the last of its timers is for the page that is shown.       *)

HeaderInv ==
  Built /\ ~unmoved =>
    /\ ~Waiting("header") => header = page
    /\ \A k : LastOf(k, "header") => Clamped(timers[k].page) = page

LEMMA ClampedPage ==
  /\ \A i \in Int : Clamped(i) \in 0..(Pages - 1)
  /\ \A i \in 0..(Pages - 1) : Clamped(i) = i
BY PageAssumption DEF Clamped

LEMMA DayPage == \A day \in Day : PageOf(day) \in -1..Pages
BY DayAssumption DEF PageOf

LEMMA PageTimer ==
  ASSUME NEW i \in -1..Pages
  PROVE  HeaderTimer(i) \in Timer /\ HeaderTimer(i).to = "header" /\ HeaderTimer(i).page = i
BY DEF HeaderTimer, Timer

LEMMA DayTimer ==
  ASSUME NEW day \in Day
  PROVE  TapTimer(day) \in Timer /\ TapTimer(day).to = "bloc" /\ TapTimer(day).day = day
BY DEF TapTimer, Timer

LEMMA HeaderFrame ==
  ASSUME HeaderInv, UNCHANGED <<timers, header, page, unmoved>>, Built' => Built
  PROVE  HeaderInv'
BY DEF HeaderInv, LastOf, Waiting

\* A page change and its timer.
LEMMA PageChangeKeeps ==
  ASSUME timers \in Seq(Timer), NEW i \in 0..(Pages - 1), PageChange(i)
  PROVE  HeaderInv'
<1>1. HeaderTimer(i) \in Timer /\ HeaderTimer(i).to = "header" /\ HeaderTimer(i).page = i
  BY PageTimer, PageAssumption
<1>2. Waiting("header")' /\ \A k : LastOf(k, "header")' => timers'[k] = HeaderTimer(i)
  BY <1>1, Started DEF PageChange
<1> QED
  BY <1>1, <1>2, ClampedPage DEF HeaderInv, PageChange

LEMMA HeaderStart == Init => HeaderInv
BY DEF Init, HeaderInv, Waiting, LastOf

LEMMA HeaderKeeps ==
  ASSUME TypeOK, HeaderInv, Next
  PROVE  HeaderInv'
<1>0. timers \in Seq(Timer) /\ page \in 0..(Pages - 1) /\ goal \in 0..(Pages - 1)
  BY DEF TypeOK
<1>1. ASSUME NEW day \in Day, TapDay(day) PROVE HeaderInv'
  <2>1. CASE PageOf(day) = page /\ UNCHANGED <<goal, unmoved, timers>>
    BY <1>1, <2>1, HeaderFrame DEF TapDay, CalendarInput, Built, userVars, savedVars
  <2>2. CASE /\ SetOut(PageOf(day))
             /\ timers' = timers \o <<HeaderTimer(PageOf(day)), TapTimer(day)>>
    <3>1. /\ HeaderTimer(PageOf(day)) \in Timer /\ HeaderTimer(PageOf(day)).to = "header"
          /\ HeaderTimer(PageOf(day)).page = PageOf(day)
      BY DayPage, PageTimer
    <3>2. /\ Waiting("header")'
          /\ \A k : LastOf(k, "header")' => timers'[k] = HeaderTimer(PageOf(day))
      <4>1. TapTimer(day) \in Timer /\ TapTimer(day).to = "bloc"
        BY DayTimer
      <4> QED
        BY <1>0, <2>2, <3>1, <4>1, BothStarted
    <3>3. ~unmoved' => Clamped(PageOf(day)) = page'
      BY <1>1, <2>2 DEF SetOut, TapDay
    <3> QED
      BY <3>1, <3>2, <3>3 DEF HeaderInv
  <2> QED
    BY <1>1, <2>1, <2>2 DEF TapDay
<1>2. ASSUME ReturnNow PROVE HeaderInv'
  <2> DEFINE h == HeaderTimer(PageOf(Today))
  <2>1. h \in Timer /\ h.to = "header" /\ h.page = PageOf(Today)
    BY DayAssumption, DayPage, PageTimer
  <2>2. timers' = Append(timers, h)
    BY <1>2 DEF ReturnNow
  <2>3. Waiting("header")' /\ \A k : LastOf(k, "header")' => timers'[k] = h
    BY <1>0, <2>1, <2>2, Started
  <2>4. ~unmoved' => Clamped(PageOf(Today)) = page'
    BY <1>2 DEF SetOut, ReturnNow
  <2> QED
    BY <2>1, <2>3, <2>4 DEF HeaderInv
<1>3. ASSUME StopPage PROVE HeaderInv'
  BY <1>3, HeaderFrame DEF StopPage, CalendarInput, Built, dayVars, userVars, savedVars
<1>4. ASSUME SwipePage PROVE HeaderInv'
  BY <1>0, <1>4, PageChangeKeeps DEF SwipePage
<1>5. ASSUME MovePage PROVE HeaderInv'
  <2>1. (IF page < goal THEN page + 1 ELSE page - 1) \in 0..(Pages - 1)
    BY <1>0, <1>5, PageAssumption DEF MovePage
  <2> QED
    BY <1>0, <1>5, <2>1, PageChangeKeeps DEF MovePage
<1>6. ASSUME NEW i \in 1..Len(timers), FireHeader(i) PROVE HeaderInv'
  <2>1. Due(i) /\ timers' = Without(i) /\ timers[i].to = "header"
    BY <1>6 DEF FireHeader
  <2>2. /\ \A k : LastOf(k, "header")' =>
               \E l : LastOf(l, "header") /\ timers'[k] = timers[l]
        /\ ~Waiting("header")' => LastOf(i, "header")
    BY <1>0, <2>1, Fired
  <2>3. Built' <=> Built
    BY <1>6 DEF FireHeader, Built, tabVars, dayVars, userVars, savedVars
  <2> QED
    BY <1>6, <2>2, <2>3 DEF FireHeader, HeaderInv
<1>7. ASSUME NEW i \in 1..Len(timers), FireTap(i) PROVE HeaderInv'
  <2>1. Due(i) /\ timers' = Without(i) /\ timers[i].to = "bloc"
    BY <1>7 DEF FireTap
  <2>2. /\ \A k : LastOf(k, "header")' =>
               \E l : LastOf(l, "header") /\ timers'[k] = timers[l]
        /\ ~Waiting("header")' => ~Waiting("header")
    BY <1>0, <2>1, Fired
  <2>3. Built' <=> Built
    BY <1>7 DEF FireTap, Built, tabVars, userVars, savedVars
  <2> QED
    BY <1>7, <2>2, <2>3 DEF FireTap, HeaderInv
<1>8. ASSUME TabsStep PROVE HeaderInv'
  <2>1. CASE Built' /\ ~Built
    <3>1. page' = header' /\ unmoved' = Waiting("header") /\ timers' = timers
      BY <1>8, <2>1 DEF TabsStep, ScreenFollows
    <3> QED
      BY <3>1 DEF HeaderInv, Waiting, LastOf
  <2>2. CASE ~(Built' /\ ~Built)
    BY <1>8, <2>2, HeaderFrame DEF TabsStep, ScreenFollows, screenVars
  <2> QED
    BY <2>1, <2>2
<1>9. ASSUME SignOut \/ SignOutFails \/ Clear \/ DisposeFails \/ Dispose PROVE HeaderInv'
  <2>1. UNCHANGED <<timers, screenVars, pos>>
    BY <1>9 DEF SignOut, SignOutFails, Clear, DisposeFails, Dispose, tabVars
  <2>2. session # "out"
    BY <1>9 DEF SignOut, SignOutFails, Clear, DisposeFails, Dispose
  <2> QED
    BY <2>1, <2>2, HeaderFrame DEF Built, screenVars
<1>10. ASSUME Restart \/ SignIn PROVE HeaderInv'
  BY <1>10 DEF Restart, SignIn, Opens, HeaderInv, Waiting, LastOf
<1>11. ASSUME RestartOut PROVE HeaderInv'
  BY <1>11 DEF RestartOut, HeaderInv, Built
<1> QED
  BY <1>1, <1>2, <1>3, <1>4, <1>5, <1>6, <1>7, <1>8, <1>9, <1>10, <1>11 DEF Next, FireTimer

-----------------------------------------------------------------------------
(* The selected day: what was tapped last, or waits in the last timer.      *)

\* Only a day that lingers is saved where no user is known.
ForgetInv ==
  /\ session \in {"clearing", "out"} => ~known
  /\ ~known /\ ~lingers => saved = NoDay

AskedInv ==
  /\ saved # NoDay => saved = selectedDay
  /\ known /\ saved = NoDay => selectedDay = Today
  /\ session # "out" /\ ~overtaken =>
       /\ ~Waiting("bloc") =>
            selectedDay = asked /\ (Built => list = IF returned THEN Today ELSE asked)
       /\ \A k : LastOf(k, "bloc") => timers[k].day = asked

LEMMA AskedFrame ==
  ASSUME AskedInv, UNCHANGED <<timers, selectedDay, asked, overtaken, list, returned>>,
         saved' \in {saved, NoDay}, known' => known /\ saved' = saved,
         Built' => Built, session' # "out" => session # "out"
  PROVE  AskedInv'
BY DEF AskedInv, LastOf, Waiting

LEMMA DayNotNull == NoDay \notin Day
BY DayAssumption DEF NoDay

LEMMA AskedStart == Init => AskedInv
BY DEF Init, AskedInv, Waiting, LastOf

LEMMA AskedKeeps ==
  ASSUME TypeOK, AskedInv, ForgetInv, Next
  PROVE  AskedInv'
<1>0. timers \in Seq(Timer) /\ page \in 0..(Pages - 1) /\ goal \in 0..(Pages - 1)
  BY DEF TypeOK
<1>1. ASSUME NEW day \in Day, TapDay(day) PROVE AskedInv'
  <2>0. session' = session /\ (Built' <=> Built) /\ asked' = day
    BY <1>1 DEF TapDay, CalendarInput, Built, userVars, savedVars
  <2>1. CASE Select(day) /\ overtaken' = Waiting("bloc") /\ UNCHANGED <<goal, unmoved, timers>>
    BY <2>0, <2>1, DayNotNull DEF Select, AskedInv, Waiting, LastOf
  <2>2. CASE /\ timers' = timers \o <<HeaderTimer(PageOf(day)), TapTimer(day)>>
             /\ UNCHANGED <<savedVars, list, returned>>
    <3>1. TapTimer(day) \in Timer /\ TapTimer(day).to = "bloc" /\ TapTimer(day).day = day
      BY DayTimer
    <3>2. HeaderTimer(PageOf(day)) \in Timer /\ HeaderTimer(PageOf(day)).to = "header"
      BY DayPage, PageTimer
    <3>3. Waiting("bloc")' /\ \A k : LastOf(k, "bloc")' => timers'[k] = TapTimer(day)
      BY <1>0, <2>2, <3>1, <3>2, BothStarted
    <3> QED
      BY <1>1, <2>0, <2>2, <3>1, <3>3 DEF TapDay, AskedInv, userVars, savedVars
  <2> QED
    BY <1>1, <2>1, <2>2 DEF TapDay
<1>2. ASSUME ReturnNow PROVE AskedInv'
  <2> DEFINE h == HeaderTimer(PageOf(Today))
  <2>1. h \in Timer /\ h.to # "bloc"
    BY DayAssumption, DayPage, PageTimer
  <2>2. timers' = Append(timers, h)
    BY <1>2 DEF ReturnNow
  <2>3. /\ Waiting("bloc")' = Waiting("bloc")
        /\ \A k : LastOf(k, "bloc")' => LastOf(k, "bloc") /\ timers'[k] = timers[k]
    BY <1>0, <2>1, <2>2, Started
  <2>4. UNCHANGED dayVars /\ list' = Today /\ returned'
    BY <1>2 DEF ReturnNow
  <2> QED
    BY <2>3, <2>4 DEF AskedInv, dayVars, userVars, savedVars
<1>3. ASSUME StopPage PROVE AskedInv'
  BY <1>3, AskedFrame DEF StopPage, CalendarInput, Built, dayVars, userVars, savedVars
<1>4. ASSUME SwipePage \/ MovePage PROVE AskedInv'
  <2>1. PICK i \in -1..Pages : PageChange(i)
    BY <1>0, <1>4, PageAssumption DEF SwipePage, MovePage
  <2>2. HeaderTimer(i) \in Timer /\ HeaderTimer(i).to # "bloc"
    BY PageTimer
  <2>3. /\ Waiting("bloc")' = Waiting("bloc")
        /\ \A k : LastOf(k, "bloc")' => LastOf(k, "bloc") /\ timers'[k] = timers[k]
    BY <1>0, <2>1, <2>2, Started DEF PageChange
  <2>4. UNCHANGED <<dayVars, list, returned, pos>>
    BY <1>4 DEF SwipePage, MovePage, CalendarInput, tabVars
  <2> QED
    BY <2>3, <2>4 DEF AskedInv, dayVars, Built, userVars, savedVars
<1>5. ASSUME NEW i \in 1..Len(timers), FireHeader(i) PROVE AskedInv'
  <2>1. Due(i) /\ timers' = Without(i) /\ timers[i].to = "header"
    BY <1>5 DEF FireHeader
  <2>2. /\ \A k : LastOf(k, "bloc")' =>
               \E l : LastOf(l, "bloc") /\ timers'[k] = timers[l]
        /\ ~Waiting("bloc")' => ~Waiting("bloc")
    BY <1>0, <2>1, Fired
  <2>3. UNCHANGED <<dayVars, list, returned, pos>>
    BY <1>5 DEF FireHeader, tabVars
  <2> QED
    BY <2>2, <2>3 DEF AskedInv, dayVars, Built, userVars, savedVars
<1>6. ASSUME NEW i \in 1..Len(timers), FireTap(i) PROVE AskedInv'
  <2>1. Due(i) /\ timers' = Without(i) /\ timers[i].to = "bloc"
    BY <1>6 DEF FireTap
  <2>2. /\ \A k : LastOf(k, "bloc")' =>
               \E l : LastOf(l, "bloc") /\ timers'[k] = timers[l]
        /\ ~Waiting("bloc")' => LastOf(i, "bloc")
    BY <1>0, <2>1, Fired
  <2>3. UNCHANGED <<session, known, asked, overtaken>>
    BY <1>6 DEF FireTap, userVars
  <2>4. CASE session = "out"
    BY <1>6, <2>3, <2>4 DEF FireTap, AskedInv, savedVars
  <2>5. CASE session # "out"
    <3>1. timers[i].day \in Day
      BY <1>0, <2>1 DEF Timer
    <3> QED
      BY <1>6, <2>2, <2>3, <2>5, <3>1, DayNotNull DEF FireTap, Select, AskedInv
  <2> QED
    BY <2>4, <2>5
<1>7. ASSUME TabsStep PROVE AskedInv'
  <2>1. CASE Built' /\ ~Built
    <3>1. list' = selectedDay /\ ~returned' /\ UNCHANGED <<dayVars, timers>>
      BY <1>7, <2>1 DEF TabsStep, ScreenFollows
    <3> QED
      BY <3>1 DEF AskedInv, Waiting, LastOf, dayVars, userVars, savedVars
  <2>2. CASE ~(Built' /\ ~Built)
    BY <1>7, <2>2, AskedFrame DEF TabsStep, ScreenFollows, screenVars, dayVars, userVars, savedVars
  <2> QED
    BY <2>1, <2>2
<1>8. ASSUME SignOut \/ SignOutFails \/ Clear \/ DisposeFails \/ Dispose PROVE AskedInv'
  <2>0. session = "clearing" => ~known
    BY DEF ForgetInv
  <2>1. /\ UNCHANGED <<timers, screenVars, pos, selectedDay, asked, overtaken>>
        /\ saved' \in {saved, NoDay} /\ (known' => known /\ saved' = saved)
    <3>1. CASE SignOut \/ SignOutFails \/ DisposeFails
      BY <3>1 DEF SignOut, SignOutFails, DisposeFails, tabVars, savedVars
    <3>2. CASE Clear
      BY <3>2 DEF Clear, tabVars
    <3>3. CASE Dispose
      BY <3>3, <2>0 DEF Dispose, tabVars
    <3> QED
      BY <1>8, <3>1, <3>2, <3>3
  <2>2. session # "out"
    BY <1>8 DEF SignOut, SignOutFails, Clear, DisposeFails, Dispose
  <2> QED
    BY <2>1, <2>2, AskedFrame DEF Built, screenVars
<1>9. ASSUME Restart PROVE AskedInv'
  <2>1. /\ selectedDay' = selectedDay
        /\ list' = selectedDay' /\ ~returned' /\ timers' = <<>>
        /\ UNCHANGED <<known, saved>>
    BY <1>9 DEF Restart, Opens, AskedInv
  <2>2. ~Waiting("bloc")' /\ \A k : ~LastOf(k, "bloc")'
    BY <2>1 DEF Waiting, LastOf
  <2>3. CASE Waiting("bloc")
    BY <1>9, <2>1, <2>2, <2>3 DEF Restart, AskedInv
  <2>4. CASE ~Waiting("bloc")
    <3>1. session # "out" /\ UNCHANGED <<asked, overtaken>>
      BY <1>9, <2>4 DEF Restart, ForgetInv
    <3> QED
      BY <2>1, <2>2, <2>4, <3>1 DEF AskedInv
  <2> QED
    BY <2>3, <2>4
<1>10. ASSUME SignIn PROVE AskedInv'
  BY <1>10 DEF SignIn, Opens, AskedInv, Waiting, LastOf
<1>11. ASSUME RestartOut PROVE AskedInv'
  BY <1>11 DEF RestartOut, AskedInv, savedVars
<1> QED
  BY <1>1, <1>2, <1>3, <1>4, <1>5, <1>6, <1>7, <1>8, <1>9, <1>10, <1>11 DEF Next, FireTimer

-----------------------------------------------------------------------------
(* Types.                                                                    *)

LEMMA TypeStart == Init => TypeOK
<1> SUFFICES ASSUME Init PROVE TypeOK
  OBVIOUS
<1>1. TabsTypeOK
  BY TabsStart DEF Init, TabsInv
<1>2. page \in 0..(Pages - 1) /\ goal = page /\ header = page
  BY ClampedPage, DayPage, DayAssumption DEF Init
<1>3. unmoved \in BOOLEAN /\ overtaken \in BOOLEAN /\ returned \in BOOLEAN
  BY DEF Init
<1>4. timers \in Seq(Timer) /\ saved = NoDay /\ session = "home"
  BY DEF Init
<1>6. known \in BOOLEAN /\ lingers \in BOOLEAN
  BY Zenon DEF Init
<1>5. selectedDay \in Day /\ list \in Day /\ asked \in Day
  BY DayAssumption DEF Init
<1> QED
  BY <1>1, <1>2, <1>3, <1>4, <1>5, <1>6 DEF TypeOK

LEMMA TabsKeep ==
  ASSUME TabsInv, Next
  PROVE  TabsInv'
<1>1. CASE \/ \E day \in Day : TapDay(day)
           \/ ReturnNow \/ StopPage \/ SwipePage
  <2>1. CalendarInput
    BY <1>1 DEF TapDay, ReturnNow, StopPage, SwipePage
  <2> QED
    BY <2>1, TabsInputKeeps DEF CalendarInput
<1>2. CASE MovePage \/ FireTimer \/ SignOutFails \/ Clear \/ Dispose \/ DisposeFails
  <2>1. UNCHANGED tabVars
    BY <1>2 DEF MovePage, FireTimer, FireHeader, FireTap, SignOutFails, Clear, Dispose,
                 DisposeFails
  <2> QED
    BY <2>1, TabsInputKeeps DEF tabVars
<1>3. CASE TabsStep
  BY <1>3, TabsNextKeeps DEF TabsStep
<1>4. CASE SignOut
  BY <1>4, TabsInputKeeps DEF SignOut
<1>5. CASE Restart \/ SignIn
  <2>1. inputs' \in 0..MaxInputs
    BY <1>5, Counted DEF Restart, SignIn, TabsInv, TabsTypeOK
  <2>2. held' \in [View -> BOOLEAN] /\ heldBack' \in BOOLEAN
    BY <1>5, Zenon DEF Restart, SignIn, Opens
  <2>3. TabsTypeOK'
    BY <1>5, <2>1, <2>2 DEF Restart, SignIn, Opens, TabsTypeOK
  <2>4. \A v \in View : pos'[v] = 3 /\ target'[v] = Still /\ reported'[v] = 1 /\ ~held'[v]
    BY <1>5 DEF Restart, SignIn, Opens
  <2>5. currentPage' = 1
    BY <1>5 DEF Restart, SignIn, Opens
  <2> QED
    BY <2>3, <2>4, <2>5 DEF TabsInv, Bound, Nearest
<1>6. CASE RestartOut
  BY <1>6, TabsInputKeeps DEF RestartOut
<1> QED
  BY <1>1, <1>2, <1>3, <1>4, <1>5, <1>6 DEF Next

LEMMA TypeKeeps ==
  ASSUME TypeOK, TabsInv', Next
  PROVE  TypeOK'
<1>0. timers \in Seq(Timer) /\ page \in 0..(Pages - 1) /\ goal \in 0..(Pages - 1)
  BY DEF TypeOK
<1>00. TabsTypeOK'
  BY DEF TabsInv
<1>1. ASSUME NEW day \in Day, TapDay(day) PROVE TypeOK'
  <2>1. Waiting("bloc") \in BOOLEAN
    BY DEF Waiting
  <2>2. CASE Select(day) /\ overtaken' = Waiting("bloc") /\ UNCHANGED <<goal, unmoved, timers>>
    BY <1>1, <1>00, <2>1, <2>2 DEF TapDay, Select, TypeOK, userVars, savedVars
  <2>3. CASE /\ SetOut(PageOf(day)) /\ overtaken' = FALSE
             /\ timers' = timers \o <<HeaderTimer(PageOf(day)), TapTimer(day)>>
             /\ UNCHANGED <<savedVars, list, returned>>
    <3>1. timers' \in Seq(Timer)
      BY <1>0, <2>3, DayPage, PageTimer, DayTimer
    <3>2. goal' \in 0..(Pages - 1) /\ unmoved' \in BOOLEAN
      BY <2>3, DayPage, ClampedPage DEF SetOut
    <3> QED
      BY <1>1, <1>00, <2>3, <3>1, <3>2 DEF TapDay, TypeOK, userVars, savedVars
  <2> QED
    BY <1>1, <2>2, <2>3 DEF TapDay
<1>2. ASSUME ReturnNow PROVE TypeOK'
  <2>1. PageOf(Today) \in -1..Pages
    BY DayAssumption, DayPage
  <2>2. timers' \in Seq(Timer)
    BY <1>0, <1>2, <2>1, PageTimer DEF ReturnNow
  <2>3. goal' \in 0..(Pages - 1) /\ unmoved' \in BOOLEAN
    BY <1>2, <2>1, ClampedPage DEF ReturnNow, SetOut
  <2> QED
    BY <1>2, <1>00, <2>2, <2>3, DayAssumption DEF ReturnNow, TypeOK, dayVars, userVars, savedVars
<1>3. ASSUME StopPage PROVE TypeOK'
  BY <1>3, <1>00 DEF StopPage, TypeOK, dayVars, userVars, savedVars
<1>4. ASSUME NEW i \in 0..(Pages - 1), PageChange(i), goal' \in {goal, i},
             UNCHANGED <<dayVars, list, header, returned>>
      PROVE  TypeOK'
  <2>1. timers' \in Seq(Timer)
    BY <1>0, <1>4, PageTimer, PageAssumption DEF PageChange
  <2>2. page' \in 0..(Pages - 1) /\ goal' \in 0..(Pages - 1) /\ unmoved' \in BOOLEAN
    BY <1>0, <1>4 DEF PageChange
  <2>3. UNCHANGED <<session, known, saved, selectedDay, lingers, asked, overtaken, list, header,
                    returned>>
    BY <1>4 DEF dayVars, userVars, savedVars
  <2> QED
    BY <1>00, <2>1, <2>2, <2>3 DEF TypeOK
<1>5. ASSUME SwipePage PROVE TypeOK'
  BY <1>4, <1>5 DEF SwipePage
<1>6. ASSUME MovePage PROVE TypeOK'
  <2>1. (IF page < goal THEN page + 1 ELSE page - 1) \in 0..(Pages - 1)
    BY <1>0, <1>6, PageAssumption DEF MovePage
  <2> QED
    BY <1>4, <1>6, <2>1 DEF MovePage
<1>7. ASSUME NEW i \in 1..Len(timers), FireHeader(i) PROVE TypeOK'
  <2>1. timers' \in Seq(Timer)
    BY <1>0, <1>7, WithoutTimer DEF FireHeader
  <2>2. timers[i].page \in -1..Pages
    <3>1. timers[i] \in Timer /\ timers[i].to = "header"
      BY <1>0, <1>7 DEF FireHeader
    <3> QED
      BY <3>1 DEF Timer
  <2>3. header' \in 0..(Pages - 1)
    BY <1>7, <2>2, ClampedPage DEF FireHeader, TypeOK
  <2> QED
    BY <1>7, <1>00, <2>1, <2>3 DEF FireHeader, TypeOK, dayVars, userVars, savedVars
<1>8. ASSUME NEW i \in 1..Len(timers), FireTap(i) PROVE TypeOK'
  <2>1. timers' \in Seq(Timer)
    BY <1>0, <1>8, WithoutTimer DEF FireTap
  <2>2. timers[i].day \in Day
    <3>1. timers[i] \in Timer /\ timers[i].to = "bloc"
      BY <1>0, <1>8 DEF FireTap
    <3> QED
      BY <3>1 DEF Timer
  <2> QED
    BY <1>8, <1>00, <2>1, <2>2 DEF FireTap, Select, TypeOK, userVars, savedVars
<1>9. ASSUME TabsStep PROVE TypeOK'
  <2>1. Clamped(PageOf(Today)) \in 0..(Pages - 1)
    BY DayAssumption, DayPage, ClampedPage
  <2>2. CASE Built' /\ ~Built
    <3>1. Waiting("header") \in BOOLEAN
      BY DEF Waiting
    <3> QED
      BY <1>9, <1>00, <2>1, <2>2, <3>1
        DEF TabsStep, ScreenFollows, TypeOK, dayVars, userVars, savedVars
  <2>3. CASE ~(Built' /\ ~Built)
    BY <1>9, <1>00, <2>3
      DEF TabsStep, ScreenFollows, TypeOK, dayVars, screenVars, userVars, savedVars
  <2> QED
    BY <2>2, <2>3
<1>10. ASSUME SignOut \/ SignOutFails \/ Clear \/ DisposeFails \/ Dispose PROVE TypeOK'
  BY <1>10, <1>00
    DEF SignOut, SignOutFails, Clear, DisposeFails, Dispose, TypeOK, screenVars, userVars, savedVars
<1>11. ASSUME Restart \/ SignIn PROVE TypeOK'
  <2>1. Clamped(PageOf(Today)) \in 0..(Pages - 1)
    BY DayAssumption, DayPage, ClampedPage
  <2>2. Opens /\ saved' = saved
    BY <1>11 DEF Restart, SignIn
  <2>3. selectedDay' \in Day /\ list' = selectedDay'
    BY <2>2, DayAssumption DEF Opens, TypeOK
  <2>4. asked' \in Day
    BY <1>11, <2>3 DEF Restart, SignIn, TypeOK
  <2>5. page' \in 0..(Pages - 1) /\ goal' = page' /\ header' = page' /\ timers' \in Seq(Timer)
    BY <2>1, <2>2 DEF Opens
  <2>6. known' \in BOOLEAN /\ lingers' \in BOOLEAN /\ overtaken' \in BOOLEAN
    BY <1>11 DEF Restart, SignIn, TypeOK
  <2>7. session' = "home" /\ returned' \in BOOLEAN /\ unmoved' \in BOOLEAN
    BY <2>2 DEF Opens
  <2> QED
    BY <1>00, <2>2, <2>3, <2>4, <2>5, <2>6, <2>7 DEF TypeOK
<1>12. ASSUME RestartOut PROVE TypeOK'
  BY <1>12, <1>00 DEF RestartOut, TypeOK, savedVars, screenVars
<1> QED
  BY <1>1, <1>2, <1>3, <1>5, <1>6, <1>7, <1>8, <1>9, <1>10, <1>11, <1>12 DEF Next, FireTimer

-----------------------------------------------------------------------------
(* The inductive invariant, and what follows from it.                        *)

CalendarInv == TypeOK /\ TabsInv /\ HeaderInv /\ AskedInv /\ ForgetInv

LEMMA ForgetKeeps ==
  ASSUME TypeOK, ForgetInv, Next
  PROVE  ForgetInv'
<1> USE DEF ForgetInv, dayVars, userVars, savedVars
<1>0. known \in BOOLEAN /\ lingers \in BOOLEAN
  BY DEF TypeOK
<1>1. CASE \E day \in Day : TapDay(day)
  <2>1. PICK day \in Day : TapDay(day)
    BY <1>1
  <2>2. session # "out" /\ session' = session /\ known' = known
    BY <2>1 DEF TapDay, CalendarInput, InUse
  <2>3. UNCHANGED <<saved, lingers>> \/ lingers' = (lingers \/ ~known)
    BY <2>1 DEF TapDay, Select
  <2> QED
    BY <1>0, <2>2, <2>3
<1>2. CASE ReturnNow \/ StopPage \/ SwipePage \/ MovePage \/ TabsStep
  BY <1>2 DEF ReturnNow, StopPage, SwipePage, MovePage, TabsStep
<1>3. CASE FireTimer
  <2>1. session' = session /\ known' = known
    BY <1>3 DEF FireTimer, FireHeader, FireTap
  <2>2. UNCHANGED <<saved, lingers>> \/ lingers' = (lingers \/ ~known)
    BY <1>3 DEF FireTimer, FireHeader, FireTap, Select
  <2> QED
    BY <1>0, <2>1, <2>2
<1>4. CASE SignOut \/ SignOutFails \/ Clear \/ Dispose \/ DisposeFails
  BY <1>4 DEF SignOut, SignOutFails, Clear, Dispose, DisposeFails
<1>5. CASE Restart \/ RestartOut \/ SignIn
  BY <1>5 DEF Restart, RestartOut, SignIn, Opens
<1> QED
  BY <1>1, <1>2, <1>3, <1>4, <1>5 DEF Next

\* The tabs, the header and the selected day are each on their way to where they
\* belong (index.dart:143, bloc.dart:23-36, bloc.dart:91), in every reachable state.
THEOREM CalendarInvariant == Spec => []CalendarInv
<1>1. Init => CalendarInv
  <2> SUFFICES ASSUME Init PROVE CalendarInv
    OBVIOUS
  <2>1. ForgetInv
    BY DEF Init, ForgetInv
  <2>2. TabsInv
    BY TabsStart DEF Init
  <2> QED
    BY <2>1, <2>2, TypeStart, HeaderStart, AskedStart DEF CalendarInv
<1>2. CalendarInv /\ [Next]_homeVars => CalendarInv'
  <2> SUFFICES ASSUME CalendarInv, [Next]_homeVars PROVE CalendarInv'
    OBVIOUS
  <2> USE DEF CalendarInv
  <2>1. CASE Next
    <3>1. TabsInv'
      BY <2>1, TabsKeep
    <3> QED
      BY <2>1, <3>1, TypeKeeps, HeaderKeeps, AskedKeeps, ForgetKeeps
  <2>2. CASE UNCHANGED homeVars
    <3>1. UNCHANGED <<tabVars, session, known, saved, selectedDay, lingers, asked, overtaken,
                      list, page, goal, header, unmoved, returned, timers>>
      BY <2>2 DEF homeVars, calendarVars, dayVars, userVars, savedVars, screenVars
    <3>2. UNCHANGED <<pos, target, held, reported, currentPage, heldBack, inputs>>
      BY <3>1 DEF tabVars
    <3>3. TabsInv'
      BY <3>2, TabsInputKeeps
    <3>4. TypeOK'
      BY <3>1, <3>3 DEF TypeOK, TabsInv
    <3>5. HeaderInv' /\ AskedInv' /\ ForgetInv'
      BY <3>1, <3>2, HeaderFrame, AskedFrame DEF Built, ForgetInv
    <3> QED
      BY <3>3, <3>4, <3>5
  <2> QED
    BY <2>1, <2>2
<1> QED
  BY <1>1, <1>2, PTL DEF Spec

\* No page that does not exist is shown, gone to or named (calendar_component.dart:86).
THEOREM CalendarTyped == Spec => []TypeOK
<1>1. CalendarInv => TypeOK
  BY DEF CalendarInv
<1> QED
  BY <1>1, CalendarInvariant, PTL

\* Icons and screens come to rest on the same tab (index.dart:143-152).
THEOREM TabsMeet == Spec => []TabsAgree
<1>1. CalendarInv => TabsAgree
  BY TabsRest DEF CalendarInv
<1> QED
  BY <1>1, CalendarInvariant, PTL

\* The header comes to rest on the month that is shown (bloc.dart:23-36).
THEOREM HeaderMeetsPage == Spec => []HeaderFollows
<1>1. CalendarInv => HeaderFollows
  BY DEF CalendarInv, HeaderInv, HeaderFollows
<1> QED
  BY <1>1, CalendarInvariant, PTL

\* The day tapped last is selected, and listed (bloc.dart:91-97).
THEOREM LastTapIsSelected == Spec => []AskedIsSelected
<1>1. CalendarInv => AskedIsSelected
  BY DEF CalendarInv, AskedInv, AskedIsSelected
<1> QED
  BY <1>1, CalendarInvariant, PTL

\* Who signs in next is shown today, unless a day lingers of a sign-out that was
\* cut short after the preferences were cleared (bloc.dart:56-64, 91-97, 108).
THEOREM NextUserStartsToday == Spec => NextUserSeesToday
<1>1. CalendarInv /\ [Next]_homeVars =>
        [session = "out" /\ session' = "home" /\ ~lingers => selectedDay' = Today]_homeVars
  <2> SUFFICES ASSUME ForgetInv, Next, session = "out", session' = "home", ~lingers
               PROVE  selectedDay' = Today
    BY DEF CalendarInv
  <2>1. saved = NoDay /\ ~known
    BY DEF ForgetInv
  <2>2. CASE SignIn
    BY <2>1, <2>2 DEF SignIn, Opens
  <2>3. CASE ~SignIn
    BY <2>1, <2>3 DEF Next, TapDay, ReturnNow, StopPage, SwipePage, MovePage, FireTimer, FireHeader,
         FireTap, TabsStep, SignOut, SignOutFails, Clear, Dispose, DisposeFails, Restart, RestartOut,
         CalendarInput, InUse, dayVars, userVars
  <2> QED
    BY <2>2, <2>3
<1> QED
  BY <1>1, CalendarInvariant, PTL DEF Spec, NextUserSeesToday
=============================================================================
