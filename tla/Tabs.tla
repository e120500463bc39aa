-------------------------------- MODULE Tabs --------------------------------
(***************************************************************************)
(* The three tabs of the home page (lib/index.dart): user, calendar, chat. *)
(* The icons above and the screens below are two PageViews whose page      *)
(* changes both run pageAnimateTo, which animates both: each view answers  *)
(* the other's moves, and its own.                                         *)
(*                                                                         *)
(* A view lies at a third of a page: it rounds to the page it is nearer.   *)
(* Frames may be late for one view and not for the other.                  *)
(***************************************************************************)
EXTENDS Integers

CONSTANT MaxInputs  \* bound: what the user does

ASSUME InputAssumption == MaxInputs \in Nat

VARIABLES pos,          \* pos[v]: where the view v lies, in thirds of a page
          target,       \* the page v is on its way to, or Still
          held,         \* a finger is on v
          reported,     \* _lastReportedPage of v
          currentPage,
          heldBack,     \* a moving view was stopped since the page last changed (history)
          inputs        \* inputs so far

tabVars == <<pos, target, held, reported, currentPage, heldBack, inputs>>

View == {"head", "body"}

Still == -1

Nearest(p) == (p + 1) \div 3

Input == inputs < MaxInputs /\ inputs' = inputs + 1

\* Where a view at p is going if it is animated to the page i.
Towards(p, i) == IF p = 3 * i THEN Still ELSE i

\* Wrong: only the screens move.
PageAnimateToBody(i) ==
  /\ target' = [target EXCEPT !["body"] = Towards(pos'["body"], i)]
  /\ held' = [held EXCEPT !["body"] = FALSE]
  /\ currentPage' = i
  /\ heldBack' = FALSE

\* Both views are animated to the page i, whatever they were doing; a finger
\* on them drags them no longer.
PageAnimateTo(i) ==
  /\ target' = [v \in View |-> Towards(pos'[v], i)]
  /\ held' = [v \in View |-> FALSE]
  /\ currentPage' = i
  /\ heldBack' = FALSE

\* Wrong: the page the view came from is animated to.
OnPageChangedBack(v, s) ==
  LET i == Nearest(pos'[v])
  IN  IF i # reported[v]
      THEN reported' = [reported EXCEPT ![v] = i] /\ PageAnimateTo(reported[v])
      ELSE /\ target' = [target EXCEPT ![v] = s]
           /\ UNCHANGED <<reported, held, currentPage, heldBack>>

\* The view v has moved, and its next aim is s: if it is nearer to another
\* page now, this is reported instead.
OnPageChanged(v, s) ==
  LET i == Nearest(pos'[v])
  IN  IF i # reported[v]
      THEN reported' = [reported EXCEPT ![v] = i] /\ PageAnimateTo(i)
      ELSE /\ target' = [target EXCEPT ![v] = s]
           /\ UNCHANGED <<reported, held, currentPage, heldBack>>

\* A frame of the animation of v.
Animate(v) ==
  /\ target[v] # Still
  /\ pos' = [pos EXCEPT ![v] = IF @ < 3 * target[v] THEN @ + 1 ELSE @ - 1]
  /\ OnPageChanged(v, Towards(pos'[v], target[v]))
  /\ UNCHANGED inputs

\* The icon i, one of those in sight, is tapped.  A moving view hears of no taps.
TapTab(i) ==
  /\ Input
  /\ target["head"] = Still /\ ~held["head"]
  /\ i - reported["head"] \in -1..1
  /\ pos' = pos /\ UNCHANGED reported
  /\ PageAnimateTo(i)

\* A finger on v stops it.
Touch(v) ==
  /\ Input
  /\ ~held[v]
  /\ held' = [held EXCEPT ![v] = TRUE]
  /\ target' = [target EXCEPT ![v] = Still]
  /\ heldBack' = (heldBack \/ target[v] # Still)
  /\ UNCHANGED <<pos, reported, currentPage>>

Drag(v) ==
  /\ held[v]
  /\ pos' \in {[pos EXCEPT ![v] = @ + 1], [pos EXCEPT ![v] = @ - 1]}
  /\ pos'[v] \in 0..6
  /\ OnPageChanged(v, Still)
  /\ UNCHANGED inputs

\* The finger is lifted: v goes on to a page beside it.
Release(v) ==
  /\ held[v]
  /\ held' = [held EXCEPT ![v] = FALSE]
  /\ \E i \in {pos[v] \div 3, (pos[v] + 2) \div 3} :
       target' = [target EXCEPT ![v] = Towards(pos[v], i)]
  /\ UNCHANGED <<pos, reported, currentPage, heldBack, inputs>>

TabsInit ==
  /\ pos = [v \in View |-> 3]
  /\ target = [v \in View |-> Still]
  /\ held = [v \in View |-> FALSE]
  /\ reported = [v \in View |-> 1]
  /\ currentPage = 1
  /\ heldBack = FALSE
  /\ inputs = 0

TabsMove == \E v \in View : Animate(v) \/ Release(v)

TabsNext ==
  \/ TabsMove
  \/ \E i \in 0..2 : TapTab(i)
  \/ \E v \in View : Touch(v) \/ Drag(v)

TabsTypeOK ==
  /\ pos \in [View -> 0..6]
  /\ target \in [View -> {Still} \cup 0..2]
  /\ held \in [View -> BOOLEAN]
  /\ reported \in [View -> 0..2]
  /\ currentPage \in 0..2
  /\ heldBack \in BOOLEAN
  /\ inputs \in 0..MaxInputs

\* Nothing moves and nothing is held.
TabsQuiet == \A v \in View : target[v] = Still /\ ~held[v]

\* The icons and the screens come to rest on the same tab, the one that is
\* highlighted, although each moves the other.  A finger can part them: it holds a
\* view back while the page change of the other is over.
TabsAgree ==
  TabsQuiet /\ ~heldBack => \A v \in View : pos[v] = 3 * currentPage
=============================================================================
