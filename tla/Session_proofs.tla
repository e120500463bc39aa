--------------------------- MODULE Session_proofs ---------------------------
(***************************************************************************)
(* Whoever the device takes for its user has a document, and a handler     *)
(* that ran alone leaves the session consistent: for any accounts and any  *)
(* number of handlers and pages.                                           *)
(***************************************************************************)
EXTENDS Session, TLAPS

-----------------------------------------------------------------------------
(* How the handlers change. *)

\* A handler that goes on to its next await changes nothing but its pc.
LEMMA GotoFacts ==
  ASSUME TypeOK, NEW t \in Task, NEW p \in Pc, Goto(t, p)
  PROVE  /\ task' \in [Task -> TaskType]
         /\ \A s \in Task \ {t} : task'[s] = task[s]
         /\ task'[t] = [task[t] EXCEPT !.pc = p]
         /\ task'[t].at = task[t].at /\ task'[t].alone = task[t].alone
         /\ task'[t].clean = task[t].clean
  BY DEF TypeOK, Goto, TaskType

\* A handler that ends leaves the others alone.
LEMMA EndFacts ==
  ASSUME TypeOK, NEW t \in Task, End(t)
  PROVE  /\ task' \in [Task -> TaskType]
         /\ \A s \in Task \ {t} : task'[s] = task[s]
         /\ task'[t] = Idle
<1>1. Idle \in TaskType
  BY DEF Idle, TaskType, Pc, Maybe
<1> QED
  BY <1>1 DEF TypeOK, End

\* A page that goes takes the context of its handlers and nothing else.
LEMMA WithoutFacts ==
  ASSUME TypeOK, NEW n \in Nat
  PROVE  /\ WithoutPage(n) \in [Task -> TaskType]
         /\ \A s \in Task :
              LET k == WithoutPage(n)[s] IN
              /\ k.kind = task[s].kind /\ k.pc = task[s].pc /\ k.user = task[s].user
              /\ k.alone = task[s].alone /\ k.clean = task[s].clean
              /\ k.at \in {0, task[s].at} /\ (n # 0 => k.at # n)
              /\ task[s] = Idle => k = Idle
<1> DEFINE Loses(s) == IF task[s].at = n THEN 0 ELSE task[s].at
<1>1. task \in [Task -> TaskType]
  BY DEF TypeOK
<1>2. WithoutPage(n) = [s \in Task |-> [task[s] EXCEPT !.at = Loses(s)]]
  BY DEF WithoutPage
<1>3. ASSUME NEW s \in Task
      PROVE  /\ WithoutPage(n)[s] \in TaskType
             /\ WithoutPage(n)[s] = [task[s] EXCEPT !.at = Loses(s)]
  BY <1>1, <1>2 DEF TaskType
<1>4. WithoutPage(n) \in [Task -> TaskType]
  BY <1>2, <1>3
<1> QED
  BY <1>1, <1>3, <1>4 DEF TaskType, Idle

\* Nobody is alone beside a handler that is running.
LEMMA RunningDisturbs ==
  ASSUME AloneOK, NEW t \in Task, task[t].pc # "idle"
  PROVE  \A s \in Task \ {t} : ~task[s].alone
  BY DEF AloneOK, Idle

\* A step of a running handler keeps what is known of the handlers, if it keeps
\* what is known of that one.
LEMMA HandlerMoves ==
  ASSUME HandlerOK, AloneOK, NEW t \in Task, task[t].pc # "idle",
         \A s \in Task \ {t} : task'[s] = task[s],
         users \subseteq users',
         task'[t].alone => task[t].alone,
         HandlerHolds(task'[t], users'),
         task'[t].alone => AloneHolds(task'[t], auth', google', prefs')
  PROVE  HandlerOK' /\ AloneOK'
<1>1. HandlerOK'
  BY DEF HandlerOK, HandlerHolds
<1>2. \A s \in Task \ {t} : ~task'[s].alone
  BY RunningDisturbs
<1>3. AloneOK'
  BY <1>2 DEF AloneOK
<1> QED
  BY <1>1, <1>3

\* An idle handler has nothing to keep.
LEMMA IdleHolds ==
  ASSUME NEW docs
  PROVE  HandlerHolds(Idle, docs) /\ ~Idle.alone
  BY DEF Idle, HandlerHolds, Entry

-----------------------------------------------------------------------------
(* The navigator. *)

\* The pages of a navigator, each of a user with a document in docs or of none.
PagesOK(pages, docs) ==
  /\ pages \in Seq(PageType)
  /\ Len(pages) > 0
  /\ \A i \in 1..Len(pages) : pages[i].id \in docs \cup {NoUser}

LEMMA OnePage ==
  ASSUME NEW p \in SplashPage \cup {"signIn", "signUp"}, NEW docs
  PROVE  PagesOK(<<Page(p)>>, docs)
  BY DEF PagesOK, Page, PageType, Maybe

LEMMA HomePage ==
  ASSUME NEW id \in Maybe
  PROVE  Home(id) \in PageType /\ Home(id).id = id
  BY DEF Home, PageType

LEMMA PagesPushed ==
  ASSUME NEW docs, NEW pages, PagesOK(pages, docs), NEW p \in PageType,
         p.id \in docs \cup {NoUser}
  PROVE  PagesOK(Append(pages, p), docs)
  BY DEF PagesOK

LEMMA PagesPopped ==
  ASSUME NEW docs, NEW pages, PagesOK(pages, docs), Len(pages) > 1
  PROVE  /\ PagesOK(SubSeq(pages, 1, Len(pages) - 1), docs)
         /\ Len(SubSeq(pages, 1, Len(pages) - 1)) = Len(pages) - 1
  BY DEF PagesOK

LEMMA TopReplaced ==
  ASSUME NEW docs, PagesOK(screens, docs), NEW p \in SplashPage \cup {"signIn", "signUp"}
  PROVE  PagesOK(TopBecomes(p), docs) /\ Len(TopBecomes(p)) = Len(screens)
<1>1. Page(p) \in PageType /\ Page(p).id = NoUser
  BY DEF Page, PageType, Maybe
<1> QED
  BY <1>1 DEF PagesOK, TopBecomes

LEMMA MoreDocuments ==
  ASSUME NEW docs, NEW more, docs \subseteq more, NEW pages, PagesOK(pages, docs)
  PROVE  PagesOK(pages, more)
  BY DEF PagesOK
-----------------------------------------------------------------------------
(* The invariant, sorted by what its parts are about. *)

PlacesOK ==
  /\ accounts \subseteq Account \ GoogleAccount
  /\ auth \in Maybe
  /\ google \in GoogleAccount \cup {NoUser}
  /\ users \subseteq Account
  /\ prefs \in [Entry -> Maybe]
  /\ prefs["id"] \in users \cup {NoUser}

TasksTyped ==
  /\ task \in [Task -> TaskType]
  /\ \A t \in Task : task[t].at <= Len(screens)

Parts == PlacesOK /\ PagesOK(screens, users) /\ TasksTyped /\ HandlerOK /\ AloneOK

LEMMA InvParts == SessionInv <=> Parts
  BY DEF SessionInv, TypeOK, UserHasDocument, Parts, PlacesOK, PagesOK, TasksTyped

\* A step of a running handler from await p to await q.
LEMMA GotoKeeps ==
  ASSUME Parts, NEW t \in Task, NEW q \in Pc, Goto(t, q), task[t].pc # "idle",
         users \subseteq users', screens' = screens,
         HandlerHolds([task[t] EXCEPT !.pc = q], users'),
         task[t].alone => AloneHolds([task[t] EXCEPT !.pc = q], auth', google', prefs'),
         PlacesOK'
  PROVE  Parts'
<1>1. TypeOK
  BY InvParts DEF SessionInv
<1>2. HandlerOK' /\ AloneOK'
  BY <1>1, GotoFacts, HandlerMoves DEF Parts
<1>3. TasksTyped'
  BY <1>1, GotoFacts DEF Parts, TasksTyped
<1>4. PagesOK(screens', users')
  BY MoreDocuments DEF Parts
<1> QED
  BY <1>2, <1>3, <1>4 DEF Parts

\* A running handler ends, and may have pushed a page.
LEMMA EndKeeps ==
  ASSUME Parts, NEW t \in Task, End(t), task[t].pc # "idle", UNCHANGED stored,
         PagesOK(screens', users), Len(screens') >= Len(screens)
  PROVE  Parts'
<1>1. TypeOK
  BY InvParts DEF SessionInv
<1>2. HandlerOK' /\ AloneOK'
  BY <1>1, EndFacts, HandlerMoves, IdleHolds DEF Parts, stored
<1>3. TasksTyped'
  <2>1. Len(screens) \in Nat /\ Len(screens') \in Nat
    BY DEF Parts, PagesOK
  <2>2. ASSUME NEW s \in Task
        PROVE  task[s].at \in Nat /\ task[s].at <= Len(screens) /\ task'[s].at \in {0, task[s].at}
    <3>1. task[s] \in TaskType /\ Idle.at = 0
      BY DEF Parts, TasksTyped, Idle
    <3>2. task[s].at \in Nat /\ task[s].at <= Len(screens)
      BY <3>1 DEF Parts, TasksTyped, TaskType
    <3>3. task'[s] \in {Idle, task[s]}
      BY <1>1, EndFacts
    <3> QED
      BY <3>1, <3>2, <3>3
  <2>3. \A s \in Task : task'[s].at <= Len(screens')
    BY <2>1, <2>2
  <2> QED
    BY <1>1, <2>3, EndFacts DEF TasksTyped
<1>4. PlacesOK' /\ PagesOK(screens', users')
  BY DEF Parts, PlacesOK, stored
<1> QED
  BY <1>2, <1>3, <1>4 DEF Parts

\* Handlers lose the page at depth n, which is the last one if one goes.
LEMMA WithoutKeeps ==
  ASSUME Parts, UNCHANGED stored, PagesOK(screens', users),
         task' = WithoutPage(Len(screens)),
         Len(screens') >= Len(screens) - 1
  PROVE  Parts'
<1>1. TypeOK /\ Len(screens) \in Nat \ {0} /\ Len(screens') \in Nat
  BY InvParts DEF SessionInv, TypeOK, PagesOK
<1>2. TasksTyped'
  <2>1. ASSUME NEW s \in Task
        PROVE  /\ task[s].at \in Nat /\ task[s].at <= Len(screens)
               /\ task'[s].at \in {0, task[s].at} /\ task'[s].at # Len(screens)
    BY <1>1, WithoutFacts DEF Parts, TasksTyped, TaskType
  <2>2. \A s \in Task : task'[s].at <= Len(screens')
    BY <1>1, <2>1
  <2> QED
    BY <1>1, <2>2, WithoutFacts DEF TasksTyped
<1>3. HandlerOK'
  BY <1>1, WithoutFacts DEF Parts, HandlerOK, HandlerHolds, stored
<1>4. AloneOK'
  BY <1>1, WithoutFacts DEF Parts, AloneOK, AloneHolds, stored
<1>5. PlacesOK' /\ PagesOK(screens', users')
  BY DEF Parts, PlacesOK, stored
<1> QED
  BY <1>2, <1>3, <1>4, <1>5 DEF Parts

\* The handlers go on below what the splash screen shows.
LEMMA ShowKeeps ==
  ASSUME Parts, UNCHANGED <<stored, task>>, PagesOK(screens', users),
         Len(screens') >= Len(screens)
  PROVE  Parts'
<1>1. Len(screens) \in Nat /\ Len(screens') \in Nat
  BY DEF Parts, PagesOK
<1>2. \A t \in Task : task[t].at \in Nat
  BY DEF Parts, TasksTyped, TaskType
<1>3. TasksTyped'
  BY <1>1, <1>2 DEF Parts, TasksTyped
<1>4. HandlerOK' /\ AloneOK'
  BY DEF Parts, HandlerOK, AloneOK, stored
<1>5. PlacesOK' /\ PagesOK(screens', users')
  BY DEF Parts, PlacesOK, stored
<1> QED
  BY <1>3, <1>4, <1>5 DEF Parts

\* The app starts again, without handlers.
LEMMA RestartKeeps ==
  ASSUME Parts, UNCHANGED stored, PagesOK(screens', users),
         task' = [t \in Task |-> Idle]
  PROVE  Parts'
<1>1. Idle \in TaskType /\ ~Idle.alone /\ Idle.at = 0
  BY DEF Idle, TaskType, Pc, Maybe
<1>2. TasksTyped'
  BY <1>1 DEF TasksTyped, PagesOK
<1>3. HandlerOK' /\ AloneOK'
  BY <1>1, IdleHolds DEF HandlerOK, AloneOK
<1>4. PlacesOK' /\ PagesOK(screens', users')
  BY DEF Parts, PlacesOK, stored
<1> QED
  BY <1>2, <1>3, <1>4 DEF Parts

\* A handler begins: it is alone only if nothing runs.
LEMMA BeginKeeps ==
  ASSUME Parts, NEW t \in Task,
         NEW kind \in {"email", "google", "signUp", "signOut"},
         NEW pc \in {"account", "auth"}, NEW u \in Maybe,
         pc = "account" => kind = "google",
         pc = "auth" /\ kind # "signOut" => u \in Account,
         kind = "signUp" => u \notin GoogleAccount,
         Begin(t, kind, pc, u)
  PROVE  Parts'
<1> DEFINE new == [kind |-> kind, pc |-> pc, user |-> u, at |-> Len(screens),
                   alone |-> Running = {}, clean |-> prefs = NoPrefs]
<1>1. task \in [Task -> TaskType] /\ Len(screens) \in Nat
  BY DEF Parts, TasksTyped, PagesOK
<1>2. task'[t] = new
  BY DEF Begin
<1>3. ASSUME NEW s \in Task \ {t}
      PROVE  /\ task[s] = Idle => task'[s] = Idle
             /\ task[s] # Idle => task'[s] = [task[s] EXCEPT !.alone = FALSE]
  BY DEF Begin
<1>4. Idle \in TaskType /\ ~Idle.alone /\ Idle.at = 0
  BY DEF Idle, TaskType, Pc, Maybe
<1>5. new \in TaskType
  BY <1>1 DEF TaskType, Pc
<1>6. ASSUME NEW s \in Task \ {t}
      PROVE  /\ task'[s] \in TaskType /\ ~task'[s].alone
             /\ task'[s].at = task[s].at
             /\ task'[s].pc = task[s].pc /\ task'[s].user = task[s].user
             /\ task'[s].kind = task[s].kind /\ task'[s].clean = task[s].clean
  <2>1. CASE task[s] = Idle
    BY <1>3, <1>4, <2>1
  <2>2. CASE task[s] # Idle
    <3>1. task[s] \in TaskType
      BY <1>1
    <3>2. task'[s] = [task[s] EXCEPT !.alone = FALSE]
      BY <1>3, <2>2
    <3> QED
      BY <3>1, <3>2 DEF TaskType
  <2> QED
    BY <2>1, <2>2
<1>7. task' \in [Task -> TaskType]
  BY <1>2, <1>5, <1>6 DEF Begin
<1>8. TasksTyped'
  BY <1>1, <1>2, <1>6, <1>7 DEF Parts, TasksTyped, TaskType, Begin
<1>9. HandlerOK'
  BY <1>2, <1>6 DEF Parts, HandlerOK, HandlerHolds, Begin, stored, Entry
<1>10. AloneOK'
  <2>0. task'[t].alone = (Running = {})
    BY <1>2
  <2>1. \A s \in Task : task'[s].alone => s = t /\ Running = {}
    BY <1>6, <2>0
  <2>2. Running = {} => \A s \in Task \ {t} : task'[s] = Idle
    BY <1>3 DEF Running
  <2>3. new.clean => prefs'["phone"] = NoUser
    BY DEF Begin, stored, NoPrefs, Entry
  <2>4. AloneHolds(new, auth', google', prefs')
    BY <2>3 DEF AloneHolds, Stored, Entry
  <2> QED
    BY <1>2, <2>1, <2>2, <2>4 DEF AloneOK
<1>11. PlacesOK' /\ PagesOK(screens', users')
  BY DEF Parts, PlacesOK, Begin, stored
<1> QED
  BY <1>8, <1>9, <1>10, <1>11 DEF Parts
-----------------------------------------------------------------------------
(* The steps. *)

LEMMA InitHolds == Init => Parts
<1> SUFFICES ASSUME Init
             PROVE  Parts
  OBVIOUS
<1>1. PagesOK(screens, users)
  BY OnePage DEF Init, SplashPage
<1>2. Idle \in TaskType /\ ~Idle.alone /\ Idle.at = 0
  BY DEF Idle, TaskType, Pc, Maybe
<1>3. TasksTyped
  BY <1>1, <1>2 DEF Init, TasksTyped, PagesOK
<1>4. HandlerOK /\ AloneOK
  BY <1>2, IdleHolds DEF Init, HandlerOK, AloneOK
<1>5. PlacesOK
  BY AccountAssumption DEF Init, PlacesOK, NoPrefs, Maybe, Entry
<1> QED
  BY <1>1, <1>3, <1>4, <1>5 DEF Parts

\* What is known of a running handler t.
LEMMA Running1 ==
  ASSUME Parts, NEW t \in Task
  PROVE  /\ task[t] \in TaskType
         /\ At(t, "account") => task[t].kind = "google"
         /\ task[t].kind = "signUp" => task[t].user \notin GoogleAccount
         /\ At(t, "auth") /\ task[t].kind # "signOut" => task[t].user \in Account
         /\ task[t].pc \in {"query", "record"} => task[t].user \in Account
         /\ task[t].pc \in Entry \cup {"open"} => task[t].user \in users
         /\ task[t].alone => AloneHolds(task[t], auth, google, prefs)
         /\ \A q \in Pc : LET k == [task[t] EXCEPT !.pc = q] IN
              /\ k.pc = q /\ k.user = task[t].user /\ k.kind = task[t].kind
              /\ k.alone = task[t].alone /\ k.clean = task[t].clean
  BY DEF Parts, TasksTyped, TaskType, HandlerOK, HandlerHolds, AloneOK, At

LEMMA NavigationKeeps == Parts /\ Navigate => Parts'
<1> SUFFICES ASSUME Parts, Navigate
             PROVE  Parts'
  OBVIOUS
<1>1. /\ PagesOK(screens, users) /\ Len(screens) \in Nat \ {0} /\ users \subseteq Account
      /\ screens \in Seq(PageType) /\ prefs["id"] \in users \cup {NoUser}
  BY DEF Parts, PagesOK, PlacesOK
<1>2. CASE CheckLogin
  BY <1>1, <1>2, TopReplaced, ShowKeeps DEF CheckLogin, SplashPage
<1>3. CASE OpenStored
  <2>1. PagesOK(TopBecomes("blank"), users) /\ Len(TopBecomes("blank")) = Len(screens)
    BY <1>1, TopReplaced DEF SplashPage
  <2>2. PagesOK(screens', users)
    BY <1>1, <1>3, <2>1, HomePage, PagesPushed DEF OpenStored, Maybe
  <2>3. Len(screens') >= Len(screens)
    BY <1>1, <1>3, <2>1 DEF OpenStored, PagesOK
  <2> QED
    BY <1>3, <2>2, <2>3, ShowKeeps DEF OpenStored
<1>4. CASE Restart
  BY <1>4, OnePage, RestartKeeps DEF Restart, SplashPage
<1>5. ASSUME NEW p \in {"signIn", "signUp"}, ReplaceTop(p)
      PROVE  Parts'
  BY <1>1, <1>5, TopReplaced, WithoutKeeps DEF ReplaceTop
<1>6. CASE Back
  BY <1>1, <1>6, PagesPopped, WithoutKeeps DEF Back
<1>7. CASE SwipeFromUserTab
  BY <1>1, <1>7, WithoutKeeps DEF SwipeFromUserTab
<1> QED
  BY <1>2, <1>3, <1>4, <1>5, <1>6, <1>7 DEF Navigate, ToSignIn, ToSignUp

\* What a handler has stored when it goes on after entry e.
LEMMA StoredAfter ==
  ASSUME NEW kind, NEW e \in Entry, kind = "signUp" => e # "phone"
  PROVE  /\ After(e, kind) \in Entry \cup {"open"}
         /\ kind = "signUp" => After(e, kind) # "phone"
         /\ Stored(After(e, kind), kind) \subseteq Stored(e, kind) \cup {e}
  BY DEF After, Stored, Entry

\* An entry is stored.
LEMMA StoreKeeps ==
  ASSUME Parts, NEW t \in Task, StoreEntry(t)
  PROVE  Parts'
<1> DEFINE e == task[t].pc
           q == After(e, task[t].kind)
           k == [task[t] EXCEPT !.pc = q]
<1>1. /\ e \in Entry /\ prefs' = [prefs EXCEPT ![e] = task[t].user] /\ Goto(t, q)
      /\ UNCHANGED <<accounts, auth, google, users, screens>>
  BY DEF StoreEntry
<1>2. task[t].kind = "signUp" => task[t].user \notin GoogleAccount /\ e # "phone"
  BY DEF Parts, HandlerOK, HandlerHolds
<1>3. /\ q \in Entry \cup {"open"} /\ (task[t].kind = "signUp" => q # "phone")
      /\ Stored(q, task[t].kind) \subseteq Stored(e, task[t].kind) \cup {e}
  BY <1>1, <1>2, StoredAfter
<1>4. task[t].user \in users /\ users \subseteq Account /\ prefs \in [Entry -> Maybe]
  BY <1>1 DEF Parts, HandlerOK, HandlerHolds, PlacesOK
<1>5. q \in Pc /\ e # "idle" /\ q \notin {"idle", "account", "auth", "query", "record",
                                        "disconnect", "googleOut", "clear", "leave"}
  BY <1>1, <1>3 DEF Pc, Entry
<1>6. /\ k.pc = q /\ k.user = task[t].user /\ k.kind = task[t].kind
      /\ k.alone = task[t].alone /\ k.clean = task[t].clean
  <2> HIDE DEF q
  <2> QED
    BY <1>5, Running1
<1> HIDE DEF k, q, e
<1>7. PlacesOK'
  BY <1>1, <1>4 DEF Parts, PlacesOK, Maybe
<1>8. HandlerHolds(k, users')
  BY <1>1, <1>2, <1>3, <1>4, <1>5, <1>6 DEF HandlerHolds
<1>9. ASSUME task[t].alone
      PROVE  AloneHolds(k, auth', google', prefs')
  <2>1. AloneHolds(task[t], auth, google, prefs) /\ auth = task[t].user
    BY <1>1, <1>9 DEF Parts, AloneOK, AloneHolds, e
  <2>2. \A f \in Stored(q, task[t].kind) : prefs'[f] = task[t].user
    <3>1. \A f \in Stored(e, task[t].kind) : prefs[f] = task[t].user
      BY <2>1 DEF AloneHolds, e
    <3>2. Stored(e, task[t].kind) \subseteq Entry
      BY DEF Stored, Entry
    <3>3. \A f \in Entry : prefs'[f] = IF f = e THEN task[t].user ELSE prefs[f]
      BY <1>1, <1>4
    <3> QED
      BY <1>1, <1>3, <3>1, <3>2, <3>3
  <2>3. task[t].kind = "signUp" /\ task[t].clean => prefs'["phone"] = NoUser
    <3>1. task[t].kind = "signUp" /\ task[t].clean => prefs["phone"] = NoUser
      BY <2>1 DEF AloneHolds
    <3> QED
      BY <1>1, <1>2, <1>4, <3>1 DEF Entry
  <2> QED
    BY <1>1, <1>5, <1>6, <2>1, <2>2, <2>3 DEF AloneHolds
<1>10. Goto(t, q) /\ task[t].pc # "idle" /\ screens' = screens /\ users \subseteq users'
  BY <1>1, <1>5 DEF e
<1> QED
  BY <1>5, <1>7, <1>8, <1>9, <1>10, GotoKeeps DEF k

LEMMA HandlerKeeps ==
  ASSUME Parts, NEW t \in Task, HandlerStep(t)
  PROVE  Parts'
<1>1. /\ PlacesOK /\ PagesOK(screens, users) /\ Len(screens) \in Nat
  BY DEF Parts, PagesOK
<1> USE DEF Pc
<1>2. ASSUME NEW u \in Account, SignInWithEmail(t, u)
      PROVE  Parts'
  BY <1>2, BeginKeeps DEF SignInWithEmail, Maybe
<1>3. CASE SignInWithGoogle(t)
  BY <1>3, BeginKeeps DEF SignInWithGoogle, Maybe
<1>4. ASSUME NEW u \in Account, SignUp(t, u)
      PROVE  Parts'
  BY <1>4, BeginKeeps DEF SignUp, Maybe
<1>5. CASE SignOut(t)
  BY <1>5, BeginKeeps DEF SignOut, Maybe
<1>6. CASE PickAccount(t)
  <2>1. PICK u \in GoogleAccount :
          /\ google' = u
          /\ task' = [task EXCEPT ![t].pc = "auth", ![t].user = u]
    BY <1>6 DEF PickAccount
  <2> DEFINE k == [task[t] EXCEPT !.pc = "auth", !.user = u]
  <2>2. /\ UNCHANGED <<accounts, auth, users, prefs, screens>>
        /\ task[t].pc = "account" /\ task \in [Task -> TaskType] /\ u \in Account
    BY <1>6, AccountAssumption DEF PickAccount, At, Parts, TasksTyped
  <2>0. k \in TaskType /\ task' = [task EXCEPT ![t] = k]
    <3>1. task' = [task EXCEPT ![t] = k]
      BY <2>1, <2>2, Zenon
    <3>2. k \in TaskType
      <4>1. task[t] \in TaskType /\ u \in Maybe
        BY <2>2 DEF Maybe
      <4> QED
        BY <4>1 DEF TaskType
    <3> QED
      BY <3>1, <3>2
  <2>3. /\ task' \in [Task -> TaskType] /\ task'[t] = k
        /\ \A s \in Task \ {t} : task'[s] = task[s]
    <3> HIDE DEF k
    <3> QED
      BY <2>2, <2>0
  <2>4. /\ k.pc = "auth" /\ k.user = u /\ k.kind = task[t].kind
        /\ k.at = task[t].at /\ k.alone = task[t].alone /\ k.clean = task[t].clean
    BY <2>2 DEF TaskType
  <2> HIDE DEF k
  <2>5. HandlerHolds(k, users') /\ AloneHolds(k, auth', google', prefs')
    BY <2>2, <2>4, Running1 DEF At, HandlerHolds, AloneHolds, Stored, Entry
  <2>6. HandlerOK' /\ AloneOK'
    BY <2>2, <2>3, <2>4, <2>5, HandlerMoves DEF Parts
  <2>7. TasksTyped'
    BY <2>2, <2>3, <2>4 DEF Parts, TasksTyped
  <2>8. PlacesOK' /\ PagesOK(screens', users')
    BY <1>1, <2>1, <2>2 DEF PlacesOK
  <2> QED
    BY <2>6, <2>7, <2>8 DEF Parts
<1>7. CASE SignedIn(t)
  BY <1>7, <1>1, AccountAssumption, Running1, GotoKeeps
    DEF SignedIn, At, HandlerHolds, AloneHolds, PlacesOK, Maybe, Stored, Entry
<1>8. CASE SignedUp(t)
  BY <1>8, <1>1, AccountAssumption, Running1, GotoKeeps
    DEF SignedUp, At, HandlerHolds, AloneHolds, PlacesOK, Maybe, Stored, Entry
<1>9. CASE RecordUser(t)
  BY <1>9, <1>1, AccountAssumption, Running1, GotoKeeps
    DEF RecordUser, At, HandlerHolds, AloneHolds, PlacesOK, Maybe, Stored, Entry
<1>10. CASE StoreEntry(t)
  BY <1>10, StoreKeeps
<1>12. CASE AuthOut(t)
  BY <1>12, <1>1, AccountAssumption, Running1, GotoKeeps
    DEF AuthOut, At, HandlerHolds, AloneHolds, PlacesOK, Maybe, Stored, Entry
<1>13. CASE Disconnect(t)
  BY <1>13, <1>1, AccountAssumption, Running1, GotoKeeps
    DEF Disconnect, At, HandlerHolds, AloneHolds, PlacesOK, Maybe, Stored, Entry
<1>14. CASE GoogleOut(t)
  BY <1>14, <1>1, AccountAssumption, Running1, GotoKeeps
    DEF GoogleOut, At, HandlerHolds, AloneHolds, PlacesOK, Maybe, Stored, Entry
<1>15. CASE Clear(t)
  BY <1>15, <1>1, AccountAssumption, Running1, GotoKeeps
    DEF Clear, At, HandlerHolds, AloneHolds, PlacesOK, Maybe, NoPrefs, Stored, Entry
<1>16. ASSUME NEW found \in BOOLEAN, Query(t, found)
       PROVE  Parts'
  BY <1>16, <1>1, Running1, GotoKeeps, EndKeeps
    DEF Query, stored, At, HandlerHolds, AloneHolds, PlacesOK, Maybe, Stored, Entry
<1>17. CASE AuthFails(t)
  BY <1>17, <1>1, EndKeeps DEF AuthFails, At
<1>18. CASE DisconnectFails(t)
  BY <1>18, <1>1, EndKeeps DEF DisconnectFails, At
<1>19. CASE NoContext(t)
  BY <1>19, <1>1, EndKeeps DEF NoContext, At
<1>20. CASE OpenHome(t)
  BY <1>20, <1>1, EndKeeps, HomePage, PagesPushed DEF OpenHome, At, PlacesOK, Maybe
<1>21. CASE Leave(t)
  <2>1. /\ UNCHANGED stored /\ screens' = <<Page("signIn")>>
        /\ task[t].pc = "leave" /\ task \in [Task -> TaskType]
    BY <1>21 DEF Leave, At, Parts, TasksTyped
  <2>2. Idle \in TaskType /\ ~Idle.alone /\ Idle.at = 0
    BY DEF Idle, TaskType, Maybe
  <2>3. task' = [s \in Task |-> IF s = t THEN Idle ELSE [task[s] EXCEPT !.at = 0]]
    BY <1>21 DEF Leave
  <2>4. ASSUME NEW s \in Task \ {t}
        PROVE  /\ task'[s] \in TaskType /\ task'[s].at = 0
               /\ task'[s].pc = task[s].pc /\ task'[s].user = task[s].user
               /\ task'[s].kind = task[s].kind /\ task'[s].alone = task[s].alone
               /\ task'[s].clean = task[s].clean
    BY <2>1, <2>3 DEF TaskType
  <2>5. task'[t] = Idle /\ task' \in [Task -> TaskType]
    BY <2>2, <2>3, <2>4
  <2>6. PagesOK(screens', users')
    BY <2>1, OnePage DEF stored
  <2>7. TasksTyped'
    BY <2>2, <2>4, <2>5, <2>6 DEF TasksTyped, PagesOK
  <2>8. HandlerOK'
    BY <2>1, <2>4, <2>5, IdleHolds DEF Parts, HandlerOK, HandlerHolds, stored
  <2>9. \A s \in Task : ~task'[s].alone
    BY <2>1, <2>2, <2>4, <2>5, RunningDisturbs DEF Parts
  <2>10. AloneOK' /\ PlacesOK'
    BY <1>1, <2>1, <2>9 DEF AloneOK, PlacesOK, stored
  <2> QED
    BY <2>6, <2>7, <2>8, <2>10 DEF Parts
<1> QED
  BY <1>2, <1>3, <1>4, <1>5, <1>6, <1>7, <1>8, <1>9, <1>10, <1>12, <1>13, <1>14,
     <1>15, <1>16, <1>17, <1>18, <1>19, <1>20, <1>21
    DEF HandlerStep

-----------------------------------------------------------------------------
(* The theorems. *)

\* The invariant of the session: what each step of signing in, up or out finds.
THEOREM SessionInvariant == Spec => []SessionInv
<1>1. Init => Parts
  BY InitHolds
<1>2. Parts /\ [Next]_vars => Parts'
  <2>1. Parts /\ UNCHANGED vars => Parts'
    BY DEF vars, stored, Parts, PlacesOK, TasksTyped, HandlerOK, AloneOK
  <2> QED
    BY <2>1, NavigationKeeps, HandlerKeeps DEF Next
<1>3. Parts => SessionInv
  BY InvParts
<1> QED
  BY <1>1, <1>2, <1>3, PTL DEF Spec

\* Stores, pages and handlers keep their shape (splash_screen.dart, signin_screen.dart,
\* signup_screen.dart, user_screen.dart).
THEOREM SessionTyped == Spec => []TypeOK
<1>1. SessionInv => TypeOK
  BY DEF SessionInv
<1> QED
  BY <1>1, SessionInvariant, PTL

\* Whoever the device takes for its user has a document that others can find,
\* whatever was killed, failed or overlapped.
THEOREM StoredUserHasDocument == Spec => []UserHasDocument
<1>1. SessionInv => UserHasDocument
  BY DEF SessionInv
<1> QED
  BY <1>1, SessionInvariant, PTL

\* handleSignOut, if nothing overlaps with it, forgets the user everywhere before
\* it shows the sign-in page.
THEOREM SignOutForgets == Spec => []SignedOutIsClean
<1>1. SessionInv => SignedOutIsClean
  BY DEF SessionInv, AloneOK, AloneHolds, SignedOutIsClean, At
<1> QED
  BY <1>1, SessionInvariant, PTL

\* A sign-in or sign-up that nothing overlaps with opens the home page of the user
\* that FirebaseAuth has, with that user's entries; a sign-up on empty preferences
\* leaves no phone, and on others the phone is as it was.
THEOREM SignInOpensItsUser == Spec => []SignInAgrees
<1>1. SessionInv => SignInAgrees
  <2> SUFFICES ASSUME SessionInv, NEW t \in Task, At(t, "open"), task[t].alone
               PROVE  /\ auth = task[t].user
                      /\ \A e \in Entry \ {"phone"} : prefs[e] = task[t].user
                      /\ task[t].kind # "signUp" => prefs["phone"] = task[t].user
                      /\ task[t].kind = "signUp" /\ task[t].clean => prefs["phone"] = NoUser
    BY DEF SignInAgrees
  <2>1. AloneHolds(task[t], auth, google, prefs)
    BY DEF SessionInv, AloneOK
  <2>2. /\ Entry \ {"phone"} \subseteq Stored("open", task[t].kind)
        /\ task[t].kind # "signUp" => "phone" \in Stored("open", task[t].kind)
    BY DEF Stored, Entry
  <2> QED
    BY <2>1, <2>2 DEF AloneHolds, At
<1> QED
  BY <1>1, SessionInvariant, PTL
=============================================================================
