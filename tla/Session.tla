------------------------------- MODULE Session -------------------------------
(***************************************************************************)
(* Who is signed in on one device: the start of the app, sign-in with a    *)
(* password or with Google, sign-up and sign-out.                          *)
(*                                                                         *)
(* FirebaseAuth, the Google plugin, the preferences and the `users'        *)
(* documents keep their state when the app is killed.  The handlers change *)
(* them one await after the other, and nothing keeps a second handler from *)
(* starting before the first has ended: isLoading only draws a spinner.    *)
(* Each step here is the code up to the next await.  A handler whose       *)
(* screen has gone meanwhile runs on, until it needs its context.          *)
(***************************************************************************)
EXTENDS Integers, Sequences

CONSTANTS Account,       \* user ids
          GoogleAccount, \* the ids that sign in with Google, not a password
          NoUser,        \* null
          Account0,      \* accounts with a password that exist initially
          Document0,     \* ids that have a `users' document initially
          Task,          \* bound: handlers that run at once
          MaxDepth       \* bound: pages on the navigator

ASSUME AccountAssumption ==
  /\ NoUser \notin Account
  /\ GoogleAccount \subseteq Account
  /\ Account0 \subseteq Account \ GoogleAccount
  /\ Document0 \subseteq Account

VARIABLES accounts, \* password accounts that FirebaseAuth knows
          auth,     \* FirebaseAuth's current user
          google,   \* the account the Google plugin is signed in with
          users,    \* ids with a `users' document, on the server or waiting
          prefs,    \* the preferences: whose id, name, ... each entry is
          screens,  \* the navigator: its pages, the one shown last
          task      \* task[t]: a handler that was started and has not ended

stored == <<accounts, auth, google, users, prefs>>
vars == <<stored, screens, task>>

-----------------------------------------------------------------------------
(* Pages and handlers. *)

Maybe == Account \cup {NoUser}

\* The entries of the preferences.  What is stored in one, null included, counts
\* as a value of the user it was stored for.
Entry == {"id", "username", "email", "phone", "photoUrl"}

NoPrefs == [e \in Entry |-> NoUser]

\* The splash screen is white while it checks and while its timer runs, and
\* stays blank below the home page it opened; otherwise it shows two buttons.
SplashPage == {"checking", "waiting", "blank", "welcome"}

PageType == [page : SplashPage \cup {"signIn", "signUp", "home"}, id : Maybe]

Page(p) == [page |-> p, id |-> NoUser]
Home(id) == [page |-> "home", id |-> id]

Top == screens[Len(screens)]

\* pc: what the handler waits for.  at: the depth of the page it belongs to, 0
\* when that page has gone.  alone: no other handler ran at the same time, and
\* clean: the preferences were empty when it began (auxiliary: no step depends
\* on these two).
Pc == Entry \cup {"idle", "account", "auth", "query", "record", "open",
                  "disconnect", "googleOut", "clear", "leave"}

TaskType ==
  [kind  : {"none", "email", "google", "signUp", "signOut"},
   pc    : Pc,
   user  : Maybe,
   at    : Nat,
   alone : BOOLEAN,
   clean : BOOLEAN]

Idle ==
  [kind |-> "none", pc |-> "idle", user |-> NoUser, at |-> 0,
   alone |-> FALSE, clean |-> FALSE]

Running == {t \in Task : task[t] # Idle}

Init ==
  /\ accounts = Account0
  /\ auth = NoUser
  /\ google = NoUser
  /\ users = Document0
  /\ prefs = NoPrefs
  /\ screens = <<Page("checking")>>
  /\ task = [t \in Task |-> Idle]

\* A button on the page shown starts a handler.
Begin(t, kind, pc, u) ==
  /\ task[t] = Idle
  /\ task' = [s \in Task |->
                IF s = t THEN [kind |-> kind, pc |-> pc, user |-> u,
                               at |-> Len(screens), alone |-> Running = {},
                               clean |-> prefs = NoPrefs]
                ELSE IF task[s] = Idle THEN Idle
                ELSE [task[s] EXCEPT !.alone = FALSE]]
  /\ UNCHANGED <<stored, screens>>

At(t, pc) == task[t].pc = pc
Goto(t, pc) == task' = [task EXCEPT ![t].pc = pc]
End(t) == task' = [task EXCEPT ![t] = Idle]

\* The handlers after the page at depth n has gone.
WithoutPage(n) ==
  [t \in Task |-> [task[t] EXCEPT !.at = IF @ = n THEN 0 ELSE @]]

-----------------------------------------------------------------------------
(* Start, end and navigation. *)

\* The page shown becomes p.
TopBecomes(p) == [screens EXCEPT ![Len(screens)] = Page(p)]

\* checkLogin.
CheckLogin ==
  /\ Top.page = "checking"
  /\ screens' =
       TopBecomes(IF google # NoUser \/ prefs["id"] # NoUser THEN "waiting" ELSE "welcome")
  /\ UNCHANGED <<stored, task>>

\* The timer of checkLogin pushes the home page of the stored id.
OpenStored ==
  /\ Top.page = "waiting"
  /\ screens' = Append(TopBecomes("blank"), Home(prefs["id"]))
  /\ UNCHANGED <<stored, task>>

\* The app is killed and started again.
Restart ==
  /\ screens' = <<Page("checking")>>
  /\ task' = [t \in Task |-> Idle]
  /\ UNCHANGED stored

ReplaceTop(p) ==
  /\ screens' = TopBecomes(p)
  /\ task' = WithoutPage(Len(screens))
  /\ UNCHANGED stored

ToSignIn == Top.page \in {"welcome", "signUp"} /\ ReplaceTop("signIn")
ToSignUp == Top.page \in {"welcome", "signIn"} /\ ReplaceTop("signUp")

\* The system's back button; on the first page it leaves the app as it is.
Back ==
  /\ Len(screens) > 1
  /\ screens' = SubSeq(screens, 1, Len(screens) - 1)
  /\ task' = WithoutPage(Len(screens))
  /\ UNCHANGED stored

\* A swipe from the user tab disposes of it, while the home page stays.
SwipeFromUserTab ==
  /\ Top.page = "home"
  /\ \E t \in Task : task[t].at = Len(screens)
  /\ task' = WithoutPage(Len(screens))
  /\ UNCHANGED <<stored, screens>>

-----------------------------------------------------------------------------
(* Signing in and up. *)

SignInWithEmail(t, u) ==
  /\ Top.page = "signIn"
  /\ u \notin GoogleAccount
  /\ Begin(t, "email", "auth", u)

SignInWithGoogle(t) ==
  /\ Top.page = "signIn"
  /\ Begin(t, "google", "account", NoUser)

SignUp(t, u) ==
  /\ Top.page = "signUp"
  /\ u \notin GoogleAccount
  /\ Begin(t, "signUp", "auth", u)

\* googleSignIn.signIn: an account that is signed in is not asked for again.
PickAccount(t) ==
  /\ At(t, "account")
  /\ \E u \in GoogleAccount :
       /\ google \in {NoUser, u}
       /\ google' = u
       /\ task' = [task EXCEPT ![t].pc = "auth", ![t].user = u]
  /\ UNCHANGED <<accounts, auth, users, prefs, screens>>

\* signInWithEmailAndPassword or signInWithCredential succeeds ...
SignedIn(t) ==
  /\ At(t, "auth")
  /\ task[t].kind \in {"email", "google"}
  /\ task[t].user \in accounts \cup GoogleAccount
  /\ auth' = task[t].user
  /\ Goto(t, "query")
  /\ UNCHANGED <<accounts, google, users, prefs, screens>>

\* ... createUserWithEmailAndPassword makes a new account ...
SignedUp(t) ==
  /\ At(t, "auth")
  /\ task[t].kind = "signUp"
  /\ task[t].user \notin accounts
  /\ accounts' = accounts \cup {task[t].user}
  /\ auth' = task[t].user
  /\ Goto(t, "record")
  /\ UNCHANGED <<google, users, prefs, screens>>

\* ... or the call throws: no connection, cancelled, no such account.
AuthFails(t) ==
  /\ At(t, "account") \/ (At(t, "auth") /\ task[t].kind # "signOut")
  /\ End(t)
  /\ UNCHANGED <<stored, screens>>

\* getDocuments, answered from the cache when there is no connection, may miss
\* a document.  "User not exist" ends a sign-in with a password; with Google
\* the document is written, before anything is stored.
Query(t, found) ==
  /\ At(t, "query")
  /\ found => task[t].user \in users
  /\ IF found \/ task[t].kind = "google" THEN Goto(t, "id") ELSE End(t)
  /\ users' = IF ~found /\ task[t].kind = "google"
              THEN users \cup {task[t].user} ELSE users
  /\ UNCHANGED <<accounts, auth, google, prefs, screens>>

\* setData of the new user.
RecordUser(t) ==
  /\ At(t, "record")
  /\ users' = users \cup {task[t].user}
  /\ Goto(t, "id")
  /\ UNCHANGED <<accounts, auth, google, prefs, screens>>

\* The entries are stored one await after the other; a sign-up stores no phone.
After(e, kind) ==
  CASE e = "id"       -> "username"
    [] e = "username" -> "email"
    [] e = "email"    -> IF kind = "signUp" THEN "photoUrl" ELSE "phone"
    [] e = "phone"    -> "photoUrl"
    [] e = "photoUrl" -> "open"

\* Wrong: what is stored already is kept.
StoreEntryOnce(t) ==
  LET e == task[t].pc IN
  /\ e \in Entry
  /\ prefs' = IF prefs[e] = NoUser THEN [prefs EXCEPT ![e] = task[t].user] ELSE prefs
  /\ Goto(t, After(e, task[t].kind))
  /\ UNCHANGED <<accounts, auth, google, users, screens>>

\* prefs.setString.
StoreEntry(t) ==
  LET e == task[t].pc IN
  /\ e \in Entry
  /\ prefs' = [prefs EXCEPT ![e] = task[t].user]
  /\ Goto(t, After(e, task[t].kind))
  /\ UNCHANGED <<accounts, auth, google, users, screens>>

\* Wrong: the id is that of FirebaseAuth, which another handler may have set.
OpenHomeOfAuth(t) ==
  /\ At(t, "open")
  /\ task[t].at # 0
  /\ Len(screens) < MaxDepth
  /\ screens' = Append(screens, Home(auth))
  /\ End(t)
  /\ UNCHANGED stored

\* Navigator.push of the home page of the stored id.
OpenHome(t) ==
  /\ At(t, "open")
  /\ task[t].at # 0
  /\ Len(screens) < MaxDepth
  /\ screens' = Append(screens, Home(prefs["id"]))
  /\ End(t)
  /\ UNCHANGED stored

\* The context of a page that has gone: an exception ends the handler.
NoContext(t) ==
  /\ At(t, "open") \/ At(t, "leave")
  /\ task[t].at = 0
  /\ End(t)
  /\ UNCHANGED <<stored, screens>>

-----------------------------------------------------------------------------
(* handleSignOut. *)

SignOut(t) ==
  /\ Top.page = "home"
  /\ Begin(t, "signOut", "auth", NoUser)

AuthOut(t) ==
  /\ At(t, "auth")
  /\ task[t].kind = "signOut"
  /\ auth' = NoUser
  /\ Goto(t, "disconnect")
  /\ UNCHANGED <<accounts, google, users, prefs, screens>>

Disconnect(t) ==
  /\ At(t, "disconnect")
  /\ google' = NoUser
  /\ Goto(t, "googleOut")
  /\ UNCHANGED <<accounts, auth, users, prefs, screens>>

\* disconnect throws: no connection, or nobody is signed in with Google.
DisconnectFails(t) ==
  /\ At(t, "disconnect")
  /\ End(t)
  /\ UNCHANGED <<stored, screens>>

GoogleOut(t) ==
  /\ At(t, "googleOut")
  /\ google' = NoUser
  /\ Goto(t, "clear")
  /\ UNCHANGED <<accounts, auth, users, prefs, screens>>

\* Wrong: only the selected day is removed.
ClearDayOnly(t) == At(t, "clear") /\ Goto(t, "leave") /\ UNCHANGED <<stored, screens>>

Clear(t) ==
  /\ At(t, "clear")
  /\ prefs' = NoPrefs
  /\ Goto(t, "leave")
  /\ UNCHANGED <<accounts, auth, google, users, screens>>

\* Wrong: the handlers of the pages removed still have their context.
LeaveKeepingPages(t) ==
  /\ At(t, "leave")
  /\ task[t].at # 0
  /\ screens' = <<Page("signIn")>>
  /\ End(t)
  /\ UNCHANGED stored

\* pushAndRemoveUntil: the sign-in page is all that is left.
Leave(t) ==
  /\ At(t, "leave")
  /\ task[t].at # 0
  /\ screens' = <<Page("signIn")>>
  /\ task' = [s \in Task |-> IF s = t THEN Idle ELSE [task[s] EXCEPT !.at = 0]]
  /\ UNCHANGED stored

-----------------------------------------------------------------------------
Navigate ==
  \/ CheckLogin
  \/ OpenStored
  \/ Restart
  \/ ToSignIn
  \/ ToSignUp
  \/ Back
  \/ SwipeFromUserTab

HandlerStep(t) ==
  \/ \E u \in Account : SignInWithEmail(t, u)
  \/ SignInWithGoogle(t)
  \/ \E u \in Account : SignUp(t, u)
  \/ PickAccount(t)
  \/ SignedIn(t)
  \/ SignedUp(t)
  \/ AuthFails(t)
  \/ \E found \in BOOLEAN : Query(t, found)
  \/ RecordUser(t)
  \/ StoreEntry(t)
  \/ OpenHome(t)
  \/ NoContext(t)
  \/ SignOut(t)
  \/ AuthOut(t)
  \/ Disconnect(t)
  \/ DisconnectFails(t)
  \/ GoogleOut(t)
  \/ Clear(t)
  \/ Leave(t)

Next == Navigate \/ \E t \in Task : HandlerStep(t)

Spec == Init /\ [][Next]_vars

-----------------------------------------------------------------------------
(* Properties. *)

\* Every variable keeps the shape the code gives it, and a handler belongs to a
\* page that is there.
TypeOK ==
  /\ accounts \subseteq Account \ GoogleAccount
  /\ auth \in Maybe
  /\ google \in GoogleAccount \cup {NoUser}
  /\ users \subseteq Account
  /\ prefs \in [Entry -> Maybe]
  /\ screens \in Seq(PageType) /\ Len(screens) > 0
  /\ task \in [Task -> TaskType]
  /\ \A t \in Task : task[t].at <= Len(screens)

\* Whoever the device takes for its user, in the preferences or on an open home
\* page, has a `users' document for others to find: the id is stored only after
\* a query found the document or setData was issued, whatever is killed,
\* fails or overlaps (signin_screen.dart:111-139, 182-200, signup_screen.dart:95-108).
UserHasDocument ==
  /\ prefs["id"] \in users \cup {NoUser}
  /\ \A i \in 1..Len(screens) : screens[i].id \in users \cup {NoUser}

\* When handleSignOut, not overlapped by another handler, is about to show the
\* sign-in page (user_screen.dart:331), none of the four places remembers a user.
SignedOutIsClean ==
  \A t \in Task :
    At(t, "leave") /\ task[t].alone =>
      auth = NoUser /\ google = NoUser /\ prefs = NoPrefs

\* A sign-in or sign-up that no other handler overlapped is about to open the home
\* page of the user that FirebaseAuth has, and every entry it stores is that user's,
\* whatever was left in the preferences (signin_screen.dart:118-122, 196-220).  The
\* phone, which a sign-up does not store (signup_screen.dart:108-112), is nobody
\* else's if the preferences were empty; after Back from a home page they are not,
\* and the phone of the user before stays.
SignInAgrees ==
  \A t \in Task :
    At(t, "open") /\ task[t].alone =>
      /\ auth = task[t].user
      /\ \A e \in Entry \ {"phone"} : prefs[e] = task[t].user
      /\ task[t].kind # "signUp" => prefs["phone"] = task[t].user
      /\ task[t].kind = "signUp" /\ task[t].clean => prefs["phone"] = NoUser

\* What the properties above rest on.  A handler k that is past choosing an
\* account has one, without a Google id if it signs up, and one that stores an id
\* knows of a document ...
HandlerHolds(k, docs) ==
  /\ k.pc = "account" => k.kind = "google"
  /\ k.pc = "auth" /\ k.kind # "signOut" => k.user \in Account
  /\ k.kind = "signUp" => k.user \notin GoogleAccount /\ k.pc # "phone"
  /\ k.pc \in {"query", "record"} => k.user \in Account
  /\ k.pc \in Entry \cup {"open"} => k.user \in docs

HandlerOK == \A t \in Task : HandlerHolds(task[t], users)

\* ... and one that runs alone finds everything as it left it: the entries it
\* has stored are its user's, and a phone it does not store is as it was.
Stored(pc, kind) ==
  CASE pc = "username" -> {"id"}
    [] pc = "email"    -> {"id", "username"}
    [] pc = "phone"    -> {"id", "username", "email"}
    [] pc = "photoUrl" -> {"id", "username", "email"} \cup
                          (IF kind = "signUp" THEN {} ELSE {"phone"})
    [] pc = "open"     -> Entry \ (IF kind = "signUp" THEN {"phone"} ELSE {})
    [] OTHER           -> {}

AloneHolds(k, a, g, p) ==
  /\ k.pc \in Entry \cup {"query", "record", "open"} => a = k.user
  /\ \A e \in Stored(k.pc, k.kind) : p[e] = k.user
  /\ k.kind = "signUp" /\ k.clean => p["phone"] = NoUser
  /\ k.pc \in {"disconnect", "googleOut", "clear", "leave"} => a = NoUser
  /\ k.pc \in {"googleOut", "clear", "leave"} => g = NoUser
  /\ k.pc = "leave" => p = NoPrefs

AloneOK ==
  \A t \in Task : task[t].alone =>
    /\ \A s \in Task \ {t} : task[s] = Idle
    /\ AloneHolds(task[t], auth, google, prefs)

\* The inductive invariant: every step of a handler finds what the steps before
\* it have written, or what may have changed since does not matter to it.
SessionInv == TypeOK /\ UserHasDocument /\ HandlerOK /\ AloneOK

\* The comment "Write data to local" of splash_screen.dart:35, where other
\* handlers store the id: the home page opened at the start has a user.
SplashKnowsUser ==
  \A i \in 1..(Len(screens) - 1) :
    screens[i].page = "blank" => screens[i + 1].id # NoUser
=============================================================================
