----------------------------- MODULE Credentials -----------------------------
(***************************************************************************)
(* The write pipeline with the tokens its streams are opened with.         *)
(* FirebaseAuth changes its user on a queue of its own and tells of it by  *)
(* a notification on the main queue; the credentials provider passes it to *)
(* the client's worker queue.  A stream that starts asks FirebaseAuth for  *)
(* a token, which comes back by the same two queues.  Nothing else keeps a *)
(* stream of one user from being opened with the token of another: the     *)
(* provider compares a counter of notifications, the stream a counter of   *)
(* its closes.                                                             *)
(***************************************************************************)
EXTENDS WritePipeline

CONSTANTS SignedOut,  \* the user of FirebaseAuth and the client when there is none
          MaxFaults   \* bound: changes of user, tokens refreshed, losses, kills

ASSUME SignedOutAssumption == SignedOut \in User
ASSUME FaultAssumption == MaxFaults \in Nat

VARIABLES current,   \* _currentUser of FIRAuth, kept in the keychain
          asked,     \* token requests that FIRAuth has not looked at
          fetching,  \* those whose user is known and whose token is on its way
          main,      \* the main queue: notices of users, and tokens
          counter,   \* token_counter of the credentials provider
          closes,    \* close_count_ of the write stream
          worker,    \* what the main queue has enqueued for the client
          faults     \* faults so far

tokenVars == <<current, asked, fetching, main, counter, closes, worker, faults>>
allVars == <<vars, tokenVars>>

Request == [counter : Nat, closes : Nat]
Fetch == [counter : Nat, closes : Nat, user : User]
Notice == [kind : {"user"}, user : User]
MainItem == Notice \cup [kind : {"token"}, counter : Nat, closes : Nat, user : User]
WorkerItem == Notice \cup [kind : {"token"}, closes : Nat, user : User, aborted : BOOLEAN]

\* The notification that u is the user now, or has a new token.
NoticeOf(u) == [kind |-> "user", user |-> u]

\* A fault happens, within the bound.
Fault == faults < MaxFaults /\ faults' = faults + 1

\* The stream was closed n times in all; if it starts in this step, it asks for a token.
StreamClosed(n) ==
  /\ closes' = n
  /\ asked' = IF stream' = "Starting" /\ (stream # "Starting" \/ n # closes)
              THEN asked \cup {[counter |-> counter, closes |-> n]} ELSE asked

\* The stream is not closed in this step, and may start.
StreamKept == StreamClosed(closes)

-----------------------------------------------------------------------------
(* FirebaseAuth and the main queue. *)

\* The user signs in or out, or the token of the current one is refreshed.
UpdateCurrentUser(u) ==
  /\ Fault
  /\ current' = u
  /\ main' = Append(main, NoticeOf(u))
  /\ UNCHANGED <<vars, asked, fetching, counter, closes, worker>>

\* FIRAuth looks at a request: it wants a token of the user of now.
GetToken(r) ==
  /\ r \in asked
  /\ asked' = asked \ {r}
  /\ fetching' = fetching \cup {[counter |-> r.counter, closes |-> r.closes, user |-> current]}
  /\ UNCHANGED <<vars, current, main, counter, closes, worker, faults>>

\* Wrong: the notice of a refreshed token does not ask whose token it is.
TokenFetchedForAny(f, refreshed) ==
  /\ f \in fetching
  /\ fetching' = fetching \ {f}
  /\ IF refreshed THEN Fault ELSE UNCHANGED faults
  /\ main' = main \o (IF refreshed THEN <<NoticeOf(f.user)>> ELSE <<>>)
                  \o <<[kind |-> "token", counter |-> f.counter, closes |-> f.closes,
                        user |-> f.user]>>
  /\ UNCHANGED <<vars, current, asked, counter, closes, worker>>

\* The callback with the token is put on the main queue; a token that had to be
\* refreshed, of a user who is still the current one, is preceded by a notice.
TokenFetched(f, refreshed) ==
  /\ f \in fetching
  /\ fetching' = fetching \ {f}
  /\ IF refreshed THEN Fault /\ f.user = current ELSE UNCHANGED faults
  /\ main' = main \o (IF refreshed THEN <<NoticeOf(f.user)>> ELSE <<>>)
                  \o <<[kind |-> "token", counter |-> f.counter, closes |-> f.closes,
                        user |-> f.user]>>
  /\ UNCHANGED <<vars, current, asked, counter, closes, worker>>

\* The provider's observer counts the notification and tells the client.
HearNotice ==
  /\ main # <<>> /\ Head(main).kind = "user"
  /\ counter' = counter + 1
  /\ worker' = Append(worker, Head(main))
  /\ main' = Tail(main)
  /\ UNCHANGED <<vars, current, asked, fetching, closes, faults>>

\* The provider's callback: a token asked for before the last notification is
\* replaced by an error.
HearToken ==
  /\ main # <<>> /\ Head(main).kind = "token"
  /\ LET t == Head(main)
     IN  worker' = Append(worker, [kind |-> "token", closes |-> t.closes, user |-> t.user,
                                   aborted |-> t.counter # counter])
  /\ main' = Tail(main)
  /\ UNCHANGED <<vars, current, asked, fetching, counter, closes, faults>>

-----------------------------------------------------------------------------
(* The worker queue of the client. *)

\* The first item is done.
ItemDone == worker # <<>> /\ worker' = Tail(worker)

TokenArrives == worker # <<>> /\ Head(worker).kind = "token"

\* The stream was closed since it asked: the token is dropped.
TokenDropped ==
  /\ TokenArrives /\ Head(worker).closes # closes
  /\ ItemDone
  /\ UNCHANGED <<vars, current, asked, fetching, main, counter, closes, faults>>

ResumeStartWithCredentials ==
  /\ TokenArrives /\ Head(worker).closes = closes /\ ~Head(worker).aborted
  /\ OnWriteStreamOpen(Head(worker).user)
  /\ ItemDone
  /\ UNCHANGED <<current, asked, fetching, main, counter, closes, faults>>

\* No token: the stream is closed with an error, that FIRAuth gives (a fault) or that
\* the provider put in the place of a token.  No run has the second: the client hears
\* of the notice that makes the provider do so first, and closes the stream.
TokenFails ==
  /\ TokenArrives /\ Head(worker).closes = closes
  /\ IF Head(worker).aborted THEN UNCHANGED faults ELSE Fault
  /\ OnStreamError
  /\ ItemDone
  /\ StreamClosed(closes + 1)
  /\ UNCHANGED <<current, fetching, main, counter>>

HearCredentialChange ==
  /\ worker # <<>> /\ Head(worker).kind = "user"
  /\ CredentialDidChange(Head(worker).user)
  /\ ItemDone
  /\ StreamClosed(IF IsStarted(stream) THEN closes + 1 ELSE closes)
  /\ UNCHANGED <<current, fetching, main, counter, faults>>

\* The connection of an open stream is lost, or the call ends with a transient error.
CallFails ==
  /\ stream = "Open"
  /\ Fault
  /\ OnStreamError
  /\ StreamClosed(closes + 1)
  /\ UNCHANGED <<current, fetching, main, counter, worker>>

\* The other steps of the pipeline: those that close no stream ...
Undisturbed == UNCHANGED <<current, fetching, main, counter, worker, faults>>

AppWrites == (\E w \in Write : WriteMutations(w)) /\ StreamKept /\ Undisturbed

ClientStep ==
  /\ OnWriteStreamHandshakeComplete \/ OnWriteStreamMutationResult \/ BackoffElapsed
  /\ StreamKept /\ Undisturbed

ServerStep ==
  (ServerCommits \/ ServerRefuses) /\ StreamKept /\ Undisturbed

\* ... and those that do.
ClosingStep ==
  (HandleWriteError \/ IdleTimeout) /\ StreamClosed(closes + 1) /\ Undisturbed

\* The app is killed and started again.  FIRAuth loads the user from the keychain
\* in the background and tells of it: the client may start before, signed out.
RestartApp(loaded) ==
  /\ Fault
  /\ Restart(IF loaded THEN current ELSE SignedOut)
  /\ main' \in IF loaded THEN {<<>>, <<NoticeOf(current)>>} ELSE {<<NoticeOf(current)>>}
  /\ fetching' = {} /\ counter' = 0 /\ worker' = <<>>
  /\ closes' = 0
  /\ asked' = IF stream' = "Starting" THEN {[counter |-> 0, closes |-> 0]} ELSE {}
  /\ UNCHANGED current

-----------------------------------------------------------------------------

CredInit ==
  /\ Init
  /\ current = user
  /\ asked = {} /\ fetching = {}
  /\ main = <<>> /\ worker = <<>>
  /\ counter = 0 /\ closes = 0
  /\ faults = 0

HearMain == HearNotice \/ HearToken

WorkerStep ==
  TokenDropped \/ ResumeStartWithCredentials \/ HearCredentialChange

CredNext ==
  \/ \E u \in User : UpdateCurrentUser(u)
  \/ \E r \in asked : GetToken(r)
  \/ \E f \in fetching, refreshed \in BOOLEAN : TokenFetched(f, refreshed)
  \/ HearMain
  \/ WorkerStep
  \/ TokenFails
  \/ CallFails
  \/ AppWrites \/ ClientStep \/ ServerStep \/ ClosingStep
  \/ \E loaded \in BOOLEAN : RestartApp(loaded)

CredSpec == CredInit /\ [][CredNext]_allVars

\* Queues are served, timers fire, callbacks run, tokens come, and a server that
\* can be reached answers.
Fairness ==
  /\ WF_allVars(\E r \in asked : GetToken(r))
  /\ WF_allVars(\E f \in fetching : TokenFetched(f, FALSE))
  /\ WF_allVars(HearMain)
  /\ WF_allVars(WorkerStep \/ (TokenFails /\ UNCHANGED faults))
  /\ WF_allVars(ClientStep \/ ClosingStep)
  /\ WF_allVars(ServerStep)

FairSpec == CredSpec /\ Fairness

-----------------------------------------------------------------------------
(* Properties. *)

\* The two queues and the requests keep the shape the code gives them.
TokenTypeOK ==
  /\ current \in User
  /\ asked \subseteq Request /\ fetching \subseteq Fetch
  /\ main \in Seq(MainItem) /\ worker \in Seq(WorkerItem)
  /\ counter \in Nat /\ closes \in Nat /\ faults \in Nat

\* No notice among the first n items of a queue.
NoNotice(items, n) == \A i \in 1..n : items[i].kind # "user"

\* The last notice among the first n items of a queue, if any, is of v.
LastNoticeIs(items, n, v) ==
  \A i \in 1..n :
    items[i].kind = "user" /\ (\A j \in (i + 1)..n : items[j].kind # "user") => items[i].user = v

\* The client's user is v once the first n items of its queue are done.
UserAfter(n, v) == LastNoticeIs(worker, n, v) /\ (NoNotice(worker, n) => user = v)

\* Why no stream is opened with the token of another user.  Notices keep their
\* order, so the client ends up with the current user; a token the provider lets
\* pass is that of the user the client has when the token's turn comes.
TokenInv ==
  /\ TokenTypeOK
  /\ LastNoticeIs(main, Len(main), current)
  /\ NoNotice(main, Len(main)) => UserAfter(Len(worker), current)
  /\ \A r \in asked : r.counter <= counter
  /\ \A f \in fetching :
       /\ f.counter <= counter
       /\ f.counter = counter /\ NoNotice(main, Len(main)) => f.user = current
  /\ \A i \in 1..Len(main) : main[i].kind = "token" =>
       /\ main[i].counter <= counter
       /\ main[i].counter = counter /\ NoNotice(main, i - 1) =>
            UserAfter(Len(worker), main[i].user)
  /\ \A i \in 1..Len(worker) : worker[i].kind = "token" /\ ~worker[i].aborted =>
       UserAfter(i - 1, worker[i].user)

\* Composed with FirebaseAuth the pipeline makes the steps it may make: a call is
\* only opened with a token of the client's user (stream.mm:115-119,
\* firebase_credentials_provider_apple.mm:96-101).
ImplementsPipeline == Spec

\* Faults being bounded, some user stays in the end: all writes of his are answered,
\* through aborted and refreshed tokens, dropped answers and idle streams.
WritesAreAnswered == <>[](queue[current] = <<>>)
=============================================================================
