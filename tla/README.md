# A verification project for the calendar app

The repository is a Flutter app (Dart, `src/lib`, 4,741 lines): a calendar whose
events are shared by inviting other users in a chat. All shared state lives in
Cloud Firestore, whose client for iOS is checked in under `src/ios/Pods`. This
directory holds TLA+ modules of the parts in which several devices, or several
handlers, queues and timers of one device, work on the same state, the TLC
configurations that check them on small instances, and TLAPS proofs for every
instance.

`PROJECT.json` names, for every definition, the lines of the source it stands for,
the runs with their properties, one deliberately wrong variant of the code per
property (the operators marked `Wrong:` in the modules) that the run has to
refute, the hazards, and the theorems.

Contents: 1 inventory, 2 the modules, 3 the runs, 4 fairness, 5 the proofs,
6 three findings, 7 assumptions and what is not modelled, 8 plan.

## 1. Inventory

| Component | Source | State | Operations | Modelled in |
|---|---|---|---|---|
| Shared store | the `cloud_firestore` plugin, as `src/lib` uses it | collections `events`, `users`, `chat_room`, `messages/<chatId>/<chatId>`; a persistent cache and a queue of waiting writes on each device | `add`, `setData`, `updateData`, `arrayUnion`, `arrayRemove`, `snapshots()` | `Firestore` |
| Chat | `chat/*.dart`, `screen/chat_screen.dart` | the open room, the `State` of its rows | list of rooms, New Chat, open, build (marks messages read), send | `ChatRooms` |
| Event sharing | `event/event_view.dart`, `event_detail.dart`, `event_invite.dart`, `chat/chat_invitation.dart` | the event page with its captured `EventModal`, the invite sheet with `isInvited` | add, open, delete, invite, accept, reject | `EventSharing`, abstractly `GuestList` |
| Event editor | `event/event_modal.dart`, `event_new.dart` | start and end halves, picker flags, wheels | taps, wheels, confirm, all-day, title, add | `EventEditor`, `DartDate` |
| Session | `screen/splash_screen.dart`, `signin_screen.dart`, `signup_screen.dart`, `user_screen.dart` | FirebaseAuth and Google accounts, stored id, name, e-mail, phone and photo, `users` document | start, sign in, sign up, sign out, upload a photo | `Session` (not the upload) |
| Tabs | `index.dart` | two page controllers that animate each other | tap, touch, drag, release, a frame | `Tabs` |
| Calendar bloc and month pages | `bloc.dart`, `schedule/*.dart`, `main.dart`, `screen/calendar_screen.dart` | selected day, listed day, saved day, page, header, timers | tap a day, the title, swipe, a page change, a timer, sign out, restart | `Calendar`; the days of a page in `MonthGrid` |
| Firestore client, write path | `remote_store.mm`, `stream.mm`, `write_stream.mm`, `grpc_stream.cc`, `leveldb_mutation_queue.mm`, `FSTSyncEngine.mm` | mutation queues in LevelDB, write pipeline, write stream with handshake, idle timer, backoff, batch ids | write, open, handshake, result, error, idle, backoff, change of user, restart | `WritePipeline`, abstractly `WriteQueue` |
| Firebase credentials | `firebase_credentials_provider_apple.mm`, `FIRAuth.m`, `FIRUser.m`, `FSTFirestoreClient.mm` | current user, token requests, main and worker queue, two counters | change of user, get a token, refresh it, notices | `Credentials` |
| Firestore client, listen path | `watch_stream.mm`, `remote_event.mm`, `FSTLocalStore.mm` | targets, views, local documents | listen, snapshots | no: the `Listen` steps of `Firestore` are what it is taken to do |
| Platform shells, other vendored code | `src/ios`, `src/android` | none of the app's | none of the app's | no |
| Widget test | `src/test/widget_test.dart` | none | the counter test of the Flutter template; it describes another program | no |

**How they interact.** A handler of the UI calls the plugin without awaiting it; the
plugin persists the write and sends it when there is a connection. Every other
screen hears of it, its own included, through `snapshots()` listeners wrapped in
`StreamBuilder`s. An invitation is a chat message of type 1 whose content is an event
id; its tile has a listener on that event. The sheet that makes an event gets its
day from the calendar bloc, which lives as long as the home page and is disposed of by
the sign-out of the user tab. The signed-in user's id comes from SharedPreferences. Under
the plugin, the client keeps a queue of writes per user; FirebaseAuth tells it over the
main queue who the user is, and every stream it opens asks FirebaseAuth for a token.

**What is hard here**, the list under `hazards` in short:

- handlers that issue several writes and await none (`handleButton`, `_handleSubmit`,
  `sendInvitation`): killed half-way, delayed, sent after other devices' writes;
- work off line: an event is shared, answered and left before the server has it;
- screens that keep what they captured: chat rows and invitation tiles reuse their
  `State` by index, the event page keeps `parti`, the sheet keeps indices into a
  list of users that changes under it;
- receipts written while a list is built, and two users who each compute their room's id;
- signing in, up and out: five or six awaits each, persisted one by one, killed or failing
  between them, and nothing that keeps a second handler from overlapping;
- dates: hour 24, months that lack a day, AM/PM flags beside hours, wheels beside
  the event they edit, days added as 24 hours where the clocks change, midnights of
  one zone read in another;
- views that animate each other, and timers of 100 and 500 ms that act on a screen, a
  bloc and preferences that may have changed or gone meanwhile;
- answers that do not say which write they are for, on a call that may be lost with
  answers on the way; a permanent error that ends the call for all writes on it; ids
  found again after a kill;
- tokens and changes of user that cross two queues while streams close and start.

**What makes each component correct.** The store: writes of a device arrive in order,
and every update finds its document. Chat: a pair of users has one room, a listed
room has a message, a receipt is the addressee's, and receipts come back. Sharing:
nobody is a participant who did not create the event or press Accept, every chain of
invitations starts at the host, an accepted invitation is honoured. Editor: the
event is in order after every tap, and the wheels and the event agree whenever the
date on the wheels exists. Session: whoever the device takes for its user has a
document others can find, and a sign-out forgets him everywhere. Tabs and calendar:
what moves comes to rest, icons on the tab of the screens, the header on the month of
the page, the list and the bloc on the day tapped last; a page shows whole weeks and
every event is listed on its days. Write path: an answer is for the write it is taken
for, what is acknowledged was committed, by its author, in the order of issue, and
every write is answered.

## 2. The modules

```
                           GuestList (INSTANCE)
                               |
Firestore <- ChatRooms <- EventSharing <--- EventSharingInv <- EventSharing_proofs
                 ^- ChatRoomsInv <--------- EventSharingInv <- MCEventSharing
                    ChatRoomsInv <- ChatRooms_proofs <-------- EventSharing_proofs
                    ChatRoomsInv <- MCChatRooms

DartDate <- EventEditor <- MCEventEditor             Session <- Session_proofs
    ^            ^------------ EventEditor_proofs        ^- MCSession
    +- DartDate_proofs <------ EventEditor_proofs
    |       ^----------------- MonthGrid_proofs
    +- MonthGrid <------------ MonthGrid_proofs
            ^----------------- MCMonthGrid

Tabs <- Calendar <- Calendar_proofs
            ^- MCCalendar

WriteQueue (INSTANCE) <- WritePipeline <- Credentials <- WritePipeline_proofs
                                              ^- MCCredentials
```

**Firestore** has `server`, `cache[d]` and `queue[d]`. The plugin is modelled from its use.
`Enqueue` persists the writes of one handler, `Commit(d)` is the server's answer to the
oldest waiting write of device `d`, `ListenEvent`, `ListenMsgs`, `ListenRooms`,
`ListenUsers` are snapshots that bring a cache up to date with one document or
collection. Queries (`ViewMsgs`, `Participates`, ...) read the cache with the waiting
writes applied, as the plugin does. An update whose document is missing is rejected
(`Finds`), silently as the app ignores the result.

**ChatRooms** adds `ui[d]`, the screen of each device. `OpenRoom` has the two ways into a
room (a row of the chat list, a row of New Chat). `RenderRoom` is one build of the
room: it lays rows over the messages, keeping the `State` of a row whose index and
widget class it finds again (`TileAt`), and issues the receipts that
`chat_room.dart:95-106` writes while building. `HandleSubmit` is the composer: the
message, then the room document. `Perform` is what all handlers have in common: all
writes are persisted and the screen goes on, or the app is killed after a prefix of
them and comes back at the home screen. `Kill` ends the app between handlers.

**EventSharing** adds the event page and the invite sheet to `ui` and the history
variable `accepted`. `AddEvent`, `OpenDetail`, `CloseDetail`, `DeleteEvent`, `OpenSheet`,
`CloseSheet`, `Invite`, `SendInvitation` and `HandleButton` are the handlers of the
same names in the source. The event page and the sheet keep the `parti` that was
read when the event was tapped. `Invite` flips a flag at an index; `SendInvitation`
sends to the users who are at the flagged indices *then*, with a message and a room
document for each, at possibly different clock readings. `HandleButton` answers the
message the tile captured and issues the reaction and, on Accept, the join
(`AnswerTo`).

**GuestList** is what sharing promises, with no devices, queues or messages: hosts
create parties, hosts and guests who answered invite, invited guests answer, those who
answered may join, members may leave. `EventSharing` implements it under the mapping
of `Guests`: the documents on the server are the guest list. **EventSharingInv** holds the
inductive invariant `IInv`, **EventSharing_proofs** its proof; **ChatRoomsInv** and
**ChatRooms_proofs** do the same for the chat alone (`ChatInv`).

**EventEditor** has the two halves of an `EventModal` (`start`, `end`: a day, a time of day
and an AM/PM flag, kept apart as in the code), the flags of the sheet (`picking`),
and what the wheels show (`wheels`, over a day wheel of `dayCount` items). `StartTrigger`
and `EndTrigger` run `startUpdate`/`endUpdate` and then build or move the wheels: when
the picker was closed, `initController` ran *before* the update and `pickerAnimate` has
nothing on the screen to move (`Shown`). `TurnYear` ... `TurnAPM` are the selected-item
callbacks. `AddEvent` is the validation and the added document. **DartDate** is Dart's
`DateTime` as far as the app uses it: a day past the end of its month runs over into
the next one, an hour is a duration that is added.

**Session** has what survives the app (`accounts`, `auth`, `google`, `users`, `prefs`), the
navigator's `screens` and the running handlers, `task`. A step is the code from one
await to the next, so that `Restart` (the app is killed and started again) and the
other handler can come between any two: `PickAccount`, `SignedIn`, `Query`, five times
`StoreEntry`, `OpenHome` for a sign-in, `SignedUp`, `RecordUser` and the same rest for
a sign-up, `AuthOut`, `Disconnect`, `GoogleOut`, `Clear`, `Leave` for `handleSignOut`.
`AuthFails` and `DisconnectFails` are the exceptions. A handler keeps the depth of its
page (`at`); when that page is popped, replaced or swiped away the handler runs on and
fails at the first use of its context (`NoContext`). `setData` counts as done once it
was issued, before the preferences are written: it goes to the plugin first, and the
plugin persists it. `users` is what a query on the device can see; off line `Query` may
also miss a document. The preferences have five entries, stored one await after the other,
and the model tells of each whose it is. A sign-up stores four: after Back from a home
page and a sign-up the phone is still the one of the user before. `alone` and `clean` are
auxiliary and say that no other handler ran meanwhile, and that the preferences were empty
when the handler began.

**Tabs** has the icons and the screens of the home page, two `PageView`s whose
`onPageChanged` both run `pageAnimateTo`, which animates both. `pos[v]` is where a view
lies, in thirds of a page, so that there is a place on either side of the middle at
which it rounds to another page; `target[v]` is where it is on its way to. `Animate(v)`
is one frame, and frames of the two views interleave freely. `Touch`, `Drag` and
`Release` are a finger.

**Calendar** extends it with the calendar tab: the bloc (`selectedDay`), the list, the month
page with its `goal`, the header, the saved day and the running `timers`. `TapDay` has
the two branches of `onTap`: a day of the month is selected at once, a grey one sends the
calendar to its page and is selected by a timer 500 ms later. `PageChange` starts the
timer that moves the header 100 ms later. Timers fire in the order of their deadlines
(`Due`); animations take as long as they like. `ScreenFollows` disposes of the calendar
screen when its tab is out of sight and builds it anew, with the page controllers' first
page but the bloc of before. `SignOut`, `SignOutFails`, `Clear`, `Dispose` and
`DisposeFails` are the awaits of `handleSignOut` as far as they touch the bloc. A kill can
come at any time: with the id still in the preferences (`known`) the next start opens the home
page (`Restart`), without it the buttons to sign in (`RestartOut`). `SignIn` is the next
user. The bloc takes taps until it is disposed of, so that a timer can save a day after the
preferences were cleared; the history `lingers` says that one did and no `Dispose` came
after it.

**MonthGrid** is the arithmetic under both: from a page to its cells, from a day to its
page, from an event to the days it is listed on, with instants and local days kept
apart by a time `zone` that may have summer time. Its steps are a swipe, a tap on any
cell and an added event.

**WritePipeline** is the client's write path. `WriteMutations` appends a batch to the queue
of the user and fills the pipeline; `FillAndSend` and `FillAndStart` are
`FillWritePipeline` with an open stream and without one. `OnWriteStreamOpen`,
`OnWriteStreamHandshakeComplete`, `OnWriteStreamMutationResult` and `HandleWriteError`
are the callbacks of the same names; `OnStreamError`, `BackoffElapsed` and `IdleTimeout`
the ends of a stream. `CredentialDidChange` swaps the queue, `Restart` finds the batch
id again from the rows. `ServerCommits` and `ServerRefuses` read the call. `log`,
`refused` and `answer` are history.

**Credentials** composes it with what gives a stream its token: `UpdateCurrentUser`,
`GetToken` and `TokenFetched` on FirebaseAuth's queue, `HearNotice` and `HearToken` on the
main queue, and on the worker queue `HearCredentialChange`, `TokenDropped`,
`ResumeStartWithCredentials` and `TokenFails`. `counter` is the provider's
`token_counter`, `closes` the stream's `close_count_`. It refines
`WritePipeline!Spec`, in which a call is opened with the user's own token by definition.

**WriteQueue** is what the app may rely on: a queue per user; the server sees a write only
after those before it, possibly again while it is unanswered; the oldest is acknowledged
when the server has it, or dropped after the server refused one of those it was shown.

## 3. The runs

| Run | Instance | Properties | Shows |
|---|---|---|---|
| `chat` | 2 users, a device each, 2 messages, 2 clock readings, user 1 not signed up at first; hash codes order the ids the other way (92,322 states) | `ChatTypeOK`, `ReadByAddressee`, `RoomHasMessage`, `OneRoomPerPair`, `TickIsTruthful` | receipts, room documents and kept tiles under every interleaving of builds, commits, snapshots and kills |
| `share` | a host, a user, a third who signs up late and is listed first; one event, 2 invitations (140,718) | `TypeOK`, `JoinNeedsReaction`, `InvitersWereInvited`, `UpdatesFindTheirDocument`, `ReactedByAddressee`, `ImplementsGuestList` | the documents behave like a guest list, also when flags of the open sheet point at other users |
| `two_answers` | the invited user has two devices, or gets two invitations at two times (384,422) | `ConsentedMembers` | both devices answer, one leaves while the other lags; a second invitation meets the tile of the first |
| `share_live` | two users; two texts, or an event and an invitation (19,501) | `AcceptedJoins`, `ReceiptComesBack` | a persisted Accept makes a participant; between two users who keep their room open a message is read and the receipt returns |
| `editor` | the sheet opened at 23:30 on 31 January 2019; January and February, 2019 and 2020 (343,099) | `TypeOK`, `TriggerOrders`, `TurnsInStep`, `OpensInStep` | every order of taps and picks over hour 24, noon, midnight and the 31st of February |
| `session` | one device, a user with an account, one who can only sign up, one with Google; 2 handlers at once, 3 pages deep (2,766,874, symmetric in the handlers) | `TypeOK`, `UserHasDocument`, `SignedOutIsClean`, `SignInAgrees` | who is signed in, over overlapping handlers, failures, kills, Back and swipes |
| `calendar` | 3 months, 6 days, two of them beyond the months' ends and two of one month, 4 things the user does (403,435) | `TypeOK`, `TabsAgree`, `HeaderFollows`, `AskedIsSelected`, `NextUserSeesToday`, `HomeSettles` | everything on the home page comes to rest, on the same tab, month and day; the next user starts today |
| `grid` | all 120 pages, in Hong Kong, in two European zones, in Tehran, which changes its clocks at midnight, and in Dubai, half an hour from there; events of up to 3 days (76,848) | `GridShowsWeeks`, `EventOnItsDays`, `GreyDaysLeadNextDoor` | which days a page shows, where they lead, and where an event is listed |
| `writes` | a user and the signed-out user, three writes of which two are sent at once, two faults (817,060) | `PipelineInv`, `ResultIsOfFirst`, `NoAssertFails`, `AcknowledgedIsCommitted`, `CommittedAsAuthor`, `ImplementsPipeline`, `ImplementsWriteQueue`, `WritesAreAnswered` | answers, tokens, idle timers, ids and a full pipeline through changes of user, lost calls and kills |
| `splash` | `session` with one handler (counterexample of 8 states) | `SplashKnowsUser` violated | the second finding of section 6 |
| `late_evening` | the sheet opened at 23:00 (counterexample of 9 states) | `AddedDatesInOrder` violated | the first finding |
| `rejected` | three writes of one user, no fault | `RejectedWasRefused` violated | the third finding |

**Bounds.** `MaxMsgs` bounds the messages ever sent, `MaxQueue` the writes waiting on one
device (4: the two writes of one invitation on top of two that wait), `InviteSlots`
the flags of the sheet (100 in the code). Two messages are the least with which
a tile is reused for another message, timestamps tie and an invitation answers an
invitation; a third adds repetition of the same pairs. One event suffices because no
handler reads one event to write another; the documents of different events only
meet in the queues, whose order the proofs treat for any number of them. Two devices
of one user are the least for an answer given twice, three users the least for a
shifted index. In `session` each way to an account has one user, two handlers are the
least that overlap, and three pages hold the sign-in page below the home pages of two
users. In `calendar` `MaxInputs` bounds what the user does (four: two taps on days, a
tab left and entered again; or a tap, the title, a finger and a kill; or a tap on a grey day, a tab, a sign-out and a kill), three pages are
the least with a month on either side. In `grid` a tap is followed by one event at most,
as neither keeps anything of another; `MaxLength` bounds the event. In `writes` `MaxFaults`
bounds changes of user, refreshed tokens, lost calls, failed tokens and kills: a
change and a change back, a change and a kill. `MaxPendingWrites` is 2 of 10: two writes
of one user fill the pipeline. The third is the other user's, so that a change of user meets a
full pipeline, or the user's own, so that it waits for room.

**Constraints.** `OneToNewcomers` (`share`): once the third user signed up, one message
is enough. `HostInvites` within `TwoAnswers` (`two_answers`) leaves out the host's own
chat and invitations by others, which `share` covers, and the room list, which no
invitation depends on; `TwoAnswers` keeps the second device in its chat. `TextsOrEvent`
(`share_live`) cuts only what users do next, never a step that fairness promises, so
that no promised step is missing from a behaviour TLC looks at. `Bounded` (`editor`) lets
the run continue only from days around the end of January and the 3rd of March, and
lets the title be typed while the picker is closed, as nothing reads it before Add;
without it the taps could push the event an hour further for ever. `OneThird` (`writes`) lets a
user's own third write come last, instead of the other user's, and with one fault at most; it
cuts writes and faults, which fairness does not promise. The theorems of
section 5 need none of these bounds.

Deadlock is not checked: a user need not touch the app, all messages may have been
sent, the bounded inputs and faults may be used up, and the sheet is gone once the event
was added.

**Conditions in the properties** that are not in the code, and what they stand for:

- `HeaderFollows` leaves out `unmoved`: a page whose animation a finger stopped before
  it changed. The header has left on its own timer, and nothing calls it back.
- `AskedIsSelected` leaves out `overtaken`: a tap on a day of the month, made within the
  500 ms in which an earlier tap on a grey day waits, is undone by that timer. It lets the list
  show today after the title was tapped (`returned`), while a new event still gets the
  selected day: `returnNow` publishes today and does not select it.
- `TabsAgree` leaves out `heldBack`: a finger that stops one view while the page change of the
  other is over parts icons and screens until the next change.
- `GridShowsWeeks` and `GreyDaysLeadNextDoor` ask that the clocks do not change in the
  weeks of the page, nor in the hour before (`ClocksStay`): a change at the first midnight
  itself counts, as there the page begins at 23:00 of the day before. From a change on,
  the cells of a page are an hour off, so a day is shown twice or missed. The zone of the
  authors has no summer time.
- `NextUserSeesToday` leaves out `lingers`: a sign-out that was cut short, by a kill or by a
  swipe off the user tab, after a timer saved a day behind `prefs.clear()`. Nobody removes
  that day, and the next user starts on it; the run reaches the case, and violates the
  property without the condition.
- `SignInAgrees` asks nothing of the phone after a sign-up on preferences that were not
  empty, as the code leaves the phone of the user before.
- `EventOnItsDays` gives a reader in another zone all days but one: midnights of the
  zone the event was made in are not midnights there, and an event of one day may be
  on none. It is all but two if clocks are put forward in between: a guest in Dubai
  misses two days of an event made in Tehran over the change.

These are observations, not findings: no text of the repository says otherwise.

## 4. Fairness

`EventSharing!Fairness` is weak fairness of three kinds of step, and of no handler:

- `Commit(d)`: the plugin keeps waiting writes over restarts and sends them whenever
  the device has a connection; that it does is `WritesAreAnswered` of `Credentials`. A
  device that is off line for ever is outside the liveness properties, not outside the
  safety ones.
- `ListenMsgs(d, r)` while `d` has the room `r` open: a device on line gets a snapshot of what
  it listens to. The model lets a cache hear of any room or event at any time, as rows of the
  list and tiles also listen while they are on the screen, and demands it only of the
  messages of the open room.
- `RenderRoom(d)`: `StreamBuilder` builds the room again after every snapshot. No
  fairness makes a user open a room: `ReceiptComesBack` assumes that a device of the
  addressee and one of the sender stay in it.

`AcceptedJoins` starts where a write has been persisted.
Nothing stronger holds: an app killed between the reaction and the join has answered
and never joins, which is what `JoinNeedsReaction` allows and `AnswerJoinFirst` (the
two writes swapped) would turn around.

`Calendar!FairSpec`: frames are drawn (`Animate`, `MovePage`), a finger is lifted
(`Release`), timers fire. Nothing makes the user do anything, and a sign-out may wait
for ever.

`Credentials!Fairness`: FirebaseAuth looks at requests and brings tokens, the main and
the worker queue are served, timers fire, a server that can be reached answers. A
failed token, a lost call and a refreshed token are faults, so bounded and never
promised. The closing of an ended or idle stream shares its fairness with the client's
other callbacks, as they are served by one queue.

## 5. The proofs

All theorems hold for any finite sets of users, events, texts and clock readings, any
set of devices, months, days, accounts and writes, and any bounds, under the named
assumptions of the modules, which TLC evaluates in the runs.

**EventSharing_proofs**: `Invariant == Spec => []IInv`. `ServerOK`, the properties one
cares about, is not inductive: a commit changes the server to what some device wrote
long before. `IInv` adds why that write was right *and stays right*:

- `QueueOK`: each waiting write rests on documents that are on the server or that an
  earlier write of the same queue brings: a join on a reaction before it and on a
  press of Accept, a room document on the message before it, an invitation on the
  event and on the inviter's own answer, a receipt or reaction on a received message.
- `CacheOK`: a cache holds nothing the server never had; a cached participant has a
  right to be one. Participation may be *stale* (the user left on another device),
  the right is not, and it is the right that an invitation needs.
- `ScreenOK`: the tiles of a room are messages of that room, others' tiles were received
  by this device; an event page is of an event its user has a right to.

The parts are operators of the documents, the cache, the history and the queue, so
that the proof compares them across a step: the server's knowledge only grows
(monotonicity lemmas), a commit removes the head of one queue and adds to the server
what that write brings, a handler appends writes that rest on its screen. Kills are
the prefixes of what is appended. From `Invariant` follow `TypeCorrect`,
`MembersAnswered` (`JoinNeedsReaction`), `MembersConsented`
(`ConsentedMembers`), `InvitationsComeFromGuests` (`InvitersWereInvited`),
`ReceiptsAreHonest` (`ReactedByAddressee`), `RoomsHaveMessages` (`RoomHasMessage`) and
`UpdatesFind` (`UpdatesFindTheirDocument`).

`SharingImplementsGuestList` is the refinement: a commit of an event, an invitation, a
reaction, a join or a leave is the step of `GuestList` of that name, whose guard is what
`QueueOK` says of the head of the queue; everything else, the commits of receipts and
rooms included, is a stutter. That an event is created before it has guests needs
`EventsAreNew`: an id is waiting in one queue at most, and only while it is not on the
server. `ChatInvariantShared` says that `ChatInv` (below) also holds with the events around
it, from which `SharedTicksAreTruthful` and `SharedOneRoomForTwo` follow.

**ChatRooms_proofs**: `ChatInvariant`, for the chat alone. `ChatInv` has the same three
parts with less in them: a waiting receipt is for a message in the device's own cache
that was sent to its user, a waiting room document has the time of a message before it
in the queue, and a tile of somebody else's message was received. To these it adds what
`TickIsTruthful` needs, as a tile keeps its tick when the room is built again: a cached
receipt is on the server, and a tick is shown only of a message that some device of the
addressee has received (`Delivered`), which no kill or commit undoes. From it follow
`ChatTypeCorrect` (`ChatTypeOK`), `ReadsAreHonest` (`ReadByAddressee`),
`ChatRoomsHaveMessages` (`RoomHasMessage`), `TicksAreTruthful`, and `OneRoomForTwo`
(`OneRoomPerPair`). The last has the hypothesis that the hash codes of different users
differ, which `String.hashCode` does not promise; `ChatIdSymmetric` says that then two users compute the same
room id, and `OneDocPerRoom` that an id has one document.

**DartDate_proofs**: `DateRoundTrip`, that the parts read from a day number are the parts it
was made of, for every integer. A year begins in March, so that the leap day is its last;
a day number is the first day of such a year plus the first day of the month in it plus
the day, and each of the three is bounded by the next (`YearParts`, `MonthOfYearDay`).
`DayBeforeNextMonth`, `LengthOfMonth`, `DaysOfMonth` and `NewYear` are what the code relies on
when it asks for day 0 of the next month; by `MonthLengths` a month has 28 to 31 days, in
no year fewer than in one without a leap day.

**EventEditor_proofs**: `EditorInvariant`, for all days, hours, minutes and picks. `TypeOK` is not
inductive: the day wheel counts modulo its number of items, so `EditorInv` adds that these
are 28 to 31, and that minutes are those of a clock, since a moment keeps them apart
from its hour. `TapsOrder` (`TriggerOrders`) follows from the lemma that a half made of a
moment stands for that moment; no bound on the hours is needed, which is as well, as
the wheels make hours beyond 23. `PickerOpensInStep` (`OpensInStep`) is `DateRoundTrip` carried
through `Items`. `WheelsStayInStep` (`TurnsInStep`) has one case for each wheel in
`TurnKeepsStep`: when the items picked are a date, the day made of them has these parts again,
which is why `TurnsInStep` asks for it. The item -1 of the year wheel stands for 2014,
none of whose months is longer than in another year (`ShownDateExists`).

**MonthGrid_proofs**: `GridInvariant`, and from it `PagesShowWeeks` (`GridShowsWeeks`),
`TapsLeadToMonth` (`GreyDaysLeadNextDoor`) and `EventsOnTheirDays` (`EventOnItsDays`), for any zones
that satisfy the assumptions of `MonthGrid`, any first day in the ten years of the calendar,
and any length of an event.
`SpanOfOneShift` is where the assumptions on summer time are used: if the clocks show the
same shift at the two ends of less than seven weeks, they show it all the time between, so
the cells of a page are the midnights of consecutive days (`CellsOfPage`). A month
has its days and its neighbours by the lemmas of `DartDate_proofs`. By `MidnightBefore` an event
begins at most two days after the midnight of that date in another zone, which bounds
the days a guest misses. Two properties turned out too strong in the attempt:
`ClocksStay` had left out a change at the first midnight, and `EventOnItsDays` the guest who
misses two days; the zones of Tehran and Dubai in the run show both.

**Session_proofs**: `SessionInvariant`, for any accounts and any number of handlers and
pages. `UserHasDocument` is not inductive because a handler that is about to store an
id has forgotten why it may: `HandlerOK` keeps it (at every entry and at `open` the user
has a document, which nobody deletes), for every handler whatever the others do.
`AloneOK` says what a handler that runs alone finds at each await, and that while it
does nobody else is there to change it: the entries stored so far are its user's, and the
phone a sign-up skips is as it was (`StoredAfter`, `StoreKeeps`). `HandlerMoves` and `GotoKeeps` carry both over a
step of one handler once and for all; then each action has one step. From it follow
`SessionTyped` (`TypeOK`), `StoredUserHasDocument` (`UserHasDocument`), `SignOutForgets` (`SignedOutIsClean`) and
`SignInOpensItsUser` (`SignInAgrees`).

**Calendar_proofs**: `CalendarInvariant`, from four parts that are inductive each on the
strength of `TypeOK`.

- `TabsInv`: a view lies nearest to the page it reported last, rests only at a page, and
  is at the current page or on its way there unless a finger stopped it. `OnPageChangedKeeps`
  proves this once for whatever moved the view.
- `HeaderInv`: once the page has changed, the timer that fires last of those that move the
  header is for the page shown; if none runs, the header is there.
- `AskedInv`: the day tapped last is selected and listed, or it is in the timer that
  fires last of those that select a day, unless overtaken; and with nothing saved for a
  known user it is today.
- `ForgetInv`: from the clearing on no user is known, and where none is known a day is saved
  only if it lingers.

`Fired`, `Started` and `BothStarted` say what becomes of the last timer of a kind when a
timer is taken out of the middle of the sequence or one or two are appended. From it
follow `CalendarTyped`, `TabsMeet`, `HeaderMeetsPage`, `LastTapIsSelected` and the action property
`NextUserStartsToday` (`NextUserSeesToday`), for any number of months, days and inputs.

**WritePipeline_proofs**: `PipelineInvariant`. The heart of it are two equations:
`PipelineIsPrefix`, the pipeline is the beginning of the user's queue, as long as it may
be, and `ResultIsOfFirst`, what is on the call in either direction is the pipeline in its
order. That a result, which does not name its write, acknowledges the right one follows
from the second; that the batch is found in the queue from the first; and both survive
a kill or a change of user because the pipeline is emptied and filled again.
`QueuesSorted` is why ids found again after a kill do no harm: an id that a waiting batch
has is not given twice, one that only answered batches had may be. From the invariant
follow `ResultsMatch`, `AssertionsHold`, `AcknowledgementsAreTrue` and
`CommitsAreOfAuthors`.

`PipelineImplementsQueue` is the refinement of `WriteQueue`. Every step of the client is a step of
`WriteQueue` or does not concern it. A commit is of a write shown to the server because
what stands before it on the call is committed (`CallInQueue`); an error rejects the
front of the queue because the refused write was shown.

In the same module, for the composition: `TokenInvariant`, then
`CredentialsImplementPipeline` and with it
`CommitsAreOfTheirAuthors` and `CredentialsImplementQueue`. `TokenInv` says what the two
counters are for: the last notice among the items of a queue is of the current user,
and a token whose counter will still match when it is heard has no notice before it, so
that it is of the user the client has at that point of *its* queue. The provider's
counter alone, or the stream's alone, would do; the proof uses the provider's.

**Only model-checked**: the four liveness properties (`AcceptedJoins`, `ReceiptComesBack`,
`HomeSettles`, `WritesAreAnswered`), as the prover has no rule for fairness;
every other property of the passing runs is stated by a theorem. **Only proved**, as
TLC would enumerate too much for what it adds to the properties that follow from
it: `IInv`, `TokenInv`, `ChatInv`, `CalendarInv`, `EditorInv`, `GridInv` and `SessionInv`, all of them
checked while they were found.

## 6. Three findings

`AddedDatesInOrder` (run `late_evening`). After 23:00 `EventModal(day)` makes the end
hour 24 of the same day (`event_modal.dart:44-45`). The end is then a *moment* of the
next day while `endDate` is the day before, and `endAPM` may push it to hour 36. A start
picked on the next day passes the validation, which compares moments, and
`addEvent` stores a `startDate` later than `endDate`. The error the sheet shows in its
other cases is "Start date cannot be later than end date" (`event_new.dart:510`). The
day list and the grid look for events between the two dates (`event_view.dart:59-60`,
`calendar_component.dart:214-215`), so such an event is on no day at all.

`SplashKnowsUser` (run `splash`). At the start `checkLogin` takes the device for signed in
when the Google plugin has an account *or* an id is stored (`splash_screen.dart:31-32`), and
opens the home page of the stored id. The Google account is there from
`signin_screen.dart:163` on, the id only from line 196 or 216 on: if the app was killed
in between, or `signInWithCredential` threw, the home page is opened for `null`.
"// Write data to local" says the comment at `splash_screen.dart:35`, as at the two
places of `signin_screen.dart` where `prefs.setString` follows it; here nothing follows.

`RejectedWasRefused` (run `rejected`). `HandleWriteError` drops the first batch of the
pipeline: "If this was a permanent error, the request itself was the problem so it's not
going to succeed if we resend it" (`remote_store.mm:501`). Several batches are on the
call at a time, and the first need not be the one the server refused. When the server has
ended the call, a write that is still to be sent fails, and `GrpcStream::OnOperationFailed`
(`grpc_stream.cc:306`) takes all other operations off the queue unheard, a result that
was read but not delivered among them, before it asks for the status
(`FastFinishCompletionsBlocking`, `grpc_stream.cc:230`). In the counterexample the server
commits the first write, refuses the second and ends the call while the third is to be
sent; the device is told that the *first* was rejected, takes it back on its screens,
and sends the second again. `WriteQueue!Reject` is the promise that is left: the
oldest write is dropped after *some* write it was shown with was refused.

## 7. Assumptions and what is not modelled

- *Documents.* A message is identified by its immutable fields; two messages of one
  sender to one user with the same text in one millisecond are one. An event is its
  id and participants; title, dates and note are read by no handler of `EventSharing`.
- *The plugin* (`Firestore`). Writes of a handler are persisted in order, before the user
  can touch the screen again; a kill leaves a prefix of them. Each is taken once.
  `WritePipeline` shows that the client may commit a write twice, when the answer was
  lost: of the app's writes `setData`, `arrayUnion`, `arrayRemove` and the flags of
  `updateData` do the same again, and `add` names its document before it is sent.
- *The server* of `WritePipeline` reads the call in order and reads nothing more from a
  call the client has ended. The stream token is left out, as the handshake does not send
  it. A batch stands for its mutations; the local view of them is not modelled.
  Two ends of a call are left out: one with status OK while writes wait, against which
  `remote_store.mm:444` asserts, and a response that cannot be parsed
  (`write_stream.mm:113`), whose code may be permanent.
- *Equal outcomes.* `TokenFails` has one outcome for a token the provider aborted and one
  FirebaseAuth could not give. The first happens in no run: the client hears of the
  notice that makes the provider abort, and closes the stream, before.
- *Rows.* A room fits the viewport, so a build builds every row, and `State` objects are
  kept by index and widget class. Rows that scroll away lose their `State`, which only
  makes tiles fresher.
- *Who sees an answer.* The inviter's own tile shows neither the reaction nor the buttons
  (`chat_invitation.dart:107-108`), so no property says that he learns of it; it reaches his
  cache with the room.
- *Equal hash codes.* The instances have distinct hash codes. With equal ones each user
  would put himself first and a pair would have two rooms; `ChatIdSymmetric` and
  `OneRoomForTwo` name the assumption.
- *One account per device* in chat and sharing, with its id stored. `Session` has the
  changes of account, and says nothing about screens of the account before.
- *The session* takes an e-mail address for one account; a password account and a Google
  account are different users. What an overlapped sign-out or sign-in leaves behind is
  modelled but not restricted (`alone`): the code lets them mix, and no document says
  that it does not. The upload of a photo is started by no button.
- *The calendar.* `Today` does not change while the app runs, as `bloc.today` does not. The
  preferences are in memory before the first tap, and `setString` and `remove` are
  applied in the order of their calls. The model begins with the bloc that stays:
  `HomePage` builds a second time when its own preferences arrive (`index.dart:23-26`), before
  any tap. A home page left with Back keeps its saved day as well, and whoever signs in
  then finds it; `Session` has that Back, the calendar has it not. `yearlist` has 11 years and the calendar pages for ten of them
  ("10 years, 12 month", `calendar_component.dart:86`); a day of the eleventh is
  beyond the last page, like `<<3, 1>>` in the run, and its tap goes to the last page.
- *Time zones* have at most one hour of summer time, and summer times and winters longer
  than seven weeks; where summer time pauses for a month of fasting, a change in the middle
  of a page could cancel another. The device stays in one zone.
- *More than 100 users.* `isInvited` has 100 flags; the error of the 101st row is not
  modelled, only the flags are.
- *The editor* leaves out location, note, type and the repeat overlay (which no
  document stores), and years outside `yearlist`, for which the code sends the year
  wheel to item -1. Rebuilding the sheet and leaving it with the cross end the model's
  behaviour.
- *Not modelled at all*: the listen path of the client (watch stream, targets, views,
  local documents), whose snapshots are the `Listen` steps of `Firestore`; transactions,
  the offline switch, garbage collection; the sign-in methods and the token service of
  FirebaseAuth; formatting, painting, push notifications, the platform shells and the
  other vendored code.

The repository has 474,815 lines of C, C++ and Objective-C, nearly all of them vendored
(BoringSSL, gRPC, Protobuf, LevelDB, Firebase). The app calls a small part of them, and
of that part the write path and the credentials are modelled; a share of all these lines
says little about how much of the app is.

## 8. Plan

1. **Session**, continued: an abstract specification (signed out, or signed in as a user
   with a document) for sessions whose handlers do not overlap, and its composition with
   `EventSharing` through `Owner`.
2. The listen path: watch stream, target changes and `existence filter` mismatches, with
   the snapshots of `Firestore` as its abstract specification.
