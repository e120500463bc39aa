----------------------------- MODULE ChatRooms -----------------------------
(***************************************************************************)
(* Chat between two users: the list of rooms, the room screen with its     *)
(* message tiles, and the composer (lib/chat, lib/screen/chat_screen.dart).*)
(* All rooms live in the store; what a screen holds lives in ui[d] and is  *)
(* lost when the app is killed.                                            *)
(*                                                                         *)
(* A tile is the State object of one row of the room's ListView.  It is    *)
(* reused by index and by widget class when the list is rebuilt and never  *)
(* looks at the message of the new widget: it goes on showing the message, *)
(* with the flags it had, that it captured when it was created.  A room is *)
(* taken to fit the viewport, so that a rebuild builds every row.          *)
(***************************************************************************)
EXTENDS Firestore

VARIABLE ui  \* ui[d]: the screen device d shows

chatVars == <<storeVars, ui>>

-----------------------------------------------------------------------------
Tile == [msg : Msg, read : BOOLEAN, reacted : BOOLEAN]

Home == [at |-> "home"]

RoomScreen == [at : {"room"}, peer : User, tiles : Seq(Tile)]

Me(d) == Owner[d]

\* The room id the room screen of d computes for its peer (readLocal).
RoomOn(d) == ChatId(Me(d), ui[d].peer)

\* The messages of room r as d sees them.
MsgsIn(d, r) == {m \in ViewMsgs(d) : RoomOf(m) = r}

\* orderBy('timestamp'): messages with one timestamp come in the order of
\* their auto-ids, for which the sender's id stands; the auto-ids of messages
\* of one sender say nothing of their order.
Before(m, n) ==
  \/ m.time < n.time
  \/ m.time = n.time /\ m.from < n.from

\* The listings of a finite set of messages, oldest first.
Listing(S) ==
  {L \in [1..Cardinality(S) -> S] :
     /\ S \subseteq {L[i] : i \in 1..Cardinality(S)}
     /\ \A i, j \in 1..Cardinality(S) : i < j => ~Before(L[j], L[i])}

\* Every message that was ever handed to the plugin of some device.
SentMsgs ==
  server.msgs
    \cup {w.msg : w \in {x \in UNION {{queue[d][i] : i \in 1..Len(queue[d])} :
                                        d \in Device} : x.op = "addMsg"}}

\* collection.add() of a message gives it a fresh document.
Fresh(m) == m \notin SentMsgs /\ Cardinality(SentMsgs) < MaxMsgs

\* A handler on d issues the writes ws and leaves d on screen s, or is killed
\* after a proper prefix of them.
Perform(d, ws, s) ==
  /\ Len(queue[d]) + Len(ws) <= MaxQueue
  /\ \E k \in 0..Len(ws) :
       /\ Enqueue(d, SubSeq(ws, 1, k))
       /\ ui' = [ui EXCEPT ![d] = IF k = Len(ws) THEN s ELSE Home]

-----------------------------------------------------------------------------
(* The list of chats and the list of users to start one with. *)

\* A row of the chat list: the room holds the user, the peer is the first
\* other id of the room, has a user document, and the room has a message.
ListedChat(d, p) ==
  \E r \in ViewRooms(d) :
    /\ r \in {<<Me(d), p>>, <<p, Me(d)>>}
    /\ MsgsIn(d, r) # {}

\* A row of "New Chat": a user with whom no room exists.
ListedForNewChat(d, p) ==
  {<<Me(d), p>>, <<p, Me(d)>>} \cap ViewRooms(d) = {}

\* Wrong: the new screen has no rows yet, not an empty list of rows.
OpenRoomUninitialised(d, p) ==
  /\ ui[d] = Home /\ p # Me(d) /\ p \in cache[d].users
  /\ ui' = [ui EXCEPT ![d] = [at |-> "room", peer |-> p]]
  /\ UNCHANGED storeVars

OpenRoom(d, p) ==
  /\ ui[d] = Home
  /\ p # Me(d)
  /\ p \in cache[d].users
  /\ ListedChat(d, p) \/ ListedForNewChat(d, p)
  /\ ui' = [ui EXCEPT ![d] = [at |-> "room", peer |-> p, tiles |-> <<>>]]
  /\ UNCHANGED storeVars

CloseRoom(d) ==
  /\ ui[d].at = "room"
  /\ ui' = [ui EXCEPT ![d] = Home]
  /\ UNCHANGED storeVars

-----------------------------------------------------------------------------
(* The room screen. *)

\* The State object row i keeps, or the one it gets for message m.
TileAt(d, i, m) ==
  IF /\ i <= Len(ui[d].tiles)
     /\ IsInvitation(ui[d].tiles[i].msg) = IsInvitation(m)
  THEN ui[d].tiles[i]
  ELSE [msg |-> m, read |-> m \in ViewRead(d), reacted |-> m \in ViewReacted(d)]

\* Wrong: own messages are marked, too.
ToMarkReadOwnToo(d, r) == MsgsIn(d, r) \ ViewRead(d)

\* Wrong: messages are marked when the room is opened, not when they arrive.
ToMarkReadAtOpen(d, r) ==
  {m \in MsgsIn(d, r) \ ViewRead(d) : m.from # Me(d) /\ ui[d].tiles = <<>>}

\* Messages of room r that d's app marks read: those that are not the user's
\* own.  A build repeats the update for a message already marked, which changes
\* no document: updates that d has issued before are left out.
ToMarkRead(d, r) ==
  {m \in MsgsIn(d, r) :
     /\ m.from # Me(d)
     /\ m \notin cache[d].read
     /\ \A i \in 1..Len(queue[d]) : queue[d][i] # ReadOp(r, m)}

\* A build of the room: rows are laid over the messages in order, and the
\* message of every row that is not the user's own is marked read.
RenderRoom(d) ==
  /\ ui[d].at = "room"
  /\ LET r == RoomOn(d)
     IN  \E L \in Listing(MsgsIn(d, r)), R \in Listing(ToMarkRead(d, r)) :
           Perform(d, [i \in 1..Len(R) |-> ReadOp(r, R[i])],
                   [ui[d] EXCEPT !.tiles = [i \in 1..Len(L) |-> TileAt(d, i, L[i])]])

\* Wrong: the room is set before the message is added.
SubmissionRoomFirst(d, m) ==
  <<SetRoomOp(RoomOn(d), m.time), AddMsgOp(m)>>

\* What the composer writes: the message, then the room's last_updated.
Submission(d, m) ==
  <<AddMsgOp(m), SetRoomOp(RoomOn(d), m.time)>>

\* The user sends a text that is not blank.
HandleSubmit(d, text, now) ==
  /\ ui[d].at = "room"
  /\ LET m == [from |-> Me(d), to |-> ui[d].peer, content |-> text, time |-> now]
     IN  /\ Fresh(m)
         /\ Perform(d, Submission(d, m), ui[d])

-----------------------------------------------------------------------------
(* The environment of the chat. *)

\* A user signs up on some other device: its document reaches the server.
SignUp(u) ==
  /\ u \notin server.users
  /\ server' = [server EXCEPT !.users = @ \cup {u}]
  /\ UNCHANGED <<cache, queue, ui>>

\* The app of d is killed, outside of a handler, and started again.
Kill(d) ==
  /\ ui[d] # Home
  /\ ui' = [ui EXCEPT ![d] = Home]
  /\ UNCHANGED storeVars

StoreStep(d) ==
  /\ Commit(d) \/ Listen(d)
  /\ UNCHANGED ui

ChatStep(d) ==
  \/ \E p \in User : OpenRoom(d, p)
  \/ CloseRoom(d)
  \/ RenderRoom(d)
  \/ \E text \in Text, now \in Time : HandleSubmit(d, text, now)

ChatInit ==
  /\ StoreInit
  /\ ui = [d \in Device |-> Home]

ChatNext ==
  \/ \E d \in Device : StoreStep(d) \/ ChatStep(d) \/ Kill(d)
  \/ \E u \in User : SignUp(u)

ChatSpec == ChatInit /\ [][ChatNext]_chatVars

-----------------------------------------------------------------------------
(* Properties. *)

ChatTypeOK ==
  /\ StoreTypeOK
  /\ ui \in [Device -> {Home} \cup RoomScreen]

\* A message is marked read only after it reached a device of the user it is
\* addressed to, and never by its sender: the receipts chat_room.dart writes
\* while it builds its rows skip own messages, and a room only holds messages
\* of its two users.
ReadByAddressee ==
  \A m \in server.read :
    /\ m.from # m.to
    /\ \E d \in Device : Owner[d] = m.to /\ m \in cache[d].msgs

\* A room document carries the time of a message of that room which is on the
\* server: the message is added before the room is set, and writes are sent
\* in order, so a chat that is listed has something to show.
RoomHasMessage ==
  \A r \in server.rooms :
    \E m \in server.msgs : RoomOf(m) = r.room /\ m.time = r.time

\* There is one document per room, whichever of the two users writes it: both
\* compute the same id.
OneRoomPerPair ==
  \A r, s \in server.rooms :
    {r.room[1], r.room[2]} = {s.room[1], s.room[2]} => r = s

\* No update that is about to reach the server misses its document.
UpdatesFindTheirDocument ==
  \A d \in Device : queue[d] # <<>> => Finds(server, Head(queue[d]))

\* The tick of a message says "read" only when it was delivered to the user
\* it is addressed to, however long the tile has been kept.
TickIsTruthful ==
  \A d \in Device : ui[d].at = "room" =>
    \A i \in 1..Len(ui[d].tiles) :
      ui[d].tiles[i].read =>
        \E c \in Device : /\ Owner[c] = ui[d].tiles[i].msg.to
                          /\ ui[d].tiles[i].msg \in cache[c].msgs

\* The messages another user may send to the user of d.
Incoming(d) == {m \in Msg : m.to = Owner[d] /\ m.from # m.to}

\* d has the room with user p on screen.
Shows(d, p) == ui[d].at = "room" /\ ui[d].peer = p

\* When two users in the end keep their room open on a device each, every message
\* one of them sent or sends to the other, on or off line, even if his app was
\* killed next, is marked read and the mark comes back to the device of its sender,
\* which hears of it through the room it has open (chat_room.dart:73-78, 97-107).
ReceiptComesBack ==
  \A d, c \in Device : \A m \in {n \in Incoming(d) : n.from = Owner[c]} :
    /\ <>[](Shows(d, m.from) /\ Shows(c, m.to))
    /\ <>(m \in SentMsgs)
    => <>(m \in cache[c].read)
=============================================================================
