---------------------------- MODULE ChatRoomsInv ----------------------------
(***************************************************************************)
(* The inductive invariant of the chat.  Receipts, room documents and      *)
(* ticks are right because of what the waiting writes of a device, its     *)
(* cache and the tiles on its screen rest on.  The parts are operators of  *)
(* the documents S of a server and C of a cache, and of a queue q, so that *)
(* they can be compared across a step.                                     *)
(***************************************************************************)
EXTENDS ChatRooms

\* S has message m, or the first n writes of q bring it.
MsgKnown(S, q, n, m) ==
  m \in S.msgs \/ \E j \in 1..n : q[j] = AddMsgOp(m)

\* m was sent by somebody else to the user of d and is in C.
Received(C, d, m) == m \in C.msgs /\ m.to = Owner[d] /\ m.from # m.to

\* A device of the addressee has m in its cache, of the caches K.
Delivered(K, m) == \E c \in Device : Owner[c] = m.to /\ m \in K[c].msgs

\* The i-th write of a queue q of d rests on what comes before it.
ChatWriteOK(S, C, d, q, i) ==
  /\ q[i].op \in {"read", "react"} =>
       RoomOf(q[i].msg) = q[i].room /\ Received(C, d, q[i].msg)
  /\ q[i].op = "addMsg" => q[i].msg.from = Owner[d]
  /\ q[i].op = "setRoom" =>
       \E m \in Msg :
         RoomOf(m) = q[i].room /\ m.time = q[i].time /\ MsgKnown(S, q, i - 1, m)

ChatQueueOK(S, C, d, q) == \A i \in 1..Len(q) : ChatWriteOK(S, C, d, q, i)

\* A tile shows a message of its room, another's only when it was received.
TilesOK(C, d, s) ==
  s.at = "room" =>
    \A i \in 1..Len(s.tiles) :
      /\ RoomOf(s.tiles[i].msg) = ChatId(Me(d), s.peer)
      /\ s.tiles[i].msg.from # Me(d) => s.tiles[i].msg \in C.msgs

\* The ticks of the tiles on a screen s are those of delivered messages.
Truthful(K, s) ==
  s.at = "room" =>
    \A i \in 1..Len(s.tiles) : s.tiles[i].read => Delivered(K, s.tiles[i].msg)

\* setData replaces the document: a room id has one.
OneDocPerRoom == \A r, s \in server.rooms : r.room = s.room => r = s

ChatServerOK ==
  /\ ReadByAddressee
  /\ RoomHasMessage
  /\ OneDocPerRoom

\* The screens the chat knows of; others have no tiles.
RoomsTyped ==
  /\ ui = [d \in Device |-> ui[d]]
  /\ \A d \in Device : ui[d].at = "room" => ui[d] \in RoomScreen

\* Inductive invariant, of the chat alone and in the composition with the
\* events: a read receipt is cached only where it is on the server, and ticks
\* are shown only for messages that were delivered.
ChatInv ==
  /\ StoreTypeOK
  /\ RoomsTyped
  /\ ChatServerOK
  /\ \A d \in Device :
       /\ ChatQueueOK(server, cache[d], d, queue[d])
       /\ cache[d].msgs \subseteq server.msgs
       /\ cache[d].read \subseteq server.read
       /\ TilesOK(cache[d], d, ui[d])
       /\ Truthful(cache, ui[d])
=============================================================================
