--------------------------- MODULE EventSharingInv ---------------------------
(***************************************************************************)
(* The inductive invariant of EventSharing.  The properties speak of the   *)
(* server only; what makes them hold is the order of the writes waiting on *)
(* a device: each write rests on documents that are on the server already, *)
(* or that an earlier write of the same queue brings there.  The parts are *)
(* operators of the documents S of a server and C of a cache, the history  *)
(* A of accepts and a queue q, so that they can be compared across a step. *)
(***************************************************************************)
EXTENDS EventSharing, ChatRoomsInv

\* S has, or the first n writes of q bring: event e, an answer of u to an
\* invitation to e, a right of u to be on the list of e.
EventKnown(S, q, n, e) ==
  e \in S.events \/ \E j \in 1..n : q[j] = AddEventOp(e)

AnswerKnown(S, q, n, e, u) ==
  \E m \in Msg :
    /\ m.content = e /\ m.to = u
    /\ m \in S.reacted \/ \E j \in 1..n : q[j] = ReactOp(RoomOf(m), m)

GuestKnown(S, q, n, e, u) == u = HostOf[e] \/ AnswerKnown(S, q, n, e, u)

\* The i-th write of a queue q of d rests on what comes before it.
WriteOK(S, C, A, d, q, i) ==
  /\ ChatWriteOK(S, C, d, q, i)
  /\ q[i].op = "join" =>
       /\ EventKnown(S, q, i - 1, q[i].event)
       /\ AnswerKnown(S, q, i - 1, q[i].event, q[i].user)
       /\ <<q[i].event, q[i].user>> \in A
  /\ q[i].op = "leave" => EventKnown(S, q, i - 1, q[i].event)
  /\ q[i].op = "addMsg" /\ IsInvitation(q[i].msg) =>
       /\ EventKnown(S, q, i - 1, q[i].msg.content)
       /\ GuestKnown(S, q, i - 1, q[i].msg.content, q[i].msg.from)

QueueOK(S, C, A, d, q) == \A i \in 1..Len(q) : WriteOK(S, C, A, d, q, i)

\* A cache holds nothing the server never had.
CacheOK(S, C) ==
  /\ C.events \subseteq S.events
  /\ C.msgs \subseteq S.msgs
  /\ \A e \in Event, u \in User :
       <<e, u>> \in C.parti => GuestKnown(S, <<>>, 0, e, u)

\* Tiles are those of their room; an event page shows an event the user is on
\* the list of, or was.
ScreenOK(S, C, d, q, s) ==
  /\ TilesOK(C, d, s)
  /\ s.at \in {"detail", "sheet"} =>
       /\ EventKnown(S, q, Len(q), s.event)
       /\ GuestKnown(S, q, Len(q), s.event, Me(d))

ServerOK ==
  /\ JoinNeedsReaction
  /\ ConsentedMembers
  /\ InvitersWereInvited
  /\ ReactedByAddressee
  /\ ReadByAddressee
  /\ RoomHasMessage

\* Inductive invariant: what the server promises, because of what every
\* device's queue, cache and screen rest on.
IInv ==
  /\ TypeOK
  /\ ServerOK
  /\ \A d \in Device :
       /\ QueueOK(server, cache[d], accepted, d, queue[d])
       /\ CacheOK(server, cache[d])
       /\ ScreenOK(server, cache[d], d, queue[d], ui[d])

\* An event is created once: what waits to be created is not on the server, and
\* waits in one place only.
EventsAreNew ==
  /\ \A d \in Device : \A i \in 1..Len(queue[d]) :
       queue[d][i].op = "addEvent" => queue[d][i].event \notin server.events
  /\ \A c, d \in Device : \A i \in 1..Len(queue[c]), j \in 1..Len(queue[d]) :
       queue[c][i].op = "addEvent" /\ queue[d][j] = queue[c][i] => c = d /\ i = j
=============================================================================
