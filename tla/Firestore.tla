----------------------------- MODULE Firestore -----------------------------
(***************************************************************************)
(* The document store the app keeps its shared state in, as src/lib uses   *)
(* it through the cloud_firestore plugin: one server, and on every device  *)
(* a cache that survives a restart and a queue of writes that are sent in  *)
(* the order they were issued.                                             *)
(*                                                                         *)
(* A handler hands its writes to the plugin one platform call after the    *)
(* other and awaits none of them; the plugin persists each as it takes it  *)
(* off the channel, which is done before the user can touch the screen     *)
(* again.  So a handler persists all its writes, unless the app is killed  *)
(* on the way: then it persists a prefix of them, and the screen is gone.  *)
(* A query sees the cache with the waiting writes applied to it.           *)
(*                                                                         *)
(* A document is represented by what the app can tell about it: an event   *)
(* by its membership in `events' and its participants in `parti', a        *)
(* message by its immutable fields (its identity) and the flags in `read'  *)
(* and `reacted', a room document by its id and its last_updated.          *)
(***************************************************************************)
EXTENDS Integers, Sequences, FiniteSets

CONSTANTS User,        \* user ids; Nat stands for the order of the document ids
          Device,      \* installations of the app
          Event,       \* event document ids
          Text,        \* contents of text messages
          Time,        \* millisecond clock readings
          Owner,       \* Owner[d]: the user signed in on device d
          HostOf,      \* HostOf[e]: the user that creates event e
          Hash,        \* Hash[u]: the hashCode of the user id u
          Registered0, \* users that have a `users' document initially
          MaxMsgs,     \* bound: messages ever sent
          MaxQueue     \* bound: writes waiting on one device

ASSUME UserAssumption == User \subseteq Nat /\ IsFiniteSet(User)
ASSUME TimeAssumption == Time \subseteq Nat /\ IsFiniteSet(Time)
ASSUME ContentAssumption ==
  Event \cap Text = {} /\ IsFiniteSet(Event) /\ IsFiniteSet(Text)
ASSUME OwnerAssumption == Owner \in [Device -> User]
ASSUME HostAssumption == HostOf \in [Event -> User]
ASSUME HashAssumption == Hash \in [User -> Int]
ASSUME RegisteredAssumption == Registered0 \subseteq User
ASSUME BoundAssumption == MaxMsgs \in Nat /\ MaxQueue \in Nat

VARIABLES server,  \* the documents on the server
          cache,   \* cache[d]: the documents device d last heard of
          queue    \* queue[d]: writes persisted on d, not yet acknowledged

storeVars == <<server, cache, queue>>

-----------------------------------------------------------------------------
(* Documents. *)

Room == User \X User

\* Wrong: the ids are not compared.
ChatIdOfSender(u, p) == <<u, p>>

\* The id of the room two users share, computed by the user first named.
ChatId(u, p) == IF Hash[u] <= Hash[p] THEN <<u, p>> ELSE <<p, u>>

\* A message, type 0 when its content is a text and type 1 (an invitation)
\* when it is an event id.
Msg == [from : User, to : User, content : Event \cup Text, time : Time]

IsInvitation(m) == m.content \in Event

\* The room a message is added to: its sender computes the id.
RoomOf(m) == ChatId(m.from, m.to)

Store == [events  : SUBSET Event,
          parti   : SUBSET (Event \X User),
          msgs    : SUBSET Msg,
          read    : SUBSET Msg,
          reacted : SUBSET Msg,
          rooms   : SUBSET [room : Room, time : Time],
          users   : SUBSET User]

(* Writes. *)

AddEventOp(e)    == [op |-> "addEvent", event |-> e]
\* Wrong: arrayRemove in the place of arrayUnion.
JoinOpRemoving(e, u) == [op |-> "leave", event |-> e, user |-> u]

JoinOp(e, u)     == [op |-> "join", event |-> e, user |-> u]
LeaveOp(e, u)    == [op |-> "leave", event |-> e, user |-> u]
AddMsgOp(m)      == [op |-> "addMsg", msg |-> m]
ReadOp(r, m)     == [op |-> "read", room |-> r, msg |-> m]
ReactOp(r, m)    == [op |-> "react", room |-> r, msg |-> m]
SetRoomOp(r, t)  == [op |-> "setRoom", room |-> r, time |-> t]

Write == [op : {"addEvent"}, event : Event]
  \cup [op : {"join", "leave"}, event : Event, user : User]
  \cup [op : {"addMsg"}, msg : Msg]
  \cup [op : {"read", "react"}, room : Room, msg : Msg]
  \cup [op : {"setRoom"}, room : Room, time : Time]

\* updateData finds its document in s; every other write needs none.
Finds(s, w) ==
  /\ w.op \in {"join", "leave"} => w.event \in s.events
  /\ w.op \in {"read", "react"} => w.msg \in s.msgs /\ RoomOf(w.msg) = w.room

\* What a write does to the documents in s: an update that does not find its
\* document is rejected, add creates, setData replaces the room document.
Apply(s, w) ==
  IF ~Finds(s, w) THEN s
  ELSE CASE w.op = "addEvent" ->
              [s EXCEPT !.events = @ \cup {w.event},
                        !.parti = @ \cup {<<w.event, HostOf[w.event]>>}]
         [] w.op = "join" -> [s EXCEPT !.parti = @ \cup {<<w.event, w.user>>}]
         [] w.op = "leave" -> [s EXCEPT !.parti = @ \ {<<w.event, w.user>>}]
         [] w.op = "addMsg" -> [s EXCEPT !.msgs = @ \cup {w.msg}]
         [] w.op = "read" -> [s EXCEPT !.read = @ \cup {w.msg}]
         [] w.op = "react" -> [s EXCEPT !.reacted = @ \cup {w.msg}]
         [] w.op = "setRoom" ->
              [s EXCEPT !.rooms = {r \in @ : r.room # w.room}
                                    \cup {[room |-> w.room, time |-> w.time]}]

-----------------------------------------------------------------------------
(* What a query on device d returns: the cache overlaid with the writes that *)
(* are still waiting.                                                        *)

Waiting(d) == {queue[d][i] : i \in 1..Len(queue[d])}

ViewEvents(d) ==
  cache[d].events \cup {w.event : w \in {x \in Waiting(d) : x.op = "addEvent"}}

ViewMsgs(d) ==
  cache[d].msgs \cup {w.msg : w \in {x \in Waiting(d) : x.op = "addMsg"}}

ViewRead(d) ==
  cache[d].read \cup {w.msg : w \in {x \in Waiting(d) : x.op = "read"}}

ViewReacted(d) ==
  cache[d].reacted \cup {w.msg : w \in {x \in Waiting(d) : x.op = "react"}}

ViewRooms(d) ==
  {r.room : r \in cache[d].rooms}
    \cup {w.room : w \in {x \in Waiting(d) : x.op = "setRoom"}}

\* The write at i puts u into, or takes u out of, the participants of e.
Touches(d, i, e, u) ==
  \/ queue[d][i] \in {JoinOp(e, u), LeaveOp(e, u)}
  \/ queue[d][i] = AddEventOp(e) /\ HostOf[e] = u

\* u is a participant of e: the last waiting write about it decides, the
\* cache when there is none.
Participates(d, e, u) ==
  \/ \E i \in 1..Len(queue[d]) :
       /\ Touches(d, i, e, u)
       /\ queue[d][i].op # "leave"
       /\ \A j \in (i + 1)..Len(queue[d]) : ~Touches(d, j, e, u)
  \/ /\ <<e, u>> \in cache[d].parti
     /\ \A j \in 1..Len(queue[d]) : ~Touches(d, j, e, u)

-----------------------------------------------------------------------------
(* Steps of the plugin and of the network. *)

StoreTypeOK ==
  /\ server \in Store
  /\ cache \in [Device -> Store]
  /\ queue \in [Device -> Seq(Write)]

EmptyStore ==
  [events |-> {}, parti |-> {}, msgs |-> {}, read |-> {}, reacted |-> {},
   rooms |-> {}, users |-> Registered0]

StoreInit ==
  /\ server = EmptyStore
  /\ cache = [d \in Device |-> EmptyStore]
  /\ queue = [d \in Device |-> <<>>]

\* The plugin of d persists the writes ws, in this order.
Enqueue(d, ws) ==
  /\ queue' = [queue EXCEPT ![d] = @ \o ws]
  /\ UNCHANGED <<server, cache>>

\* The server answers the oldest write of d; d's cache follows.
Commit(d) ==
  /\ queue[d] # <<>>
  /\ server' = Apply(server, Head(queue[d]))
  /\ cache' = [cache EXCEPT ![d] = Apply(@, Head(queue[d]))]
  /\ queue' = [queue EXCEPT ![d] = Tail(@)]

\* C after it heard of event e of the server S, or of the messages of room r.
WithEvent(C, S, e) ==
  [C EXCEPT !.events = @ \cup {e},
            !.parti = {p \in @ : p[1] # e} \cup {p \in S.parti : p[1] = e}]

WithMsgs(C, S, r) ==
  [C EXCEPT !.msgs = @ \cup {m \in S.msgs : RoomOf(m) = r},
            !.read = @ \cup {m \in S.read : RoomOf(m) = r},
            !.reacted = @ \cup {m \in S.reacted : RoomOf(m) = r}]

\* A listener of d hears of one event document on the server ...
ListenEvent(d, e) ==
  /\ cache' = [cache EXCEPT ![d] = WithEvent(@, server, e)]
  /\ UNCHANGED <<server, queue>>

\* ... of the messages of one room ...
ListenMsgs(d, r) ==
  /\ cache' = [cache EXCEPT ![d] = WithMsgs(@, server, r)]
  /\ UNCHANGED <<server, queue>>

\* ... of the room documents, or of the users.
ListenRooms(d) ==
  /\ cache' = [cache EXCEPT ![d] = [@ EXCEPT !.rooms = server.rooms]]
  /\ UNCHANGED <<server, queue>>

ListenUsers(d) ==
  /\ cache' = [cache EXCEPT ![d] = [@ EXCEPT !.users = server.users]]
  /\ UNCHANGED <<server, queue>>

Listen(d) ==
  \/ \E e \in server.events : ListenEvent(d, e)
  \/ \E r \in {RoomOf(m) : m \in server.msgs} : ListenMsgs(d, r)
  \/ ListenRooms(d)
  \/ ListenUsers(d)
=============================================================================
