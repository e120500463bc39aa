-------------------------- MODULE ChatRooms_proofs --------------------------
(***************************************************************************)
(* Facts about documents, writes and queues, and the proof that ChatInv is *)
(* an invariant of the chat: receipts and ticks are honest, and there is   *)
(* one room document for two users, with a message.                        *)
(***************************************************************************)
EXTENDS ChatRoomsInv, FiniteSetTheorems, SequenceTheorems, TLAPS

-----------------------------------------------------------------------------
(* Constants and documents. *)

\* The room of two users is one of two ids.
LEMMA ChatIdType ==
  ASSUME NEW u \in User, NEW p \in User
  PROVE  /\ ChatId(u, p) \in Room
         /\ ChatId(u, p) \in {<<u, p>>, <<p, u>>}
  BY DEF ChatId, Room

\* Both users of a room compute the same id when their hash codes differ.
THEOREM ChatIdSymmetric ==
  ASSUME NEW u \in User, NEW p \in User, Hash[u] # Hash[p]
  PROVE  ChatId(u, p) = ChatId(p, u)
  BY HashAssumption DEF ChatId

\* A message in the room of d and p that d did not send was sent by p to d.
LEMMA RoomPartner ==
  ASSUME NEW me \in User, NEW p \in User, NEW m \in Msg,
         RoomOf(m) = ChatId(me, p), m.from # me
  PROVE  m.to = me /\ m.from = p /\ m.from # m.to
<1>1. m.from \in User /\ m.to \in User
  BY DEF Msg
<1>2. ChatId(m.from, m.to) \in {<<m.from, m.to>>, <<m.to, m.from>>}
  BY <1>1, ChatIdType
<1>3. ChatId(me, p) \in {<<me, p>>, <<p, me>>}
  BY ChatIdType
<1> QED
  BY <1>2, <1>3 DEF RoomOf

\* The addressee of a received message computes the id of its room too.
LEMMA ReactRoom ==
  ASSUME NEW me \in User, NEW p \in User, NEW m \in Msg,
         RoomOf(m) = ChatId(me, p), m.from # me
  PROVE  ChatId(m.to, m.from) = RoomOf(m)
  BY RoomPartner DEF RoomOf

\* There are finitely many messages.
LEMMA MsgFinite == IsFiniteSet(Msg)
<1> DEFINE P == ((User \X User) \X (Event \cup Text)) \X Time
           f == [x \in P |-> [from |-> x[1][1][1], to |-> x[1][1][2],
                              content |-> x[1][2], time |-> x[2]]]
<1>1. IsFiniteSet(Event \cup Text)
  BY ContentAssumption, FS_Union
<1>2. IsFiniteSet(User \X User)
  BY UserAssumption, FS_Product
<1>3. IsFiniteSet((User \X User) \X (Event \cup Text))
  BY <1>1, <1>2, FS_Product
<1>4. IsFiniteSet(P)
  BY <1>3, TimeAssumption, FS_Product
<1>5. f \in [P -> Msg]
  BY DEF Msg
<1>6. \A m \in Msg : \E x \in P : f[x] = m
  <2> SUFFICES ASSUME NEW m \in Msg
               PROVE  \E x \in P : f[x] = m
    OBVIOUS
  <2> DEFINE x == <<<<<<m.from, m.to>>, m.content>>, m.time>>
  <2>1. x \in P
    BY DEF Msg
  <2>2. f[x] = m
    BY <2>1 DEF Msg
  <2> QED
    BY <2>1, <2>2
<1>7. f \in Surjection(P, Msg)
  BY <1>5, <1>6 DEF Surjection
<1> HIDE DEF P, f
<1> QED
  BY <1>4, <1>7, FS_Surjection

\* The kinds of writes, and their fields.
LEMMA WriteFields ==
  ASSUME NEW w \in Write
  PROVE  /\ w.op \in {"addEvent", "join", "leave", "addMsg", "read", "react", "setRoom"}
         /\ w.op = "addEvent" => w.event \in Event /\ w = AddEventOp(w.event)
         /\ w.op \in {"join", "leave"} => w.event \in Event /\ w.user \in User
         /\ w.op = "addMsg" => w.msg \in Msg /\ w = AddMsgOp(w.msg)
         /\ w.op \in {"read", "react"} => w.msg \in Msg /\ w.room \in Room
         /\ w.op = "react" => w = ReactOp(w.room, w.msg)
         /\ w.op = "setRoom" => w.room \in Room /\ w.time \in Time
  BY DEF Write, AddEventOp, AddMsgOp, ReactOp

\* What one write that finds its document does to each kind of document.
LEMMA ApplyFields ==
  ASSUME NEW S \in Store, NEW w \in Write, Finds(S, w)
  PROVE  LET T == Apply(S, w) IN
         /\ T.events = IF w.op = "addEvent" THEN S.events \cup {w.event} ELSE S.events
         /\ T.parti = CASE w.op = "addEvent" ->
                             S.parti \cup {<<w.event, HostOf[w.event]>>}
                        [] w.op = "join" -> S.parti \cup {<<w.event, w.user>>}
                        [] w.op = "leave" -> S.parti \ {<<w.event, w.user>>}
                        [] OTHER -> S.parti
         /\ T.msgs = IF w.op = "addMsg" THEN S.msgs \cup {w.msg} ELSE S.msgs
         /\ T.read = IF w.op = "read" THEN S.read \cup {w.msg} ELSE S.read
         /\ T.reacted = IF w.op = "react" THEN S.reacted \cup {w.msg} ELSE S.reacted
         /\ T.rooms = IF w.op = "setRoom"
                      THEN {r \in S.rooms : r.room # w.room}
                             \cup {[room |-> w.room, time |-> w.time]}
                      ELSE S.rooms
         /\ T.users = S.users
<1>1. CASE w.op = "addEvent"
  BY <1>1 DEF Apply, Store
<1>2. CASE w.op = "join"
  BY <1>2 DEF Apply, Store
<1>3. CASE w.op = "leave"
  BY <1>3 DEF Apply, Store
<1>4. CASE w.op = "addMsg"
  BY <1>4 DEF Apply, Store
<1>5. CASE w.op = "read"
  BY <1>5 DEF Apply, Store
<1>6. CASE w.op = "react"
  BY <1>6 DEF Apply, Store
<1>7. CASE w.op = "setRoom"
  BY <1>7 DEF Apply, Store
<1> QED
  BY <1>1, <1>2, <1>3, <1>4, <1>5, <1>6, <1>7, WriteFields

LEMMA ApplyMisses ==
  ASSUME NEW S, NEW w, ~Finds(S, w)
  PROVE  Apply(S, w) = S
  BY DEF Apply

LEMMA ApplyType ==
  ASSUME NEW S \in Store, NEW w \in Write
  PROVE  Apply(S, w) \in Store
<1>0. CASE ~Finds(S, w)
  BY <1>0, ApplyMisses
<1> SUFFICES ASSUME Finds(S, w) PROVE Apply(S, w) \in Store
  BY <1>0
<1>1. CASE w.op = "addEvent"
  <2> DEFINE E == S.events \cup {w.event}
             P == S.parti \cup {<<w.event, HostOf[w.event]>>}
  <2>1. w.event \in Event /\ HostOf[w.event] \in User
    BY <1>1, WriteFields, HostAssumption
  <2>2. E \in SUBSET Event /\ P \in SUBSET (Event \X User)
    BY <2>1 DEF Store
  <2>3. Apply(S, w) = [S EXCEPT !.events = E, !.parti = P]
    BY <1>1 DEF Apply
  <2> HIDE DEF E, P
  <2> QED
    BY <2>2, <2>3 DEF Store
<1>2. CASE w.op = "join"
  BY <1>2, WriteFields DEF Apply, Store
<1>3. CASE w.op = "leave"
  BY <1>3, WriteFields DEF Apply, Store
<1>4. CASE w.op = "addMsg"
  BY <1>4, WriteFields DEF Apply, Store
<1>5. CASE w.op = "read"
  BY <1>5, WriteFields DEF Apply, Store
<1>6. CASE w.op = "react"
  BY <1>6, WriteFields DEF Apply, Store
<1>7. CASE w.op = "setRoom"
  BY <1>7, WriteFields DEF Apply, Store
<1> QED
  BY <1>1, <1>2, <1>3, <1>4, <1>5, <1>6, <1>7, WriteFields

LEMMA ApplyGrows ==
  ASSUME NEW S \in Store, NEW w \in Write
  PROVE  /\ S.events \subseteq Apply(S, w).events
         /\ S.msgs \subseteq Apply(S, w).msgs
         /\ S.reacted \subseteq Apply(S, w).reacted
<1>1. CASE Finds(S, w)
  BY <1>1, ApplyFields
<1>2. CASE ~Finds(S, w)
  BY <1>2, ApplyMisses
<1> QED
  BY <1>1, <1>2

-----------------------------------------------------------------------------
(* Queues and listings. *)

\* The queue a handler leaves when it is not killed: its own writes come last.
LEMMA Appended ==
  ASSUME NEW q \in Seq(Write), NEW ws \in Seq(Write)
  PROVE  /\ Len(q) \in Nat /\ Len(ws) \in Nat
         /\ \A j \in 1..Len(q) : (q \o ws)[j] = q[j]
         /\ \A k \in 1..Len(ws) : (q \o ws)[Len(q) + k] = ws[k]
  BY ConcatProperties

\* A queue, and after it some of the writes of a handler.
LEMMA AppendPrefix ==
  ASSUME NEW q \in Seq(Write), NEW ws \in Seq(Write), NEW n \in 0..Len(ws)
  PROVE  /\ q \o SubSeq(ws, 1, n) \in Seq(Write)
         /\ Len(q \o SubSeq(ws, 1, n)) = Len(q) + n
         /\ \A i \in 1..(Len(q) + n) :
              (q \o SubSeq(ws, 1, n))[i] = IF i <= Len(q) THEN q[i] ELSE ws[i - Len(q)]
<1> DEFINE p == SubSeq(ws, 1, n)
<1>1. Len(q) \in Nat /\ Len(ws) \in Nat
  OBVIOUS
<1>2. p \in Seq(Write) /\ Len(p) = n /\ \A j \in 1..n : p[j] = ws[j]
  <2>1. \A j \in 1..n : ws[j] \in Write
    OBVIOUS
  <2> QED
    BY <2>1, SubSeqProperties
<1> HIDE DEF p
<1>3. /\ q \o p \in Seq(Write)
      /\ Len(q \o p) = Len(q) + n
      /\ \A i \in 1..(Len(q) + n) : (q \o p)[i] = IF i <= Len(q) THEN q[i] ELSE p[i - Len(q)]
  BY <1>2, ConcatProperties
<1>4. \A i \in 1..(Len(q) + n) : ~(i <= Len(q)) => i - Len(q) \in 1..n
  BY <1>1
<1> QED
  BY <1>2, <1>3, <1>4 DEF p

\* A listing of messages is a sequence of them.
LEMMA ListingType ==
  ASSUME NEW S \in SUBSET Msg, NEW L \in Listing(S)
  PROVE  L \in Seq(Msg) /\ Len(L) \in Nat /\ \A i \in 1..Len(L) : L[i] \in S
<1>1. Cardinality(S) \in Nat
  BY MsgFinite, FS_Subset, FS_CardinalityType
<1>2. L \in [1..Cardinality(S) -> S]
  BY DEF Listing
<1> QED
  BY <1>1, <1>2

-----------------------------------------------------------------------------
(* What a waiting write and a screen rest on stays there. *)

\* ... when the server and the cache hold more.
LEMMA ChatQueueGrows ==
  ASSUME NEW S, NEW T, S.msgs \subseteq T.msgs, NEW C, NEW D, C.msgs \subseteq D.msgs,
         NEW d, NEW q, ChatQueueOK(S, C, d, q)
  PROVE  ChatQueueOK(T, D, d, q)
<1> SUFFICES ASSUME NEW i \in 1..Len(q)
             PROVE  ChatWriteOK(T, D, d, q, i)
  BY DEF ChatQueueOK
<1>1. ChatWriteOK(S, C, d, q, i)
  BY DEF ChatQueueOK
<1>2. \A m : MsgKnown(S, q, i - 1, m) => MsgKnown(T, q, i - 1, m)
  BY DEF MsgKnown
<1> QED
  BY <1>1, <1>2 DEF ChatWriteOK, Received

\* ... in a queue with the same beginning.
LEMMA ChatWriteInSamePrefix ==
  ASSUME NEW S, NEW C, NEW d, NEW q, NEW r, NEW i \in Nat \ {0},
         \A j \in 1..i : r[j] = q[j],
         ChatWriteOK(S, C, d, q, i)
  PROVE  ChatWriteOK(S, C, d, r, i)
<1>1. r[i] = q[i] /\ \A j \in 1..(i - 1) : r[j] = q[j]
  OBVIOUS
<1>2. \A m : MsgKnown(S, q, i - 1, m) => MsgKnown(S, r, i - 1, m)
  BY <1>1 DEF MsgKnown
<1> QED
  BY <1>1, <1>2 DEF ChatWriteOK

\* ... after the head of the queue was applied to the server.
LEMMA ChatQueueTail ==
  ASSUME NEW S \in Store, NEW C, NEW d, NEW q \in Seq(Write), q # <<>>,
         ChatQueueOK(S, C, d, q)
  PROVE  ChatQueueOK(Apply(S, Head(q)), C, d, Tail(q))
<1> DEFINE T == Apply(S, Head(q))
<1> SUFFICES ASSUME NEW i \in 1..Len(Tail(q))
             PROVE  ChatWriteOK(T, C, d, Tail(q), i)
  BY DEF ChatQueueOK
<1>1. /\ i \in Nat /\ i + 1 \in 1..Len(q) /\ (i + 1) - 1 = i
      /\ Tail(q)[i] = q[i + 1]
      /\ Head(q) \in Write /\ Head(q) = q[1]
      /\ \A j \in 1..(i - 1) : Tail(q)[j] = q[j + 1]
  BY HeadTailProperties
<1>2. ChatWriteOK(S, C, d, q, i + 1)
  BY <1>1 DEF ChatQueueOK
<1>3. ASSUME NEW m, MsgKnown(S, q, i, m)
      PROVE  MsgKnown(T, Tail(q), i - 1, m)
  <2>1. CASE m \in S.msgs
    BY <1>1, <2>1, ApplyGrows DEF MsgKnown
  <2>2. CASE q[1] = AddMsgOp(m)
    <3>1. Head(q).op = "addMsg" /\ Head(q).msg = m
      BY <1>1, <2>2 DEF AddMsgOp
    <3>2. T.msgs = S.msgs \cup {Head(q).msg}
      BY <1>1, <3>1, ApplyFields DEF Finds
    <3> QED
      BY <3>1, <3>2 DEF MsgKnown
  <2>3. ASSUME NEW j \in 2..i, q[j] = AddMsgOp(m)
        PROVE  MsgKnown(T, Tail(q), i - 1, m)
    <3>1. j - 1 \in 1..(i - 1) /\ (j - 1) + 1 = j
      BY <1>1
    <3>2. Tail(q)[j - 1] = AddMsgOp(m)
      BY <1>1, <2>3, <3>1
    <3> QED
      BY <3>1, <3>2 DEF MsgKnown
  <2>4. \A j \in 1..i : j = 1 \/ j \in 2..i
    BY <1>1
  <2> QED
    BY <1>3, <2>1, <2>2, <2>3, <2>4 DEF MsgKnown
<1> HIDE DEF T
<1> QED
  BY <1>1, <1>2, <1>3 DEF ChatWriteOK

\* What was delivered stays in the cache; tiles are as right as they were.
LEMMA TilesGrow ==
  ASSUME NEW K, NEW L, \A c \in Device : K[c].msgs \subseteq L[c].msgs,
         NEW d \in Device, NEW s, TilesOK(K[d], d, s), Truthful(K, s)
  PROVE  TilesOK(L[d], d, s) /\ Truthful(L, s)
  BY DEF TilesOK, Truthful, Delivered

LEMMA HomeHasNoTiles ==
  ASSUME NEW K, NEW d
  PROVE  TilesOK(K[d], d, Home) /\ Truthful(K, Home) /\ Home.at # "room"
  BY DEF TilesOK, Truthful, Home

\* What the oldest write of a device rests on is on the server.
LEMMA ChatHeadGround ==
  ASSUME ChatInv, NEW d \in Device, queue[d] # <<>>
  PROVE  LET w == Head(queue[d]) IN
         /\ queue[d] \in Seq(Write) /\ w \in Write
         /\ w.op \in {"read", "react"} =>
              RoomOf(w.msg) = w.room /\ Received(cache[d], d, w.msg)
         /\ w.op = "setRoom" =>
              \E m \in server.msgs : RoomOf(m) = w.room /\ m.time = w.time
<1> DEFINE q == queue[d]
<1>1. q \in Seq(Write) /\ q[1] = Head(q) /\ Head(q) \in Write /\ 1 \in 1..Len(q)
  BY HeadTailProperties DEF ChatInv, StoreTypeOK
<1>2. ChatWriteOK(server, cache[d], d, q, 1)
  BY <1>1 DEF ChatInv, ChatQueueOK
<1> HIDE DEF q
<1> DEFINE w == Head(q)
<1>3. q[1] = w /\ 1 - 1 = 0
  BY <1>1
<1> HIDE DEF w
<1>4. /\ w.op \in {"read", "react"} =>
           RoomOf(w.msg) = w.room /\ Received(cache[d], d, w.msg)
      /\ w.op = "setRoom" =>
           \E m \in Msg : RoomOf(m) = w.room /\ m.time = w.time
                          /\ MsgKnown(server, q, 0, m)
  BY <1>2, <1>3 DEF ChatWriteOK
<1>5. \A m : MsgKnown(server, q, 0, m) => m \in server.msgs
  BY DEF MsgKnown
<1> QED
  BY <1>1, <1>4, <1>5 DEF q, w

-----------------------------------------------------------------------------
(* Steps of the screens. *)

\* A step that leaves the store alone and shows s on d.
LEMMA ChatScreenStep ==
  ASSUME ChatInv, NEW d \in Device, NEW s, s.at = "room" => s \in RoomScreen,
         TilesOK(cache[d], d, s), Truthful(cache, s),
         ui' = [ui EXCEPT ![d] = s], UNCHANGED storeVars
  PROVE  ChatInv'
<1>1. server' = server /\ cache' = cache /\ queue' = queue
  BY DEF storeVars
<1>2. /\ ui' = [c \in Device |-> ui'[c]]
      /\ \A c \in Device : ui'[c] = IF c = d THEN s ELSE ui[c]
  BY DEF ChatInv, RoomsTyped
<1>3. StoreTypeOK' /\ ChatServerOK'
  BY <1>1 DEF ChatInv, StoreTypeOK, ChatServerOK, ReadByAddressee, RoomHasMessage,
     OneDocPerRoom
<1>4. RoomsTyped'
  BY <1>2 DEF ChatInv, RoomsTyped
<1>5. ASSUME NEW c \in Device
      PROVE  /\ ChatQueueOK(server, cache[c], c, queue[c])
             /\ cache[c].msgs \subseteq server.msgs
             /\ cache[c].read \subseteq server.read
             /\ TilesOK(cache[c], c, ui'[c])
             /\ Truthful(cache, ui'[c])
  BY <1>2 DEF ChatInv
<1> QED
  BY <1>1, <1>3, <1>4, <1>5 DEF ChatInv

\* A handler that issues the writes ws and shows s.
LEMMA ChatPerformStep ==
  ASSUME ChatInv, NEW d \in Device, NEW ws \in Seq(Write), NEW s,
         s.at = "room" => s \in RoomScreen,
         TilesOK(cache[d], d, s), Truthful(cache, s),
         Perform(d, ws, s),
         \A k \in 1..Len(ws) :
           ChatWriteOK(server, cache[d], d, queue[d] \o ws, Len(queue[d]) + k)
  PROVE  ChatInv'
<1>1. PICK n \in 0..Len(ws) :
        /\ Enqueue(d, SubSeq(ws, 1, n))
        /\ ui' = [ui EXCEPT ![d] = IF n = Len(ws) THEN s ELSE Home]
  BY DEF Perform
<1> DEFINE q == queue[d]
           r == q \o SubSeq(ws, 1, n)
           t == IF n = Len(ws) THEN s ELSE Home
<1>2. /\ server' = server /\ cache' = cache
      /\ queue' = [queue EXCEPT ![d] = r]
      /\ ui' = [ui EXCEPT ![d] = t]
  BY <1>1 DEF Enqueue
<1>3. /\ queue \in [Device -> Seq(Write)] /\ q \in Seq(Write) /\ Len(q) \in Nat
  BY DEF ChatInv, StoreTypeOK
<1>4. /\ t.at = "room" => t \in RoomScreen
      /\ TilesOK(cache[d], d, t) /\ Truthful(cache, t)
  BY HomeHasNoTiles
<1> HIDE DEF t
<1>5. /\ r \in Seq(Write) /\ Len(r) = Len(q) + n
      /\ \A i \in 1..Len(r) : r[i] = IF i <= Len(q) THEN q[i] ELSE ws[i - Len(q)]
  BY <1>3, AppendPrefix
<1> HIDE DEF r, q
<1>6. \A i \in 1..Len(r) : r[i] = (q \o ws)[i]
  <2>1. /\ \A j \in 1..Len(q) : (q \o ws)[j] = q[j]
        /\ \A k \in 1..Len(ws) : (q \o ws)[Len(q) + k] = ws[k]
    BY <1>3, Appended
  <2> SUFFICES ASSUME NEW i \in 1..Len(r)
               PROVE  r[i] = (q \o ws)[i]
    OBVIOUS
  <2>2. CASE i <= Len(q)
    BY <1>3, <1>5, <2>1, <2>2
  <2>3. CASE ~(i <= Len(q))
    <3>1. i - Len(q) \in 1..Len(ws) /\ Len(q) + (i - Len(q)) = i
      BY <1>3, <1>5, <2>3
    <3> QED
      BY <1>5, <2>1, <2>3, <3>1
  <2> QED
    BY <2>2, <2>3
<1>7. ChatQueueOK(server, cache[d], d, r)
  <2> SUFFICES ASSUME NEW i \in 1..Len(r)
               PROVE  ChatWriteOK(server, cache[d], d, r, i)
    BY DEF ChatQueueOK
  <2>1. i \in Nat \ {0}
    OBVIOUS
  <2>2. CASE i <= Len(q)
    <3>1. ChatWriteOK(server, cache[d], d, q, i)
      BY <1>3, <2>1, <2>2 DEF ChatInv, ChatQueueOK, q
    <3>2. \A j \in 1..i : r[j] = q[j]
      BY <1>3, <1>5, <2>1, <2>2
    <3> QED
      BY <2>1, <3>1, <3>2, ChatWriteInSamePrefix
  <2>3. CASE ~(i <= Len(q))
    <3>1. i - Len(q) \in 1..Len(ws) /\ Len(q) + (i - Len(q)) = i
      BY <1>3, <1>5, <2>3
    <3>2. ChatWriteOK(server, cache[d], d, q \o ws, i)
      BY <3>1 DEF q
    <3>3. \A j \in 1..i : r[j] = (q \o ws)[j]
      BY <1>3, <1>5, <1>6, <2>1
    <3> QED
      BY <2>1, <3>2, <3>3, ChatWriteInSamePrefix
  <2> QED
    BY <2>2, <2>3
<1>8. /\ ui' = [c \in Device |-> ui'[c]]
      /\ \A c \in Device : /\ ui'[c] = IF c = d THEN t ELSE ui[c]
                           /\ queue'[c] = IF c = d THEN r ELSE queue[c]
  BY <1>2, <1>3 DEF ChatInv, RoomsTyped
<1>9. StoreTypeOK'
  BY <1>2, <1>3, <1>5 DEF ChatInv, StoreTypeOK
<1>10. ChatServerOK'
  BY <1>2 DEF ChatInv, ChatServerOK, ReadByAddressee, RoomHasMessage, OneDocPerRoom
<1>11. RoomsTyped'
  BY <1>4, <1>8 DEF ChatInv, RoomsTyped
<1>12. ASSUME NEW c \in Device
       PROVE  /\ ChatQueueOK(server, cache[c], c, queue'[c])
              /\ cache[c].msgs \subseteq server.msgs
              /\ cache[c].read \subseteq server.read
              /\ TilesOK(cache[c], c, ui'[c])
              /\ Truthful(cache, ui'[c])
  BY <1>4, <1>7, <1>8 DEF ChatInv
<1> QED
  BY <1>2, <1>9, <1>10, <1>11, <1>12 DEF ChatInv

LEMMA ChatToHome ==
  ASSUME ChatInv, NEW d \in Device, ui' = [ui EXCEPT ![d] = Home], UNCHANGED storeVars
  PROVE  ChatInv'
  BY HomeHasNoTiles, ChatScreenStep

LEMMA ChatOpenRoomStep ==
  ASSUME ChatInv, NEW d \in Device, NEW p \in User, OpenRoom(d, p)
  PROVE  ChatInv'
<1> DEFINE s == [at |-> "room", peer |-> p, tiles |-> <<>>]
<1>1. s \in RoomScreen
  BY DEF RoomScreen
<1>2. TilesOK(cache[d], d, s) /\ Truthful(cache, s)
  BY DEF TilesOK, Truthful
<1> HIDE DEF s
<1>3. ui' = [ui EXCEPT ![d] = s] /\ UNCHANGED storeVars
  BY DEF OpenRoom, s
<1> QED
  BY <1>1, <1>2, <1>3, ChatScreenStep

\* The room on the screen of d.
LEMMA RoomOnScreen ==
  ASSUME ChatInv, NEW d \in Device, ui[d].at = "room"
  PROVE  /\ ui[d] \in RoomScreen /\ ui[d].peer \in User /\ ui[d].tiles \in Seq(Tile)
         /\ Me(d) \in User /\ Me(d) = Owner[d] /\ RoomOn(d) \in Room
         /\ queue[d] \in Seq(Write) /\ Len(queue[d]) \in Nat /\ cache[d] \in Store
<1>1. ui[d] \in RoomScreen /\ queue[d] \in Seq(Write) /\ cache[d] \in Store
  BY DEF ChatInv, RoomsTyped, StoreTypeOK
<1> QED
  BY <1>1, OwnerAssumption, ChatIdType DEF RoomScreen, Me, RoomOn

LEMMA ChatSubmitStep ==
  ASSUME ChatInv, NEW d \in Device, NEW text \in Text, NEW now \in Time,
         HandleSubmit(d, text, now)
  PROVE  ChatInv'
<1> DEFINE m == [from |-> Me(d), to |-> ui[d].peer, content |-> text, time |-> now]
           w1 == AddMsgOp(m)
           w2 == SetRoomOp(RoomOn(d), now)
           ws == <<w1, w2>>
           q == queue[d]
<1>1. /\ ui[d].peer \in User /\ Me(d) \in User /\ Me(d) = Owner[d] /\ RoomOn(d) \in Room
      /\ ui[d] \in RoomScreen /\ q \in Seq(Write) /\ Len(q) \in Nat
  BY RoomOnScreen DEF HandleSubmit
<1>2. /\ m \in Msg /\ m.from = Owner[d] /\ RoomOf(m) = RoomOn(d) /\ m.time = now
  BY <1>1 DEF Msg, RoomOf, RoomOn
<1>3. Perform(d, ws, ui[d])
  BY DEF HandleSubmit, Submission
<1> HIDE DEF m
<1>4. /\ w1 \in Write /\ w1.op = "addMsg" /\ w1.msg = m
      /\ w2 \in Write /\ w2.op = "setRoom" /\ w2.room = RoomOn(d) /\ w2.time = now
      /\ w1 = AddMsgOp(m)
  BY <1>1, <1>2 DEF Write, AddMsgOp, SetRoomOp
<1> HIDE DEF w1, w2, q
<1>5. ws \in Seq(Write) /\ Len(ws) = 2 /\ ws[1] = w1 /\ ws[2] = w2
  BY <1>4
<1> HIDE DEF ws
<1>6. (q \o ws)[Len(q) + 1] = w1 /\ (q \o ws)[Len(q) + 2] = w2
  <2>1. \A k \in 1..Len(ws) : (q \o ws)[Len(q) + k] = ws[k]
    BY <1>1, <1>5, Appended
  <2>2. 1 \in 1..Len(ws) /\ 2 \in 1..Len(ws)
    BY <1>5
  <2> QED
    BY <1>5, <2>1, <2>2
<1>7. ChatWriteOK(server, cache[d], d, q \o ws, Len(q) + 1)
  BY <1>2, <1>4, <1>6 DEF ChatWriteOK
<1>8. ChatWriteOK(server, cache[d], d, q \o ws, Len(q) + 2)
  <2>1. (Len(q) + 2) - 1 = Len(q) + 1 /\ Len(q) + 1 \in 1..(Len(q) + 1)
    BY <1>1
  <2>2. MsgKnown(server, q \o ws, (Len(q) + 2) - 1, m)
    BY <1>4, <1>6, <2>1 DEF MsgKnown
  <2> QED
    BY <1>2, <1>4, <1>6, <2>2 DEF ChatWriteOK
<1>9. \A k \in 1..Len(ws) : ChatWriteOK(server, cache[d], d, q \o ws, Len(q) + k)
  BY <1>5, <1>7, <1>8
<1>10. TilesOK(cache[d], d, ui[d]) /\ Truthful(cache, ui[d])
  BY DEF ChatInv
<1> QED
  BY <1>1, <1>3, <1>5, <1>9, <1>10, ChatPerformStep DEF q

\* A message of the room on d's screen that d did not send: it was received.
LEMMA ChatPeerMessage ==
  ASSUME ChatInv, NEW d \in Device, ui[d].at = "room",
         NEW m \in MsgsIn(d, RoomOn(d))
  PROVE  /\ m \in Msg /\ RoomOf(m) = RoomOn(d)
         /\ m.from # Me(d) => m \in cache[d].msgs /\ Received(cache[d], d, m)
<1>1. /\ m \in ViewMsgs(d) /\ RoomOf(m) = RoomOn(d)
      /\ cache[d] \in Store /\ queue[d] \in Seq(Write)
      /\ Me(d) \in User /\ Me(d) = Owner[d] /\ ui[d].peer \in User
  BY RoomOnScreen DEF MsgsIn
<1>2. ASSUME m \notin cache[d].msgs
      PROVE  m \in Msg /\ m.from = Me(d)
  <2>1. PICK i \in 1..Len(queue[d]) : queue[d][i].op = "addMsg" /\ queue[d][i].msg = m
    BY <1>1, <1>2 DEF ViewMsgs, Waiting
  <2>2. queue[d][i] \in Write /\ ChatWriteOK(server, cache[d], d, queue[d], i)
    BY <1>1 DEF ChatInv, ChatQueueOK
  <2> QED
    BY <1>1, <2>1, <2>2, WriteFields DEF ChatWriteOK
<1>3. m \in Msg
  BY <1>1, <1>2 DEF Store
<1>4. m.from # Me(d) => m.to = Me(d) /\ m.from # m.to
  BY <1>1, <1>3, RoomPartner DEF RoomOn
<1> QED
  BY <1>1, <1>2, <1>3, <1>4 DEF Received

\* A new tile has a tick only when its message was delivered: the receipt is on
\* the server, or waits on d, the addressee's own device.
LEMMA SeenReadIsDelivered ==
  ASSUME ChatInv, NEW d \in Device, NEW m \in ViewRead(d)
  PROVE  Delivered(cache, m)
<1>1. CASE m \in cache[d].read
  <2>1. m \in server.read
    BY <1>1 DEF ChatInv
  <2> QED
    BY <2>1 DEF ChatInv, ChatServerOK, ReadByAddressee, Delivered
<1>2. ASSUME NEW i \in 1..Len(queue[d]), queue[d][i].op = "read", queue[d][i].msg = m
      PROVE  Delivered(cache, m)
  <2>1. ChatWriteOK(server, cache[d], d, queue[d], i)
    BY DEF ChatInv, ChatQueueOK
  <2> QED
    BY <1>2, <2>1 DEF ChatWriteOK, Received, Delivered
<1> QED
  BY <1>1, <1>2 DEF ViewRead, Waiting

LEMMA ChatRenderStep ==
  ASSUME ChatInv, NEW d \in Device, RenderRoom(d)
  PROVE  ChatInv'
<1> DEFINE r == RoomOn(d)
           q == queue[d]
<1>1. /\ ui[d].at = "room" /\ ui[d] \in RoomScreen /\ ui[d].tiles \in Seq(Tile)
      /\ r \in Room /\ q \in Seq(Write) /\ Len(q) \in Nat
  BY RoomOnScreen DEF RenderRoom
<1>2. PICK L \in Listing(MsgsIn(d, r)), R \in Listing(ToMarkRead(d, r)) :
        Perform(d, [i \in 1..Len(R) |-> ReadOp(r, R[i])],
                [ui[d] EXCEPT !.tiles = [i \in 1..Len(L) |-> TileAt(d, i, L[i])]])
  BY DEF RenderRoom
<1>3. \A m \in MsgsIn(d, r) :
        /\ m \in Msg /\ RoomOf(m) = r
        /\ m.from # Me(d) => m \in cache[d].msgs /\ Received(cache[d], d, m)
  BY <1>1, ChatPeerMessage
<1>4. /\ MsgsIn(d, r) \in SUBSET Msg /\ ToMarkRead(d, r) \in SUBSET Msg
      /\ \A m \in ToMarkRead(d, r) : RoomOf(m) = r /\ Received(cache[d], d, m)
  BY <1>3 DEF ToMarkRead
<1>5. /\ L \in Seq(Msg) /\ Len(L) \in Nat /\ \A i \in 1..Len(L) : L[i] \in MsgsIn(d, r)
      /\ R \in Seq(Msg) /\ Len(R) \in Nat /\ \A i \in 1..Len(R) : R[i] \in ToMarkRead(d, r)
  BY <1>4, ListingType
<1> DEFINE ws == [i \in 1..Len(R) |-> ReadOp(r, R[i])]
           ts == [i \in 1..Len(L) |-> TileAt(d, i, L[i])]
           s == [ui[d] EXCEPT !.tiles = ts]
<1>6. Perform(d, ws, s)
  BY <1>2
<1>7. \A i \in 1..Len(R) : ReadOp(r, R[i]) \in Write
  BY <1>1, <1>4, <1>5 DEF ReadOp, Write
<1>8. /\ ws \in Seq(Write) /\ Len(ws) = Len(R)
      /\ \A i \in 1..Len(ws) : ws[i] = ReadOp(r, R[i])
  BY <1>5, <1>7
<1>9. ASSUME NEW i \in 1..Len(L)
      PROVE  /\ TileAt(d, i, L[i]) \in Tile
             /\ RoomOf(TileAt(d, i, L[i]).msg) = r
             /\ TileAt(d, i, L[i]).msg.from # Me(d) =>
                  TileAt(d, i, L[i]).msg \in cache[d].msgs
             /\ TileAt(d, i, L[i]).read => Delivered(cache, TileAt(d, i, L[i]).msg)
  <2>1. CASE i <= Len(ui[d].tiles) /\ TileAt(d, i, L[i]) = ui[d].tiles[i]
    <3>1. i \in 1..Len(ui[d].tiles)
      BY <1>1, <1>5, <2>1
    <3>2. TilesOK(cache[d], d, ui[d]) /\ Truthful(cache, ui[d])
      BY DEF ChatInv
    <3> QED
      BY <1>1, <2>1, <3>1, <3>2 DEF TilesOK, Truthful, RoomOn
  <2>2. CASE TileAt(d, i, L[i]) = [msg |-> L[i], read |-> L[i] \in ViewRead(d),
                                   reacted |-> L[i] \in ViewReacted(d)]
    <3>1. L[i] \in ViewRead(d) => Delivered(cache, L[i])
      BY SeenReadIsDelivered
    <3>2. TileAt(d, i, L[i]).msg = L[i] /\ L[i] \in MsgsIn(d, r)
      BY <1>5, <2>2
    <3>3. TileAt(d, i, L[i]).read => L[i] \in ViewRead(d)
      <4>1. TileAt(d, i, L[i]).read = (L[i] \in ViewRead(d))
        BY <2>2
      <4> QED
        BY <4>1, Zenon
    <3>4. TileAt(d, i, L[i]) \in Tile
      <4>1. L[i] \in Msg
        BY <1>3, <3>2
      <4>2. /\ (L[i] \in ViewRead(d)) \in BOOLEAN
            /\ (L[i] \in ViewReacted(d)) \in BOOLEAN
        OBVIOUS
      <4> QED
        BY <2>2, <4>1, <4>2 DEF Tile
    <3> HIDE <2>2
    <3>5. TileAt(d, i, L[i]).read => Delivered(cache, TileAt(d, i, L[i]).msg)
      BY <3>1, <3>2, <3>3
    <3> QED
      BY <1>3, <3>2, <3>4, <3>5
  <2> QED
    BY <2>1, <2>2 DEF TileAt
<1>10. /\ ts \in Seq(Tile) /\ Len(ts) = Len(L)
       /\ \A i \in 1..Len(ts) : ts[i] = TileAt(d, i, L[i])
  BY <1>5, <1>9
<1> HIDE DEF ws, ts
<1>11. /\ s \in RoomScreen /\ s.tiles = ts /\ s.peer = ui[d].peer
       /\ s.at = "room"
  BY <1>1, <1>10 DEF RoomScreen
<1>12. TilesOK(cache[d], d, s) /\ Truthful(cache, s)
  <2>1. ASSUME NEW i \in 1..Len(ts)
        PROVE  /\ RoomOf(ts[i].msg) = ChatId(Me(d), s.peer)
               /\ ts[i].msg.from # Me(d) => ts[i].msg \in cache[d].msgs
               /\ ts[i].read => Delivered(cache, ts[i].msg)
    BY <1>9, <1>10, <1>11 DEF RoomOn
  <2> HIDE DEF s
  <2> QED
    BY <1>11, <2>1 DEF TilesOK, Truthful
<1> HIDE DEF s, q
<1>13. ASSUME NEW k \in 1..Len(ws)
       PROVE  ChatWriteOK(server, cache[d], d, q \o ws, Len(q) + k)
  <2>1. (q \o ws)[Len(q) + k] = ReadOp(r, R[k])
    BY <1>1, <1>8, Appended
  <2>2. k \in 1..Len(R) /\ R[k] \in ToMarkRead(d, r)
    BY <1>5, <1>8
  <2> QED
    BY <1>4, <2>1, <2>2 DEF ChatWriteOK, ReadOp
<1> QED
  BY <1>6, <1>8, <1>11, <1>12, <1>13, ChatPerformStep DEF q

-----------------------------------------------------------------------------
(* Steps of the store. *)

LEMMA ChatCommitStep ==
  ASSUME ChatInv, NEW d \in Device, Commit(d), UNCHANGED ui
  PROVE  ChatInv'
<1> DEFINE w == Head(queue[d])
           C == cache[d]
           T == Apply(server, w)
           D == Apply(C, w)
<1>1. /\ queue[d] # <<>> /\ ui' = ui
      /\ server' = T
      /\ cache' = [cache EXCEPT ![d] = D]
      /\ queue' = [queue EXCEPT ![d] = Tail(queue[d])]
  BY DEF Commit
<1>2. /\ server \in Store /\ C \in Store
      /\ cache \in [Device -> Store] /\ queue \in [Device -> Seq(Write)]
      /\ queue[d] \in Seq(Write)
  BY DEF ChatInv, StoreTypeOK
<1>3. /\ w \in Write
      /\ w.op \in {"read", "react"} =>
           RoomOf(w.msg) = w.room /\ Received(C, d, w.msg)
      /\ w.op = "setRoom" =>
           \E m \in server.msgs : RoomOf(m) = w.room /\ m.time = w.time
  BY <1>1, ChatHeadGround
<1>4. /\ Tail(queue[d]) \in Seq(Write)
      /\ \A c \in Device : /\ cache'[c] = IF c = d THEN D ELSE cache[c]
                           /\ queue'[c] = IF c = d THEN Tail(queue[d]) ELSE queue[c]
  BY <1>1, <1>2, HeadTailProperties
<1>5. /\ server.msgs \subseteq T.msgs /\ C.msgs \subseteq D.msgs
      /\ T \in Store /\ D \in Store
  BY <1>2, <1>3, ApplyGrows, ApplyType
\* A receipt is cached only when it reached the server: C has only messages of the
\* server.
<1>6. /\ C.msgs \subseteq server.msgs /\ C.read \subseteq server.read
      /\ TilesOK(C, d, ui[d])
  BY DEF ChatInv
<1>7. /\ T.read = IF w.op = "read" THEN server.read \cup {w.msg} ELSE server.read
      /\ T.msgs = IF w.op = "addMsg" THEN server.msgs \cup {w.msg} ELSE server.msgs
      /\ T.rooms = IF w.op = "setRoom"
                   THEN {r \in server.rooms : r.room # w.room}
                          \cup {[room |-> w.room, time |-> w.time]}
                   ELSE server.rooms
  <2>1. CASE Finds(server, w)
    BY <1>2, <1>3, <2>1, ApplyFields
  <2>2. CASE ~Finds(server, w)
    <3>1. w.op \in {"join", "leave"}
      BY <1>3, <1>6, <2>2 DEF Finds, Received
    <3> QED
      BY <2>2, <3>1, ApplyMisses
  <2> QED
    BY <2>1, <2>2
<1>8. D.msgs \subseteq T.msgs /\ D.read \subseteq T.read
  <2>1. CASE Finds(C, w)
    <3>1. /\ D.msgs = IF w.op = "addMsg" THEN C.msgs \cup {w.msg} ELSE C.msgs
          /\ D.read = IF w.op = "read" THEN C.read \cup {w.msg} ELSE C.read
      BY <1>2, <1>3, <2>1, ApplyFields
    <3> QED
      BY <1>6, <1>7, <3>1
  <2>2. CASE ~Finds(C, w)
    <3>1. D = C
      BY <2>2, ApplyMisses
    <3>2. C.msgs \subseteq T.msgs /\ server.read \subseteq T.read
      BY <1>5, <1>6, <1>7
    <3> QED
      BY <1>6, <3>1, <3>2
  <2> QED
    BY <2>1, <2>2
<1>9. \A c \in Device : cache[c].msgs \subseteq cache'[c].msgs
  BY <1>4, <1>5
<1>10. ChatQueueOK(T, D, d, Tail(queue[d]))
  <2>1. ChatQueueOK(T, C, d, Tail(queue[d]))
    BY <1>1, <1>2, ChatQueueTail DEF ChatInv
  <2> QED
    BY <1>5, <2>1, ChatQueueGrows
<1> HIDE DEF w, T, D
<1>11. StoreTypeOK'
  BY <1>1, <1>2, <1>4, <1>5 DEF StoreTypeOK
<1>12. RoomsTyped'
  BY <1>1 DEF ChatInv, RoomsTyped
<1>13. ChatServerOK'
  <2>1. ReadByAddressee'
    BY <1>1, <1>3, <1>7, <1>9 DEF ChatInv, ChatServerOK, ReadByAddressee, Received
  <2>2. RoomHasMessage'
    BY <1>1, <1>3, <1>5, <1>7 DEF ChatInv, ChatServerOK, RoomHasMessage
  <2>3. OneDocPerRoom'
    BY <1>1, <1>7 DEF ChatInv, ChatServerOK, OneDocPerRoom
  <2> QED
    BY <2>1, <2>2, <2>3 DEF ChatServerOK
<1>14. ASSUME NEW c \in Device
       PROVE  /\ ChatQueueOK(T, cache'[c], c, queue'[c])
              /\ cache'[c].msgs \subseteq T.msgs
              /\ cache'[c].read \subseteq T.read
              /\ TilesOK(cache'[c], c, ui[c])
              /\ Truthful(cache', ui[c])
  <2>1. TilesOK(cache'[c], c, ui[c]) /\ Truthful(cache', ui[c])
    BY <1>9, TilesGrow DEF ChatInv
  <2>2. CASE c = d
    BY <1>4, <1>8, <1>10, <2>1, <2>2
  <2>3. CASE c # d
    <3>1. ChatQueueOK(T, cache[c], c, queue[c])
      BY <1>5, ChatQueueGrows DEF ChatInv
    <3>2. cache[c].msgs \subseteq T.msgs /\ cache[c].read \subseteq T.read
      BY <1>5, <1>7 DEF ChatInv
    <3> QED
      BY <1>4, <2>1, <2>3, <3>1, <3>2
  <2> QED
    BY <2>2, <2>3
<1> QED
  BY <1>1, <1>11, <1>12, <1>13, <1>14 DEF ChatInv

\* A listener: the cache of d gets messages and receipts the server has.
LEMMA ChatHearStep ==
  ASSUME ChatInv, NEW d \in Device, NEW D \in Store,
         cache' = [cache EXCEPT ![d] = D], UNCHANGED <<server, queue, ui>>,
         cache[d].msgs \subseteq D.msgs,
         D.msgs \subseteq server.msgs, D.read \subseteq server.read
  PROVE  ChatInv'
<1>1. server' = server /\ queue' = queue /\ ui' = ui /\ cache \in [Device -> Store]
  BY DEF ChatInv, StoreTypeOK
<1>2. \A c \in Device : cache'[c] = IF c = d THEN D ELSE cache[c]
  BY <1>1
<1>3. \A c \in Device : cache[c].msgs \subseteq cache'[c].msgs
  BY <1>2
<1>4. StoreTypeOK'
  BY <1>1 DEF ChatInv, StoreTypeOK
<1>5. RoomsTyped'
  BY <1>1 DEF ChatInv, RoomsTyped
<1>6. ChatServerOK'
  BY <1>1, <1>3 DEF ChatInv, ChatServerOK, ReadByAddressee, RoomHasMessage,
     OneDocPerRoom
<1>7. ASSUME NEW c \in Device
      PROVE  /\ ChatQueueOK(server, cache'[c], c, queue[c])
             /\ cache'[c].msgs \subseteq server.msgs
             /\ cache'[c].read \subseteq server.read
             /\ TilesOK(cache'[c], c, ui[c])
             /\ Truthful(cache', ui[c])
  <2>1. TilesOK(cache'[c], c, ui[c]) /\ Truthful(cache', ui[c])
    BY <1>3, TilesGrow DEF ChatInv
  <2>2. ChatQueueOK(server, cache'[c], c, queue[c])
    BY <1>3, ChatQueueGrows DEF ChatInv
  <2>3. cache'[c].msgs \subseteq server.msgs /\ cache'[c].read \subseteq server.read
    BY <1>2 DEF ChatInv
  <2> QED
    BY <2>1, <2>2, <2>3
<1> QED
  BY <1>1, <1>4, <1>5, <1>6, <1>7 DEF ChatInv

LEMMA ChatListenStep ==
  ASSUME ChatInv, NEW d \in Device, Listen(d), UNCHANGED ui
  PROVE  ChatInv'
<1> DEFINE C == cache[d]
<1>1. /\ C \in Store /\ server \in Store
      /\ C.msgs \subseteq server.msgs /\ C.read \subseteq server.read
  BY DEF ChatInv, StoreTypeOK
<1>2. ASSUME NEW e \in server.events, ListenEvent(d, e)
      PROVE  ChatInv'
  <2> DEFINE P == {p \in C.parti : p[1] # e} \cup {p \in server.parti : p[1] = e}
             D == WithEvent(C, server, e)
  <2>1. e \in Event /\ P \in SUBSET (Event \X User)
    BY <1>1 DEF Store
  <2>2. D \in Store /\ D.msgs = C.msgs /\ D.read = C.read
    BY <1>1, <2>1 DEF Store, WithEvent
  <2>3. cache' = [cache EXCEPT ![d] = D]
    BY <1>2 DEF ListenEvent
  <2> QED
    BY <1>1, <1>2, <2>2, <2>3, ChatHearStep DEF ListenEvent
<1>3. ASSUME NEW r, ListenMsgs(d, r)
      PROVE  ChatInv'
  <2> DEFINE D == WithMsgs(C, server, r)
  <2>1. /\ D \in Store
        /\ D.msgs = C.msgs \cup {m \in server.msgs : RoomOf(m) = r}
        /\ D.read = C.read \cup {m \in server.read : RoomOf(m) = r}
    BY <1>1 DEF Store, WithMsgs
  <2>2. cache' = [cache EXCEPT ![d] = D]
    BY <1>3 DEF ListenMsgs
  <2> QED
    BY <1>1, <1>3, <2>1, <2>2, ChatHearStep DEF ListenMsgs
<1>4. CASE ListenRooms(d)
  <2> DEFINE D == [C EXCEPT !.rooms = server.rooms]
  <2>1. D \in Store /\ D.msgs = C.msgs /\ D.read = C.read
    BY <1>1 DEF Store
  <2>2. cache' = [cache EXCEPT ![d] = D]
    BY <1>4 DEF ListenRooms
  <2> QED
    BY <1>1, <1>4, <2>1, <2>2, ChatHearStep DEF ListenRooms
<1>5. CASE ListenUsers(d)
  <2> DEFINE D == [C EXCEPT !.users = server.users]
  <2>1. D \in Store /\ D.msgs = C.msgs /\ D.read = C.read
    BY <1>1 DEF Store
  <2>2. cache' = [cache EXCEPT ![d] = D]
    BY <1>5 DEF ListenUsers
  <2> QED
    BY <1>1, <1>5, <2>1, <2>2, ChatHearStep DEF ListenUsers
<1> QED
  BY <1>2, <1>3, <1>4, <1>5 DEF Listen

LEMMA ChatSignUpStep ==
  ASSUME ChatInv, NEW u \in User, SignUp(u)
  PROVE  ChatInv'
<1>1. /\ cache' = cache /\ queue' = queue /\ ui' = ui
      /\ server \in Store /\ server' = [server EXCEPT !.users = @ \cup {u}]
  BY DEF SignUp, ChatInv, StoreTypeOK
<1>2. /\ server' \in Store /\ server'.msgs = server.msgs
      /\ server'.read = server.read /\ server'.rooms = server.rooms
  BY <1>1 DEF Store
<1>3. StoreTypeOK'
  BY <1>1, <1>2 DEF ChatInv, StoreTypeOK
<1>4. RoomsTyped'
  BY <1>1 DEF ChatInv, RoomsTyped
<1>5. ChatServerOK'
  BY <1>1, <1>2 DEF ChatInv, ChatServerOK, ReadByAddressee, RoomHasMessage,
     OneDocPerRoom
<1>6. ASSUME NEW c \in Device
      PROVE  /\ ChatQueueOK(server', cache[c], c, queue[c])
             /\ cache[c].msgs \subseteq server'.msgs
             /\ cache[c].read \subseteq server'.read
             /\ TilesOK(cache[c], c, ui[c])
             /\ Truthful(cache, ui[c])
  BY <1>2, ChatQueueGrows DEF ChatInv
<1> QED
  BY <1>1, <1>3, <1>4, <1>5, <1>6 DEF ChatInv

-----------------------------------------------------------------------------
(* The inductive invariant, and what follows from it. *)

LEMMA ChatInitInv == ChatInit => ChatInv
<1> SUFFICES ASSUME ChatInit PROVE ChatInv
  OBVIOUS
<1> USE DEF ChatInit, StoreInit
<1>1. StoreTypeOK
  BY RegisteredAssumption DEF StoreTypeOK, EmptyStore, Store
<1>2. RoomsTyped
  BY DEF RoomsTyped, Home
<1>3. server.msgs = {} /\ server.read = {} /\ server.rooms = {}
  BY DEF EmptyStore
<1>4. ChatServerOK
  BY <1>3 DEF ChatServerOK, ReadByAddressee, RoomHasMessage, OneDocPerRoom
<1>5. ASSUME NEW d \in Device
      PROVE  /\ ChatQueueOK(server, cache[d], d, queue[d])
             /\ cache[d].msgs \subseteq server.msgs
             /\ cache[d].read \subseteq server.read
             /\ TilesOK(cache[d], d, ui[d])
             /\ Truthful(cache, ui[d])
  <2>1. queue[d] = <<>> /\ cache[d] = server /\ ui[d] = Home
    OBVIOUS
  <2> QED
    BY <2>1, HomeHasNoTiles DEF ChatQueueOK
<1> QED
  BY <1>1, <1>2, <1>4, <1>5 DEF ChatInv

\* Every step of the chat, alone or in the composition with the events.
LEMMA ChatNextInv == ChatInv /\ [ChatNext]_chatVars => ChatInv'
<1> SUFFICES ASSUME ChatInv, [ChatNext]_chatVars PROVE ChatInv'
  OBVIOUS
<1>1. CASE UNCHANGED chatVars
  <2>1. /\ server' = server /\ cache' = cache /\ queue' = queue /\ ui' = ui
    BY <1>1 DEF chatVars, storeVars
  <2>2. StoreTypeOK' /\ RoomsTyped' /\ ChatServerOK'
    BY <2>1 DEF ChatInv, StoreTypeOK, RoomsTyped, ChatServerOK, ReadByAddressee,
       RoomHasMessage, OneDocPerRoom
  <2>3. \A d \in Device :
          /\ ChatQueueOK(server, cache[d], d, queue[d])
          /\ cache[d].msgs \subseteq server.msgs
          /\ cache[d].read \subseteq server.read
          /\ TilesOK(cache[d], d, ui[d])
          /\ Truthful(cache, ui[d])
    BY DEF ChatInv
  <2> QED
    BY <2>1, <2>2, <2>3 DEF ChatInv
<1>2. ASSUME NEW d \in Device, StoreStep(d)
      PROVE  ChatInv'
  BY <1>2, ChatCommitStep, ChatListenStep DEF StoreStep
<1>3. ASSUME NEW d \in Device, ChatStep(d)
      PROVE  ChatInv'
  <2>1. CASE \E p \in User : OpenRoom(d, p)
    BY <2>1, ChatOpenRoomStep
  <2>2. CASE CloseRoom(d)
    BY <2>2, ChatToHome DEF CloseRoom
  <2>3. CASE RenderRoom(d)
    BY <2>3, ChatRenderStep
  <2>4. CASE \E text \in Text, now \in Time : HandleSubmit(d, text, now)
    BY <2>4, ChatSubmitStep
  <2> QED
    BY <1>3, <2>1, <2>2, <2>3, <2>4 DEF ChatStep
<1>4. ASSUME NEW d \in Device, Kill(d)
      PROVE  ChatInv'
  BY <1>4, ChatToHome DEF Kill
<1> QED
  BY <1>1, <1>2, <1>3, <1>4, ChatSignUpStep DEF ChatNext

\* Queues, caches and screens of the chat always rest on what is on the server or
\* on its way there, whatever is off line, killed or interleaved.
THEOREM ChatInvariant == ChatSpec => []ChatInv
  BY ChatInitInv, ChatNextInv, PTL DEF ChatSpec

\* Every document, cache, queue and screen of the chat keeps its shape.
THEOREM ChatTypeCorrect == ChatSpec => []ChatTypeOK
<1> DEFINE Shown == \A d \in Device : ui[d] = Home \/ ui[d].at = "room"
<1>1. ChatInit => Shown
  BY DEF ChatInit
<1>2. ChatInv /\ Shown /\ [ChatNext]_chatVars => Shown'
  <2> SUFFICES ASSUME ChatInv, Shown, [ChatNext]_chatVars
               PROVE  Shown'
    OBVIOUS
  <2>1. ASSUME NEW d \in Device, NEW s, ui' = [ui EXCEPT ![d] = s],
               s = Home \/ s.at = "room"
        PROVE  Shown'
    <3>1. \A c \in Device : ui'[c] = IF c = d THEN s ELSE ui[c]
      BY <2>1 DEF ChatInv, RoomsTyped
    <3> QED
      BY <2>1, <3>1
  <2>2. ASSUME NEW d \in Device, NEW ws, NEW s, Perform(d, ws, s), s.at = "room"
        PROVE  Shown'
    <3>1. PICK t : ui' = [ui EXCEPT ![d] = t] /\ (t = Home \/ t.at = "room")
      BY <2>2 DEF Perform
    <3> QED
      BY <2>1, <3>1
  <2>3. CASE UNCHANGED ui
    BY <2>3
  <2>4. ASSUME NEW d \in Device, NEW p \in User, OpenRoom(d, p)
        PROVE  Shown'
    <3> DEFINE s == [at |-> "room", peer |-> p, tiles |-> <<>>]
    <3>1. ui' = [ui EXCEPT ![d] = s] /\ s.at = "room"
      BY <2>4 DEF OpenRoom
    <3> HIDE DEF s
    <3> QED
      BY <2>1, <3>1
  <2>5. ASSUME NEW d \in Device, CloseRoom(d) \/ Kill(d)
        PROVE  Shown'
    BY <2>1, <2>5 DEF CloseRoom, Kill
  <2>6. ASSUME NEW d \in Device, RenderRoom(d)
        PROVE  Shown'
    <3>1. PICK ws, ts : Perform(d, ws, [ui[d] EXCEPT !.tiles = ts])
      BY <2>6 DEF RenderRoom
    <3>2. [ui[d] EXCEPT !.tiles = ts].at = "room"
      BY <2>6, RoomOnScreen DEF RenderRoom, RoomScreen
    <3> QED
      BY <2>2, <3>1, <3>2
  <2>7. ASSUME NEW d \in Device, NEW text \in Text, NEW now \in Time,
               HandleSubmit(d, text, now)
        PROVE  Shown'
    BY <2>2, <2>7 DEF HandleSubmit
  <2> QED
    BY <2>3, <2>4, <2>5, <2>6, <2>7
       DEF ChatNext, ChatStep, StoreStep, SignUp, chatVars
<1>3. ChatInv /\ Shown => ChatTypeOK
  BY DEF ChatInv, RoomsTyped, ChatTypeOK
<1> HIDE DEF Shown
<1> QED
  BY <1>1, <1>2, <1>3, ChatInvariant, PTL DEF ChatSpec

\* A read receipt is that of the addressee, made on a device that had the
\* message, never by its sender.
THEOREM ReadsAreHonest == ChatSpec => []ReadByAddressee
<1>1. ChatInv => ReadByAddressee
  BY DEF ChatInv, ChatServerOK
<1> QED
  BY <1>1, ChatInvariant, PTL

\* A room document always has its message on the server.
THEOREM ChatRoomsHaveMessages == ChatSpec => []RoomHasMessage
<1>1. ChatInv => RoomHasMessage
  BY DEF ChatInv, ChatServerOK
<1> QED
  BY <1>1, ChatInvariant, PTL

\* The tick of a message says "read" only when the message was delivered,
\* however long its tile was kept, for any number of devices of the addressee.
LEMMA TicksFollow == ChatInv => TickIsTruthful
  BY DEF ChatInv, TickIsTruthful, Truthful, Delivered

\* TickIsTruthful of the chat: the tick a tile shows, which may have been kept for
\* long (chat_message.dart:36), never says "read" of a message that was not.
THEOREM TicksAreTruthful == ChatSpec => []TickIsTruthful
  BY TicksFollow, ChatInvariant, PTL

\* Two users share one room document, if hash codes of distinct ids differ: a
\* room document has a message, so its id was made from two users, and both make
\* the same id.  A String's hashCode promises no such thing; users whose ids
\* collide would have two rooms.
LEMMA OneRoomIfHashesDiffer ==
  ASSUME ChatInv, \A u, v \in User : u # v => Hash[u] # Hash[v]
  PROVE  OneRoomPerPair
<1> SUFFICES ASSUME NEW r \in server.rooms, NEW s \in server.rooms,
                    {r.room[1], r.room[2]} = {s.room[1], s.room[2]}
             PROVE  r = s
  BY DEF OneRoomPerPair
<1>1. PICK m \in server.msgs, n \in server.msgs : RoomOf(m) = r.room /\ RoomOf(n) = s.room
  BY DEF ChatInv, ChatServerOK, RoomHasMessage
<1>2. /\ m.from \in User /\ m.to \in User /\ n.from \in User /\ n.to \in User
  BY DEF ChatInv, StoreTypeOK, Store, Msg
<1>3. ASSUME NEW u \in User, NEW v \in User
      PROVE  ChatId(u, v) = ChatId(v, u) /\ {ChatId(u, v)[1], ChatId(u, v)[2]} = {u, v}
  BY HashAssumption DEF ChatId
<1>4. {m.from, m.to} = {n.from, n.to}
  BY <1>1, <1>2, <1>3 DEF RoomOf
<1>5. RoomOf(m) = RoomOf(n)
  BY <1>2, <1>3, <1>4 DEF RoomOf
<1> QED
  BY <1>1, <1>5 DEF ChatInv, ChatServerOK, OneDocPerRoom

\* OneRoomPerPair of the chat, as far as hash codes differ (chat_room.dart:41).
THEOREM OneRoomForTwo ==
  ASSUME \A u, v \in User : u # v => Hash[u] # Hash[v]
  PROVE  ChatSpec => []OneRoomPerPair
<1>1. ChatInv => OneRoomPerPair
  BY OneRoomIfHashesDiffer
<1> QED
  BY <1>1, ChatInvariant, PTL
=============================================================================
