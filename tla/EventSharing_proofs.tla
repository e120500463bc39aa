------------------------- MODULE EventSharing_proofs -------------------------
(***************************************************************************)
(* Proofs that IInv is an invariant of EventSharing, and what follows.     *)
(***************************************************************************)
EXTENDS EventSharingInv, ChatRooms_proofs

-----------------------------------------------------------------------------
(* Documents. *)

\* A write makes nobody a participant but the host of a new event and who joins.
LEMMA PartiGrows ==
  ASSUME NEW S \in Store, NEW w \in Write, Finds(S, w)
  PROVE  Apply(S, w).parti \subseteq S.parti
           \cup {p \in {<<w.event, HostOf[w.event]>>} : w.op = "addEvent"}
           \cup {p \in {<<w.event, w.user>>} : w.op = "join"}
<1>1. CASE w.op = "addEvent"
  BY <1>1, ApplyFields
<1>2. CASE w.op = "join"
  BY <1>2, ApplyFields
<1>3. CASE w.op \notin {"addEvent", "join"}
  <2>1. Apply(S, w).parti \subseteq S.parti
    BY <1>3, ApplyFields
  <2> QED
    BY <2>1
<1> QED
  BY <1>1, <1>2, <1>3

-----------------------------------------------------------------------------
(* What is known stays known. *)

\* ... on a server, and in a cache and a history, that hold more.
LEMMA KnownGrows ==
  ASSUME NEW S, NEW T, S.events \subseteq T.events, S.msgs \subseteq T.msgs,
         S.reacted \subseteq T.reacted,
         NEW q, NEW n, NEW e, NEW u, NEW m
  PROVE  /\ EventKnown(S, q, n, e) => EventKnown(T, q, n, e)
         /\ MsgKnown(S, q, n, m) => MsgKnown(T, q, n, m)
         /\ AnswerKnown(S, q, n, e, u) => AnswerKnown(T, q, n, e, u)
         /\ GuestKnown(S, q, n, e, u) => GuestKnown(T, q, n, e, u)
  BY DEF EventKnown, MsgKnown, AnswerKnown, GuestKnown

LEMMA QueueGrows ==
  ASSUME NEW S, NEW T, S.events \subseteq T.events, S.msgs \subseteq T.msgs,
         S.reacted \subseteq T.reacted,
         NEW C, NEW D, C.msgs \subseteq D.msgs, NEW A, NEW B, A \subseteq B,
         NEW d, NEW q, QueueOK(S, C, A, d, q)
  PROVE  QueueOK(T, D, B, d, q)
<1> SUFFICES ASSUME NEW i \in 1..Len(q)
             PROVE  WriteOK(T, D, B, d, q, i)
  BY DEF QueueOK
<1>1. WriteOK(S, C, A, d, q, i)
  BY DEF QueueOK
<1>2. \A e, u, m :
        /\ EventKnown(S, q, i - 1, e) => EventKnown(T, q, i - 1, e)
        /\ MsgKnown(S, q, i - 1, m) => MsgKnown(T, q, i - 1, m)
        /\ AnswerKnown(S, q, i - 1, e, u) => AnswerKnown(T, q, i - 1, e, u)
        /\ GuestKnown(S, q, i - 1, e, u) => GuestKnown(T, q, i - 1, e, u)
  BY KnownGrows
<1> QED
  BY <1>1, <1>2 DEF WriteOK, ChatWriteOK, Received

\* ... in a longer queue with the same beginning.
LEMMA KnownInLonger ==
  ASSUME NEW S, NEW q, NEW r, NEW n \in Nat, NEW k \in Nat, n <= k,
         \A j \in 1..n : r[j] = q[j],
         NEW e, NEW u, NEW m
  PROVE  /\ EventKnown(S, q, n, e) => EventKnown(S, r, k, e)
         /\ MsgKnown(S, q, n, m) => MsgKnown(S, r, k, m)
         /\ AnswerKnown(S, q, n, e, u) => AnswerKnown(S, r, k, e, u)
         /\ GuestKnown(S, q, n, e, u) => GuestKnown(S, r, k, e, u)
<1>1. \A j \in 1..n : j \in 1..k /\ r[j] = q[j]
  OBVIOUS
<1> QED
  BY <1>1 DEF EventKnown, MsgKnown, AnswerKnown, GuestKnown

\* A write rests on the same ground in a queue with the same beginning.
LEMMA WriteInSamePrefix ==
  ASSUME NEW S, NEW C, NEW A, NEW d, NEW q, NEW r, NEW i \in Nat \ {0},
         \A j \in 1..i : r[j] = q[j],
         WriteOK(S, C, A, d, q, i)
  PROVE  WriteOK(S, C, A, d, r, i)
<1>1. \A j \in 1..(i - 1) : r[j] = q[j]
  OBVIOUS
<1>2. i - 1 \in Nat /\ i - 1 <= i - 1 /\ r[i] = q[i]
  OBVIOUS
<1>3. \A e, u, m :
        /\ EventKnown(S, q, i - 1, e) => EventKnown(S, r, i - 1, e)
        /\ MsgKnown(S, q, i - 1, m) => MsgKnown(S, r, i - 1, m)
        /\ AnswerKnown(S, q, i - 1, e, u) => AnswerKnown(S, r, i - 1, e, u)
        /\ GuestKnown(S, q, i - 1, e, u) => GuestKnown(S, r, i - 1, e, u)
  BY <1>1, <1>2, KnownInLonger
<1> QED
  BY <1>2, <1>3 DEF WriteOK, ChatWriteOK

\* ... and, one place earlier, after the head was applied to the server.
LEMMA KnownInTail ==
  ASSUME NEW S \in Store, NEW q \in Seq(Write), q # <<>>, Finds(S, Head(q)),
         NEW n \in Nat, n < Len(q),
         NEW e, NEW u, NEW m
  PROVE  LET T == Apply(S, Head(q))
             k == n + 1
         IN
         /\ EventKnown(S, q, k, e) => EventKnown(T, Tail(q), n, e)
         /\ MsgKnown(S, q, k, m) => MsgKnown(T, Tail(q), n, m)
         /\ AnswerKnown(S, q, k, e, u) => AnswerKnown(T, Tail(q), n, e, u)
         /\ GuestKnown(S, q, k, e, u) => GuestKnown(T, Tail(q), n, e, u)
<1> DEFINE T == Apply(S, Head(q))
<1>1. /\ Head(q) \in Write /\ Head(q) = q[1]
      /\ \A j \in 1..n : Tail(q)[j] = q[j + 1]
  BY HeadTailProperties
<1>2. \A j \in 1..(n + 1) : j = 1 \/ (j - 1 \in 1..n /\ Tail(q)[j - 1] = q[j])
  BY <1>1
<1>3. /\ S.events \subseteq T.events /\ S.msgs \subseteq T.msgs
      /\ S.reacted \subseteq T.reacted
  BY <1>1, ApplyGrows
<1>4. ASSUME NEW x, q[1] = AddEventOp(x)
      PROVE  x \in T.events
  <2>1. Head(q).op = "addEvent" /\ Head(q).event = x
    BY <1>1, <1>4 DEF AddEventOp
  <2>2. T.events = S.events \cup {Head(q).event}
    BY <1>1, <2>1, ApplyFields
  <2> QED
    BY <2>1, <2>2
<1>5. ASSUME NEW x, q[1] = AddMsgOp(x)
      PROVE  x \in T.msgs
  <2>1. Head(q).op = "addMsg" /\ Head(q).msg = x
    BY <1>1, <1>5 DEF AddMsgOp
  <2>2. T.msgs = S.msgs \cup {Head(q).msg}
    BY <1>1, <2>1, ApplyFields
  <2> QED
    BY <2>1, <2>2
<1>6. ASSUME NEW x, NEW r, q[1] = ReactOp(r, x)
      PROVE  x \in T.reacted
  <2>1. Head(q).op = "react" /\ Head(q).msg = x
    BY <1>1, <1>6 DEF ReactOp
  <2>2. T.reacted = S.reacted \cup {Head(q).msg}
    BY <1>1, <2>1, ApplyFields
  <2> QED
    BY <2>1, <2>2
<1> HIDE DEF T
<1>7. EventKnown(S, q, n + 1, e) => EventKnown(T, Tail(q), n, e)
  BY <1>2, <1>3, <1>4 DEF EventKnown
<1>8. MsgKnown(S, q, n + 1, m) => MsgKnown(T, Tail(q), n, m)
  BY <1>2, <1>3, <1>5 DEF MsgKnown
<1>9. AnswerKnown(S, q, n + 1, e, u) => AnswerKnown(T, Tail(q), n, e, u)
  <2> SUFFICES ASSUME NEW x \in Msg, x.content = e, x.to = u,
                      x \in S.reacted \/ \E j \in 1..(n + 1) : q[j] = ReactOp(RoomOf(x), x)
               PROVE  x \in T.reacted \/ \E j \in 1..n : Tail(q)[j] = ReactOp(RoomOf(x), x)
    BY DEF AnswerKnown
  <2> QED
    BY <1>2, <1>3, <1>6
<1> QED
  BY <1>7, <1>8, <1>9 DEF GuestKnown, T

LEMMA QueueTail ==
  ASSUME NEW S \in Store, NEW C, NEW A, NEW d, NEW q \in Seq(Write), q # <<>>,
         Finds(S, Head(q)), QueueOK(S, C, A, d, q)
  PROVE  QueueOK(Apply(S, Head(q)), C, A, d, Tail(q))
<1> DEFINE T == Apply(S, Head(q))
<1> SUFFICES ASSUME NEW i \in 1..Len(Tail(q))
             PROVE  WriteOK(T, C, A, d, Tail(q), i)
  BY DEF QueueOK
<1>1. /\ i \in Nat /\ i - 1 \in Nat /\ i - 1 < Len(q) /\ i + 1 \in 1..Len(q)
      /\ Tail(q)[i] = q[i + 1]
      /\ (i - 1) + 1 = i /\ (i + 1) - 1 = i
  BY HeadTailProperties
<1>2. WriteOK(S, C, A, d, q, i + 1)
  BY <1>1 DEF QueueOK
<1>3. \A e, u, m :
        /\ EventKnown(S, q, i, e) => EventKnown(T, Tail(q), i - 1, e)
        /\ MsgKnown(S, q, i, m) => MsgKnown(T, Tail(q), i - 1, m)
        /\ AnswerKnown(S, q, i, e, u) => AnswerKnown(T, Tail(q), i - 1, e, u)
        /\ GuestKnown(S, q, i, e, u) => GuestKnown(T, Tail(q), i - 1, e, u)
  BY <1>1, KnownInTail
<1> HIDE DEF T
<1> QED
  BY <1>1, <1>2, <1>3 DEF WriteOK, ChatWriteOK

-----------------------------------------------------------------------------
(* Screens. *)

LEMMA ScreenGrows ==
  ASSUME NEW S, NEW T, S.events \subseteq T.events, S.msgs \subseteq T.msgs,
         S.reacted \subseteq T.reacted,
         NEW C, NEW D, C.msgs \subseteq D.msgs,
         NEW d, NEW q, NEW s, ScreenOK(S, C, d, q, s)
  PROVE  ScreenOK(T, D, d, q, s)
<1>1. \A n, e, u :
        /\ EventKnown(S, q, n, e) => EventKnown(T, q, n, e)
        /\ GuestKnown(S, q, n, e, u) => GuestKnown(T, q, n, e, u)
  BY KnownGrows
<1> QED
  BY <1>1 DEF ScreenOK, TilesOK

LEMMA ScreenWithLonger ==
  ASSUME NEW S, NEW C, NEW d, NEW q \in Seq(Write), NEW p \in Seq(Write),
         NEW s, ScreenOK(S, C, d, q, s)
  PROVE  ScreenOK(S, C, d, q \o p, s)
<1>1. /\ Len(q) \in Nat /\ Len(q \o p) \in Nat /\ Len(q) <= Len(q \o p)
      /\ \A j \in 1..Len(q) : (q \o p)[j] = q[j]
  OBVIOUS
<1>2. \A e, u :
        /\ EventKnown(S, q, Len(q), e) => EventKnown(S, q \o p, Len(q \o p), e)
        /\ GuestKnown(S, q, Len(q), e, u) => GuestKnown(S, q \o p, Len(q \o p), e, u)
  BY <1>1, KnownInLonger
<1> QED
  BY <1>2 DEF ScreenOK, TilesOK

LEMMA ScreenWithTail ==
  ASSUME NEW S \in Store, NEW C, NEW d, NEW q \in Seq(Write), q # <<>>,
         Finds(S, Head(q)), NEW s, ScreenOK(S, C, d, q, s)
  PROVE  ScreenOK(Apply(S, Head(q)), C, d, Tail(q), s)
<1> DEFINE T == Apply(S, Head(q))
<1>1. /\ Len(Tail(q)) \in Nat /\ Len(Tail(q)) < Len(q)
      /\ Len(q) = Len(Tail(q)) + 1
  BY HeadTailProperties
<1>2. \A e, u :
        /\ EventKnown(S, q, Len(q), e) => EventKnown(T, Tail(q), Len(Tail(q)), e)
        /\ GuestKnown(S, q, Len(q), e, u) => GuestKnown(T, Tail(q), Len(Tail(q)), e, u)
  BY <1>1, KnownInTail
<1> HIDE DEF T
<1>3. ScreenOK(T, C, d, Tail(q), s)
  BY <1>2 DEF ScreenOK, TilesOK
<1> QED
  BY <1>3 DEF T

LEMMA HomeOK ==
  ASSUME NEW S, NEW C, NEW d, NEW q
  PROVE  Home \in Screen /\ ScreenOK(S, C, d, q, Home)
  BY DEF Home, Screen, ScreenOK, TilesOK

-----------------------------------------------------------------------------
(* The three ways a step changes the state. *)

\* A step that only changes the screen of d.
LEMMA ScreenStep ==
  ASSUME IInv, NEW d \in Device, NEW s \in Screen,
         ScreenOK(server, cache[d], d, queue[d], s),
         ui' = [ui EXCEPT ![d] = s], UNCHANGED <<storeVars, accepted>>
  PROVE  IInv'
<1>1. server' = server /\ cache' = cache /\ queue' = queue /\ accepted' = accepted
  BY DEF storeVars
<1>2. TypeOK'
  BY <1>1 DEF IInv, TypeOK, StoreTypeOK
<1>3. ServerOK'
  BY <1>1 DEF IInv, ServerOK, JoinNeedsReaction, ConsentedMembers,
     InvitersWereInvited, Invitations, ReactedByAddressee, ReadByAddressee,
     RoomHasMessage
<1>4. ASSUME NEW c \in Device
      PROVE  /\ QueueOK(server, cache[c], accepted, c, queue[c])'
             /\ CacheOK(server, cache[c])'
             /\ ScreenOK(server, cache[c], c, queue[c], ui[c])'
  <2>1. ui'[c] = IF c = d THEN s ELSE ui[c]
    BY DEF IInv, TypeOK
  <2>2. ScreenOK(server, cache[c], c, queue[c], ui'[c])
    BY <2>1 DEF IInv
  <2>3. QueueOK(server, cache[c], accepted, c, queue[c]) /\ CacheOK(server, cache[c])
    BY DEF IInv
  <2>4. QueueOK(server, cache[c], accepted, c, queue[c])'
    <3>1. ASSUME NEW i \in 1..Len(queue[c])
          PROVE  WriteOK(server, cache[c], accepted, c, queue[c], i)'
      <4>1. WriteOK(server, cache[c], accepted, c, queue[c], i)
        BY <2>3 DEF QueueOK
      <4> QED
        BY <1>1, <4>1 DEF WriteOK, ChatWriteOK, EventKnown, MsgKnown, AnswerKnown, GuestKnown
    <3> QED
      BY <1>1, <3>1 DEF QueueOK
  <2>5. CacheOK(server, cache[c])'
    BY <1>1, <2>3 DEF CacheOK, GuestKnown, AnswerKnown
  <2>6. ScreenOK(server, cache[c], c, queue[c], ui[c])'
    BY <1>1, <2>2 DEF ScreenOK, TilesOK, EventKnown, GuestKnown, AnswerKnown
  <2> QED
    BY <2>4, <2>5, <2>6
<1> QED
  BY <1>2, <1>3, <1>4 DEF IInv

\* A handler that issues the writes ws and shows s.
LEMMA PerformStep ==
  ASSUME IInv, NEW d \in Device, NEW ws \in Seq(Write), NEW s \in Screen,
         Perform(d, ws, s),
         accepted \subseteq accepted', accepted' \subseteq Event \X User,
         ScreenOK(server, cache[d], d, queue[d], s),
         \A k \in 1..Len(ws) :
           WriteOK(server, cache[d], accepted', d, queue[d] \o ws, Len(queue[d]) + k)
  PROVE  IInv'
<1>1. PICK n \in 0..Len(ws) :
        /\ Enqueue(d, SubSeq(ws, 1, n))
        /\ ui' = [ui EXCEPT ![d] = IF n = Len(ws) THEN s ELSE Home]
  BY DEF Perform
<1> DEFINE q == queue[d]
           p == SubSeq(ws, 1, n)
           t == IF n = Len(ws) THEN s ELSE Home
<1>2. /\ server' = server /\ cache' = cache
      /\ queue' = [queue EXCEPT ![d] = q \o p]
      /\ ui' = [ui EXCEPT ![d] = t]
  BY <1>1 DEF Enqueue
<1>3. /\ q \in Seq(Write) /\ Len(q) \in Nat
      /\ p \in Seq(Write) /\ Len(p) = n
      /\ \A j \in 1..n : p[j] = ws[j]
  <2>1. \A j \in 1..n : ws[j] \in Write
    OBVIOUS
  <2> QED
    BY <2>1, SubSeqProperties DEF IInv, TypeOK, StoreTypeOK
<1>4. /\ t \in Screen
      /\ ScreenOK(server, cache[d], d, q, t)
  BY HomeOK
<1> HIDE DEF q, p, t
<1>5. /\ q \o p \in Seq(Write)
      /\ Len(q \o p) = Len(q) + n
      /\ \A j \in 1..Len(q) : (q \o p)[j] = q[j]
      /\ \A j \in 1..(Len(q) + n) : (q \o p)[j] = (q \o ws)[j]
  <2>1. /\ q \o p \in Seq(Write)
        /\ Len(q \o p) = Len(q) + Len(p)
        /\ \A j \in 1..(Len(q) + Len(p)) :
             (q \o p)[j] = IF j <= Len(q) THEN q[j] ELSE p[j - Len(q)]
    BY <1>3, ConcatProperties
  <2>2. \A j \in 1..(Len(q) + Len(ws)) :
          (q \o ws)[j] = IF j <= Len(q) THEN q[j] ELSE ws[j - Len(q)]
    BY <1>3, ConcatProperties
  <2>3. \A j \in 1..(Len(q) + n) :
          j \in 1..(Len(q) + Len(ws)) /\ (j > Len(q) => j - Len(q) \in 1..n)
    BY <1>3
  <2> QED
    BY <1>3, <2>1, <2>2, <2>3
<1>6. TypeOK'
  BY <1>2, <1>4, <1>5 DEF IInv, TypeOK, StoreTypeOK
<1>7. ServerOK'
  BY <1>2 DEF IInv, ServerOK, JoinNeedsReaction, ConsentedMembers,
     InvitersWereInvited, Invitations, ReactedByAddressee, ReadByAddressee,
     RoomHasMessage
<1>8. QueueOK(server, cache[d], accepted', d, q \o p)
  <2> SUFFICES ASSUME NEW i \in 1..Len(q \o p)
               PROVE  WriteOK(server, cache[d], accepted', d, q \o p, i)
    BY DEF QueueOK
  <2>1. CASE i <= Len(q)
    <3>1. QueueOK(server, cache[d], accepted', d, q)
      BY QueueGrows DEF IInv, q
    <3>2. WriteOK(server, cache[d], accepted', d, q, i)
      BY <1>3, <2>1, <3>1 DEF QueueOK
    <3>3. i \in Nat \ {0} /\ \A j \in 1..i : (q \o p)[j] = q[j]
      BY <1>3, <1>5, <2>1
    <3> QED
      BY <3>2, <3>3, WriteInSamePrefix
  <2>2. CASE i > Len(q)
    <3>1. i - Len(q) \in 1..Len(ws) /\ Len(q) + (i - Len(q)) = i
      BY <1>3, <1>5, <2>2
    <3>2. WriteOK(server, cache[d], accepted', d, q \o ws, i)
      BY <3>1 DEF q
    <3>3. i \in Nat \ {0} /\ \A j \in 1..i : (q \o p)[j] = (q \o ws)[j]
      BY <1>3, <1>5
    <3> QED
      BY <3>2, <3>3, WriteInSamePrefix
  <2> QED
    BY <1>3, <1>5, <2>1, <2>2
<1>9. ASSUME NEW c \in Device
      PROVE  /\ QueueOK(server, cache[c], accepted', c, queue'[c])
             /\ ScreenOK(server, cache[c], c, queue'[c], ui'[c])
  <2>1. CASE c = d
    <3>1. queue'[c] = q \o p /\ ui'[c] = t
      BY <1>2, <2>1 DEF IInv, TypeOK, StoreTypeOK
    <3>2. ScreenOK(server, cache[d], d, q \o p, t)
      BY <1>3, <1>4, ScreenWithLonger
    <3> QED
      BY <1>8, <2>1, <3>1, <3>2
  <2>2. CASE c # d
    <3>1. queue'[c] = queue[c] /\ ui'[c] = ui[c]
      BY <1>2, <2>2 DEF IInv, TypeOK, StoreTypeOK
    <3>2. QueueOK(server, cache[c], accepted', c, queue[c])
      BY QueueGrows DEF IInv
    <3> QED
      BY <3>1, <3>2 DEF IInv
  <2> QED
    BY <2>1, <2>2
<1>10. ASSUME NEW c \in Device
       PROVE  CacheOK(server', cache'[c])
  BY <1>2 DEF IInv
<1> QED
  BY <1>2, <1>6, <1>7, <1>9, <1>10 DEF IInv

-----------------------------------------------------------------------------
(* The oldest write of a device reaches the server. *)

\* What the oldest write rests on is on the server.
LEMMA HeadGround ==
  ASSUME IInv, NEW d \in Device, queue[d] # <<>>
  PROVE  LET w == Head(queue[d]) IN
         /\ queue[d] \in Seq(Write) /\ w \in Write
         /\ w.op = "join" =>
              /\ w.event \in server.events
              /\ \E m \in server.reacted : m.content = w.event /\ m.to = w.user
              /\ <<w.event, w.user>> \in accepted
         /\ w.op = "leave" => w.event \in server.events
         /\ w.op \in {"read", "react"} =>
              RoomOf(w.msg) = w.room /\ Received(cache[d], d, w.msg)
         /\ w.op = "addMsg" /\ IsInvitation(w.msg) =>
              /\ w.msg.content \in server.events
              /\ \/ w.msg.from = HostOf[w.msg.content]
                 \/ \E m \in server.reacted :
                      m.content = w.msg.content /\ m.to = w.msg.from
         /\ w.op = "setRoom" =>
              \E m \in server.msgs : RoomOf(m) = w.room /\ m.time = w.time
<1> DEFINE q == queue[d]
<1>1. q \in Seq(Write) /\ q[1] = Head(q) /\ Head(q) \in Write /\ 1 \in 1..Len(q)
  BY HeadTailProperties DEF IInv, TypeOK, StoreTypeOK
<1>2. WriteOK(server, cache[d], accepted, d, q, 1)
  BY <1>1 DEF IInv, QueueOK
<1> HIDE DEF q
<1> DEFINE w == Head(q)
<1>3. /\ w.op = "join" =>
           /\ EventKnown(server, q, 0, w.event)
           /\ AnswerKnown(server, q, 0, w.event, w.user)
           /\ <<w.event, w.user>> \in accepted
      /\ w.op = "leave" => EventKnown(server, q, 0, w.event)
      /\ w.op \in {"read", "react"} =>
           RoomOf(w.msg) = w.room /\ Received(cache[d], d, w.msg)
      /\ w.op = "addMsg" /\ IsInvitation(w.msg) =>
           /\ EventKnown(server, q, 0, w.msg.content)
           /\ GuestKnown(server, q, 0, w.msg.content, w.msg.from)
      /\ w.op = "setRoom" =>
           \E m \in Msg : RoomOf(m) = w.room /\ m.time = w.time
                          /\ MsgKnown(server, q, 0, m)
  <2>1. 1 - 1 = 0
    OBVIOUS
  <2> HIDE DEF w
  <2>2. q[1] = w
    BY <1>1 DEF w
  <2> QED
    BY <1>2, <2>1, <2>2 DEF WriteOK, ChatWriteOK
<1> HIDE DEF w
<1>4. ASSUME NEW e
      PROVE  EventKnown(server, q, 0, e) => e \in server.events
  BY DEF EventKnown
<1>5. ASSUME NEW m
      PROVE  MsgKnown(server, q, 0, m) => m \in server.msgs
  BY DEF MsgKnown
<1>6. ASSUME NEW e, NEW u
      PROVE  AnswerKnown(server, q, 0, e, u) =>
               \E x \in server.reacted : x.content = e /\ x.to = u
  BY DEF AnswerKnown
<1>7. w.op = "addMsg" /\ IsInvitation(w.msg) =>
        /\ w.msg.content \in server.events
        /\ \/ w.msg.from = HostOf[w.msg.content]
           \/ \E m \in server.reacted :
                m.content = w.msg.content /\ m.to = w.msg.from
  BY <1>3, <1>4, <1>6 DEF GuestKnown
<1>8. w.op = "setRoom" =>
        \E m \in server.msgs : RoomOf(m) = w.room /\ m.time = w.time
  BY <1>3, <1>5
<1>9. w.op = "join" =>
        /\ w.event \in server.events
        /\ \E m \in server.reacted : m.content = w.event /\ m.to = w.user
        /\ <<w.event, w.user>> \in accepted
  BY <1>3, <1>4, <1>6
<1>10. w.op = "leave" => w.event \in server.events
  BY <1>3, <1>4
<1> QED
  BY <1>1, <1>3, <1>7, <1>8, <1>9, <1>10 DEF q, w

LEMMA HeadFinds ==
  ASSUME IInv, NEW d \in Device, queue[d] # <<>>
  PROVE  Finds(server, Head(queue[d]))
<1>1. cache[d].msgs \subseteq server.msgs
  BY DEF IInv, CacheOK
<1> QED
  BY <1>1, HeadGround DEF Finds, Received

\* What a device knows after its write was answered, the server knows.
LEMMA CacheFollows ==
  ASSUME NEW S \in Store, NEW C \in Store, NEW w \in Write,
         CacheOK(S, C), Finds(S, w),
         w.op = "join" =>
           \E m \in S.reacted : m.content = w.event /\ m.to = w.user
  PROVE  CacheOK(Apply(S, w), Apply(C, w))
<1> DEFINE T == Apply(S, w)
           D == Apply(C, w)
<1>1. S.events \subseteq T.events /\ S.msgs \subseteq T.msgs /\ S.reacted \subseteq T.reacted
  BY ApplyGrows
<1>2. ASSUME NEW e \in Event, NEW u \in User,
             <<e, u>> \in C.parti \/ u = HostOf[e]
               \/ \E m \in S.reacted : m.content = e /\ m.to = u
      PROVE  GuestKnown(T, <<>>, 0, e, u)
  <2>1. GuestKnown(S, <<>>, 0, e, u)
    BY <1>2 DEF CacheOK, GuestKnown, AnswerKnown, Store
  <2> QED
    BY <1>1, <2>1, KnownGrows
<1>3. CASE ~Finds(C, w)
  <2>1. D = C
    BY <1>3, ApplyMisses
  <2> QED
    BY <1>1, <1>2, <2>1 DEF CacheOK
<1>4. CASE Finds(C, w)
  <2>1. /\ D.events = IF w.op = "addEvent" THEN C.events \cup {w.event} ELSE C.events
        /\ T.events = IF w.op = "addEvent" THEN S.events \cup {w.event} ELSE S.events
        /\ D.msgs = IF w.op = "addMsg" THEN C.msgs \cup {w.msg} ELSE C.msgs
        /\ T.msgs = IF w.op = "addMsg" THEN S.msgs \cup {w.msg} ELSE S.msgs
    BY <1>4, ApplyFields
  <2>2. D.events \subseteq T.events /\ D.msgs \subseteq T.msgs
    BY <2>1 DEF CacheOK
  <2>3. D.parti \subseteq C.parti
           \cup {p \in {<<w.event, HostOf[w.event]>>} : w.op = "addEvent"}
           \cup {p \in {<<w.event, w.user>>} : w.op = "join"}
    BY <1>4, PartiGrows
  <2>4. ASSUME NEW e \in Event, NEW u \in User, <<e, u>> \in D.parti
        PROVE  GuestKnown(T, <<>>, 0, e, u)
    BY <1>2, <2>3, <2>4
  <2> QED
    BY <2>2, <2>4 DEF CacheOK
<1> QED
  BY <1>3, <1>4

LEMMA CommitStep ==
  ASSUME IInv, NEW d \in Device, Commit(d), UNCHANGED <<ui, accepted>>
  PROVE  IInv'
<1> DEFINE w == Head(queue[d])
           C == cache[d]
           T == Apply(server, w)
           D == Apply(C, w)
<1>1. /\ queue[d] # <<>> /\ ui' = ui /\ accepted' = accepted
      /\ server' = T
      /\ cache' = [cache EXCEPT ![d] = D]
      /\ queue' = [queue EXCEPT ![d] = Tail(queue[d])]
  BY DEF Commit
<1>2. /\ server \in Store /\ C \in Store
      /\ cache \in [Device -> Store] /\ queue \in [Device -> Seq(Write)]
  BY DEF IInv, TypeOK, StoreTypeOK
<1>3. w \in Write /\ Finds(server, w)
  BY <1>1, HeadGround, HeadFinds
<1>4. /\ w.op = "join" =>
           /\ \E m \in server.reacted : m.content = w.event /\ m.to = w.user
           /\ <<w.event, w.user>> \in accepted
      /\ w.op \in {"read", "react"} => Received(C, d, w.msg)
      /\ w.op = "addMsg" /\ IsInvitation(w.msg) =>
           /\ w.msg.content \in server.events
           /\ \/ w.msg.from = HostOf[w.msg.content]
              \/ \E m \in server.reacted :
                   m.content = w.msg.content /\ m.to = w.msg.from
      /\ w.op = "setRoom" =>
           \E m \in server.msgs : RoomOf(m) = w.room /\ m.time = w.time
  BY <1>1, HeadGround
<1>5. /\ T.parti \subseteq server.parti
           \cup {p \in {<<w.event, HostOf[w.event]>>} : w.op = "addEvent"}
           \cup {p \in {<<w.event, w.user>>} : w.op = "join"}
      /\ T.msgs = IF w.op = "addMsg" THEN server.msgs \cup {w.msg} ELSE server.msgs
      /\ T.read = IF w.op = "read" THEN server.read \cup {w.msg} ELSE server.read
      /\ T.reacted = IF w.op = "react" THEN server.reacted \cup {w.msg} ELSE server.reacted
      /\ T.rooms = IF w.op = "setRoom"
                   THEN {r \in server.rooms : r.room # w.room}
                          \cup {[room |-> w.room, time |-> w.time]}
                   ELSE server.rooms
  BY <1>2, <1>3, ApplyFields, PartiGrows
<1>6. /\ server.events \subseteq T.events /\ server.msgs \subseteq T.msgs
      /\ server.reacted \subseteq T.reacted /\ C.msgs \subseteq D.msgs
  BY <1>2, <1>3, ApplyGrows
<1>7. T \in Store /\ D \in Store
  BY <1>2, <1>3, ApplyType
<1>8. CacheOK(T, D)
  BY <1>2, <1>3, <1>4, CacheFollows DEF IInv
<1>9. \A c \in Device : cache'[c] = IF c = d THEN D ELSE cache[c]
  BY <1>1, <1>2
<1>10. \A c \in Device : cache[c].msgs \subseteq cache'[c].msgs
  BY <1>6, <1>9
<1>11. /\ Tail(queue[d]) \in Seq(Write)
       /\ \A c \in Device : queue'[c] = IF c = d THEN Tail(queue[d]) ELSE queue[c]
  BY <1>1, <1>2, HeadTailProperties
<1> HIDE DEF w, T, D
<1>12. TypeOK'
  <2>1. cache' \in [Device -> Store]
    BY <1>1, <1>2, <1>7
  <2>2. queue' \in [Device -> Seq(Write)]
    BY <1>1, <1>2, <1>11
  <2> QED
    BY <1>1, <1>7, <2>1, <2>2 DEF IInv, TypeOK, StoreTypeOK
<1>13. ServerOK'
  <2>1. JoinNeedsReaction'
    BY <1>1, <1>4, <1>5, <1>6 DEF IInv, ServerOK, JoinNeedsReaction
  <2>2. ConsentedMembers'
    BY <1>1, <1>4, <1>5 DEF IInv, ServerOK, ConsentedMembers
  <2>3. InvitersWereInvited'
    BY <1>1, <1>4, <1>5, <1>6 DEF IInv, ServerOK, InvitersWereInvited, Invitations
  <2>4. ReactedByAddressee'
    BY <1>1, <1>4, <1>5, <1>10 DEF IInv, ServerOK, ReactedByAddressee, Received
  <2>5. ReadByAddressee'
    BY <1>1, <1>4, <1>5, <1>10 DEF IInv, ServerOK, ReadByAddressee, Received
  <2>6. RoomHasMessage'
    BY <1>1, <1>4, <1>5, <1>6 DEF IInv, ServerOK, RoomHasMessage
  <2> QED
    BY <2>1, <2>2, <2>3, <2>4, <2>5, <2>6 DEF ServerOK
<1>14. ASSUME NEW c \in Device
       PROVE  /\ QueueOK(T, cache'[c], accepted, c, queue'[c])
              /\ CacheOK(T, cache'[c])
              /\ ScreenOK(T, cache'[c], c, queue'[c], ui[c])
  <2>1. CASE c = d
    <3>1. /\ QueueOK(T, C, accepted, d, Tail(queue[d]))
          /\ ScreenOK(T, C, d, Tail(queue[d]), ui[d])
      BY <1>1, <1>2, <1>3, QueueTail, ScreenWithTail DEF IInv, w, T
    <3>2. /\ QueueOK(T, D, accepted, d, Tail(queue[d]))
          /\ ScreenOK(T, D, d, Tail(queue[d]), ui[d])
      BY <1>6, <3>1, QueueGrows, ScreenGrows
    <3> QED
      BY <1>8, <1>9, <1>11, <2>1, <3>2
  <2>2. CASE c # d
    <3>1. /\ QueueOK(T, cache[c], accepted, c, queue[c])
          /\ ScreenOK(T, cache[c], c, queue[c], ui[c])
      BY <1>6, QueueGrows, ScreenGrows DEF IInv
    <3>2. CacheOK(T, cache[c])
      <4>1. \A e, u : GuestKnown(server, <<>>, 0, e, u) => GuestKnown(T, <<>>, 0, e, u)
        BY <1>6, KnownGrows
      <4> QED
        BY <1>6, <4>1 DEF IInv, CacheOK
    <3> QED
      BY <1>9, <1>11, <2>2, <3>1, <3>2
  <2> QED
    BY <2>1, <2>2
<1> QED
  BY <1>1, <1>12, <1>13, <1>14 DEF IInv

-----------------------------------------------------------------------------
(* A listener fires. *)

\* The cache of d gets documents the server has.
LEMMA HearStep ==
  ASSUME IInv, NEW d \in Device, NEW D \in Store,
         cache' = [cache EXCEPT ![d] = D],
         UNCHANGED <<server, queue, ui, accepted>>,
         cache[d].msgs \subseteq D.msgs, CacheOK(server, D)
  PROVE  IInv'
<1>1. /\ server' = server /\ queue' = queue /\ ui' = ui /\ accepted' = accepted
      /\ cache \in [Device -> Store]
  BY DEF IInv, TypeOK, StoreTypeOK
<1>2. \A c \in Device : cache'[c] = IF c = d THEN D ELSE cache[c]
  BY <1>1
<1>3. \A c \in Device : cache[c].msgs \subseteq cache'[c].msgs
  BY <1>2
<1>4. TypeOK'
  BY <1>1 DEF IInv, TypeOK, StoreTypeOK
<1>5. ServerOK'
  BY <1>1, <1>3 DEF IInv, ServerOK, JoinNeedsReaction, ConsentedMembers,
     InvitersWereInvited, Invitations, ReactedByAddressee, ReadByAddressee,
     RoomHasMessage
<1>6. ASSUME NEW c \in Device
      PROVE  /\ QueueOK(server, cache'[c], accepted, c, queue[c])
             /\ ScreenOK(server, cache'[c], c, queue[c], ui[c])
  BY <1>3, QueueGrows, ScreenGrows DEF IInv
<1>7. ASSUME NEW c \in Device
      PROVE  CacheOK(server, cache'[c])
  BY <1>2 DEF IInv
<1> QED
  BY <1>1, <1>4, <1>5, <1>6, <1>7 DEF IInv

LEMMA ListenStep ==
  ASSUME IInv, NEW d \in Device, Listen(d), UNCHANGED <<ui, accepted>>
  PROVE  IInv'
<1> DEFINE C == cache[d]
<1>1. C \in Store /\ server \in Store /\ CacheOK(server, C)
  BY DEF IInv, TypeOK, StoreTypeOK
<1>2. ASSUME NEW e \in server.events, ListenEvent(d, e)
      PROVE  IInv'
  <2> DEFINE P == {p \in C.parti : p[1] # e} \cup {p \in server.parti : p[1] = e}
             D == WithEvent(C, server, e)
  <2>1. e \in Event /\ P \in SUBSET (Event \X User)
    BY <1>1 DEF Store
  <2>2. D \in Store /\ D.msgs = C.msgs /\ D.events = C.events \cup {e} /\ D.parti = P
    BY <1>1, <2>1 DEF Store, WithEvent
  <2>3. ASSUME NEW f \in Event, NEW u \in User, <<f, u>> \in P
        PROVE  GuestKnown(server, <<>>, 0, f, u)
    <3>1. CASE <<f, u>> \in C.parti
      BY <1>1, <3>1 DEF CacheOK
    <3>2. CASE <<f, u>> \in server.parti
      BY <1>1, <3>2 DEF IInv, ServerOK, JoinNeedsReaction, GuestKnown, AnswerKnown, Store
    <3> QED
      BY <2>3, <3>1, <3>2
  <2>4. CacheOK(server, D)
    BY <1>1, <2>2, <2>3 DEF CacheOK
  <2>5. cache' = [cache EXCEPT ![d] = D]
    BY <1>2 DEF ListenEvent
  <2> QED
    BY <1>2, <2>2, <2>4, <2>5, HearStep DEF ListenEvent
<1>3. ASSUME NEW r, ListenMsgs(d, r)
      PROVE  IInv'
  <2> DEFINE D == WithMsgs(C, server, r)
  <2>1. /\ D \in Store /\ D.events = C.events /\ D.parti = C.parti
        /\ D.msgs = C.msgs \cup {m \in server.msgs : RoomOf(m) = r}
    BY <1>1 DEF Store, WithMsgs
  <2>2. CacheOK(server, D)
    BY <1>1, <2>1 DEF CacheOK
  <2>3. cache' = [cache EXCEPT ![d] = D]
    BY <1>3 DEF ListenMsgs
  <2> QED
    BY <1>3, <2>1, <2>2, <2>3, HearStep DEF ListenMsgs
<1>4. CASE ListenRooms(d)
  <2> DEFINE D == [C EXCEPT !.rooms = server.rooms]
  <2>1. D \in Store /\ D.events = C.events /\ D.parti = C.parti /\ D.msgs = C.msgs
    BY <1>1 DEF Store
  <2>2. CacheOK(server, D)
    BY <1>1, <2>1 DEF CacheOK
  <2>3. cache' = [cache EXCEPT ![d] = D]
    BY <1>4 DEF ListenRooms
  <2> QED
    BY <1>4, <2>1, <2>2, <2>3, HearStep DEF ListenRooms
<1>5. CASE ListenUsers(d)
  <2> DEFINE D == [C EXCEPT !.users = server.users]
  <2>1. D \in Store /\ D.events = C.events /\ D.parti = C.parti /\ D.msgs = C.msgs
    BY <1>1 DEF Store
  <2>2. CacheOK(server, D)
    BY <1>1, <2>1 DEF CacheOK
  <2>3. cache' = [cache EXCEPT ![d] = D]
    BY <1>5 DEF ListenUsers
  <2> QED
    BY <1>5, <2>1, <2>2, <2>3, HearStep DEF ListenUsers
<1> QED
  BY <1>2, <1>3, <1>4, <1>5 DEF Listen

LEMMA SignUpStep ==
  ASSUME IInv, NEW u \in User, SignUp(u), UNCHANGED accepted
  PROVE  IInv'
<1>1. /\ cache' = cache /\ queue' = queue /\ ui' = ui /\ accepted' = accepted
      /\ server \in Store
      /\ server' = [server EXCEPT !.users = @ \cup {u}]
  BY DEF SignUp, IInv, TypeOK, StoreTypeOK
<1>2. /\ server' \in Store
      /\ server'.events = server.events /\ server'.parti = server.parti
      /\ server'.msgs = server.msgs /\ server'.read = server.read
      /\ server'.reacted = server.reacted /\ server'.rooms = server.rooms
  BY <1>1 DEF Store
<1>3. TypeOK'
  BY <1>1, <1>2 DEF IInv, TypeOK, StoreTypeOK
<1>4. ServerOK'
  BY <1>1, <1>2 DEF IInv, ServerOK, JoinNeedsReaction, ConsentedMembers,
     InvitersWereInvited, Invitations, ReactedByAddressee, ReadByAddressee,
     RoomHasMessage
<1>5. ASSUME NEW c \in Device
      PROVE  /\ QueueOK(server', cache[c], accepted, c, queue[c])
             /\ ScreenOK(server', cache[c], c, queue[c], ui[c])
             /\ CacheOK(server', cache[c])
  <2>1. \A e, x : GuestKnown(server, <<>>, 0, e, x) => GuestKnown(server', <<>>, 0, e, x)
    BY <1>2, KnownGrows
  <2>2. CacheOK(server', cache[c])
    BY <1>2, <2>1 DEF IInv, CacheOK
  <2> QED
    BY <1>2, <2>2, QueueGrows, ScreenGrows DEF IInv
<1> QED
  BY <1>1, <1>3, <1>4, <1>5 DEF IInv

-----------------------------------------------------------------------------
(* Screens that issue no write. *)

LEMMA ToHome ==
  ASSUME IInv, NEW d \in Device, ui' = [ui EXCEPT ![d] = Home],
         UNCHANGED <<storeVars, accepted>>
  PROVE  IInv'
  BY HomeOK, ScreenStep

LEMMA OpenRoomStep ==
  ASSUME IInv, NEW d \in Device, NEW p \in User, OpenRoom(d, p), UNCHANGED accepted
  PROVE  IInv'
<1> DEFINE s == [at |-> "room", peer |-> p, tiles |-> <<>>]
<1>1. s \in Screen
  BY DEF Screen, RoomScreen
<1>2. ScreenOK(server, cache[d], d, queue[d], s)
  BY DEF ScreenOK, TilesOK
<1> HIDE DEF s
<1>3. ui' = [ui EXCEPT ![d] = s] /\ UNCHANGED <<storeVars, accepted>>
  BY DEF OpenRoom, s
<1> QED
  BY <1>1, <1>2, <1>3, ScreenStep

\* What a day list shows is known, and its user is on the list or was.
LEMMA ShownEvent ==
  ASSUME IInv, NEW d \in Device, NEW e \in Event,
         e \in ViewEvents(d), Participates(d, e, Me(d))
  PROVE  /\ EventKnown(server, queue[d], Len(queue[d]), e)
         /\ GuestKnown(server, queue[d], Len(queue[d]), e, Me(d))
<1> DEFINE q == queue[d]
<1>1. /\ q \in Seq(Write) /\ Len(q) \in Nat
      /\ \A i \in 1..Len(q) : q[i] \in Write /\ WriteOK(server, cache[d], accepted, d, q, i)
      /\ Me(d) \in User
  BY OwnerAssumption DEF IInv, QueueOK, TypeOK, StoreTypeOK, Me
<1>2. EventKnown(server, q, Len(q), e)
  <2>1. CASE e \in cache[d].events
    BY <2>1 DEF IInv, CacheOK, EventKnown
  <2>2. ASSUME NEW i \in 1..Len(q), q[i].op = "addEvent", q[i].event = e
        PROVE  EventKnown(server, q, Len(q), e)
    BY <1>1, <2>2, WriteFields DEF EventKnown
  <2> QED
    BY <2>1, <2>2 DEF ViewEvents, Waiting
<1> HIDE DEF q
<1>3. GuestKnown(server, q, Len(q), e, Me(d))
  <2>1. CASE <<e, Me(d)>> \in cache[d].parti
    <3>1. GuestKnown(server, <<>>, 0, e, Me(d))
      BY <1>1, <2>1 DEF IInv, CacheOK
    <3> QED
      BY <3>1 DEF GuestKnown, AnswerKnown
  <2>2. ASSUME NEW i \in 1..Len(q), Touches(d, i, e, Me(d)), q[i].op # "leave"
        PROVE  GuestKnown(server, q, Len(q), e, Me(d))
    <3>1. CASE q[i] = JoinOp(e, Me(d))
      <4>1. AnswerKnown(server, q, i - 1, e, Me(d))
        <5>1. q[i].op = "join" /\ q[i].event = e /\ q[i].user = Me(d)
          BY <3>1 DEF JoinOp
        <5>2. WriteOK(server, cache[d], accepted, d, q, i)
          BY <1>1
        <5> QED
          BY <5>1, <5>2 DEF WriteOK, ChatWriteOK
      <4>2. /\ i - 1 \in Nat /\ Len(q) \in Nat /\ i - 1 <= Len(q)
            /\ \A j \in 1..(i - 1) : q[j] = q[j]
        BY <1>1
      <4>3. AnswerKnown(server, q, Len(q), e, Me(d))
        BY <4>1, <4>2, KnownInLonger
      <4> QED
        BY <4>3 DEF GuestKnown
    <3>2. CASE HostOf[e] = Me(d)
      BY <3>2 DEF GuestKnown
    <3> QED
      BY <2>2, <3>1, <3>2 DEF Touches, LeaveOp, q
  <2> QED
    BY <2>1, <2>2 DEF Participates, q
<1> QED
  BY <1>2, <1>3 DEF q

LEMMA OpenDetailStep ==
  ASSUME IInv, NEW d \in Device, NEW e \in Event, OpenDetail(d, e)
  PROVE  IInv'
<1> DEFINE s == [at |-> "detail", event |-> e,
                 parti |-> {u \in User : Participates(d, e, u)}]
<1>1. s \in Screen
  BY DEF Screen, DetailScreen
<1>2. ScreenOK(server, cache[d], d, queue[d], s)
  BY ShownEvent DEF OpenDetail, ScreenOK, TilesOK
<1> HIDE DEF s
<1>3. ui' = [ui EXCEPT ![d] = s] /\ UNCHANGED <<storeVars, accepted>>
  BY DEF OpenDetail, s
<1> QED
  BY <1>1, <1>2, <1>3, ScreenStep

\* The screens of one event follow each other.
LEMMA SameEventScreen ==
  ASSUME IInv, NEW d \in Device, ui[d].at \in {"detail", "sheet"},
         NEW s \in DetailScreen \cup SheetScreen, s.event = ui[d].event
  PROVE  s \in Screen /\ ScreenOK(server, cache[d], d, queue[d], s)
  BY DEF IInv, Screen, DetailScreen, SheetScreen, ScreenOK, TilesOK

\* The fields of an event screen have their types.
LEMMA EventScreenType ==
  ASSUME IInv, NEW d \in Device, ui[d].at \in {"detail", "sheet"}
  PROVE  /\ ui[d].event \in Event
         /\ ui[d].parti \in SUBSET User
         /\ ui[d].at = "sheet" => /\ ui[d] \in SheetScreen
                                  /\ ui[d].picked \in SUBSET (1..InviteSlots)
<1>1. ui[d] \in {Home} \cup RoomScreen \cup DetailScreen \cup SheetScreen
  BY DEF IInv, TypeOK, Screen
<1> QED
  BY <1>1 DEF Home, RoomScreen, DetailScreen, SheetScreen

LEMMA SheetSteps ==
  ASSUME IInv, NEW d \in Device,
         OpenSheet(d) \/ CloseSheet(d) \/ \E i \in 1..InviteSlots : Invite(d, i)
  PROVE  IInv'
<1>1. ASSUME NEW s \in DetailScreen \cup SheetScreen, s.event = ui[d].event,
             ui[d].at \in {"detail", "sheet"},
             ui' = [ui EXCEPT ![d] = s], UNCHANGED <<storeVars, accepted>>
      PROVE  IInv'
  BY <1>1, SameEventScreen, ScreenStep
<1>2. CASE OpenSheet(d)
  <2> DEFINE s == [at |-> "sheet", event |-> ui[d].event, parti |-> ui[d].parti,
                   picked |-> {}]
  <2>1. s \in SheetScreen /\ s.event = ui[d].event
    BY <1>2, EventScreenType DEF OpenSheet, SheetScreen
  <2> QED
    BY <1>1, <1>2, <2>1 DEF OpenSheet
<1>3. CASE CloseSheet(d)
  <2> DEFINE s == [at |-> "detail", event |-> ui[d].event, parti |-> ui[d].parti]
  <2>1. s \in DetailScreen /\ s.event = ui[d].event
    BY <1>3, EventScreenType DEF CloseSheet, DetailScreen
  <2> QED
    BY <1>1, <1>3, <2>1 DEF CloseSheet
<1>4. ASSUME NEW i \in 1..InviteSlots, Invite(d, i)
      PROVE  IInv'
  <2> DEFINE P == IF i \in ui[d].picked THEN ui[d].picked \ {i} ELSE ui[d].picked \cup {i}
             s == [ui[d] EXCEPT !.picked = P]
  <2>1. ui[d] \in SheetScreen /\ P \in SUBSET (1..InviteSlots)
    BY <1>4, EventScreenType DEF Invite
  <2>2. ui' = [ui EXCEPT ![d] = s]
    BY <1>4 DEF Invite
  <2> HIDE DEF P
  <2>3. s \in SheetScreen /\ s.event = ui[d].event
    BY <2>1 DEF SheetScreen
  <2> QED
    BY <1>1, <1>4, <2>2, <2>3 DEF Invite
<1> QED
  BY <1>2, <1>3, <1>4

-----------------------------------------------------------------------------
(* Handlers that issue writes. *)

\* What was known stays known when writes are appended.
LEMMA EventAppended ==
  ASSUME NEW S, NEW q \in Seq(Write), NEW ws \in Seq(Write),
         NEW k \in Nat, Len(q) <= k, NEW e, EventKnown(S, q, Len(q), e)
  PROVE  EventKnown(S, q \o ws, k, e)
  BY Appended, KnownInLonger

LEMMA GuestAppended ==
  ASSUME NEW S, NEW q \in Seq(Write), NEW ws \in Seq(Write),
         NEW k \in Nat, Len(q) <= k, NEW e, NEW u, GuestKnown(S, q, Len(q), e, u)
  PROVE  GuestKnown(S, q \o ws, k, e, u)
  BY Appended, KnownInLonger

LEMMA AddEventStep ==
  ASSUME IInv, NEW d \in Device, NEW e \in Event, AddEvent(d, e)
  PROVE  IInv'
<1> DEFINE w == AddEventOp(e)
           q == queue[d]
<1>1. q \in Seq(Write) /\ w \in Write /\ w.op = "addEvent"
  BY DEF IInv, TypeOK, StoreTypeOK, AddEventOp, Write
<1> HIDE DEF w, q
<1>2. <<w>> \in Seq(Write) /\ Len(<<w>>) = 1 /\ <<w>>[1] = w
  BY <1>1
<1>3. (q \o <<w>>)[Len(q) + 1] = w
  BY <1>1, <1>2, Appended
<1>4. WriteOK(server, cache[d], accepted, d, q \o <<w>>, Len(q) + 1)
  BY <1>1, <1>3 DEF WriteOK, ChatWriteOK
<1>5. \A k \in 1..Len(<<w>>) : WriteOK(server, cache[d], accepted, d, q \o <<w>>, Len(q) + k)
  BY <1>2, <1>4
<1>6. Perform(d, <<w>>, Home) /\ accepted' = accepted
  BY DEF AddEvent, w
<1>7. accepted' \subseteq Event \X User
  BY <1>6 DEF IInv, TypeOK
<1> QED
  BY <1>2, <1>5, <1>6, <1>7, HomeOK, PerformStep DEF q

LEMMA DeleteEventStep ==
  ASSUME IInv, NEW d \in Device, DeleteEvent(d)
  PROVE  IInv'
<1> DEFINE e == ui[d].event
           w == LeaveOp(e, Me(d))
           q == queue[d]
<1>1. /\ q \in Seq(Write) /\ w \in Write /\ w.op = "leave" /\ w.event = e
      /\ EventKnown(server, q, Len(q), e)
  BY EventScreenType, OwnerAssumption
     DEF DeleteEvent, IInv, TypeOK, StoreTypeOK, LeaveOp, Write, Me, ScreenOK, TilesOK
<1>2. Perform(d, <<w>>, Home) /\ accepted' = accepted
  BY DEF DeleteEvent
<1> HIDE DEF e, w, q
<1> DEFINE ws == <<w>>
<1>3. ws \in Seq(Write) /\ Len(ws) = 1 /\ ws[1] = w /\ Len(q) \in Nat
  BY <1>1
<1>4. Perform(d, ws, Home)
  BY <1>2
<1> HIDE DEF ws
<1>5. /\ (q \o ws)[Len(q) + 1] = w
      /\ EventKnown(server, q \o ws, Len(q), e)
  <2>1. EventKnown(server, q \o ws, Len(q), e)
    <3>1. Len(q) <= Len(q)
      BY <1>3
    <3> QED
      BY <1>1, <1>3, <3>1, EventAppended
  <2>2. 1 \in 1..Len(ws)
    BY <1>3
  <2>3. (q \o ws)[Len(q) + 1] = ws[1]
    BY <1>1, <1>3, <2>2, Appended
  <2> QED
    BY <1>3, <2>1, <2>3
<1>6. WriteOK(server, cache[d], accepted, d, q \o ws, Len(q) + 1)
  <2>1. (Len(q) + 1) - 1 = Len(q)
    BY <1>3
  <2> QED
    BY <1>1, <1>5, <2>1 DEF WriteOK, ChatWriteOK
<1>7. \A k \in 1..Len(ws) : WriteOK(server, cache[d], accepted, d, q \o ws, Len(q) + k)
  BY <1>3, <1>6
<1>8. accepted' \subseteq Event \X User
  BY <1>2 DEF IInv, TypeOK
<1> QED
  BY <1>2, <1>3, <1>4, <1>7, <1>8, HomeOK, PerformStep DEF q

LEMMA RoomScreenType ==
  ASSUME IInv, NEW d \in Device, ui[d].at = "room"
  PROVE  /\ ui[d] \in RoomScreen /\ ui[d].peer \in User /\ ui[d].tiles \in Seq(Tile)
         /\ Me(d) \in User /\ RoomOn(d) \in Room
<1>1. ui[d] \in {Home} \cup RoomScreen \cup DetailScreen \cup SheetScreen
  BY DEF IInv, TypeOK, Screen
<1>2. ui[d] \in RoomScreen
  BY <1>1 DEF Home, RoomScreen, DetailScreen, SheetScreen
<1> QED
  BY <1>2, OwnerAssumption, ChatIdType DEF RoomScreen, Me, RoomOn

LEMMA HandleSubmitStep ==
  ASSUME IInv, NEW d \in Device, NEW text \in Text, NEW now \in Time,
         HandleSubmit(d, text, now), UNCHANGED accepted
  PROVE  IInv'
<1> DEFINE m == [from |-> Me(d), to |-> ui[d].peer, content |-> text, time |-> now]
           w1 == AddMsgOp(m)
           w2 == SetRoomOp(RoomOn(d), now)
           ws == <<w1, w2>>
           q == queue[d]
<1>1. /\ ui[d] \in RoomScreen /\ ui[d].peer \in User /\ Me(d) \in User
      /\ RoomOn(d) \in Room
  BY RoomScreenType DEF HandleSubmit
<1>2. /\ m \in Msg /\ m.from = Owner[d] /\ ~IsInvitation(m)
      /\ RoomOf(m) = RoomOn(d) /\ m.time = now
  BY <1>1, ContentAssumption DEF Msg, IsInvitation, RoomOf, RoomOn, Me
<1>3. Perform(d, ws, ui[d]) /\ accepted' = accepted
  BY DEF HandleSubmit, Submission
<1> HIDE DEF m
<1>4. /\ w1 \in Write /\ w1.op = "addMsg" /\ w1.msg = m
      /\ w2 \in Write /\ w2.op = "setRoom" /\ w2.room = RoomOn(d) /\ w2.time = now
      /\ q \in Seq(Write) /\ Len(q) \in Nat
  BY <1>1, <1>2 DEF Write, AddMsgOp, SetRoomOp, IInv, TypeOK, StoreTypeOK
<1>5. w1 = AddMsgOp(m)
  OBVIOUS
<1> HIDE DEF w1, w2, q
<1>6. ws \in Seq(Write) /\ Len(ws) = 2 /\ ws[1] = w1 /\ ws[2] = w2
  BY <1>4
<1> HIDE DEF ws
<1>7. (q \o ws)[Len(q) + 1] = w1 /\ (q \o ws)[Len(q) + 2] = w2
  <2>1. \A k \in 1..Len(ws) : (q \o ws)[Len(q) + k] = ws[k]
    BY <1>4, <1>6, Appended
  <2>2. 1 \in 1..Len(ws) /\ 2 \in 1..Len(ws)
    BY <1>6
  <2> QED
    BY <1>6, <2>1, <2>2
<1>8. WriteOK(server, cache[d], accepted, d, q \o ws, Len(q) + 1)
  BY <1>2, <1>4, <1>7 DEF WriteOK, ChatWriteOK
<1>9. WriteOK(server, cache[d], accepted, d, q \o ws, Len(q) + 2)
  <2>1. /\ (Len(q) + 2) - 1 = Len(q) + 1
        /\ Len(q) + 1 \in 1..(Len(q) + 1)
    BY <1>4
  <2>2. MsgKnown(server, q \o ws, (Len(q) + 2) - 1, m)
    BY <1>5, <1>7, <2>1 DEF MsgKnown
  <2> QED
    BY <1>2, <1>4, <1>7, <2>2 DEF WriteOK, ChatWriteOK
<1>10. \A k \in 1..Len(ws) : WriteOK(server, cache[d], accepted, d, q \o ws, Len(q) + k)
  BY <1>6, <1>8, <1>9
<1>11. /\ accepted' \subseteq Event \X User
       /\ ui[d] \in Screen /\ ScreenOK(server, cache[d], d, queue[d], ui[d])
  BY <1>3 DEF IInv, TypeOK
<1> QED
  BY <1>3, <1>6, <1>10, <1>11, PerformStep DEF q

\* A message of the room on d's screen that d did not send: it was received.
LEMMA PeerMessage ==
  ASSUME IInv, NEW d \in Device, ui[d].at = "room",
         NEW m \in MsgsIn(d, RoomOn(d))
  PROVE  /\ m \in Msg /\ RoomOf(m) = RoomOn(d)
         /\ m.from # Me(d) => m \in cache[d].msgs /\ Received(cache[d], d, m)
<1>1. /\ m \in ViewMsgs(d) /\ RoomOf(m) = RoomOn(d)
      /\ cache[d] \in Store /\ queue[d] \in Seq(Write)
      /\ Me(d) \in User /\ ui[d].peer \in User
  BY RoomScreenType DEF MsgsIn, IInv, TypeOK, StoreTypeOK
<1>2. ASSUME m \notin cache[d].msgs
      PROVE  m \in Msg /\ m.from = Me(d)
  <2>1. PICK i \in 1..Len(queue[d]) : queue[d][i].op = "addMsg" /\ queue[d][i].msg = m
    BY <1>1, <1>2 DEF ViewMsgs, Waiting
  <2>2. queue[d][i] \in Write /\ WriteOK(server, cache[d], accepted, d, queue[d], i)
    BY <1>1 DEF IInv, QueueOK
  <2> QED
    BY <2>1, <2>2, WriteFields DEF WriteOK, ChatWriteOK, Me
<1>3. m \in Msg
  BY <1>1, <1>2 DEF Store
<1>4. m.from # Me(d) => m.to = Me(d) /\ m.from # m.to
  BY <1>1, <1>3, RoomPartner DEF RoomOn
<1> QED
  BY <1>1, <1>2, <1>3, <1>4 DEF Received, Me

LEMMA RenderRoomStep ==
  ASSUME IInv, NEW d \in Device, RenderRoom(d), UNCHANGED accepted
  PROVE  IInv'
<1> DEFINE r == RoomOn(d)
           q == queue[d]
<1>1. /\ ui[d].at = "room" /\ ui[d] \in RoomScreen /\ ui[d].tiles \in Seq(Tile)
      /\ r \in Room /\ q \in Seq(Write) /\ Len(q) \in Nat /\ accepted' = accepted
  BY RoomScreenType DEF RenderRoom, IInv, TypeOK, StoreTypeOK
<1>2. PICK L \in Listing(MsgsIn(d, r)), R \in Listing(ToMarkRead(d, r)) :
        Perform(d, [i \in 1..Len(R) |-> ReadOp(r, R[i])],
                [ui[d] EXCEPT !.tiles = [i \in 1..Len(L) |-> TileAt(d, i, L[i])]])
  BY DEF RenderRoom
<1>3. \A m \in MsgsIn(d, r) :
        /\ m \in Msg /\ RoomOf(m) = r
        /\ m.from # Me(d) => m \in cache[d].msgs /\ Received(cache[d], d, m)
  BY <1>1, PeerMessage
<1>4. /\ MsgsIn(d, r) \in SUBSET Msg /\ ToMarkRead(d, r) \in SUBSET Msg
      /\ \A m \in ToMarkRead(d, r) : RoomOf(m) = r /\ Received(cache[d], d, m)
  BY <1>3 DEF ToMarkRead
<1>5. /\ L \in Seq(Msg) /\ Len(L) \in Nat /\ \A i \in 1..Len(L) : L[i] \in MsgsIn(d, r)
      /\ R \in Seq(Msg) /\ Len(R) \in Nat /\ \A i \in 1..Len(R) : R[i] \in ToMarkRead(d, r)
  BY <1>4, ListingType
<1> DEFINE ws == [i \in 1..Len(R) |-> ReadOp(r, R[i])]
           ts == [i \in 1..Len(L) |-> TileAt(d, i, L[i])]
           s == [ui[d] EXCEPT !.tiles = ts]
<1>6. Perform(d, ws, s)
  BY <1>2
<1>7. \A i \in 1..Len(R) : ReadOp(r, R[i]) \in Write
  BY <1>1, <1>4, <1>5 DEF ReadOp, Write
<1>8. /\ ws \in Seq(Write) /\ Len(ws) = Len(R)
      /\ \A i \in 1..Len(ws) : ws[i] = ReadOp(r, R[i])
  BY <1>5, <1>7
<1>9. ASSUME NEW i \in 1..Len(L)
      PROVE  /\ TileAt(d, i, L[i]) \in Tile
             /\ RoomOf(TileAt(d, i, L[i]).msg) = r
             /\ TileAt(d, i, L[i]).msg.from # Me(d) =>
                  TileAt(d, i, L[i]).msg \in cache[d].msgs
  <2>1. CASE i <= Len(ui[d].tiles) /\ TileAt(d, i, L[i]) = ui[d].tiles[i]
    <3>1. i \in 1..Len(ui[d].tiles)
      BY <1>1, <1>5, <2>1
    <3>2. ScreenOK(server, cache[d], d, queue[d], ui[d])
      BY DEF IInv
    <3> QED
      BY <1>1, <2>1, <3>1, <3>2 DEF ScreenOK, TilesOK, RoomOn
  <2>2. CASE TileAt(d, i, L[i]) = [msg |-> L[i], read |-> L[i] \in ViewRead(d),
                                   reacted |-> L[i] \in ViewReacted(d)]
    BY <1>3, <1>5, <2>2 DEF Tile
  <2> QED
    BY <2>1, <2>2 DEF TileAt
<1>10. /\ ts \in Seq(Tile) /\ Len(ts) = Len(L)
       /\ \A i \in 1..Len(ts) : ts[i] = TileAt(d, i, L[i])
  BY <1>5, <1>9
<1> HIDE DEF ws, ts
<1>11. /\ s \in RoomScreen /\ s.tiles = ts /\ s.peer = ui[d].peer
       /\ s.at = "room"
  BY <1>1, <1>10 DEF RoomScreen
<1>12. s \in Screen /\ ScreenOK(server, cache[d], d, q, s)
  <2>1. s \in Screen
    BY <1>11 DEF Screen
  <2>2. ASSUME NEW i \in 1..Len(ts)
        PROVE  /\ RoomOf(ts[i].msg) = ChatId(Me(d), s.peer)
               /\ ts[i].msg.from # Me(d) => ts[i].msg \in cache[d].msgs
    BY <1>9, <1>10, <1>11 DEF RoomOn
  <2> HIDE DEF s
  <2> QED
    BY <1>11, <2>1, <2>2 DEF ScreenOK, TilesOK
<1> HIDE DEF s, q
<1>13. ASSUME NEW k \in 1..Len(ws)
       PROVE  WriteOK(server, cache[d], accepted', d, q \o ws, Len(q) + k)
  <2>1. (q \o ws)[Len(q) + k] = ReadOp(r, R[k])
    BY <1>1, <1>8, Appended
  <2>2. k \in 1..Len(R) /\ R[k] \in ToMarkRead(d, r)
    BY <1>5, <1>8
  <2> QED
    BY <1>4, <2>1, <2>2 DEF WriteOK, ChatWriteOK, ReadOp
<1>14. accepted' \subseteq Event \X User
  BY <1>1 DEF IInv, TypeOK
<1> QED
  BY <1>1, <1>6, <1>8, <1>12, <1>13, <1>14, PerformStep DEF q

\* No more users are picked than the sheet has flags.
LEMMA PickedFew ==
  ASSUME NEW S \in SUBSET (1..InviteSlots)
  PROVE  Cardinality(S) \in Nat /\ Cardinality(S) <= InviteSlots
<1>1. IsFiniteSet(1..InviteSlots)
  BY SlotsAssumption, FS_Interval
<1>2. Cardinality(1..InviteSlots) = IF 1 > InviteSlots THEN 0 ELSE InviteSlots - 1 + 1
  BY SlotsAssumption, FS_Interval
<1>3. Cardinality(1..InviteSlots) = InviteSlots
  BY <1>2, SlotsAssumption
<1>4. IsFiniteSet(S) /\ Cardinality(S) <= Cardinality(1..InviteSlots)
  BY <1>1, FS_Subset
<1>5. Cardinality(S) \in Nat
  BY <1>4, FS_CardinalityType
<1> QED
  BY <1>3, <1>4, <1>5

LEMMA SendInvitationStep ==
  ASSUME IInv, NEW d \in Device, NEW now \in [1..InviteSlots -> Time],
         SendInvitation(d, now)
  PROVE  IInv'
<1> DEFINE n == Cardinality(ui[d].picked)
           e == ui[d].event
           q == queue[d]
           s == [at |-> "detail", event |-> e, parti |-> ui[d].parti]
<1>1. /\ e \in Event /\ ui[d].picked \in SUBSET (1..InviteSlots)
      /\ ui[d].at = "sheet" /\ accepted' = accepted
      /\ q \in Seq(Write) /\ Len(q) \in Nat /\ Me(d) \in User /\ Me(d) = Owner[d]
  BY EventScreenType, OwnerAssumption DEF SendInvitation, IInv, TypeOK, StoreTypeOK, Me
<1>2. n \in Nat /\ n <= InviteSlots
  BY <1>1, PickedFew
<1>3. PICK peers \in [1..n -> User] :
        Perform(d,
          [x \in 1..(2 * n) |->
             IF x % 2 = 1
             THEN AddMsgOp(InvitationTo(d, peers[(x + 1) \div 2], now[(x + 1) \div 2]))
             ELSE SetRoomOp(ChatId(Me(d), peers[(x + 1) \div 2]), now[(x + 1) \div 2])],
          s)
  BY DEF SendInvitation, PickedUsers
<1> DEFINE m(k) == InvitationTo(d, peers[k], now[k])
           W(x) == IF x % 2 = 1
                   THEN AddMsgOp(InvitationTo(d, peers[(x + 1) \div 2], now[(x + 1) \div 2]))
                   ELSE SetRoomOp(ChatId(Me(d), peers[(x + 1) \div 2]), now[(x + 1) \div 2])
           ws == [x \in 1..(2 * n) |-> W(x)]
<1>4. ASSUME NEW k \in 1..n
      PROVE  /\ m(k) \in Msg /\ m(k).from = Owner[d] /\ m(k).content = e
             /\ ChatId(Me(d), peers[k]) \in Room /\ RoomOf(m(k)) = ChatId(Me(d), peers[k])
             /\ now[k] \in Time /\ m(k).time = now[k]
  <2>1. peers[k] \in User /\ now[k] \in Time
    BY <1>2, SlotsAssumption
  <2> QED
    BY <1>1, <2>1, ChatIdType DEF InvitationTo, Msg, RoomOf
<1> HIDE DEF n, m
<1>5. \A x \in 1..(2 * n) :
        /\ (x + 1) \div 2 \in 1..n
        /\ x % 2 # 1 => /\ x - 1 \in 1..(2 * n) /\ (x - 1) % 2 = 1
                        /\ ((x - 1) + 1) \div 2 = (x + 1) \div 2
  BY <1>2
<1>6. ASSUME NEW x \in 1..(2 * n)
      PROVE  LET k == (x + 1) \div 2 IN
             /\ x % 2 = 1 => W(x) = AddMsgOp(m(k))
             /\ x % 2 # 1 => W(x) = SetRoomOp(ChatId(Me(d), peers[k]), now[k])
  BY DEF m
<1> HIDE DEF W
<1>7. ASSUME NEW x \in 1..(2 * n)
      PROVE  W(x) \in Write
  BY <1>4, <1>5, <1>6 DEF AddMsgOp, SetRoomOp, Write
<1>8. /\ ws \in Seq(Write) /\ Len(ws) = 2 * n
      /\ \A x \in 1..(2 * n) : ws[x] = W(x)
  BY <1>2, <1>7
<1>9. Perform(d, ws, s)
  BY <1>3 DEF W
<1> HIDE DEF ws
<1>10. \A x \in 1..(2 * n) : (q \o ws)[Len(q) + x] = W(x)
  BY <1>1, <1>8, Appended
<1>11. EventKnown(server, q, Len(q), e) /\ GuestKnown(server, q, Len(q), e, Owner[d])
  BY <1>1 DEF IInv, ScreenOK, TilesOK
<1>12. s \in Screen /\ ScreenOK(server, cache[d], d, q, s)
  <2>1. s \in DetailScreen /\ s.event = ui[d].event
    BY <1>1, EventScreenType DEF DetailScreen
  <2> QED
    BY <1>1, <2>1, SameEventScreen
<1> HIDE DEF e, q, s
<1>13. ASSUME NEW x \in 1..Len(ws)
       PROVE  WriteOK(server, cache[d], accepted', d, q \o ws, Len(q) + x)
  <2> DEFINE k == (x + 1) \div 2
             i == Len(q) + x
  <2>1. x \in 1..(2 * n) /\ k \in 1..n /\ i - 1 \in Nat /\ Len(q) <= i - 1
    BY <1>1, <1>2, <1>5, <1>8
  <2>2. (q \o ws)[i] = W(x)
    BY <1>10, <2>1
  <2>3. CASE x % 2 = 1
    <3>1. (q \o ws)[i] = AddMsgOp(m(k))
      BY <1>6, <2>1, <2>2, <2>3
    <3>2. EventKnown(server, q \o ws, i - 1, e)
      BY <1>1, <1>8, <1>11, <2>1, EventAppended
    <3>3. GuestKnown(server, q \o ws, i - 1, e, Owner[d])
      BY <1>1, <1>8, <1>11, <2>1, GuestAppended
    <3>4. m(k).from = Owner[d] /\ m(k).content = e
      BY <1>4, <2>1
    <3>5. AddMsgOp(m(k)).op = "addMsg" /\ AddMsgOp(m(k)).msg = m(k)
      BY DEF AddMsgOp
    <3> HIDE DEF i, k
    <3>6. WriteOK(server, cache[d], accepted', d, q \o ws, i)
      BY <3>1, <3>2, <3>3, <3>4, <3>5 DEF WriteOK, ChatWriteOK
    <3> QED
      BY <3>6 DEF i
  <2>4. CASE x % 2 # 1
    <3>1. (q \o ws)[i] = SetRoomOp(ChatId(Me(d), peers[k]), now[k])
      BY <1>6, <2>1, <2>2, <2>4
    <3>2. x - 1 \in 1..(2 * n) /\ W(x - 1) = AddMsgOp(m(k))
      BY <1>5, <1>6, <2>1, <2>4
    <3>3. (q \o ws)[i - 1] = AddMsgOp(m(k)) /\ i - 1 \in 1..(i - 1)
      <4>1. Len(q) + (x - 1) = i - 1 /\ i - 1 >= 1
        BY <1>1, <3>2
      <4> QED
        BY <1>10, <3>2, <4>1
    <3>4. MsgKnown(server, q \o ws, i - 1, m(k))
      BY <3>3 DEF MsgKnown
    <3>5. /\ m(k) \in Msg /\ RoomOf(m(k)) = ChatId(Me(d), peers[k])
          /\ m(k).time = now[k]
      BY <1>4, <2>1
    <3> DEFINE w == SetRoomOp(ChatId(Me(d), peers[k]), now[k])
    <3>6. w.op = "setRoom" /\ w.room = ChatId(Me(d), peers[k]) /\ w.time = now[k]
      BY DEF SetRoomOp
    <3>7. (q \o ws)[i] = w
      BY <3>1
    <3> HIDE DEF i, k, w
    <3>8. WriteOK(server, cache[d], accepted', d, q \o ws, i)
      BY <3>4, <3>5, <3>6, <3>7 DEF WriteOK, ChatWriteOK
    <3> QED
      BY <3>8 DEF i
  <2> QED
    BY <2>3, <2>4
<1>14. accepted' \subseteq Event \X User
  BY <1>1 DEF IInv, TypeOK
<1> QED
  BY <1>1, <1>8, <1>9, <1>12, <1>13, <1>14, PerformStep DEF q

LEMMA HandleButtonStep ==
  ASSUME IInv, NEW d \in Device, NEW i \in Nat, NEW accept \in BOOLEAN,
         HandleButton(d, i, accept)
  PROVE  IInv'
<1> DEFINE tile == ui[d].tiles[i]
           m == tile.msg
           e == m.content
           q == queue[d]
           w1 == ReactOp(ChatId(m.to, m.from), m)
           w2 == JoinOp(e, m.to)
           ws == IF accept THEN <<w1, w2>> ELSE <<w1>>
           s == [ui[d] EXCEPT !.tiles[i].reacted = TRUE]
<1>1. /\ ui[d].at = "room" /\ ui[d] \in RoomScreen /\ ui[d].tiles \in Seq(Tile)
      /\ ui[d].peer \in User /\ Me(d) \in User
      /\ i \in 1..Len(ui[d].tiles) /\ tile \in Tile /\ m \in Msg
      /\ q \in Seq(Write) /\ Len(q) \in Nat
  <2>1. ui[d].at = "room" /\ i \in 1..Len(ui[d].tiles)
    BY DEF HandleButton
  <2>2. /\ ui[d] \in RoomScreen /\ ui[d].tiles \in Seq(Tile)
        /\ ui[d].peer \in User /\ Me(d) \in User
    BY <2>1, RoomScreenType DEF IInv, TypeOK
  <2>3. ui[d].tiles[i] \in Tile
    BY <2>1, <2>2
  <2>4. m \in Msg
    BY <2>3 DEF Tile
  <2>5. q \in Seq(Write) /\ Len(q) \in Nat
    BY DEF IInv, TypeOK, StoreTypeOK
  <2> QED
    BY <2>1, <2>2, <2>3, <2>4, <2>5
<1>2. /\ e \in Event /\ m.from # Me(d) /\ e \in ViewEvents(d)
      /\ Perform(d, ws, s)
      /\ accepted' = IF accept THEN accepted \cup {<<e, Me(d)>>} ELSE accepted
  BY DEF HandleButton, HasButtons, AnswerTo, IsInvitation
<1>3. RoomOf(m) = ChatId(Me(d), ui[d].peer) /\ m \in cache[d].msgs
  BY <1>1, <1>2 DEF IInv, ScreenOK, TilesOK
<1>4. /\ m.to = Me(d) /\ m.from # m.to /\ Received(cache[d], d, m)
      /\ ChatId(m.to, m.from) = RoomOf(m) /\ RoomOf(m) \in Room
  <2> HIDE DEF m
  <2>1. m.to = Me(d) /\ m.from # m.to
    BY <1>1, <1>2, <1>3, RoomPartner
  <2>2. ChatId(m.to, m.from) = RoomOf(m)
    BY <1>1, <1>2, <1>3, ReactRoom
  <2>3. RoomOf(m) \in Room
    BY <1>1, <1>3, ChatIdType
  <2>4. Received(cache[d], d, m)
    BY <1>3, <2>1 DEF Received, Me
  <2> QED
    BY <2>1, <2>2, <2>3, <2>4
<1>5. EventKnown(server, q, Len(q), e)
  <2>1. CASE e \in cache[d].events
    BY <2>1 DEF IInv, CacheOK, EventKnown
  <2>2. ASSUME NEW j \in 1..Len(q), q[j].op = "addEvent", q[j].event = e
        PROVE  EventKnown(server, q, Len(q), e)
    BY <1>1, <2>2, WriteFields DEF EventKnown
  <2> QED
    BY <1>2, <2>1, <2>2 DEF ViewEvents, Waiting
<1>6. s \in Screen /\ ScreenOK(server, cache[d], d, q, s)
  <2> DEFINE ts == [ui[d].tiles EXCEPT ![i].reacted = TRUE]
  <2>1. /\ ts \in Seq(Tile) /\ Len(ts) = Len(ui[d].tiles)
        /\ \A j \in 1..Len(ts) : ts[j].msg = ui[d].tiles[j].msg
    <3> DEFINE t == [ui[d].tiles[i] EXCEPT !.reacted = TRUE]
    <3>1. t \in Tile /\ t.msg = ui[d].tiles[i].msg
      BY <1>1 DEF Tile
    <3>2. ts = [ui[d].tiles EXCEPT ![i] = t]
      BY <1>1
    <3> HIDE DEF t, ts
    <3>3. /\ ts \in Seq(Tile) /\ Len(ts) = Len(ui[d].tiles)
          /\ \A j \in 1..Len(ts) : ts[j] = IF j = i THEN t ELSE ui[d].tiles[j]
      BY <1>1, <3>1, <3>2, ExceptSeq
    <3> QED
      BY <3>1, <3>3
  <2>2. s = [ui[d] EXCEPT !.tiles = ts]
    BY <1>1 DEF RoomScreen
  <2> HIDE DEF ts
  <2>3. s \in RoomScreen /\ s.at = "room" /\ s.peer = ui[d].peer /\ s.tiles = ts
    BY <1>1, <2>1, <2>2 DEF RoomScreen
  <2>4. ScreenOK(server, cache[d], d, queue[d], ui[d])
    BY DEF IInv
  <2> HIDE DEF s
  <2> QED
    BY <1>1, <2>1, <2>3, <2>4 DEF ScreenOK, TilesOK, Screen
<1> HIDE DEF m, tile, s
<1>7. /\ w1 \in Write /\ w1.op = "react" /\ w1.msg = m /\ w1.room = RoomOf(m)
      /\ w2 \in Write /\ w2.op = "join" /\ w2.event = e /\ w2.user = Me(d)
      /\ w1 = ReactOp(RoomOf(m), m)
  BY <1>1, <1>2, <1>4 DEF ReactOp, JoinOp, Write
<1>8. /\ m.content = e
      /\ accepted \subseteq accepted' /\ accepted' \subseteq Event \X User
      /\ accept => <<e, Me(d)>> \in accepted'
  BY <1>1, <1>2 DEF IInv, TypeOK
<1> HIDE DEF w1, w2, e, q
<1>9. /\ ws \in Seq(Write) /\ Len(ws) \in {1, 2} /\ ws[1] = w1
      /\ Len(ws) = 2 => accept /\ ws[2] = w2
  BY <1>7
<1> HIDE DEF ws
<1>10. \A k \in 1..Len(ws) : (q \o ws)[Len(q) + k] = ws[k]
  BY <1>1, <1>9, Appended
<1>11. (q \o ws)[Len(q) + 1] = w1
  <2>1. 1 \in 1..Len(ws)
    BY <1>9
  <2> QED
    BY <1>9, <1>10, <2>1
<1>12. WriteOK(server, cache[d], accepted', d, q \o ws, Len(q) + 1)
  BY <1>4, <1>7, <1>11 DEF WriteOK, ChatWriteOK
<1>13. ASSUME Len(ws) = 2
       PROVE  WriteOK(server, cache[d], accepted', d, q \o ws, Len(q) + 2)
  <2> DEFINE j == Len(q) + 2
  <2>1. /\ j - 1 \in Nat /\ Len(q) <= j - 1 /\ j - 1 = Len(q) + 1 /\ j - 1 \in 1..(j - 1)
        /\ 2 \in 1..Len(ws)
    BY <1>1, <1>13
  <2>2. (q \o ws)[j] = w2
    BY <1>9, <1>10, <1>13, <2>1
  <2>3. EventKnown(server, q \o ws, j - 1, e)
    BY <1>1, <1>5, <1>9, <2>1, EventAppended
  <2>4. AnswerKnown(server, q \o ws, j - 1, e, Me(d))
    <3>1. (q \o ws)[j - 1] = ReactOp(RoomOf(m), m)
      BY <1>7, <1>11, <2>1
    <3> QED
      BY <1>1, <1>4, <1>8, <2>1, <3>1 DEF AnswerKnown
  <2>5. accept
    BY <1>9, <1>13
  <2>6. <<e, Me(d)>> \in accepted'
    BY <1>8, <2>5
  <2>7. w2.op = "join" /\ w2.event = e /\ w2.user = Me(d)
    BY <1>7
  <2> HIDE DEF j
  <2>8. WriteOK(server, cache[d], accepted', d, q \o ws, j)
    BY <2>2, <2>3, <2>4, <2>6, <2>7 DEF WriteOK, ChatWriteOK
  <2> QED
    BY <2>8 DEF j
<1>14. ASSUME NEW k \in 1..Len(ws)
       PROVE  WriteOK(server, cache[d], accepted', d, q \o ws, Len(q) + k)
  <2>1. k = 1 \/ (k = 2 /\ Len(ws) = 2)
    <3>1. CASE Len(ws) = 1
      BY <3>1
    <3>2. CASE Len(ws) = 2
      BY <3>2
    <3> QED
      BY <1>9, <3>1, <3>2
  <2>2. CASE k = 1
    BY <1>12, <2>2
  <2>3. CASE k = 2 /\ Len(ws) = 2
    BY <1>13, <2>3
  <2> QED
    BY <2>1, <2>2, <2>3
<1> QED
  BY <1>2, <1>6, <1>8, <1>9, <1>14, PerformStep DEF q

-----------------------------------------------------------------------------
(* The inductive invariant, and what follows from it. *)

LEMMA InitInv == Init => IInv
<1> SUFFICES ASSUME Init PROVE IInv
  OBVIOUS
<1> USE DEF Init, ChatInit, StoreInit
<1>1. TypeOK
  BY RegisteredAssumption DEF TypeOK, StoreTypeOK, EmptyStore, Store, Screen
<1>2. /\ server.events = {} /\ server.parti = {} /\ server.msgs = {}
      /\ server.read = {} /\ server.reacted = {} /\ server.rooms = {}
  BY DEF EmptyStore
<1>3. ServerOK
  BY <1>2 DEF ServerOK, JoinNeedsReaction, ConsentedMembers, InvitersWereInvited,
              ReactedByAddressee, ReadByAddressee, RoomHasMessage, Invitations
<1>4. ASSUME NEW d \in Device
      PROVE  /\ QueueOK(server, cache[d], accepted, d, queue[d])
             /\ CacheOK(server, cache[d])
             /\ ScreenOK(server, cache[d], d, queue[d], ui[d])
  <2>1. queue[d] = <<>> /\ cache[d] = server /\ ui[d] = Home
    OBVIOUS
  <2>2. QueueOK(server, cache[d], accepted, d, queue[d])
    BY <2>1 DEF QueueOK
  <2>3. CacheOK(server, cache[d])
    BY <1>2, <2>1 DEF CacheOK
  <2> QED
    BY <2>1, <2>2, <2>3, HomeOK
<1> QED
  BY <1>1, <1>3, <1>4 DEF IInv

LEMMA NextInv == IInv /\ [Next]_vars => IInv'
<1> SUFFICES ASSUME IInv, [Next]_vars PROVE IInv'
  OBVIOUS
<1>1. CASE UNCHANGED vars
  BY <1>1 DEF vars, storeVars, IInv, TypeOK, StoreTypeOK, ServerOK,
              JoinNeedsReaction, ConsentedMembers, InvitersWereInvited, Invitations,
              ReactedByAddressee, ReadByAddressee, RoomHasMessage, QueueOK,
              WriteOK, ChatWriteOK, EventKnown, MsgKnown, AnswerKnown, GuestKnown, Received,
              CacheOK, ScreenOK, TilesOK
<1>2. ASSUME NEW d \in Device, StoreStep(d), UNCHANGED accepted
      PROVE  IInv'
  BY <1>2, CommitStep, ListenStep DEF StoreStep
<1>3. ASSUME NEW d \in Device, ChatStep(d), UNCHANGED accepted
      PROVE  IInv'
  <2>1. CASE \E p \in User : OpenRoom(d, p)
    BY <1>3, <2>1, OpenRoomStep
  <2>2. CASE CloseRoom(d)
    BY <1>3, <2>2, ToHome DEF CloseRoom
  <2>3. CASE RenderRoom(d)
    BY <1>3, <2>3, RenderRoomStep
  <2>4. CASE \E text \in Text, now \in Time : HandleSubmit(d, text, now)
    BY <1>3, <2>4, HandleSubmitStep
  <2> QED
    BY <1>3, <2>1, <2>2, <2>3, <2>4 DEF ChatStep
<1>4. ASSUME NEW d \in Device, Kill(d), UNCHANGED accepted
      PROVE  IInv'
  BY <1>4, ToHome DEF Kill
<1>5. ASSUME NEW d \in Device, EventStep(d)
      PROVE  IInv'
  <2>1. CASE \E e \in Event : AddEvent(d, e) \/ OpenDetail(d, e)
    BY <2>1, AddEventStep, OpenDetailStep
  <2>2. CASE CloseDetail(d)
    BY <2>2, ToHome DEF CloseDetail
  <2>3. CASE DeleteEvent(d)
    BY <2>3, DeleteEventStep
  <2>4. CASE OpenSheet(d) \/ CloseSheet(d) \/ \E i \in 1..InviteSlots : Invite(d, i)
    BY <2>4, SheetSteps
  <2>5. CASE \E now \in [1..InviteSlots -> Time] : SendInvitation(d, now)
    BY <2>5, SendInvitationStep
  <2>6. CASE \E i \in 1..MaxMsgs, accept \in BOOLEAN : HandleButton(d, i, accept)
    <3>1. \A i \in 1..MaxMsgs : i \in Nat
      BY BoundAssumption
    <3> QED
      BY <2>6, <3>1, HandleButtonStep
  <2> QED
    BY <1>5, <2>1, <2>2, <2>3, <2>4, <2>5, <2>6 DEF EventStep
<1>6. CASE ChatNext /\ UNCHANGED accepted
  BY <1>2, <1>3, <1>4, <1>6, SignUpStep DEF ChatNext
<1> QED
  BY <1>1, <1>5, <1>6 DEF Next

\* The queues, caches and screens of all devices always rest on what is on the
\* server or on its way there, whatever is off line, killed or interleaved.
THEOREM Invariant == Spec => []IInv
  BY InitInv, NextInv, PTL DEF Spec

\* Every document, cache, queue and screen keeps its shape.
THEOREM TypeCorrect == Spec => []TypeOK
<1>1. IInv => TypeOK
  BY DEF IInv
<1> QED
  BY <1>1, Invariant, PTL

\* handleButton's promise: nobody is a participant of an event unless he
\* created it or an invitation to him is marked reacted, for any number of
\* users, devices, events and messages.
THEOREM MembersAnswered == Spec => []JoinNeedsReaction
<1>1. IInv => JoinNeedsReaction
  BY DEF IInv, ServerOK
<1> QED
  BY <1>1, Invariant, PTL

\* Nobody is made a participant of an event without pressing Accept himself.
THEOREM MembersConsented == Spec => []ConsentedMembers
<1>1. IInv => ConsentedMembers
  BY DEF IInv, ServerOK
<1> QED
  BY <1>1, Invariant, PTL

\* Every invitation goes back, through answered invitations, to the host.
THEOREM InvitationsComeFromGuests == Spec => []InvitersWereInvited
<1>1. IInv => InvitersWereInvited
  BY DEF IInv, ServerOK
<1> QED
  BY <1>1, Invariant, PTL

\* Reactions and read receipts are those of the user a message is addressed
\* to, made on a device that had the message.
THEOREM ReceiptsAreHonest == Spec => [](ReactedByAddressee /\ ReadByAddressee)
<1>1. IInv => ReactedByAddressee /\ ReadByAddressee
  BY DEF IInv, ServerOK
<1> QED
  BY <1>1, Invariant, PTL

\* A room document always has its message on the server.
THEOREM RoomsHaveMessages == Spec => []RoomHasMessage
<1>1. IInv => RoomHasMessage
  BY DEF IInv, ServerOK
<1> QED
  BY <1>1, Invariant, PTL

\* updateData never misses its document: what a device updates is on the
\* server by the time the update gets there.
THEOREM UpdatesFind == Spec => []UpdatesFindTheirDocument
<1>1. IInv => UpdatesFindTheirDocument
  BY HeadFinds DEF UpdatesFindTheirDocument
<1> QED
  BY <1>1, Invariant, PTL

-----------------------------------------------------------------------------
(* The documents on the server are a guest list. *)

\* A handler that issues no event of its own, or one event nobody has created.
LEMMA EventsAreNewPerform ==
  ASSUME IInv, EventsAreNew, NEW d \in Device, NEW ws \in Seq(Write), NEW s,
         Perform(d, ws, s),
         \A k \in 1..Len(ws) : ws[k].op = "addEvent" =>
           /\ Len(ws) = 1
           /\ ws[k].event \notin server.events
           /\ \A c \in Device : \A i \in 1..Len(queue[c]) : queue[c][i] # ws[k]
  PROVE  EventsAreNew'
<1>1. PICK n \in 0..Len(ws) : Enqueue(d, SubSeq(ws, 1, n))
  BY DEF Perform
<1> DEFINE q == queue[d]
<1>2. /\ server' = server
      /\ \A c \in Device : c # d => queue'[c] = queue[c]
      /\ Len(queue'[d]) = Len(q) + n /\ Len(q) \in Nat
      /\ \A i \in 1..(Len(q) + n) :
           queue'[d][i] = IF i <= Len(q) THEN q[i] ELSE ws[i - Len(q)]
  <2>1. q \in Seq(Write) /\ Len(q) \in Nat /\ queue \in [Device -> Seq(Write)]
    BY DEF IInv, TypeOK, StoreTypeOK
  <2>2. /\ server' = server
        /\ queue' = [queue EXCEPT ![d] = q \o SubSeq(ws, 1, n)]
    BY <1>1 DEF Enqueue
  <2> HIDE DEF q
  <2>3. /\ \A c \in Device : c # d => queue'[c] = queue[c]
        /\ queue'[d] = q \o SubSeq(ws, 1, n)
    BY <2>1, <2>2
  <2>4. /\ Len(q \o SubSeq(ws, 1, n)) = Len(q) + n
        /\ \A i \in 1..(Len(q) + n) :
             (q \o SubSeq(ws, 1, n))[i] = IF i <= Len(q) THEN q[i] ELSE ws[i - Len(q)]
    BY <2>1, AppendPrefix
  <2> QED
    BY <2>1, <2>2, <2>3, <2>4
<1> HIDE DEF q
\* A write of the new queues is an old one, or the only one the handler issued.
<1>3. ASSUME NEW c \in Device, NEW i \in 1..Len(queue'[c]), queue'[c][i].op = "addEvent"
      PROVE  \/ i \in 1..Len(queue[c]) /\ queue'[c][i] = queue[c][i]
             \/ /\ c = d /\ i = Len(q) + 1 /\ queue'[c][i] = ws[1]
                /\ queue'[c][i].event \notin server.events
                /\ \A b \in Device : \A j \in 1..Len(queue[b]) : queue[b][j] # ws[1]
  <2>1. CASE c # d
    BY <1>2, <2>1
  <2>2. CASE c = d /\ i <= Len(q)
    BY <1>2, <2>2 DEF q
  <2>3. CASE c = d /\ ~(i <= Len(q))
    <3>1. i - Len(q) \in 1..Len(ws) /\ queue'[c][i] = ws[i - Len(q)]
      BY <1>2, <2>3
    <3>2. Len(ws) = 1
      BY <1>3, <3>1
    <3>3. i - Len(q) = 1
      BY <3>1, <3>2
    <3>4. i = Len(q) + 1
      BY <1>2, <3>3
    <3> QED
      BY <1>3, <2>3, <3>1, <3>3, <3>4
  <2> QED
    BY <2>1, <2>2, <2>3
<1>4. ASSUME NEW c \in Device, NEW i \in 1..Len(queue'[c]), queue'[c][i].op = "addEvent"
      PROVE  queue'[c][i].event \notin server'.events
  BY <1>2, <1>3, <1>4 DEF EventsAreNew
<1>5. ASSUME NEW c \in Device, NEW b \in Device,
             NEW i \in 1..Len(queue'[c]), NEW j \in 1..Len(queue'[b]),
             queue'[c][i].op = "addEvent", queue'[b][j] = queue'[c][i]
      PROVE  c = b /\ i = j
  <2>1. queue'[b][j].op = "addEvent"
    BY <1>5
  <2>2. CASE i \in 1..Len(queue[c]) /\ queue'[c][i] = queue[c][i]
    <3>1. j \in 1..Len(queue[b]) /\ queue'[b][j] = queue[b][j]
      BY <1>3, <1>5, <2>1, <2>2
    <3> QED
      BY <1>5, <2>2, <3>1 DEF EventsAreNew
  <2>3. CASE c = d /\ i = Len(q) + 1 /\ queue'[c][i] = ws[1]
             /\ \A a \in Device : \A k \in 1..Len(queue[a]) : queue[a][k] # ws[1]
    BY <1>3, <1>5, <2>1, <2>3
  <2> QED
    BY <1>3, <1>5, <2>2, <2>3
<1> QED
  BY <1>4, <1>5 DEF EventsAreNew

\* The oldest write of a device goes: its event is on the server, and waits
\* nowhere any more.
LEMMA EventsAreNewCommit ==
  ASSUME IInv, EventsAreNew, NEW d \in Device, Commit(d)
  PROVE  EventsAreNew'
<1> DEFINE w == Head(queue[d])
<1>1. /\ queue[d] # <<>> /\ queue[d] \in Seq(Write) /\ w \in Write /\ w = queue[d][1]
      /\ 1 \in 1..Len(queue[d])
      /\ server' = Apply(server, w) /\ server \in Store /\ Finds(server, w)
      /\ queue' = [queue EXCEPT ![d] = Tail(queue[d])]
      /\ queue \in [Device -> Seq(Write)]
  <2>1. queue[d] # <<>> /\ queue[d] \in Seq(Write) /\ queue \in [Device -> Seq(Write)]
    BY DEF Commit, IInv, TypeOK, StoreTypeOK
  <2> QED
    BY <2>1, HeadTailProperties, HeadFinds DEF Commit, IInv, TypeOK, StoreTypeOK
<1>2. server'.events = IF w.op = "addEvent" THEN server.events \cup {w.event} ELSE server.events
  BY <1>1, ApplyFields
<1> DEFINE old(c, i) == IF c = d THEN i + 1 ELSE i
<1>3. ASSUME NEW c \in Device, NEW i \in 1..Len(queue'[c])
      PROVE  /\ old(c, i) \in 1..Len(queue[c])
             /\ queue'[c][i] = queue[c][old(c, i)] /\ queue'[c][i] \in Write
             /\ ~(c = d /\ old(c, i) = 1)
  <2>1. CASE c = d
    <3>1. queue'[c] = Tail(queue[d])
      BY <1>1, <2>1
    <3>2. Len(Tail(queue[d])) = Len(queue[d]) - 1
      BY <1>1, HeadTailProperties
    <3>3. i + 1 \in 1..Len(queue[d]) /\ i + 1 # 1
      BY <1>1, <3>1, <3>2
    <3>4. Tail(queue[d])[i] = queue[d][i + 1]
      BY <1>1, <3>1, HeadTailProperties
    <3> QED
      BY <1>1, <2>1, <3>1, <3>3, <3>4
  <2>2. CASE c # d
    BY <1>1, <2>2
  <2> QED
    BY <2>1, <2>2
<1>4. ASSUME NEW c \in Device, NEW i \in 1..Len(queue'[c]), queue'[c][i].op = "addEvent"
      PROVE  queue'[c][i].event \notin server'.events
  <2> DEFINE v == queue'[c][i]
  <2>1. v.event \notin server.events
    BY <1>3, <1>4 DEF EventsAreNew
  <2>2. ASSUME w.op = "addEvent", v.event = w.event
        PROVE  FALSE
    <3>1. v = w
      BY <1>1, <1>3, <1>4, <2>2, WriteFields
    <3>2. queue[c][old(c, i)] = queue[d][1] /\ queue[c][old(c, i)].op = "addEvent"
      BY <1>1, <1>3, <1>4, <3>1
    <3>3. c = d /\ old(c, i) = 1
      BY <1>1, <1>3, <3>2 DEF EventsAreNew
    <3> QED
      BY <1>3, <3>3
  <2> QED
    BY <1>2, <2>1, <2>2
<1>5. ASSUME NEW c \in Device, NEW b \in Device,
             NEW i \in 1..Len(queue'[c]), NEW j \in 1..Len(queue'[b]),
             queue'[c][i].op = "addEvent", queue'[b][j] = queue'[c][i]
      PROVE  c = b /\ i = j
  <2>1. c = b /\ old(c, i) = old(b, j)
    <3>1. /\ old(c, i) \in 1..Len(queue[c]) /\ queue[c][old(c, i)].op = "addEvent"
          /\ old(b, j) \in 1..Len(queue[b])
          /\ queue[b][old(b, j)] = queue[c][old(c, i)]
      BY <1>3, <1>5
    <3> HIDE DEF old
    <3> QED
      BY <3>1 DEF EventsAreNew
  <2> QED
    BY <2>1
<1> QED
  BY <1>4, <1>5 DEF EventsAreNew

\* What the invite sheet issues: messages and room documents.
LEMMA InvitationWrites ==
  ASSUME IInv, NEW d \in Device, NEW now \in [1..InviteSlots -> Time],
         SendInvitation(d, now)
  PROVE  \E ws \in Seq(Write) :
           /\ \E s : Perform(d, ws, s)
           /\ \A k \in 1..Len(ws) : ws[k].op # "addEvent"
<1> DEFINE n == Cardinality(ui[d].picked)
<1>1. /\ ui[d].event \in Event /\ ui[d].picked \in SUBSET (1..InviteSlots)
      /\ Me(d) \in User
  BY EventScreenType, OwnerAssumption DEF SendInvitation, Me
<1>2. n \in Nat /\ n <= InviteSlots
  BY <1>1, PickedFew
<1> HIDE DEF n
<1>3. PICK peers \in [1..n -> User] :
        \E s : Perform(d,
          [x \in 1..(2 * n) |->
             IF x % 2 = 1
             THEN AddMsgOp(InvitationTo(d, peers[(x + 1) \div 2], now[(x + 1) \div 2]))
             ELSE SetRoomOp(ChatId(Me(d), peers[(x + 1) \div 2]), now[(x + 1) \div 2])],
          s)
  BY DEF SendInvitation, PickedUsers, n
<1> DEFINE W(x) == IF x % 2 = 1
                   THEN AddMsgOp(InvitationTo(d, peers[(x + 1) \div 2], now[(x + 1) \div 2]))
                   ELSE SetRoomOp(ChatId(Me(d), peers[(x + 1) \div 2]), now[(x + 1) \div 2])
           ws == [x \in 1..(2 * n) |-> W(x)]
<1>4. ASSUME NEW x \in 1..(2 * n)
      PROVE  W(x) \in Write /\ W(x).op # "addEvent"
  <2> DEFINE k == (x + 1) \div 2
  <2>1. k \in 1..n
    BY <1>2
  <2>2. peers[k] \in User /\ now[k] \in Time
    <3>1. k \in 1..InviteSlots
      BY <1>2, <2>1, SlotsAssumption
    <3> QED
      BY <2>1, <3>1
  <2>3. InvitationTo(d, peers[k], now[k]) \in Msg /\ ChatId(Me(d), peers[k]) \in Room
    BY <1>1, <2>2, ChatIdType DEF InvitationTo, Msg
  <2> HIDE DEF k
  <2>4. /\ AddMsgOp(InvitationTo(d, peers[k], now[k])) \in Write
        /\ AddMsgOp(InvitationTo(d, peers[k], now[k])).op # "addEvent"
        /\ SetRoomOp(ChatId(Me(d), peers[k]), now[k]) \in Write
        /\ SetRoomOp(ChatId(Me(d), peers[k]), now[k]).op # "addEvent"
    BY <2>2, <2>3 DEF AddMsgOp, SetRoomOp, Write
  <2>5. \/ W(x) = AddMsgOp(InvitationTo(d, peers[k], now[k]))
        \/ W(x) = SetRoomOp(ChatId(Me(d), peers[k]), now[k])
    BY DEF k
  <2> HIDE DEF W
  <2> QED
    BY <2>4, <2>5
<1>5. \E s : Perform(d, ws, s)
  BY <1>3
<1> HIDE DEF W
<1>6. ws \in Seq(Write) /\ \A k \in 1..Len(ws) : ws[k].op # "addEvent"
  BY <1>2, <1>4
<1> HIDE DEF ws
<1> QED
  BY <1>5, <1>6

\* A button answers an invitation.
LEMMA AnsweredTile ==
  ASSUME IInv, NEW d \in Device, NEW i \in Nat, NEW accept \in BOOLEAN,
         HandleButton(d, i, accept)
  PROVE  \E m \in Msg : IsInvitation(m) /\ \E s : Perform(d, AnswerTo(m, accept), s)
<1>1. ui[d].at = "room" /\ i \in 1..Len(ui[d].tiles)
  BY DEF HandleButton
<1>2. ui[d].tiles[i] \in Tile
  BY <1>1, RoomScreenType
<1>3. ui[d].tiles[i].msg \in Msg
  BY <1>2 DEF Tile
<1>4. /\ IsInvitation(ui[d].tiles[i].msg)
      /\ \E s : Perform(d, AnswerTo(ui[d].tiles[i].msg, accept), s)
  BY DEF HandleButton, HasButtons
<1> QED
  BY <1>3, <1>4

\* Steps that leave the server and the queues alone, or issue no event.
LEMMA EventsAreNewSame ==
  ASSUME EventsAreNew, server'.events = server.events, queue' = queue
  PROVE  EventsAreNew'
  BY DEF EventsAreNew

LEMMA EventsAreNewNext == IInv /\ EventsAreNew /\ [Next]_vars => EventsAreNew'
<1> SUFFICES ASSUME IInv, EventsAreNew, [Next]_vars
             PROVE  EventsAreNew'
  OBVIOUS
<1>a. ASSUME NEW d \in Device, NEW ws \in Seq(Write), NEW s, Perform(d, ws, s),
             \A k \in 1..Len(ws) : ws[k].op # "addEvent"
      PROVE  EventsAreNew'
  BY <1>a, EventsAreNewPerform
<1>1. CASE UNCHANGED vars
  BY <1>1, EventsAreNewSame DEF vars, storeVars
<1>2. ASSUME NEW d \in Device, StoreStep(d)
      PROVE  EventsAreNew'
  BY <1>2, EventsAreNewCommit, EventsAreNewSame
     DEF StoreStep, Listen, ListenEvent, ListenMsgs, ListenRooms, ListenUsers
<1>3. ASSUME NEW d \in Device, ChatStep(d)
      PROVE  EventsAreNew'
  <2>1. CASE (\E p \in User : OpenRoom(d, p)) \/ CloseRoom(d)
    BY <2>1, EventsAreNewSame DEF OpenRoom, CloseRoom, storeVars
  <2>2. CASE RenderRoom(d)
    <3> DEFINE r == RoomOn(d)
    <3>1. ui[d].at = "room" /\ r \in Room
      BY <2>2, RoomScreenType DEF RenderRoom
    <3>2. PICK R \in Listing(ToMarkRead(d, r)) :
            \E s : Perform(d, [i \in 1..Len(R) |-> ReadOp(r, R[i])], s)
      BY <2>2 DEF RenderRoom
    <3> HIDE DEF r
    <3>3. ToMarkRead(d, r) \in SUBSET Msg
      BY <3>1, PeerMessage DEF ToMarkRead, r
    <3>4. R \in Seq(Msg) /\ Len(R) \in Nat
      BY <3>3, ListingType
    <3>5. \A i \in 1..Len(R) :
            ReadOp(r, R[i]) \in Write /\ ReadOp(r, R[i]).op # "addEvent"
      BY <3>1, <3>4 DEF ReadOp, Write
    <3> DEFINE ws == [i \in 1..Len(R) |-> ReadOp(r, R[i])]
    <3>6. ws \in Seq(Write) /\ \A k \in 1..Len(ws) : ws[k].op # "addEvent"
      BY <3>4, <3>5
    <3> QED
      BY <1>a, <3>2, <3>6
  <2>3. ASSUME NEW text \in Text, NEW now \in Time, HandleSubmit(d, text, now)
        PROVE  EventsAreNew'
    <3> DEFINE m == [from |-> Me(d), to |-> ui[d].peer, content |-> text, time |-> now]
    <3>1. /\ Perform(d, Submission(d, m), ui[d])
          /\ m \in Msg /\ RoomOn(d) \in Room
      BY <2>3, RoomScreenType DEF HandleSubmit, Msg
    <3> HIDE DEF m
    <3>2. /\ AddMsgOp(m) \in Write /\ AddMsgOp(m).op # "addEvent" /\ m.time \in Time
          /\ SetRoomOp(RoomOn(d), m.time) \in Write
          /\ SetRoomOp(RoomOn(d), m.time).op # "addEvent"
      BY <3>1 DEF AddMsgOp, SetRoomOp, Write, Msg
    <3>3. /\ Submission(d, m) \in Seq(Write)
          /\ \A k \in 1..Len(Submission(d, m)) : Submission(d, m)[k].op # "addEvent"
      BY <3>2 DEF Submission
    <3> QED
      BY <1>a, <3>1, <3>3
  <2> QED
    BY <1>3, <2>1, <2>2, <2>3 DEF ChatStep
<1>4. ASSUME NEW d \in Device, Kill(d)
      PROVE  EventsAreNew'
  BY <1>4, EventsAreNewSame DEF Kill, storeVars
<1>5. ASSUME NEW u \in User, SignUp(u)
      PROVE  EventsAreNew'
  <2>1. server'.events = server.events
    BY <1>5 DEF SignUp, IInv, TypeOK, StoreTypeOK, Store
  <2> QED
    BY <1>5, <2>1, EventsAreNewSame DEF SignUp
<1>6. ASSUME NEW d \in Device, EventStep(d)
      PROVE  EventsAreNew'
  <2>1. ASSUME NEW e \in Event, AddEvent(d, e)
        PROVE  EventsAreNew'
    <3> DEFINE w == AddEventOp(e)
    <3>1. /\ Perform(d, <<w>>, Home) /\ e \notin server.events
          /\ \A c \in Device : \A i \in 1..Len(queue[c]) : queue[c][i] # w
      BY <2>1 DEF AddEvent
    <3>2. w \in Write /\ w.event = e
      BY DEF AddEventOp, Write
    <3> HIDE DEF w
    <3>3. <<w>> \in Seq(Write) /\ Len(<<w>>) = 1 /\ <<w>>[1] = w
      BY <3>2
    <3>4. \A k \in 1..Len(<<w>>) : <<w>>[k] = w
      BY <3>3
    <3> DEFINE ws == <<w>>
    <3> HIDE DEF ws
    <3>5. Perform(d, ws, Home) /\ ws \in Seq(Write) /\ Len(ws) = 1
          /\ \A k \in 1..Len(ws) : ws[k] = w
      BY <3>1, <3>3, <3>4 DEF ws
    <3> QED
      BY <3>1, <3>2, <3>5, EventsAreNewPerform
  <2>2. CASE \/ \E e \in Event : OpenDetail(d, e)
             \/ CloseDetail(d) \/ OpenSheet(d) \/ CloseSheet(d)
             \/ \E i \in 1..InviteSlots : Invite(d, i)
    BY <2>2, EventsAreNewSame
       DEF OpenDetail, CloseDetail, OpenSheet, CloseSheet, Invite, storeVars
  <2>3. CASE DeleteEvent(d)
    <3> DEFINE w == LeaveOp(ui[d].event, Me(d))
    <3>1. Perform(d, <<w>>, Home) /\ ui[d].event \in Event /\ Me(d) \in User
      BY <2>3, EventScreenType, OwnerAssumption DEF DeleteEvent, Me
    <3>2. w \in Write /\ w.op # "addEvent"
      BY <3>1 DEF LeaveOp, Write
    <3> HIDE DEF w
    <3>3. <<w>> \in Seq(Write) /\ Len(<<w>>) = 1 /\ <<w>>[1] = w
      BY <3>2
    <3>4. \A k \in 1..Len(<<w>>) : <<w>>[k].op # "addEvent"
      BY <3>2, <3>3
    <3> QED
      BY <1>a, <3>1, <3>3, <3>4
  <2>4. ASSUME NEW now \in [1..InviteSlots -> Time], SendInvitation(d, now)
        PROVE  EventsAreNew'
    <3>1. PICK ws \in Seq(Write) :
            /\ \E s : Perform(d, ws, s)
            /\ \A k \in 1..Len(ws) : ws[k].op # "addEvent"
      BY <2>4, InvitationWrites
    <3> QED
      BY <1>a, <3>1
  <2>5. ASSUME NEW i \in Nat, NEW accept \in BOOLEAN, HandleButton(d, i, accept)
        PROVE  EventsAreNew'
    <3>a. PICK m \in Msg : IsInvitation(m) /\ \E s : Perform(d, AnswerTo(m, accept), s)
      BY <2>5, AnsweredTile
    <3>1. PICK s : IsInvitation(m) /\ Perform(d, AnswerTo(m, accept), s)
      BY <3>a
    <3>2. m.content \in Event /\ m.to \in User /\ ChatId(m.to, m.from) \in Room
      BY <3>1, ChatIdType DEF IsInvitation, Msg
    <3>3. /\ ReactOp(ChatId(m.to, m.from), m) \in Write
          /\ ReactOp(ChatId(m.to, m.from), m).op # "addEvent"
          /\ JoinOp(m.content, m.to) \in Write
          /\ JoinOp(m.content, m.to).op # "addEvent"
      BY <3>2 DEF ReactOp, JoinOp, Write
    <3>4. /\ AnswerTo(m, accept) \in Seq(Write)
          /\ \A k \in 1..Len(AnswerTo(m, accept)) : AnswerTo(m, accept)[k].op # "addEvent"
      BY <3>3 DEF AnswerTo
    <3> QED
      BY <1>a, <3>1, <3>4
  <2>6. \A i \in 1..MaxMsgs : i \in Nat
    BY BoundAssumption
  <2> QED
    BY <1>6, <2>1, <2>2, <2>3, <2>4, <2>5, <2>6 DEF EventStep
<1> QED
  BY <1>1, <1>2, <1>3, <1>4, <1>5, <1>6 DEF Next, ChatNext

\* <<e, u>>: some message of S is an invitation of u to e.
LEMMA InvitedAdds ==
  ASSUME NEW S \in SUBSET Msg, NEW m \in Msg
  PROVE  {<<n.content, n.to>> : n \in Invitations(S \cup {m})} =
           IF IsInvitation(m)
           THEN {<<n.content, n.to>> : n \in Invitations(S)} \cup {<<m.content, m.to>>}
           ELSE {<<n.content, n.to>> : n \in Invitations(S)}
<1>1. CASE IsInvitation(m)
  <2>1. Invitations(S \cup {m}) = Invitations(S) \cup {m}
    BY <1>1 DEF Invitations
  <2> QED
    BY <1>1, <2>1
<1>2. CASE ~IsInvitation(m)
  <2>1. Invitations(S \cup {m}) = Invitations(S)
    BY <1>2 DEF Invitations
  <2> QED
    BY <1>2, <2>1
<1> QED
  BY <1>1, <1>2

\* A step that changes no document of events and messages is no step of the list.
LEMMA ListStutters ==
  ASSUME server'.events = server.events, server'.parti = server.parti,
         server'.msgs = server.msgs, server'.reacted = server.reacted
  PROVE  UNCHANGED Guests!listVars
  BY DEF Guests!listVars, Invitations

\* Whatever a device issued, off line and under a view long stale, is a step of
\* the guest list when it reaches the server.
LEMMA CommitIsListStep ==
  ASSUME IInv, EventsAreNew, NEW d \in Device, Commit(d)
  PROVE  [Guests!ListNext]_Guests!listVars
<1> DEFINE w == Head(queue[d])
           I(S) == {<<m.content, m.to>> : m \in Invitations(S)}
<1>1. /\ queue[d] # <<>> /\ queue[d] \in Seq(Write) /\ w \in Write
      /\ w = queue[d][1] /\ 1 \in 1..Len(queue[d])
      /\ server' = Apply(server, w) /\ server \in Store /\ Finds(server, w)
  <2>1. queue[d] # <<>> /\ queue[d] \in Seq(Write)
    BY DEF Commit, IInv, TypeOK, StoreTypeOK
  <2> QED
    BY <2>1, HeadTailProperties, HeadFinds DEF Commit, IInv, TypeOK, StoreTypeOK
<1>2. /\ w.op = "join" => \E m \in server.reacted : m.content = w.event /\ m.to = w.user
      /\ w.op = "leave" => w.event \in server.events
      /\ w.op = "addMsg" /\ IsInvitation(w.msg) =>
           /\ w.msg.content \in server.events
           /\ \/ w.msg.from = HostOf[w.msg.content]
              \/ \E m \in server.reacted :
                   m.content = w.msg.content /\ m.to = w.msg.from
  BY <1>1, HeadGround
<1>3. w.op = "addEvent" => w.event \notin server.events
  BY <1>1 DEF EventsAreNew
<1>4. server.msgs \in SUBSET Msg /\ server.reacted \in SUBSET Msg
  BY <1>1 DEF Store
<1> HIDE DEF w
<1>5. ASSUME NEW e \in Event, NEW u, NEW m \in server.reacted, m.content = e, m.to = u
      PROVE  <<e, u>> \in I(server.reacted)
  BY <1>5 DEF Invitations, IsInvitation
<1>6. CASE w.op = "addEvent"
  <2>1. w.event \in Event /\ HostOf[w.event] \in User
    BY <1>1, <1>6, WriteFields, HostAssumption
  <2>2. /\ server'.events = server.events \cup {w.event}
        /\ server'.parti = server.parti \cup {<<w.event, HostOf[w.event]>>}
        /\ server'.msgs = server.msgs /\ server'.reacted = server.reacted
    BY <1>1, <1>6, ApplyFields
  <2>3. Guests!Create(w.event)
    BY <1>3, <1>6, <2>2 DEF Guests!Create
  <2> QED
    BY <2>1, <2>3 DEF Guests!ListNext
<1>7. CASE w.op = "join"
  <2>1. w.event \in Event /\ w.user \in User
    BY <1>1, <1>7, WriteFields
  <2>2. /\ server'.events = server.events
        /\ server'.parti = server.parti \cup {<<w.event, w.user>>}
        /\ server'.msgs = server.msgs /\ server'.reacted = server.reacted
    BY <1>1, <1>7, ApplyFields
  <2>3. <<w.event, w.user>> \in I(server.reacted)
    BY <1>2, <1>5, <1>7, <2>1
  <2>4. Guests!Join(w.event, w.user)
    BY <2>2, <2>3 DEF Guests!Join
  <2> QED
    BY <2>1, <2>4 DEF Guests!ListNext
<1>8. CASE w.op = "leave"
  <2>1. w.event \in Event /\ w.user \in User
    BY <1>1, <1>8, WriteFields
  <2>2. /\ server'.events = server.events
        /\ server'.parti = server.parti \ {<<w.event, w.user>>}
        /\ server'.msgs = server.msgs /\ server'.reacted = server.reacted
    BY <1>1, <1>8, ApplyFields
  <2>3. Guests!Leave(w.event, w.user)
    BY <1>2, <1>8, <2>2 DEF Guests!Leave
  <2> QED
    BY <2>1, <2>3 DEF Guests!ListNext
<1>9. CASE w.op = "addMsg"
  <2>1. w.msg \in Msg /\ w.msg.to \in User /\ w.msg.from \in User
    BY <1>1, <1>9, WriteFields DEF Msg
  <2>2. /\ server'.events = server.events /\ server'.parti = server.parti
        /\ server'.msgs = server.msgs \cup {w.msg} /\ server'.reacted = server.reacted
    BY <1>1, <1>9, ApplyFields
  <2>3. I(server'.msgs) = IF IsInvitation(w.msg)
                          THEN I(server.msgs) \cup {<<w.msg.content, w.msg.to>>}
                          ELSE I(server.msgs)
    BY <1>4, <2>1, <2>2, InvitedAdds
  <2>4. CASE IsInvitation(w.msg)
    <3> DEFINE e == w.msg.content
               by == w.msg.from
    <3>1. e \in Event /\ e \in server.events
      BY <1>2, <1>9, <2>4 DEF IsInvitation
    <3>2. by = HostOf[e] \/ <<e, by>> \in I(server.reacted)
      BY <1>2, <1>5, <1>9, <2>4, <3>1
    <3>3. Guests!MayInvite(e, by)
      BY <3>2 DEF Guests!MayInvite
    <3>4. PICK p \in Event, b \in User, g \in User : p = e /\ b = by /\ g = w.msg.to
      BY <2>1, <3>1
    <3>5. Guests!InviteGuest(p, b, g)
      BY <2>2, <2>3, <2>4, <3>1, <3>3, <3>4 DEF Guests!InviteGuest, Guests!MayInvite
    <3> QED
      BY <3>5 DEF Guests!ListNext
  <2>5. CASE ~IsInvitation(w.msg)
    BY <2>2, <2>3, <2>5 DEF Guests!listVars
  <2> QED
    BY <2>4, <2>5
<1>10. CASE w.op = "react"
  <2>1. w.msg \in Msg /\ w.msg.to \in User /\ w.msg \in server.msgs
    BY <1>1, <1>10, WriteFields DEF Msg, Finds
  <2>2. /\ server'.events = server.events /\ server'.parti = server.parti
        /\ server'.msgs = server.msgs /\ server'.reacted = server.reacted \cup {w.msg}
    BY <1>1, <1>10, ApplyFields
  <2>3. I(server'.reacted) = IF IsInvitation(w.msg)
                             THEN I(server.reacted) \cup {<<w.msg.content, w.msg.to>>}
                             ELSE I(server.reacted)
    BY <1>4, <2>1, <2>2, InvitedAdds
  <2>4. CASE IsInvitation(w.msg)
    <3>1. <<w.msg.content, w.msg.to>> \in I(server.msgs) /\ w.msg.content \in Event
      BY <2>1, <2>4 DEF Invitations, IsInvitation
    <3>2. PICK p \in Event, g \in User : p = w.msg.content /\ g = w.msg.to
      BY <2>1, <3>1
    <3>3. Guests!Answer(p, g)
      BY <2>2, <2>3, <2>4, <3>1, <3>2 DEF Guests!Answer
    <3> QED
      BY <3>3 DEF Guests!ListNext
  <2>5. CASE ~IsInvitation(w.msg)
    BY <2>2, <2>3, <2>5 DEF Guests!listVars
  <2> QED
    BY <2>4, <2>5
<1>11. CASE w.op \in {"read", "setRoom"}
  <2>1. /\ server'.events = server.events /\ server'.parti = server.parti
        /\ server'.msgs = server.msgs /\ server'.reacted = server.reacted
    BY <1>1, <1>11, ApplyFields
  <2> QED
    BY <2>1, ListStutters
<1> QED
  BY <1>1, <1>6, <1>7, <1>8, <1>9, <1>10, <1>11, WriteFields

\* Every other step leaves the documents on the server alone, but for those of
\* users.
LEMMA StepIsListStep ==
  ASSUME IInv, EventsAreNew, [Next]_vars
  PROVE  [Guests!ListNext]_Guests!listVars
<1>0. ASSUME UNCHANGED server
      PROVE  UNCHANGED Guests!listVars
  BY <1>0, ListStutters
<1>1. CASE UNCHANGED vars
  BY <1>0, <1>1 DEF vars, storeVars
<1>2. ASSUME NEW d \in Device, StoreStep(d)
      PROVE  [Guests!ListNext]_Guests!listVars
  <2>1. CASE Commit(d)
    BY <2>1, CommitIsListStep
  <2>2. CASE Listen(d)
    BY <1>0, <2>2 DEF Listen, ListenEvent, ListenMsgs, ListenRooms, ListenUsers
  <2> QED
    BY <1>2, <2>1, <2>2 DEF StoreStep
<1>3. ASSUME NEW d \in Device, ChatStep(d) \/ Kill(d) \/ EventStep(d)
      PROVE  UNCHANGED server
  BY <1>3 DEF ChatStep, OpenRoom, CloseRoom, RenderRoom, HandleSubmit, Kill,
     EventStep, AddEvent, OpenDetail, CloseDetail, DeleteEvent, OpenSheet,
     CloseSheet, Invite, SendInvitation, HandleButton, Perform, Enqueue, storeVars
<1>4. ASSUME NEW u \in User, SignUp(u)
      PROVE  UNCHANGED Guests!listVars
  <2>1. /\ server'.events = server.events /\ server'.parti = server.parti
        /\ server'.msgs = server.msgs /\ server'.reacted = server.reacted
    BY <1>4 DEF SignUp, IInv, TypeOK, StoreTypeOK, Store
  <2> QED
    BY <2>1, ListStutters
<1> QED
  BY <1>0, <1>1, <1>2, <1>3, <1>4 DEF Next, ChatNext

LEMMA InitIsListInit == Init => EventsAreNew /\ Guests!ListInit
<1> SUFFICES ASSUME Init
             PROVE  EventsAreNew /\ Guests!ListInit
  OBVIOUS
<1>1. /\ server.events = {} /\ server.parti = {} /\ server.msgs = {}
      /\ server.reacted = {}
      /\ \A d \in Device : queue[d] = <<>>
  BY DEF Init, ChatInit, StoreInit, EmptyStore
<1>2. Invitations({}) = {}
  BY DEF Invitations
<1> QED
  BY <1>1, <1>2 DEF EventsAreNew, Guests!ListInit

\* ImplementsGuestList: the documents on the server are a guest list, each commit
\* one of its atomic steps: an event is created once, by its host; who invites
\* gives or has answered; who answers was invited; who joins has answered.
THEOREM SharingImplementsGuestList == Spec => ImplementsGuestList
<1>1. Init => EventsAreNew /\ Guests!ListInit
  BY InitIsListInit
<1>2. IInv /\ EventsAreNew /\ [Next]_vars
        => EventsAreNew' /\ [Guests!ListNext]_Guests!listVars
  BY EventsAreNewNext, StepIsListStep
<1> QED
  BY <1>1, <1>2, Invariant, PTL DEF Spec, ImplementsGuestList, Guests!ListSpec
-----------------------------------------------------------------------------
(* The chat's invariant holds in the composition, too: steps of the chat keep *)
(* it alone; those of the events leave the documents and the ticks as they    *)
(* are, and what they add to the queues is the matter of IInv.                *)

\* The rows of screen s show the messages and the ticks of t.
SameTicks(s, t) ==
  s.at = "room" =>
    /\ t.at = "room" /\ Len(s.tiles) = Len(t.tiles)
    /\ \A i \in 1..Len(t.tiles) :
         s.tiles[i].msg = t.tiles[i].msg /\ s.tiles[i].read = t.tiles[i].read

\* A handler issues writes and shows a screen with the ticks of the old one.
LEMMA PerformKeepsTicks ==
  ASSUME IInv, NEW d \in Device, NEW ws, NEW s, Perform(d, ws, s),
         SameTicks(s, ui[d])
  PROVE  /\ UNCHANGED <<server, cache>>
         /\ \A c \in Device : SameTicks(ui'[c], ui[c])
<1>1. PICK k \in 0..Len(ws) :
        /\ Enqueue(d, SubSeq(ws, 1, k))
        /\ ui' = [ui EXCEPT ![d] = IF k = Len(ws) THEN s ELSE Home]
  BY DEF Perform
<1>2. SameTicks(IF k = Len(ws) THEN s ELSE Home, ui[d])
  BY DEF SameTicks, Home
<1>3. \A c \in Device :
        ui'[c] = IF c = d THEN (IF k = Len(ws) THEN s ELSE Home) ELSE ui[c]
  BY <1>1 DEF IInv, TypeOK
<1>4. \A c \in Device : SameTicks(ui[c], ui[c])
  BY DEF SameTicks
<1>5. UNCHANGED <<server, cache>>
  BY <1>1 DEF Enqueue
<1> QED
  BY <1>2, <1>3, <1>4, <1>5

\* A step to a screen that is no room.
LEMMA NoRoomKeepsTicks ==
  ASSUME IInv, NEW d \in Device, NEW s, s.at # "room",
         ui' = [ui EXCEPT ![d] = s], UNCHANGED storeVars
  PROVE  /\ UNCHANGED <<server, cache>>
         /\ \A c \in Device : SameTicks(ui'[c], ui[c])
<1>1. \A c \in Device : ui'[c] = IF c = d THEN s ELSE ui[c]
  BY DEF IInv, TypeOK
<1>2. \A c \in Device : SameTicks(ui'[c], ui[c])
  BY <1>1 DEF SameTicks
<1> QED
  BY <1>2 DEF storeVars

LEMMA EventsKeepTicks ==
  ASSUME IInv, NEW d \in Device, EventStep(d)
  PROVE  /\ UNCHANGED <<server, cache>>
         /\ \A c \in Device : SameTicks(ui'[c], ui[c])
<1>1. Home.at # "room"
  BY DEF Home
<1>2. ASSUME NEW ws, NEW s, Perform(d, ws, s), s.at # "room"
      PROVE  /\ UNCHANGED <<server, cache>>
             /\ \A c \in Device : SameTicks(ui'[c], ui[c])
  BY <1>2, PerformKeepsTicks DEF SameTicks
<1>3. ASSUME NEW e \in Event, AddEvent(d, e) \/ OpenDetail(d, e)
      PROVE  /\ UNCHANGED <<server, cache>>
             /\ \A c \in Device : SameTicks(ui'[c], ui[c])
  <2>1. CASE AddEvent(d, e)
    BY <1>1, <1>2, <2>1 DEF AddEvent
  <2>2. CASE OpenDetail(d, e)
    <3>1. PICK s : s.at # "room" /\ ui' = [ui EXCEPT ![d] = s]
      BY <2>2 DEF OpenDetail
    <3> QED
      BY <2>2, <3>1, NoRoomKeepsTicks DEF OpenDetail
  <2> QED
    BY <1>3, <2>1, <2>2
<1>4. CASE CloseDetail(d)
  BY <1>1, <1>4, NoRoomKeepsTicks DEF CloseDetail
<1>5. CASE DeleteEvent(d)
  BY <1>1, <1>2, <1>5 DEF DeleteEvent
<1>6. CASE OpenSheet(d) \/ CloseSheet(d)
  <2>1. PICK s : s.at # "room" /\ ui' = [ui EXCEPT ![d] = s]
    BY <1>6 DEF OpenSheet, CloseSheet
  <2> QED
    BY <1>6, <2>1, NoRoomKeepsTicks DEF OpenSheet, CloseSheet
<1>7. ASSUME NEW i \in 1..InviteSlots, Invite(d, i)
      PROVE  /\ UNCHANGED <<server, cache>>
             /\ \A c \in Device : SameTicks(ui'[c], ui[c])
  <2>1. ui[d] \in SheetScreen
    BY <1>7, EventScreenType DEF Invite
  <2>2. PICK P : ui' = [ui EXCEPT ![d] = [ui[d] EXCEPT !.picked = P]]
    BY <1>7 DEF Invite
  <2>3. [ui[d] EXCEPT !.picked = P].at # "room"
    BY <2>1 DEF SheetScreen
  <2> QED
    BY <1>7, <2>2, <2>3, NoRoomKeepsTicks DEF Invite
<1>8. ASSUME NEW now \in [1..InviteSlots -> Time], SendInvitation(d, now)
      PROVE  /\ UNCHANGED <<server, cache>>
             /\ \A c \in Device : SameTicks(ui'[c], ui[c])
  <2>1. PICK ws, s : Perform(d, ws, s) /\ s.at # "room"
    BY <1>8 DEF SendInvitation
  <2> QED
    BY <1>2, <2>1
<1>9. ASSUME NEW i \in 1..MaxMsgs, NEW accept \in BOOLEAN, HandleButton(d, i, accept)
      PROVE  /\ UNCHANGED <<server, cache>>
             /\ \A c \in Device : SameTicks(ui'[c], ui[c])
  <2> DEFINE s == [ui[d] EXCEPT !.tiles[i].reacted = TRUE]
  <2>1. PICK ws : Perform(d, ws, s)
    BY <1>9 DEF HandleButton
  <2>2. /\ ui[d] \in RoomScreen /\ ui[d].tiles \in Seq(Tile)
        /\ i \in 1..Len(ui[d].tiles) /\ ui[d].at = "room"
    BY <1>9, RoomScreenType DEF HandleButton
  <2>3. /\ s.tiles = [ui[d].tiles EXCEPT ![i] = [ui[d].tiles[i] EXCEPT !.reacted = TRUE]]
    BY <2>2 DEF RoomScreen
  <2>4. /\ Len(s.tiles) = Len(ui[d].tiles)
        /\ \A j \in 1..Len(ui[d].tiles) :
             s.tiles[j] = IF j = i THEN [ui[d].tiles[i] EXCEPT !.reacted = TRUE]
                          ELSE ui[d].tiles[j]
    BY <2>2, <2>3
  <2>5. /\ [ui[d].tiles[i] EXCEPT !.reacted = TRUE].msg = ui[d].tiles[i].msg
        /\ [ui[d].tiles[i] EXCEPT !.reacted = TRUE].read = ui[d].tiles[i].read
    <3>1. ui[d].tiles[i] \in Tile
      BY <2>2
    <3> QED
      BY <3>1 DEF Tile
  <2> HIDE DEF s
  <2>6. SameTicks(s, ui[d])
    BY <2>2, <2>4, <2>5 DEF SameTicks
  <2> QED
    BY <2>1, <2>6, PerformKeepsTicks
<1> QED
  BY <1>3, <1>4, <1>5, <1>6, <1>7, <1>8, <1>9 DEF EventStep

LEMMA ChatUnderEvents ==
  ASSUME IInv, IInv', ChatInv, NEW d \in Device, EventStep(d)
  PROVE  ChatInv'
<1>1. /\ server' = server /\ cache' = cache
      /\ \A c \in Device : SameTicks(ui'[c], ui[c])
  BY EventsKeepTicks
<1>2. StoreTypeOK' /\ ui' \in [Device -> Screen]
  BY DEF IInv, TypeOK
<1>3. RoomsTyped'
  BY <1>2 DEF RoomsTyped, Screen, Home, RoomScreen, DetailScreen, SheetScreen
<1>4. ChatServerOK'
  BY <1>1 DEF ChatInv, ChatServerOK, ReadByAddressee, RoomHasMessage, OneDocPerRoom
<1>5. ASSUME NEW c \in Device
      PROVE  /\ ChatQueueOK(server', cache'[c], c, queue'[c])
             /\ cache'[c].msgs \subseteq server'.msgs
             /\ cache'[c].read \subseteq server'.read
             /\ TilesOK(cache'[c], c, ui'[c])
             /\ Truthful(cache', ui'[c])
  <2>1. ChatQueueOK(server', cache'[c], c, queue'[c])
    BY DEF IInv, QueueOK, WriteOK, ChatQueueOK
  <2>2. cache'[c].msgs \subseteq server'.msgs /\ cache'[c].read \subseteq server'.read
    BY <1>1 DEF ChatInv
  <2>3. TilesOK(cache'[c], c, ui'[c])
    BY DEF IInv, ScreenOK
  <2>4. Truthful(cache', ui'[c])
    <3>1. Truthful(cache, ui[c]) /\ SameTicks(ui'[c], ui[c])
      BY <1>1 DEF ChatInv
    <3> QED
      BY <1>1, <3>1 DEF Truthful, SameTicks
  <2> QED
    BY <2>1, <2>2, <2>3, <2>4
<1> QED
  BY <1>2, <1>3, <1>4, <1>5 DEF ChatInv

\* The chat keeps its invariant while events are shared over it.
THEOREM ChatInvariantShared == Spec => []ChatInv
<1>1. Init => ChatInv
  BY ChatInitInv DEF Init
<1>2. IInv /\ IInv' /\ ChatInv /\ [Next]_vars => ChatInv'
  <2> SUFFICES ASSUME IInv, IInv', ChatInv, [Next]_vars PROVE ChatInv'
    OBVIOUS
  <2>1. CASE ChatNext \/ UNCHANGED vars
    BY <2>1, ChatNextInv DEF vars, chatVars
  <2>2. CASE \E d \in Device : EventStep(d)
    BY <2>2, ChatUnderEvents
  <2> QED
    BY <2>1, <2>2 DEF Next
<1> QED
  BY <1>1, <1>2, Invariant, PTL DEF Spec

\* Ticks stay truthful when tiles are answered and invitations come and go.
THEOREM SharedTicksAreTruthful == Spec => []TickIsTruthful
  BY TicksFollow, ChatInvariantShared, PTL

\* Two users share one room document, whether a text or an invitation made it:
\* the composer and the invite sheet compute the same id, if the hash codes of
\* distinct ids differ.
THEOREM SharedOneRoomForTwo ==
  ASSUME \A u, v \in User : u # v => Hash[u] # Hash[v]
  PROVE  Spec => []OneRoomPerPair
<1>1. ChatInv => OneRoomPerPair
  BY OneRoomIfHashesDiffer
<1> QED
  BY <1>1, ChatInvariantShared, PTL
=============================================================================
