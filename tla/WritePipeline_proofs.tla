------------------------ MODULE WritePipeline_proofs ------------------------
(***************************************************************************)
(* What the write pipeline keeps, for any users, writes and pipeline       *)
(* length: by itself, where a stream may be opened for its user at any     *)
(* time, and with FirebaseAuth, whose tokens open the streams.             *)
(***************************************************************************)
EXTENDS Credentials, SequenceTheorems, TLAPS

-----------------------------------------------------------------------------
(* Queues sorted by batch id, and their beginnings. *)

Sorted(q) == \A i, j \in 1..Len(q) : i < j => q[i].id < q[j].id

\* How many batches of q the pipeline holds, and which.
Top(q) == IF MaxPendingWrites < Len(q) THEN MaxPendingWrites ELSE Len(q)

Prefix(q) == SubSeq(q, 1, Top(q))

LEMMA BatchFields == \A b \in Batch : b.id \in Nat /\ b.write \in Write
  BY DEF Batch

LEMMA BatchesOf ==
  ASSUME NEW q \in Seq(Batch)
  PROVE  Len(q) \in Nat /\ \A j \in 1..Len(q) : q[j] \in Batch /\ q[j].id \in Nat
  BY BatchFields, ElementOfSeq, LenProperties

\* In a sorted queue, as many rows come up to the n-th id as the number n says.
LEMMA SeekFinds ==
  ASSUME NEW q \in Seq(Batch), Sorted(q), NEW n \in 0..Len(q), NEW i \in Int,
         IF n = 0 THEN i = -1 ELSE i = q[n].id
  PROVE  Seek(q, i) = n
<1> DEFINE P(k) == \A j \in 1..Len(q) : q[j].id <= i <=> j <= k
<1>1. Len(q) \in Nat /\ \A j \in 1..Len(q) : q[j].id \in Nat
  BY BatchesOf
<1>2. P(n)
  <2>1. CASE n = 0
    BY <1>1, <2>1
  <2>2. CASE n # 0
    <3>1. n \in 1..Len(q) /\ i = q[n].id
      BY <2>2
    <3>2. ASSUME NEW j \in 1..Len(q) PROVE q[j].id <= i <=> j <= n
      <4>1. CASE j < n
        BY <1>1, <3>1, <4>1 DEF Sorted
      <4>2. CASE j = n
        BY <1>1, <3>1, <4>2
      <4>3. CASE n < j
        BY <1>1, <3>1, <4>3 DEF Sorted
      <4>4. QED
        BY <4>1, <4>2, <4>3
    <3>3. QED
      BY <3>2
  <2>3. QED
    BY <2>1, <2>2
<1>3. ASSUME NEW k \in 0..Len(q), P(k) PROVE k = n
  <2>1. CASE k < n
    <3>1. n \in 1..Len(q) /\ ~(n <= k) /\ n <= n
      BY <1>1, <2>1
    <3>2. QED
      BY <1>2, <1>3, <3>1
  <2>2. CASE n < k
    <3>1. k \in 1..Len(q) /\ ~(k <= n) /\ k <= k
      BY <1>1, <2>2
    <3>2. QED
      BY <1>2, <1>3, <3>1
  <2>3. QED
    BY <1>1, <2>1, <2>2
<1>4. Seek(q, i) = CHOOSE k \in 0..Len(q) : P(k)
  BY DEF Seek
<1>5. (CHOOSE k \in 0..Len(q) : P(k)) \in 0..Len(q) /\ P(CHOOSE k \in 0..Len(q) : P(k))
  <2> HIDE DEF P
  <2>1. \E k \in 0..Len(q) : P(k)
    BY <1>2
  <2>2. QED
    BY <2>1
<1>6. QED
  BY <1>3, <1>4, <1>5

LEMMA TopFacts ==
  ASSUME NEW q \in Seq(Batch)
  PROVE  /\ Top(q) \in 0..Len(q) /\ Top(q) <= MaxPendingWrites
         /\ Prefix(q) \in Seq(Batch) /\ Len(Prefix(q)) = Top(q)
         /\ \A i \in 1..Top(q) : Prefix(q)[i] = q[i]
         /\ Prefix(q) = <<>> <=> q = <<>>
         /\ q # <<>> => Head(Prefix(q)) = Head(q)
<1>1. Len(q) \in Nat /\ Top(q) \in 0..Len(q) /\ Top(q) <= MaxPendingWrites
  BY PipelineAssumption DEF Top
<1>2. /\ Prefix(q) \in Seq(Batch) /\ Len(Prefix(q)) = Top(q)
      /\ \A i \in 1..Top(q) : Prefix(q)[i] = q[i]
  <2>1. \A i \in 1..Top(q) : q[i] \in Batch
    BY <1>1
  <2>2. QED
    BY <1>1, <2>1, SubSeqProperties DEF Prefix
<1>3. Prefix(q) = <<>> <=> q = <<>>
  BY <1>1, <1>2, PipelineAssumption, EmptySeq DEF Top
<1>4. q # <<>> => Head(Prefix(q)) = Head(q)
  BY <1>1, <1>2, <1>3
<1>5. QED
  BY <1>1, <1>2, <1>3, <1>4

\* Filling continues the beginning of the queue that is there.
LEMMA FilledIsPrefix ==
  ASSUME NEW q \in Seq(Batch), Sorted(q), NEW n \in 0..Top(q)
  PROVE  /\ SubSeq(q, 1, n) \in Seq(Batch) /\ Len(SubSeq(q, 1, n)) = n
         /\ Filled(q, SubSeq(q, 1, n)) = Prefix(q)
         /\ SubSeq(q, 1, n) \o SubSeq(Prefix(q), n + 1, Len(Prefix(q))) = Prefix(q)
<1> DEFINE p == SubSeq(q, 1, n)
           i == IF p = <<>> THEN -1 ELSE p[Len(p)].id
<1>1. Len(q) \in Nat /\ n \in 0..Len(q) /\ n \in Nat
  BY TopFacts
<1>2. p \in Seq(Batch) /\ Len(p) = n /\ \A j \in 1..n : p[j] = q[j]
  <2>1. \A j \in 1..n : q[j] \in Batch
    BY <1>1
  <2>2. QED
    BY <1>1, <2>1, SubSeqProperties
<1>3. p = <<>> <=> n = 0
  BY <1>1, <1>2, EmptySeq
<1>4. Seek(q, i) = n
  <2>1. i \in Int /\ IF n = 0 THEN i = -1 ELSE i = q[n].id
    BY <1>1, <1>2, <1>3, BatchesOf
  <2> HIDE DEF i
  <2>2. QED
    BY <1>1, <2>1, SeekFinds
<1>5. Filled(q, p) = p \o SubSeq(q, n + 1, Top(q))
  <2>1. n + MaxPendingWrites - Len(p) = MaxPendingWrites
    BY <1>1, <1>2, PipelineAssumption
  <2>2. QED
    BY <1>4, <2>1 DEF Filled, Top
<1>6. p \o SubSeq(q, n + 1, Top(q)) = Prefix(q)
  <2>1. Top(q) \in n..Len(q) /\ n \in (1 - 1)..Len(q) /\ 1 \in 1..Len(q) + 1
    BY <1>1, TopFacts
  <2>2. SubSeq(q, 1, n) \o SubSeq(q, n + 1, Top(q)) = SubSeq(q, 1, Top(q))
    BY <2>1, ConcatAdjacentSubSeq
  <2>3. QED
    BY <2>2 DEF Prefix
<1>7. SubSeq(Prefix(q), 1, n) \o SubSeq(Prefix(q), n + 1, Len(Prefix(q))) = Prefix(q)
  <2> DEFINE r == Prefix(q)
  <2>1. /\ r \in Seq(Batch) /\ 1 \in 1..Len(r) + 1
        /\ n \in (1 - 1)..Len(r) /\ Len(r) \in n..Len(r)
    BY <1>1, TopFacts
  <2> HIDE DEF r
  <2>2. SubSeq(r, 1, n) \o SubSeq(r, n + 1, Len(r)) = SubSeq(r, 1, Len(r))
    BY <2>1, ConcatAdjacentSubSeq
  <2>3. QED
    BY <2>1, <2>2, SubSeqFull DEF r
<1>8. SubSeq(Prefix(q), 1, n) = p
  <2>1. \A j \in 1..n : Prefix(q)[j] = q[j] /\ Prefix(q)[j] \in Batch
    BY <1>1, TopFacts
  <2>2. SubSeq(Prefix(q), 1, n) \in Seq(Batch) /\ Len(SubSeq(Prefix(q), 1, n)) = n
        /\ \A j \in 1..n : SubSeq(Prefix(q), 1, n)[j] = Prefix(q)[j]
    BY <1>1, <2>1, SubSeqProperties
  <2>3. QED
    BY <1>2, <2>1, <2>2, SeqEqual
<1>9. QED
  BY <1>2, <1>5, <1>6, <1>7, <1>8

\* The first batch leaves a queue and its beginning.
LEMMA HeadLeaves ==
  ASSUME NEW q \in Seq(Batch), Sorted(q), q # <<>>
  PROVE  /\ Head(q) \in Batch /\ Tail(q) \in Seq(Batch) /\ Len(Tail(q)) = Len(q) - 1
         /\ \A j \in 1..Len(Tail(q)) : Tail(q)[j] = q[j + 1]
         /\ Without(q, Head(q)) = Tail(q) /\ Sorted(Tail(q))
         /\ Top(q) - 1 \in 0..Top(Tail(q))
         /\ Tail(Prefix(q)) = SubSeq(Tail(q), 1, Top(q) - 1)
<1>1. /\ Head(q) \in Batch /\ Tail(q) \in Seq(Batch) /\ Len(Tail(q)) = Len(q) - 1
      /\ \A j \in 1..Len(Tail(q)) : Tail(q)[j] = q[j + 1]
      /\ Tail(q) = SubSeq(q, 2, Len(q))
  BY HeadTailProperties, TailIsSubSeq
<1>2. Len(q) \in Nat \ {0} /\ Head(q) = q[1]
  BY EmptySeq
<1>3. Without(q, Head(q)) = Tail(q)
  <2>1. Seek(q, Head(q).id) = 1
    BY <1>1, <1>2, SeekFinds, BatchFields
  <2>2. SubSeq(q, 1, 0) = <<>>
    BY SubSeqEmpty
  <2>3. <<>> \o Tail(q) = Tail(q)
    BY <1>1, ConcatEmptySeq
  <2>4. QED
    BY <1>1, <2>1, <2>2, <2>3 DEF Without
<1>4. Sorted(Tail(q))
  BY <1>1, <1>2 DEF Sorted
<1>5. Top(q) - 1 \in 0..Top(Tail(q)) /\ Top(q) \in 1..Len(q)
  BY <1>1, <1>2, PipelineAssumption DEF Top
<1>6. Tail(Prefix(q)) = SubSeq(Tail(q), 1, Top(q) - 1)
  <2>1. /\ Tail(Prefix(q)) \in Seq(Batch) /\ Len(Tail(Prefix(q))) = Top(q) - 1
        /\ \A j \in 1..Top(q) - 1 : Tail(Prefix(q))[j] = q[j + 1]
    BY <1>5, TopFacts, HeadTailProperties
  <2>2. /\ SubSeq(Tail(q), 1, Top(q) - 1) \in Seq(Batch)
        /\ Len(SubSeq(Tail(q), 1, Top(q) - 1)) = Top(q) - 1
        /\ \A j \in 1..Top(q) - 1 : SubSeq(Tail(q), 1, Top(q) - 1)[j] = q[j + 1]
    <3>1. \A j \in 1..Top(q) - 1 : Tail(q)[j] \in Batch /\ Tail(q)[j] = q[j + 1]
      BY <1>1, <1>2, <1>5
    <3>2. QED
      BY <1>5, <3>1, SubSeqProperties
  <2>3. QED
    BY <2>1, <2>2, SeqEqual
<1>7. QED
  BY <1>1, <1>3, <1>4, <1>5, <1>6

\* A batch with a new id is added to a queue.
LEMMA BatchAdded ==
  ASSUME NEW q \in Seq(Batch), Sorted(q), NEW b \in Batch,
         \A i \in 1..Len(q) : q[i].id < b.id
  PROVE  /\ Append(q, b) \in Seq(Batch) /\ Sorted(Append(q, b))
         /\ Len(Append(q, b)) = Len(q) + 1 /\ Append(q, b)[Len(q) + 1] = b
         /\ \A i \in 1..Len(q) : Append(q, b)[i] = q[i]
         /\ Top(q) \in 0..Top(Append(q, b))
         /\ Prefix(q) = SubSeq(Append(q, b), 1, Top(q))
<1>1. /\ Append(q, b) \in Seq(Batch)
      /\ Len(Append(q, b)) = Len(q) + 1 /\ Append(q, b)[Len(q) + 1] = b
      /\ \A i \in 1..Len(q) : Append(q, b)[i] = q[i]
  BY AppendProperties
<1>2. Sorted(Append(q, b))
  <2>1. Len(q) \in Nat
    BY BatchesOf
  <2>2. ASSUME NEW i \in 1..Len(q) + 1, NEW j \in 1..Len(q) + 1, i < j
        PROVE  Append(q, b)[i].id < Append(q, b)[j].id
    <3>1. CASE j = Len(q) + 1
      BY <1>1, <2>1, <2>2, <3>1
    <3>2. CASE j # Len(q) + 1
      BY <1>1, <2>1, <2>2, <3>2 DEF Sorted
    <3>3. QED
      BY <3>1, <3>2
  <2>3. QED
    BY <1>1, <2>2 DEF Sorted
<1>3. Top(q) \in 0..Top(Append(q, b)) /\ Top(q) \in 0..Len(q) /\ Len(q) \in Nat
  BY <1>1, PipelineAssumption DEF Top
<1>4. Prefix(q) = SubSeq(Append(q, b), 1, Top(q))
  <2>1. /\ SubSeq(Append(q, b), 1, Top(q)) \in Seq(Batch)
        /\ Len(SubSeq(Append(q, b), 1, Top(q))) = Top(q)
        /\ \A i \in 1..Top(q) : SubSeq(Append(q, b), 1, Top(q))[i] = q[i]
    <3>1. \A i \in 1..Top(q) : Append(q, b)[i] \in Batch /\ Append(q, b)[i] = q[i]
      BY <1>1, <1>3
    <3>2. QED
      BY <1>3, <3>1, SubSeqProperties
  <2>2. QED
    BY <2>1, TopFacts, SeqEqual
<1>5. QED
  BY <1>1, <1>2, <1>3, <1>4

-----------------------------------------------------------------------------
(* What is on the call, as one sequence. *)

LEMMA TailOfConcat ==
  ASSUME NEW r \in Seq(Batch), NEW s \in Seq(Batch), r # <<>>
  PROVE  /\ r \o s # <<>> /\ Head(r \o s) = Head(r)
         /\ Tail(r) \o s = Tail(r \o s)
<1>1. /\ Len(r) \in Nat \ {0} /\ Len(s) \in Nat
      /\ r \o s \in Seq(Batch) /\ Len(r \o s) = Len(r) + Len(s)
      /\ \A i \in 1..Len(r) + Len(s) : (r \o s)[i] = IF i <= Len(r) THEN r[i] ELSE s[i - Len(r)]
  BY EmptySeq, LenProperties, ConcatProperties
<1>2. r \o s # <<>> /\ Head(r \o s) = Head(r)
  BY <1>1, EmptySeq
<1>3. /\ Tail(r) \in Seq(Batch) /\ Len(Tail(r)) = Len(r) - 1
      /\ \A i \in 1..Len(Tail(r)) : Tail(r)[i] = r[i + 1]
  BY HeadTailProperties
<1>4. /\ Tail(r \o s) \in Seq(Batch) /\ Len(Tail(r \o s)) = Len(r) + Len(s) - 1
      /\ \A i \in 1..Len(r) + Len(s) - 1 : Tail(r \o s)[i] = (r \o s)[i + 1]
  BY <1>1, <1>2, HeadTailProperties
<1>5. /\ Tail(r) \o s \in Seq(Batch) /\ Len(Tail(r) \o s) = Len(r) + Len(s) - 1
      /\ \A i \in 1..Len(r) + Len(s) - 1 :
           (Tail(r) \o s)[i] = IF i <= Len(r) - 1 THEN Tail(r)[i] ELSE s[i - (Len(r) - 1)]
  BY <1>1, <1>3, ConcatProperties
<1>6. ASSUME NEW i \in 1..Len(r) + Len(s) - 1
      PROVE  (Tail(r) \o s)[i] = Tail(r \o s)[i]
  BY <1>1, <1>3, <1>4, <1>5
<1>7. QED
  BY <1>2, <1>4, <1>5, <1>6, SeqEqual

LEMMA SendContinues ==
  \A r, s, t \in Seq(Batch) : r \o (s \o t) = (r \o s) \o t
BY ConcatAssociative

\* The server reads the first request: it is the next to be answered.
LEMMA HeadMoves ==
  ASSUME NEW r \in Seq(Batch), NEW s \in Seq(Batch), s # <<>>
  PROVE  /\ Append(r, Head(s)) \o Tail(s) = r \o s
         /\ (r \o <<Head(s)>>) \o Tail(s) = r \o s
<1>1. Head(s) \in Batch /\ Tail(s) \in Seq(Batch) /\ <<Head(s)>> \in Seq(Batch)
  BY HeadTailProperties
<1>2. <<Head(s)>> \o Tail(s) = s
  <2>1. Len(s) \in Nat \ {0} /\ Head(s) = s[1]
    BY EmptySeq
  <2>2. SubSeq(s, 1, Len(s)) = <<s[1]>> \o SubSeq(s, 2, Len(s))
    BY <2>1, SubSeqRecursiveFirst
  <2>3. QED
    BY <2>1, <2>2, SubSeqFull, TailIsSubSeq
<1>3. (r \o <<Head(s)>>) \o Tail(s) = r \o s
  BY <1>1, <1>2, ConcatAssociative
<1>4. Append(r, Head(s)) = r \o <<Head(s)>>
  BY <1>1, AppendIsConcat
<1>5. QED
  BY <1>3, <1>4

-----------------------------------------------------------------------------
(* Steps. *)

\* What the invariant says of the queue of the user and the pipeline.
LEMMA PipelineOfUser ==
  ASSUME PipelineInv
  PROVE  /\ queue[user] \in Seq(Batch) /\ Sorted(queue[user]) /\ pipeline = Prefix(queue[user])
         /\ \A u \in User : queue[u] \in Seq(Batch) /\ Sorted(queue[u])
         /\ pipeline = <<>> <=> queue[user] = <<>>
<1>1. user \in User /\ \A u \in User : queue[u] \in Seq(Batch)
  BY DEF PipelineInv, TypeOK
<1>2. \A u \in User : Sorted(queue[u])
  BY DEF PipelineInv, QueuesSorted, Sorted
<1>3. pipeline = Prefix(queue[user])
  BY DEF PipelineInv, PipelineIsPrefix, Prefix, Top
<1>4. QED
  BY <1>1, <1>2, <1>3, TopFacts

\* A pipeline filled from the queue of a user is of the right shape.
LEMMA FilledFromEmpty ==
  ASSUME NEW q \in Seq(Batch), Sorted(q)
  PROVE  Filled(q, <<>>) = Prefix(q)
<1>1. SubSeq(q, 1, 0) = <<>> /\ 0 \in 0..Top(q)
  BY TopFacts, SubSeqEmpty
<1>2. QED
  BY <1>1, FilledIsPrefix

LEMMA StartedForFacts ==
  ASSUME NEW s \in StreamState, NEW p
  PROVE  /\ StartedFor(s, p) \in StreamState
         /\ p # <<>> => IsStarted(StartedFor(s, p))
         /\ StartedFor(s, p) = "Open" <=> s = "Open"
  BY DEF StartedFor, StreamState, IsStarted

\* The parts of the invariant that are about the pipeline and the call, when
\* there is no call after a step.
LEMMA WithoutCall ==
  ASSUME user' \in User, queue'[user'] \in Seq(Batch), pipeline' = Prefix(queue'[user']),
         EndCall, stream' # "Open", pipeline' # <<>> => IsStarted(stream')
  PROVE  /\ PipelineIsPrefix' /\ ResultIsOfFirst' /\ NoAssertFails' /\ AnswersOnTheWay'
         /\ BearerIsUser' /\ pipeline' \in Seq(Batch)
<1>1. pipeline' \in Seq(Batch) /\ (pipeline' = <<>> <=> queue'[user'] = <<>>)
  BY TopFacts
<1>2. PipelineIsPrefix'
  BY DEF PipelineIsPrefix, Prefix, Top
<1>3. ResultIsOfFirst' /\ AnswersOnTheWay' /\ BearerIsUser'
  BY EmptySeq DEF ResultIsOfFirst, AnswersOnTheWay, BearerIsUser, EndCall
<1>4. NoAssertFails'
  BY <1>1 DEF NoAssertFails, EndCall
<1>5. QED
  BY <1>1, <1>2, <1>3, <1>4

\* What a step that leaves the queues and the server alone keeps.
LEMMA QueuesKept ==
  ASSUME PipelineInv, UNCHANGED <<queue, nextId, historyVars>>
  PROVE  /\ QueuesSorted' /\ QueuesByAuthor'
         /\ AcknowledgedIsCommitted' /\ CommittedAsAuthor'
BY DEF PipelineInv, QueuesSorted, QueuesByAuthor, AcknowledgedIsCommitted, CommittedAsAuthor,
       Committed, historyVars

LEMMA CallEnded ==
  ASSUME EndCall
  PROVE  /\ requests' \in Seq(Batch) /\ responses' \in Seq(Batch)
         /\ refusal' \in Seq(Batch) /\ Len(refusal') <= 1
         /\ hello' \in {"none", "sent", "complete"} /\ idle' \in BOOLEAN
<1>1. <<>> \in Seq(Batch) /\ Len(<<>>) = 0
  BY EmptySeq
<1>2. requests' = <<>> /\ responses' = <<>> /\ refusal' = <<>>
  BY DEF EndCall
<1>3. hello' \in {"none", "sent", "complete"} /\ idle' \in BOOLEAN
  BY DEF EndCall
<1>4. QED
  BY <1>1, <1>2, <1>3

\* The parts of the types that a step can change.
LEMMA TypeKept ==
  ASSUME TypeOK, UNCHANGED <<queue, nextId, historyVars>>,
         user' \in User, bearer' \in User, idle' \in BOOLEAN,
         pipeline' \in Seq(Batch), stream' \in StreamState,
         EndCall \/ UNCHANGED <<requests, responses, refusal>>,
         hello' \in {"none", "sent", "complete"}
  PROVE  TypeOK'
<1>2. /\ requests' \in Seq(Batch) /\ responses' \in Seq(Batch)
      /\ refusal' \in Seq(Batch) /\ Len(refusal') <= 1
      /\ hello' \in {"none", "sent", "complete"}
  <2>1. CASE EndCall
    BY <2>1, CallEnded
  <2>2. CASE UNCHANGED <<requests, responses, refusal>>
    BY <2>2 DEF TypeOK
  <2>3. QED
    BY <2>1, <2>2
<1>3. UNCHANGED <<queue, nextId, log, refused, answer>>
  BY DEF historyVars
<1>4. QED
  BY <1>2, <1>3 DEF TypeOK

LEMMA OpenStep ==
  ASSUME PipelineInv, OnWriteStreamOpen(user)
  PROVE  PipelineInv'
<1>1. TypeOK'
  BY TypeKept DEF PipelineInv, OnWriteStreamOpen, TypeOK, StreamState
<1>2. PipelineIsPrefix' /\ ResultIsOfFirst' /\ NoAssertFails' /\ BearerIsUser'
  BY DEF PipelineInv, OnWriteStreamOpen, PipelineIsPrefix, ResultIsOfFirst, NoAssertFails,
         IsStarted, BearerIsUser
<1>3. AnswersOnTheWay'
  BY DEF PipelineInv, OnWriteStreamOpen, AnswersOnTheWay, Committed, historyVars
<1>4. QED
  BY <1>1, <1>2, <1>3, QueuesKept DEF PipelineInv, OnWriteStreamOpen

LEMMA HandshakeStep ==
  ASSUME PipelineInv, OnWriteStreamHandshakeComplete
  PROVE  PipelineInv'
<1>1. /\ requests = <<>> /\ responses = <<>> /\ refusal = <<>>
      /\ pipeline \in Seq(Batch) /\ pipeline' = pipeline
  BY DEF PipelineInv, OnWriteStreamHandshakeComplete, ResultIsOfFirst, TypeOK, clientVars
<1>2. requests' = pipeline /\ responses' = <<>> /\ refusal' = <<>>
  BY <1>1, ConcatEmptySeq DEF OnWriteStreamHandshakeComplete
<1>3. TypeOK'
  BY <1>1, <1>2 DEF PipelineInv, OnWriteStreamHandshakeComplete, TypeOK, clientVars, historyVars
<1>4. ResultIsOfFirst'
  <2>1. <<>> \o <<>> = <<>> /\ <<>> \o pipeline = pipeline
    BY <1>1, ConcatEmptySeq, EmptySeq
  <2>2. QED
    BY <1>1, <1>2, <2>1 DEF ResultIsOfFirst, OnWriteStreamHandshakeComplete
<1>5. NoAssertFails'
  <2>1. <<>> \o <<>> = <<>>
    BY ConcatEmptySeq, EmptySeq
  <2>2. QED
    BY <1>2, <2>1 DEF PipelineInv, OnWriteStreamHandshakeComplete, NoAssertFails, clientVars, IsStarted
<1>6. PipelineIsPrefix' /\ BearerIsUser' /\ AnswersOnTheWay'
  BY <1>2, EmptySeq DEF PipelineInv, OnWriteStreamHandshakeComplete, PipelineIsPrefix, BearerIsUser,
     AnswersOnTheWay, clientVars
<1>7. QED
  BY <1>3, <1>4, <1>5, <1>6, QueuesKept DEF PipelineInv, OnWriteStreamHandshakeComplete, clientVars

LEMMA ErrorStep ==
  ASSUME PipelineInv, OnStreamError
  PROVE  PipelineInv'
<1>1. /\ stream' = StartedFor("Error", pipeline') /\ pipeline' = pipeline /\ EndCall
      /\ user' = user /\ bearer' = bearer /\ UNCHANGED <<queue, nextId, historyVars>>
  BY DEF OnStreamError
<1>2. stream' \in StreamState /\ stream' # "Open" /\ (pipeline' # <<>> => IsStarted(stream'))
  BY <1>1, StartedForFacts DEF StreamState
<1>3. pipeline' = Prefix(queue'[user']) /\ user' \in User /\ queue'[user'] \in Seq(Batch)
  BY <1>1, PipelineOfUser DEF PipelineInv, TypeOK
<1>4. TypeOK'
  BY <1>1, <1>2, TypeKept DEF PipelineInv, TypeOK, EndCall
<1>5. QED
  BY <1>1, <1>2, <1>3, <1>4, WithoutCall, QueuesKept DEF PipelineInv

LEMMA BackoffStep ==
  ASSUME PipelineInv, BackoffElapsed
  PROVE  PipelineInv'
<1>1. TypeOK'
  BY TypeKept DEF PipelineInv, BackoffElapsed, TypeOK, StreamState, callVars
<1>2. PipelineIsPrefix' /\ ResultIsOfFirst' /\ NoAssertFails' /\ BearerIsUser'
  BY DEF PipelineInv, BackoffElapsed, PipelineIsPrefix, ResultIsOfFirst, NoAssertFails,
         IsStarted, BearerIsUser, callVars
<1>3. AnswersOnTheWay'
  BY DEF PipelineInv, BackoffElapsed, AnswersOnTheWay, Committed, historyVars, callVars
<1>4. QED
  BY <1>1, <1>2, <1>3, QueuesKept DEF PipelineInv, BackoffElapsed

LEMMA IdleStep ==
  ASSUME PipelineInv, IdleTimeout
  PROVE  PipelineInv'
<1>1. /\ stream' = "Initial" /\ pipeline' = pipeline /\ EndCall
      /\ user' = user /\ bearer' = bearer /\ UNCHANGED <<queue, nextId, historyVars>>
  BY DEF IdleTimeout
<1>2. pipeline' = Prefix(queue'[user']) /\ user' \in User /\ queue'[user'] \in Seq(Batch)
      /\ pipeline' = <<>>
  BY <1>1, PipelineOfUser DEF PipelineInv, TypeOK, NoAssertFails, IdleTimeout
<1>3. TypeOK'
  BY <1>1, <1>2, TypeKept DEF PipelineInv, TypeOK, EndCall, StreamState
<1>4. QED
  BY <1>1, <1>2, <1>3, WithoutCall, QueuesKept DEF PipelineInv

\* The log grows: what was committed stays so, and what is added is of its author.
LEMMA CommittedGrows ==
  ASSUME NEW e \in [write : Write, as : User], log \in Seq([write : Write, as : User]),
         log' = Append(log, e)
  PROVE  Committed' = Committed \cup {e.write} /\ log' \in Seq([write : Write, as : User])
<1>1. /\ Len(log) \in Nat /\ Len(log') = Len(log) + 1 /\ log'[Len(log) + 1] = e
      /\ \A i \in 1..Len(log) : log'[i] = log[i]
      /\ log' \in Seq([write : Write, as : User])
  BY LenProperties, AppendProperties
<1>2. 1..Len(log') = 1..Len(log) \cup {Len(log) + 1}
  BY <1>1
<1>3. \A w : w \in Committed' <=> w \in Committed \cup {e.write}
  BY <1>1, <1>2 DEF Committed
<1>4. QED
  BY <1>1, <1>3

LEMMA CommitStep ==
  ASSUME PipelineInv, ServerCommits
  PROVE  PipelineInv'
<1> DEFINE b == Head(requests)
           e == [write |-> b.write, as |-> bearer]
<1>1. /\ b \in Batch /\ Tail(requests) \in Seq(Batch)
      /\ requests \in Seq(Batch) /\ responses \in Seq(Batch) /\ requests # <<>> /\ refusal = <<>>
  BY HeadTailProperties DEF PipelineInv, TypeOK, ServerCommits
<1>2. e \in [write : Write, as : User] /\ log \in Seq([write : Write, as : User])
  BY <1>1, BatchFields DEF PipelineInv, TypeOK
<1>3. Committed' = Committed \cup {b.write} /\ log' \in Seq([write : Write, as : User])
  BY <1>2, CommittedGrows DEF ServerCommits
<1>4. hello = "complete" /\ stream = "Open" /\ bearer = user
  BY <1>1 DEF PipelineInv, ResultIsOfFirst, NoAssertFails, BearerIsUser
<1>5. /\ responses' = Append(responses, b) /\ responses' \in Seq(Batch)
      /\ Len(responses) \in Nat /\ Len(responses') = Len(responses) + 1
      /\ responses'[Len(responses) + 1] = b
      /\ \A i \in 1..Len(responses) : responses'[i] = responses[i]
  BY <1>1, LenProperties, AppendProperties DEF ServerCommits
<1>6. UNCHANGED <<user, queue, nextId, pipeline, stream, bearer, idle, hello, refusal, refused, answer>>
      /\ requests' = Tail(requests)
  BY DEF ServerCommits, clientVars
<1>7. TypeOK'
  BY <1>1, <1>3, <1>5, <1>6 DEF PipelineInv, TypeOK
<1>8. ResultIsOfFirst' /\ NoAssertFails'
  <2>1. responses \o <<>> = responses /\ responses' \o <<>> = responses'
    BY <1>1, <1>5, ConcatEmptySeq
  <2>2. responses \o requests = pipeline
    BY <1>1, <1>4, <2>1 DEF PipelineInv, ResultIsOfFirst
  <2>3. responses' \o refusal' \o requests' = pipeline'
    BY <1>1, <1>5, <1>6, <2>1, <2>2, HeadMoves
  <2>4. pipeline # <<>>
    BY <1>1, <2>2, ConcatSimplifications
  <2>5. queue[user] # <<>> /\ Head(pipeline) = Head(queue[user])
    BY <2>4, PipelineOfUser, TopFacts
  <2>6. QED
    BY <1>4, <1>6, <2>3, <2>4, <2>5 DEF PipelineInv, ResultIsOfFirst, NoAssertFails
<1>9. AnswersOnTheWay'
  <2>1. \A i \in 1..Len(responses') : i \in 1..Len(responses) \/ i = Len(responses) + 1
    BY <1>5
  <2>2. \A i \in 1..Len(responses') : responses'[i].write \in Committed'
    BY <1>3, <1>5, <2>1 DEF PipelineInv, AnswersOnTheWay
  <2>3. QED
    BY <1>6, <2>2 DEF PipelineInv, AnswersOnTheWay
<1>10. AcknowledgedIsCommitted' /\ PipelineIsPrefix' /\ QueuesSorted' /\ QueuesByAuthor' /\ BearerIsUser'
  BY <1>3, <1>6 DEF PipelineInv, AcknowledgedIsCommitted, PipelineIsPrefix, QueuesSorted,
     QueuesByAuthor, BearerIsUser
<1>11. CommittedAsAuthor'
  <2>1. Author[b.write] = user
    <3>1. responses \o requests = pipeline
      BY <1>1, <1>4, ConcatEmptySeq DEF PipelineInv, ResultIsOfFirst
    <3>2. /\ Len(responses) \in Nat /\ Len(requests) \in Nat \ {0} /\ b = requests[1]
          /\ (responses \o requests)[Len(responses) + 1] = requests[1]
          /\ Len(pipeline) = Len(responses) + Len(requests)
      BY <1>1, <3>1, EmptySeq, LenProperties, ConcatProperties
    <3>3. /\ Len(responses) + 1 \in 1..Top(queue[user])
          /\ pipeline[Len(responses) + 1] = queue[user][Len(responses) + 1]
          /\ Top(queue[user]) \in 0..Len(queue[user])
      <4> DEFINE q == queue[user]
      <4>1. q \in Seq(Batch) /\ pipeline = Prefix(q)
        BY PipelineOfUser
      <4> HIDE DEF q
      <4>2. /\ Top(q) \in 0..Len(q) /\ Len(pipeline) = Top(q) /\ Len(q) \in Nat
            /\ \A i \in 1..Top(q) : pipeline[i] = q[i]
        BY <4>1, TopFacts, BatchesOf
      <4>3. QED
        BY <3>2, <4>2 DEF q
    <3>4. user \in User /\ Len(queue[user]) \in Nat
      BY BatchesOf, PipelineOfUser DEF PipelineInv, TypeOK
    <3>5. Len(responses) + 1 \in 1..Len(queue[user])
      BY <3>3, <3>4
    <3>6. queue[user][Len(responses) + 1] = b
      BY <3>1, <3>2, <3>3
    <3>7. QED
      BY <3>4, <3>5, <3>6 DEF PipelineInv, QueuesByAuthor
  <2>2. /\ Len(log) \in Nat /\ Len(log') = Len(log) + 1 /\ log'[Len(log) + 1] = e
        /\ \A i \in 1..Len(log) : log'[i] = log[i]
    BY <1>2, LenProperties, AppendProperties DEF ServerCommits
  <2>3. ASSUME NEW k \in 1..Len(log') PROVE log'[k].as = Author[log'[k].write]
    <3>1. CASE k \in 1..Len(log)
      BY <2>2, <3>1 DEF PipelineInv, CommittedAsAuthor
    <3>2. CASE k = Len(log) + 1
      BY <1>4, <2>1, <2>2, <3>2
    <3>3. QED
      BY <2>2, <3>1, <3>2
  <2>4. QED
    BY <2>3 DEF CommittedAsAuthor
<1>12. QED
  BY <1>7, <1>8, <1>9, <1>10, <1>11 DEF PipelineInv

LEMMA RefuseStep ==
  ASSUME PipelineInv, ServerRefuses
  PROVE  PipelineInv'
<1> DEFINE b == Head(requests)
<1>1. /\ b \in Batch /\ Tail(requests) \in Seq(Batch)
      /\ requests \in Seq(Batch) /\ responses \in Seq(Batch) /\ requests # <<>> /\ refusal = <<>>
  BY HeadTailProperties DEF PipelineInv, TypeOK, ServerRefuses
<1>2. hello = "complete"
  BY <1>1 DEF PipelineInv, ResultIsOfFirst
<1>3. /\ UNCHANGED <<user, queue, nextId, pipeline, stream, bearer, idle, hello, responses, log, answer>>
      /\ requests' = Tail(requests) /\ refusal' = <<b>> /\ refused' = refused \cup {b.write}
  BY DEF ServerRefuses, clientVars
<1>4. refusal' \in Seq(Batch) /\ Len(refusal') = 1 /\ refusal'[1] = b
  BY <1>1, <1>3
<1>5. TypeOK'
  BY <1>1, <1>3, <1>4, BatchFields DEF PipelineInv, TypeOK
<1>6. ResultIsOfFirst' /\ NoAssertFails'
  <2>1. responses \o requests = pipeline
    BY <1>1, <1>2, ConcatEmptySeq DEF PipelineInv, ResultIsOfFirst
  <2>2. responses' \o refusal' \o requests' = pipeline'
    BY <1>1, <1>3, <2>1, HeadMoves
  <2>3. pipeline # <<>>
    BY <1>1, <2>1, ConcatSimplifications
  <2>4. queue[user] # <<>> /\ Head(pipeline) = Head(queue[user])
    BY <2>3, PipelineOfUser, TopFacts
  <2>5. QED
    BY <1>2, <1>3, <2>2, <2>3, <2>4 DEF PipelineInv, ResultIsOfFirst, NoAssertFails
<1>7. AnswersOnTheWay'
  BY <1>3, <1>4 DEF PipelineInv, AnswersOnTheWay, Committed
<1>8. /\ AcknowledgedIsCommitted' /\ PipelineIsPrefix' /\ QueuesSorted' /\ QueuesByAuthor'
      /\ BearerIsUser' /\ CommittedAsAuthor'
  BY <1>3 DEF PipelineInv, AcknowledgedIsCommitted, PipelineIsPrefix, QueuesSorted,
     QueuesByAuthor, BearerIsUser, CommittedAsAuthor, Committed
<1>9. QED
  BY <1>5, <1>6, <1>7, <1>8 DEF PipelineInv

\* A write to the call, or a result that leaves it, with the pipeline filled from
\* the queue q of the user, of which the first n batches were in it.
LEMMA FilledAndSent ==
  ASSUME NEW q \in Seq(Batch), Sorted(q), NEW n \in 0..Top(q), NEW r \in Seq(Batch),
         requests \in Seq(Batch), r \o requests = SubSeq(q, 1, n),
         FillAndSend(q, SubSeq(q, 1, n))
  PROVE  /\ pipeline' = Prefix(q) /\ requests' \in Seq(Batch) /\ r \o requests' = pipeline'
         /\ idle' = (q = <<>>) /\ stream' = stream
<1> DEFINE p == SubSeq(q, 1, n)
           added == SubSeq(Prefix(q), n + 1, Len(Prefix(q)))
<1>1. /\ p \in Seq(Batch) /\ Len(p) = n /\ Filled(q, p) = Prefix(q) /\ p \o added = Prefix(q)
      /\ Prefix(q) \in Seq(Batch) /\ (Prefix(q) = <<>> <=> q = <<>>)
  BY FilledIsPrefix, TopFacts
<1>2. added \in Seq(Batch)
  <2> DEFINE t == Prefix(q)
  <2>1. n \in Nat /\ Len(t) \in Nat /\ t \in Seq(Batch)
    BY <1>1, LenProperties, TopFacts
  <2> HIDE DEF t
  <2>2. \A i \in n + 1..Len(t) : t[i] \in Batch
    BY <2>1, BatchesOf
  <2>3. SubSeq(t, n + 1, Len(t)) \in Seq(Batch)
    BY <2>1, <2>2, SubSeqProperties
  <2>4. QED
    BY <2>3 DEF t
<1>3. pipeline' = Prefix(q) /\ requests' = requests \o added /\ stream' = stream
      /\ idle' = (pipeline' = <<>>)
  BY <1>1 DEF FillAndSend
<1>4. requests' \in Seq(Batch)
  BY <1>2, <1>3, ConcatProperties
<1>5. r \o requests' = pipeline'
  <2> HIDE DEF added
  <2>1. r \o (requests \o added) = (r \o requests) \o added
    BY <1>2, SendContinues
  <2>2. (r \o requests) \o added = Prefix(q)
    BY <1>1
  <2>3. QED
    BY <1>3, <2>1, <2>2
<1>6. QED
  BY <1>1, <1>3, <1>4, <1>5

LEMMA WriteStep ==
  ASSUME PipelineInv, NEW w \in Write, WriteMutations(w)
  PROVE  PipelineInv'
<1> DEFINE q == queue[user]
           b == [id |-> nextId, write |-> w]
           q2 == Append(q, b)
<1>1. /\ user \in User /\ nextId \in Nat /\ queue \in [User -> Seq(Batch)]
      /\ b \in Batch /\ b.id = nextId /\ b.write = w
      /\ q \in Seq(Batch) /\ Sorted(q) /\ pipeline = Prefix(q)
      /\ \A i \in 1..Len(q) : q[i].id < nextId
  BY PipelineOfUser DEF PipelineInv, TypeOK, Batch, QueuesSorted
<1>2. /\ q2 \in Seq(Batch) /\ Sorted(q2) /\ Len(q2) = Len(q) + 1 /\ q2[Len(q) + 1] = b
      /\ \A i \in 1..Len(q) : q2[i] = q[i]
      /\ Top(q) \in 0..Top(q2) /\ pipeline = SubSeq(q2, 1, Top(q)) /\ Len(q) \in Nat /\ q2 # <<>>
  <2> HIDE DEF b, q
  <2>1. \A i \in 1..Len(q) : q[i].id < b.id
    BY <1>1
  <2>2. /\ q2 \in Seq(Batch) /\ Sorted(q2) /\ Len(q2) = Len(q) + 1 /\ q2[Len(q) + 1] = b
        /\ \A i \in 1..Len(q) : q2[i] = q[i]
        /\ Top(q) \in 0..Top(q2) /\ Prefix(q) = SubSeq(q2, 1, Top(q))
    BY <1>1, <2>1, BatchAdded
  <2>3. Len(q) \in Nat /\ q2 # <<>>
    BY <1>1, AppendProperties, BatchesOf
  <2>4. QED
    BY <1>1, <2>2, <2>3
<1>3. /\ queue' = [queue EXCEPT ![user] = q2] /\ queue'[user] = q2 /\ nextId' = nextId + 1
      /\ answer' = [answer EXCEPT ![w] = "pending"] /\ Author[w] = user
      /\ UNCHANGED <<user, bearer, hello, responses, refusal, log, refused>>
  BY <1>1 DEF WriteMutations
<1>4. queue' \in [User -> Seq(Batch)] /\ \A u \in User : u # user => queue'[u] = queue[u]
  BY <1>1, <1>2, <1>3
<1>5. /\ pipeline' = Prefix(q2) /\ stream' \in StreamState /\ requests' \in Seq(Batch)
      /\ ResultIsOfFirst' /\ (stream' = "Open" <=> stream = "Open") /\ IsStarted(stream')
      /\ idle' = FALSE
  <2>1. CASE hello = "complete"
    <3>1. (responses \o refusal) \o requests = SubSeq(q2, 1, Top(q))
      BY <1>2, <2>1 DEF PipelineInv, ResultIsOfFirst
    <3>2. responses \o refusal \in Seq(Batch) /\ requests \in Seq(Batch)
      BY ConcatProperties DEF PipelineInv, TypeOK
    <3>3. FillAndSend(q2, SubSeq(q2, 1, Top(q)))
      BY <1>2, <1>3, <2>1 DEF WriteMutations
    <3> HIDE DEF q2
    <3>4. /\ pipeline' = Prefix(q2) /\ requests' \in Seq(Batch)
          /\ responses \o refusal \o requests' = pipeline'
          /\ idle' = (q2 = <<>>) /\ stream' = stream
      BY <1>2, <3>1, <3>2, <3>3, FilledAndSent
    <3>5. stream = "Open"
      BY <2>1 DEF PipelineInv, NoAssertFails
    <3>6. QED
      BY <1>2, <1>3, <2>1, <3>4, <3>5 DEF ResultIsOfFirst, IsStarted, StreamState
  <2>2. CASE hello # "complete"
    <3>1. FillAndStart(q2, SubSeq(q2, 1, Top(q)), stream)
      BY <1>2, <1>3, <2>2 DEF WriteMutations
    <3> HIDE DEF q2
    <3>2. pipeline' = Prefix(q2) /\ Prefix(q2) # <<>>
      BY <1>2, <3>1, FilledIsPrefix, TopFacts DEF FillAndStart
    <3>3. stream' = StartedFor(stream, pipeline') /\ UNCHANGED <<requests, idle>>
      BY <3>1 DEF FillAndStart
    <3>4. stream' \in StreamState /\ IsStarted(stream') /\ (stream' = "Open" <=> stream = "Open")
      BY <3>2, <3>3, StartedForFacts DEF PipelineInv, TypeOK
    <3>5. idle = FALSE
      BY <2>2 DEF PipelineInv, NoAssertFails, TypeOK
    <3>6. ResultIsOfFirst'
      BY <1>3, <2>2, <3>3 DEF PipelineInv, ResultIsOfFirst
    <3>7. QED
      BY <3>2, <3>3, <3>4, <3>5, <3>6 DEF PipelineInv, TypeOK
  <2>3. QED
    BY <2>1, <2>2
<1>6. TypeOK'
  <2>1. Prefix(q2) \in Seq(Batch)
    BY <1>2, TopFacts
  <2>2. answer' \in [Write -> {"new", "pending", "acknowledged", "rejected"}]
    BY <1>3 DEF PipelineInv, TypeOK
  <2> HIDE DEF q2
  <2>3. /\ bearer' \in User /\ hello' \in {"none", "sent", "complete"}
        /\ responses' \in Seq(Batch) /\ refusal' \in Seq(Batch) /\ Len(refusal') <= 1
        /\ log' \in Seq([write : Write, as : User]) /\ refused' \subseteq Write
    BY <1>3 DEF PipelineInv, TypeOK
  <2>4. nextId' \in Nat /\ user' \in User
    BY <1>1, <1>3
  <2>5. QED
    BY <1>4, <1>5, <2>1, <2>2, <2>3, <2>4 DEF TypeOK
<1>7. QueuesSorted'
  <2>1. ASSUME NEW u \in User, NEW i \in 1..Len(queue'[u]), NEW j \in 1..Len(queue'[u])
        PROVE  queue'[u][i].id < nextId' /\ (i < j => queue'[u][i].id < queue'[u][j].id)
    <3>1. CASE u = user
      <4>1. i \in 1..Len(q) \/ i = Len(q) + 1
        BY <1>2, <1>3, <2>1, <3>1
      <4>2. queue'[u][i].id <= nextId /\ queue'[u][i].id \in Nat
        BY <1>1, <1>2, <1>3, <3>1, <4>1, BatchesOf
      <4>3. QED
        BY <1>1, <1>2, <1>3, <2>1, <3>1, <4>2 DEF Sorted
    <3>2. CASE u # user
      <4>1. i \in 1..Len(queue[u]) /\ j \in 1..Len(queue[u]) /\ queue[u][i].id \in Nat
        BY <1>1, <1>4, <2>1, <3>2, BatchesOf
      <4>2. QED
        BY <1>1, <1>3, <1>4, <3>2, <4>1 DEF PipelineInv, QueuesSorted
    <3>3. QED
      BY <3>1, <3>2
  <2>2. QED
    BY <2>1 DEF QueuesSorted
<1>8. QueuesByAuthor'
  <2>1. ASSUME NEW u \in User, NEW i \in 1..Len(queue'[u]) PROVE Author[queue'[u][i].write] = u
    <3>1. CASE u = user /\ i = Len(q) + 1
      BY <1>1, <1>2, <1>3, <3>1
    <3>2. CASE u = user /\ i # Len(q) + 1
      <4>1. i \in 1..Len(q)
        BY <1>2, <1>3, <2>1, <3>2
      <4>2. QED
        BY <1>1, <1>2, <1>3, <3>2, <4>1 DEF PipelineInv, QueuesByAuthor
    <3>3. CASE u # user
      BY <1>4, <3>3 DEF PipelineInv, QueuesByAuthor
    <3>4. QED
      BY <3>1, <3>2, <3>3
  <2>2. QED
    BY <2>1 DEF QueuesByAuthor
<1>9. PipelineIsPrefix'
  BY <1>3, <1>5 DEF PipelineIsPrefix, Prefix, Top
<1>10. NoAssertFails'
  <2>1. Prefix(q2) # <<>> /\ Head(Prefix(q2)) = Head(q2)
    BY <1>2, TopFacts
  <2>2. QED
    BY <1>2, <1>3, <1>5, <2>1 DEF PipelineInv, NoAssertFails
<1>11. AnswersOnTheWay' /\ BearerIsUser' /\ CommittedAsAuthor' /\ AcknowledgedIsCommitted'
  BY <1>3, <1>5 DEF PipelineInv, AnswersOnTheWay, BearerIsUser, CommittedAsAuthor,
     AcknowledgedIsCommitted, Committed, TypeOK
<1>12. QED
  BY <1>5, <1>6, <1>7, <1>8, <1>9, <1>10, <1>11 DEF PipelineInv

\* The first batch of the pipeline leaves the queue.
LEMMA FrontLeaves ==
  ASSUME PipelineInv, pipeline # <<>>, UNCHANGED <<user, nextId>>,
         queue' = [queue EXCEPT ![user] = Without(@, Head(pipeline))]
  PROVE  /\ queue' \in [User -> Seq(Batch)] /\ queue'[user] = Tail(queue[user])
         /\ Sorted(Tail(queue[user])) /\ Tail(queue[user]) \in Seq(Batch)
         /\ Top(queue[user]) - 1 \in 0..Top(Tail(queue[user]))
         /\ Tail(pipeline) = SubSeq(Tail(queue[user]), 1, Top(queue[user]) - 1)
         /\ Head(pipeline) \in Batch
         /\ QueuesSorted' /\ QueuesByAuthor'
<1> DEFINE q == queue[user]
<1>1. /\ user \in User /\ queue \in [User -> Seq(Batch)]
      /\ q \in Seq(Batch) /\ Sorted(q) /\ pipeline = Prefix(q) /\ q # <<>> /\ Head(pipeline) = Head(q)
  BY PipelineOfUser, TopFacts DEF PipelineInv, TypeOK
<1>2. /\ Head(q) \in Batch /\ Tail(q) \in Seq(Batch) /\ Len(Tail(q)) = Len(q) - 1
      /\ \A j \in 1..Len(Tail(q)) : Tail(q)[j] = q[j + 1]
      /\ Without(q, Head(q)) = Tail(q) /\ Sorted(Tail(q))
      /\ Top(q) - 1 \in 0..Top(Tail(q))
      /\ Tail(Prefix(q)) = SubSeq(Tail(q), 1, Top(q) - 1) /\ Len(q) \in Nat
  BY <1>1, HeadLeaves, BatchesOf
<1>3. /\ queue' \in [User -> Seq(Batch)] /\ queue'[user] = Tail(q)
      /\ \A u \in User : u # user => queue'[u] = queue[u]
  BY <1>1, <1>2
<1>4. ASSUME NEW u \in User, NEW i \in 1..Len(queue'[u])
      PROVE  \E k \in 1..Len(queue[u]) : queue'[u][i] = queue[u][k]
  <2>1. CASE u = user
    <3>1. queue'[u] = Tail(q) /\ i \in 1..Len(Tail(q))
      BY <1>3, <1>4, <2>1
    <3>2. Tail(q)[i] = q[i + 1] /\ i + 1 \in 1..Len(q)
      BY <1>2, <3>1
    <3>3. QED
      BY <2>1, <3>1, <3>2
  <2>2. CASE u # user
    BY <1>3, <2>2
  <2>3. QED
    BY <2>1, <2>2
<1>5. QueuesSorted'
  <2>1. ASSUME NEW u \in User, NEW i \in 1..Len(queue'[u]), NEW j \in 1..Len(queue'[u])
        PROVE  queue'[u][i].id < nextId' /\ (i < j => queue'[u][i].id < queue'[u][j].id)
    <3>1. queue'[u][i].id < nextId'
      BY <1>4 DEF PipelineInv, QueuesSorted
    <3>2. CASE u = user
      BY <1>2, <1>3, <2>1, <3>1, <3>2 DEF Sorted
    <3>3. CASE u # user
      BY <1>3, <3>1, <3>3 DEF PipelineInv, QueuesSorted
    <3>4. QED
      BY <3>2, <3>3
  <2>2. QED
    BY <2>1 DEF QueuesSorted
<1>6. QueuesByAuthor'
  BY <1>4 DEF PipelineInv, QueuesByAuthor
<1>7. QED
  BY <1>1, <1>2, <1>3, <1>5, <1>6

LEMMA ResultStep ==
  ASSUME PipelineInv, OnWriteStreamMutationResult
  PROVE  PipelineInv'
<1> DEFINE q == queue[user]
           b == Head(pipeline)
           r == responses \o refusal
<1>1. /\ hello = "complete" /\ responses # <<>> /\ pipeline # <<>>
      /\ answer' = [answer EXCEPT ![b.write] = "acknowledged"]
      /\ queue' = [queue EXCEPT ![user] = Without(@, b)]
      /\ responses' = Tail(responses) /\ FillAndSend(queue'[user], Tail(pipeline))
      /\ UNCHANGED <<user, nextId, bearer, hello, refusal, log, refused>>
  BY DEF OnWriteStreamMutationResult
<1>2. /\ queue' \in [User -> Seq(Batch)] /\ queue'[user] = Tail(q)
      /\ Sorted(Tail(q)) /\ Tail(q) \in Seq(Batch) /\ Top(q) - 1 \in 0..Top(Tail(q))
      /\ Tail(pipeline) = SubSeq(Tail(q), 1, Top(q) - 1) /\ b \in Batch
      /\ QueuesSorted' /\ QueuesByAuthor'
  BY <1>1, FrontLeaves
<1>3. /\ responses \in Seq(Batch) /\ requests \in Seq(Batch) /\ refusal \in Seq(Batch)
      /\ r \in Seq(Batch) /\ Tail(responses) \in Seq(Batch) /\ Tail(responses) \o refusal \in Seq(Batch)
      /\ r \o requests = pipeline
  BY <1>1, ConcatProperties, HeadTailProperties DEF PipelineInv, TypeOK, ResultIsOfFirst
<1>4. /\ Tail(responses) \o refusal = Tail(r) /\ r # <<>> /\ Head(r) = Head(responses)
      /\ Tail(r) \o requests = Tail(pipeline) /\ b = Head(responses)
  <2>1. Tail(responses) \o refusal = Tail(r) /\ r # <<>> /\ Head(r) = Head(responses)
    BY <1>1, <1>3, TailOfConcat
  <2>2. Tail(r) \o requests = Tail(r \o requests) /\ Head(r \o requests) = Head(r)
    BY <1>3, <2>1, TailOfConcat
  <2>3. QED
    BY <1>3, <2>1, <2>2
<1>5. /\ pipeline' = Prefix(Tail(q)) /\ requests' \in Seq(Batch)
      /\ responses' \o refusal' \o requests' = pipeline'
      /\ idle' = (Tail(q) = <<>>) /\ stream' = stream
  <2> DEFINE t == Tail(q)
             n == Top(q) - 1
             v == Tail(responses) \o refusal
  <2>1. /\ t \in Seq(Batch) /\ Sorted(t) /\ n \in 0..Top(t) /\ v \in Seq(Batch)
        /\ v \o requests = SubSeq(t, 1, n) /\ FillAndSend(t, SubSeq(t, 1, n))
    BY <1>1, <1>2, <1>3, <1>4
  <2>2. responses' \o refusal' = v
    BY <1>1
  <2> HIDE DEF t, n, v
  <2>3. /\ pipeline' = Prefix(t) /\ requests' \in Seq(Batch) /\ v \o requests' = pipeline'
        /\ idle' = (t = <<>>) /\ stream' = stream
    BY <1>3, <2>1, FilledAndSent
  <2>4. QED
    BY <2>2, <2>3 DEF t
<1>6. stream = "Open" /\ Prefix(Tail(q)) \in Seq(Batch)
      /\ (Tail(q) # <<>> => Prefix(Tail(q)) # <<>> /\ Head(Prefix(Tail(q))) = Head(Tail(q)))
  BY <1>1, <1>2, TopFacts DEF PipelineInv, NoAssertFails
<1>7. TypeOK'
  <2>1. answer' \in [Write -> {"new", "pending", "acknowledged", "rejected"}]
    BY <1>1, <1>2, BatchFields DEF PipelineInv, TypeOK
  <2>2. responses' \in Seq(Batch) /\ stream' \in StreamState
    BY <1>1, <1>3, <1>5, <1>6 DEF StreamState
  <2>3. /\ user' \in User /\ bearer' \in User /\ nextId' \in Nat
        /\ hello' \in {"none", "sent", "complete"}
        /\ refusal' \in Seq(Batch) /\ Len(refusal') <= 1
        /\ log' \in Seq([write : Write, as : User]) /\ refused' \subseteq Write
    BY <1>1 DEF PipelineInv, TypeOK
  <2>4. QED
    BY <1>2, <1>5, <1>6, <2>1, <2>2, <2>3 DEF TypeOK
<1>8. PipelineIsPrefix' /\ ResultIsOfFirst' /\ BearerIsUser'
  BY <1>1, <1>2, <1>5 DEF PipelineInv, PipelineIsPrefix, ResultIsOfFirst, BearerIsUser, Prefix, Top
<1>9. NoAssertFails'
  <2>1. responses' \o refusal' # <<>> => pipeline' # <<>>
    <3>1. responses' \o refusal' \in Seq(Batch)
      BY <1>1, <1>3
    <3>2. QED
      BY <1>5, <3>1, ConcatSimplifications
  <2>2. pipeline' # <<>> <=> Tail(q) # <<>>
    BY <1>2, <1>5, TopFacts
  <2>3. QED
    BY <1>1, <1>2, <1>5, <1>6, <2>1, <2>2 DEF PipelineInv, NoAssertFails, IsStarted
<1>10. AnswersOnTheWay'
  <2>1. /\ Len(Tail(responses)) = Len(responses) - 1 /\ Len(responses) \in Nat
        /\ \A i \in 1..Len(Tail(responses)) : Tail(responses)[i] = responses[i + 1]
    BY <1>1, <1>3, HeadTailProperties, LenProperties
  <2>2. \A i \in 1..Len(responses') : responses'[i].write \in Committed'
    BY <1>1, <2>1 DEF PipelineInv, AnswersOnTheWay, Committed
  <2>3. QED
    BY <1>1, <2>2 DEF PipelineInv, AnswersOnTheWay
<1>11. AcknowledgedIsCommitted' /\ CommittedAsAuthor'
  <2>1. b.write \in Committed
    <3>1. Len(responses) \in Nat \ {0} /\ b = responses[1]
      BY <1>1, <1>3, <1>4, EmptySeq
    <3>2. QED
      BY <3>1 DEF PipelineInv, AnswersOnTheWay
  <2>2. \A w \in Write : answer'[w] = "acknowledged" => w = b.write \/ answer[w] = "acknowledged"
    BY <1>1 DEF PipelineInv, TypeOK
  <2>3. QED
    BY <1>1, <2>1, <2>2 DEF PipelineInv, AcknowledgedIsCommitted, CommittedAsAuthor, Committed
<1>12. QED
  BY <1>2, <1>7, <1>8, <1>9, <1>10, <1>11 DEF PipelineInv

LEMMA WriteErrorStep ==
  ASSUME PipelineInv, HandleWriteError
  PROVE  PipelineInv'
<1> DEFINE q == queue[user]
           b == Head(pipeline)
<1>1. /\ pipeline # <<>>
      /\ answer' = [answer EXCEPT ![b.write] = "rejected"]
      /\ queue' = [queue EXCEPT ![user] = Without(@, b)]
      /\ pipeline' = Filled(queue'[user], Tail(pipeline))
      /\ stream' = StartedFor("Initial", pipeline') /\ EndCall
      /\ UNCHANGED <<user, nextId, bearer, log, refused>>
  BY DEF HandleWriteError
<1>2. /\ queue' \in [User -> Seq(Batch)] /\ queue'[user] = Tail(q)
      /\ Sorted(Tail(q)) /\ Tail(q) \in Seq(Batch) /\ Top(q) - 1 \in 0..Top(Tail(q))
      /\ Tail(pipeline) = SubSeq(Tail(q), 1, Top(q) - 1) /\ b \in Batch
      /\ QueuesSorted' /\ QueuesByAuthor'
  BY <1>1, FrontLeaves
<1>3. pipeline' = Prefix(Tail(q))
  BY <1>1, <1>2, FilledIsPrefix
<1>4. stream' \in StreamState /\ stream' # "Open" /\ (pipeline' # <<>> => IsStarted(stream'))
  BY <1>1, StartedForFacts DEF StreamState
<1>5. user' \in User /\ queue'[user'] = Tail(q)
  BY <1>1, <1>2 DEF PipelineInv, TypeOK
<1>6. /\ PipelineIsPrefix' /\ ResultIsOfFirst' /\ NoAssertFails' /\ AnswersOnTheWay'
      /\ BearerIsUser' /\ pipeline' \in Seq(Batch)
  BY <1>1, <1>2, <1>3, <1>4, <1>5, WithoutCall
<1>7. TypeOK'
  <2>1. answer' \in [Write -> {"new", "pending", "acknowledged", "rejected"}]
    BY <1>1, <1>2, BatchFields DEF PipelineInv, TypeOK
  <2>2. /\ requests' \in Seq(Batch) /\ responses' \in Seq(Batch)
        /\ refusal' \in Seq(Batch) /\ Len(refusal') <= 1
        /\ hello' \in {"none", "sent", "complete"} /\ idle' \in BOOLEAN
    BY <1>1, CallEnded
  <2>3. QED
    BY <1>1, <1>2, <1>4, <1>6, <2>1, <2>2 DEF PipelineInv, TypeOK
<1>8. AcknowledgedIsCommitted' /\ CommittedAsAuthor'
  <2>1. \A w \in Write : answer'[w] = "acknowledged" => answer[w] = "acknowledged"
    BY <1>1 DEF PipelineInv, TypeOK
  <2>2. QED
    BY <1>1, <2>1 DEF PipelineInv, AcknowledgedIsCommitted, CommittedAsAuthor, Committed
<1>9. QED
  BY <1>2, <1>6, <1>7, <1>8 DEF PipelineInv

LEMMA ChangeStep ==
  ASSUME PipelineInv, NEW u \in User, CredentialDidChange(u) \/ Restart(u)
  PROVE  PipelineInv'
<1>1. /\ user' = u /\ pipeline' = Filled(queue[u], <<>>) /\ EndCall
      /\ nextId' = nextId \/ (nextId' \in Nat /\ IsNextBatchId(nextId'))
      /\ \E s \in StreamState \ {"Open"} : stream' = StartedFor(s, pipeline')
      /\ UNCHANGED <<queue, bearer, historyVars>>
  <2>1. stream \in StreamState /\ nextId \in Nat
    BY DEF PipelineInv, TypeOK
  <2>2. CASE CredentialDidChange(u)
    <3>1. (IF IsStarted(stream) THEN "Initial" ELSE stream) \in StreamState \ {"Open"}
      BY <2>1 DEF StreamState, IsStarted
    <3>2. stream' = StartedFor(IF IsStarted(stream) THEN "Initial" ELSE stream, pipeline')
      BY <2>2 DEF CredentialDidChange
    <3>3. nextId' = nextId \/ (nextId' \in Nat /\ IsNextBatchId(nextId'))
      BY <2>1, <2>2 DEF CredentialDidChange
    <3>4. QED
      BY <2>2, <3>1, <3>2, <3>3 DEF CredentialDidChange
  <2>3. CASE Restart(u)
    <3>1. "Initial" \in StreamState \ {"Open"}
      BY DEF StreamState
    <3>2. nextId' \in Nat /\ IsNextBatchId(nextId')
      BY <2>1, <2>3 DEF Restart
    <3>3. QED
      BY <2>3, <3>1, <3>2 DEF Restart
  <2>4. QED
    BY <2>2, <2>3
<1>2. queue[u] \in Seq(Batch) /\ pipeline' = Prefix(queue[u])
  BY <1>1, PipelineOfUser, FilledFromEmpty
<1>3. stream' \in StreamState /\ stream' # "Open" /\ (pipeline' # <<>> => IsStarted(stream'))
  BY <1>1, StartedForFacts
<1>4. /\ PipelineIsPrefix' /\ ResultIsOfFirst' /\ NoAssertFails' /\ AnswersOnTheWay'
      /\ BearerIsUser' /\ pipeline' \in Seq(Batch)
  BY <1>1, <1>2, <1>3, WithoutCall
<1>5. TypeOK'
  BY <1>1, <1>3, <1>4, CallEnded DEF PipelineInv, TypeOK, historyVars
<1>6. QueuesSorted'
  BY <1>1 DEF PipelineInv, QueuesSorted, IsNextBatchId
<1>7. QueuesByAuthor' /\ AcknowledgedIsCommitted' /\ CommittedAsAuthor'
  BY <1>1 DEF PipelineInv, QueuesByAuthor, AcknowledgedIsCommitted, CommittedAsAuthor,
     Committed, historyVars
<1>8. QED
  BY <1>4, <1>5, <1>6, <1>7 DEF PipelineInv

LEMMA StutterStep ==
  ASSUME PipelineInv, UNCHANGED vars
  PROVE  PipelineInv'
<1>1. UNCHANGED <<user, queue, nextId, pipeline, stream, bearer, idle, hello, requests, responses,
                  refusal, log, refused, answer>>
  BY DEF vars, clientVars, callVars, historyVars
<1>2. TypeOK' /\ QueuesSorted' /\ PipelineIsPrefix' /\ ResultIsOfFirst' /\ NoAssertFails'
  BY <1>1 DEF PipelineInv, TypeOK, QueuesSorted, PipelineIsPrefix, ResultIsOfFirst, NoAssertFails
<1>3. AnswersOnTheWay' /\ BearerIsUser'
  BY <1>1 DEF PipelineInv, AnswersOnTheWay, BearerIsUser, Committed
<1>4. QED
  BY <1>1, <1>2, <1>3, QueuesKept DEF PipelineInv, historyVars

LEMMA InvInit == Init => PipelineInv
<1> SUFFICES ASSUME Init PROVE PipelineInv
  OBVIOUS
<1>1. /\ <<>> \in Seq(Batch) /\ Len(<<>>) = 0 /\ <<>> \in Seq([write : Write, as : User])
      /\ \A u \in User : queue[u] = <<>>
  BY EmptySeq DEF Init
<1>2. TypeOK
  <2>1. queue \in [User -> Seq(Batch)]
    BY <1>1 DEF Init
  <2>2. answer \in [Write -> {"new", "pending", "acknowledged", "rejected"}]
    BY DEF Init
  <2>3. /\ requests \in Seq(Batch) /\ responses \in Seq(Batch) /\ pipeline \in Seq(Batch)
        /\ refusal \in Seq(Batch) /\ Len(refusal) <= 1 /\ log \in Seq([write : Write, as : User])
    BY <1>1 DEF Init
  <2>4. QED
    BY <2>1, <2>2, <2>3 DEF Init, TypeOK, StreamState
<1>3. PipelineIsPrefix
  <2>1. queue[user] = <<>> /\ pipeline = <<>>
    BY <1>1 DEF Init
  <2>2. SubSeq(<<>>, 1, 0) = <<>>
    BY SubSeqEmpty
  <2>3. QED
    BY <1>1, <2>1, <2>2, PipelineAssumption DEF PipelineIsPrefix
<1>4. ResultIsOfFirst /\ NoAssertFails /\ AnswersOnTheWay /\ BearerIsUser
  BY <1>1 DEF Init, ResultIsOfFirst, NoAssertFails, AnswersOnTheWay, BearerIsUser, IsStarted
<1>5. QueuesSorted /\ QueuesByAuthor /\ AcknowledgedIsCommitted /\ CommittedAsAuthor
  BY <1>1 DEF Init, QueuesSorted, QueuesByAuthor, AcknowledgedIsCommitted, CommittedAsAuthor
<1>6. QED
  BY <1>2, <1>3, <1>4, <1>5 DEF PipelineInv

LEMMA InvNext == PipelineInv /\ [Next]_vars => PipelineInv'
<1> SUFFICES ASSUME PipelineInv, [Next]_vars PROVE PipelineInv'
  OBVIOUS
<1>1. ASSUME NEW w \in Write, WriteMutations(w) PROVE PipelineInv'
  BY <1>1, WriteStep
<1>2. ASSUME NEW u \in User, CredentialDidChange(u) \/ Restart(u) PROVE PipelineInv'
  BY <1>2, ChangeStep
<1>3. CASE OnWriteStreamOpen(user)
  BY <1>3, OpenStep
<1>4. CASE OnWriteStreamHandshakeComplete
  BY <1>4, HandshakeStep
<1>5. CASE OnWriteStreamMutationResult
  BY <1>5, ResultStep
<1>6. CASE HandleWriteError
  BY <1>6, WriteErrorStep
<1>7. CASE OnStreamError
  BY <1>7, ErrorStep
<1>8. CASE BackoffElapsed
  BY <1>8, BackoffStep
<1>9. CASE IdleTimeout
  BY <1>9, IdleStep
<1>10. CASE ServerCommits
  BY <1>10, CommitStep
<1>11. CASE ServerRefuses
  BY <1>11, RefuseStep
<1>12. CASE UNCHANGED vars
  BY <1>12, StutterStep
<1>13. QED
  BY <1>1, <1>2, <1>3, <1>4, <1>5, <1>6, <1>7, <1>8, <1>9, <1>10, <1>11, <1>12 DEF Next

-----------------------------------------------------------------------------

\* The inductive invariant of the pipeline, for every queue, loss and kill.
THEOREM PipelineInvariant == Spec => []PipelineInv
<1>1. Init => PipelineInv
  BY InvInit
<1>2. PipelineInv /\ [Next]_vars => PipelineInv'
  BY InvNext
<1>3. QED
  BY <1>1, <1>2, PTL DEF Spec

\* Results and pipeline stay in step.
THEOREM ResultsMatch == Spec => []ResultIsOfFirst
<1>1. PipelineInv => ResultIsOfFirst
  BY DEF PipelineInv
<1>2. QED
  BY <1>1, PipelineInvariant, PTL

\* No assertion of the client fails.
THEOREM AssertionsHold == Spec => []NoAssertFails
<1>1. PipelineInv => NoAssertFails
  BY DEF PipelineInv
<1>2. QED
  BY <1>1, PipelineInvariant, PTL

\* An acknowledged write was committed.
THEOREM AcknowledgementsAreTrue == Spec => []AcknowledgedIsCommitted
<1>1. PipelineInv => AcknowledgedIsCommitted
  BY DEF PipelineInv
<1>2. QED
  BY <1>1, PipelineInvariant, PTL

\* No write is committed for another user.
THEOREM CommitsAreOfAuthors == Spec => []CommittedAsAuthor
<1>1. PipelineInv => CommittedAsAuthor
  BY DEF PipelineInv
<1>2. QED
  BY <1>1, PipelineInvariant, PTL

-----------------------------------------------------------------------------
(* The write pipeline implements the abstract queue of writes: every step of *)
(* it is a step of the queue, or changes neither queues nor server.          *)

\* The writes of a sequence of batches.
WritesOf(q) == [i \in 1..Len(q) |-> q[i].write]

Pending == [u \in User |-> [i \in 1..Len(queue[u]) |-> queue[u][i].write]]

LEMMA WritesAppended ==
  ASSUME NEW q \in Seq(Batch), NEW b \in Batch
  PROVE  WritesOf(Append(q, b)) = Append(WritesOf(q), b.write)
<1>1. /\ Len(q) \in Nat /\ Append(q, b) \in Seq(Batch) /\ Len(Append(q, b)) = Len(q) + 1
      /\ \A i \in 1..Len(q) : Append(q, b)[i] = q[i]
      /\ Append(q, b)[Len(q) + 1] = b
  BY LenProperties, AppendProperties
<1>2. \A s \in Seq(Batch) : WritesOf(s) \in Seq(Write) /\ Len(WritesOf(s)) = Len(s)
  BY BatchesOf, BatchFields DEF WritesOf
<1>3. /\ WritesOf(q) \in Seq(Write) /\ Len(WritesOf(q)) = Len(q) /\ b.write \in Write
      /\ WritesOf(Append(q, b)) \in Seq(Write) /\ Len(WritesOf(Append(q, b))) = Len(q) + 1
  BY <1>1, <1>2, BatchFields
<1>4. /\ Append(WritesOf(q), b.write) \in Seq(Write)
      /\ Len(Append(WritesOf(q), b.write)) = Len(q) + 1
      /\ \A i \in 1..Len(q) : Append(WritesOf(q), b.write)[i] = WritesOf(q)[i]
      /\ Append(WritesOf(q), b.write)[Len(q) + 1] = b.write
  BY <1>3, AppendProperties
<1>5. ASSUME NEW i \in 1..(Len(q) + 1)
      PROVE  WritesOf(Append(q, b))[i] = Append(WritesOf(q), b.write)[i]
  <2>1. WritesOf(Append(q, b))[i] = Append(q, b)[i].write
    BY <1>1 DEF WritesOf
  <2>2. CASE i \in 1..Len(q)
    BY <1>1, <1>4, <2>1, <2>2 DEF WritesOf
  <2>3. CASE i = Len(q) + 1
    BY <1>1, <1>4, <2>1, <2>3
  <2>4. Len(q) \in Nat
    BY <1>1
  <2>5. i \in 1..Len(q) \/ i = Len(q) + 1
    BY <2>4
  <2>6. QED
    BY <2>2, <2>3, <2>5
<1>6. QED
  <2>1. \A s, t \in Seq(Write) :
          Len(s) = Len(t) /\ (\A i \in 1..Len(s) : s[i] = t[i]) => s = t
    BY SeqEqual
  <2>2. QED
    BY <1>3, <1>4, <1>5, <2>1

LEMMA WritesFront ==
  ASSUME NEW q \in Seq(Batch), q # <<>>
  PROVE  /\ WritesOf(q) # <<>> /\ Head(WritesOf(q)) = Head(q).write
         /\ Tail(WritesOf(q)) = WritesOf(Tail(q))
<1>1. /\ Len(q) \in Nat \ {0} /\ Head(q) = q[1] /\ Tail(q) \in Seq(Batch)
      /\ Len(Tail(q)) = Len(q) - 1 /\ \A j \in 1..Len(Tail(q)) : Tail(q)[j] = q[j + 1]
  BY EmptySeq, LenProperties, HeadTailProperties
<1>2. \A s \in Seq(Batch) : WritesOf(s) \in Seq(Write) /\ Len(WritesOf(s)) = Len(s)
  BY BatchesOf, BatchFields DEF WritesOf
<1>3. WritesOf(q) \in Seq(Write) /\ Len(WritesOf(q)) = Len(q) /\ WritesOf(q) # <<>>
  BY <1>1, <1>2, EmptySeq
<1>4. /\ Head(WritesOf(q)) = WritesOf(q)[1] /\ Tail(WritesOf(q)) \in Seq(Write)
      /\ Len(Tail(WritesOf(q))) = Len(q) - 1
      /\ \A j \in 1..(Len(q) - 1) : Tail(WritesOf(q))[j] = WritesOf(q)[j + 1]
  BY <1>1, <1>3, HeadTailProperties
<1>5. WritesOf(q)[1] = q[1].write
  BY <1>1 DEF WritesOf
<1>6. ASSUME NEW j \in 1..(Len(q) - 1) PROVE Tail(WritesOf(q))[j] = WritesOf(Tail(q))[j]
  <2>1. j + 1 \in 1..Len(q)
    BY <1>1
  <2>2. WritesOf(q)[j + 1] = q[j + 1].write /\ WritesOf(Tail(q))[j] = Tail(q)[j].write
    BY <1>1, <2>1 DEF WritesOf
  <2>3. QED
    BY <1>1, <1>4, <2>2
<1>7. WritesOf(Tail(q)) \in Seq(Write) /\ Len(WritesOf(Tail(q))) = Len(q) - 1
  BY <1>1, <1>2
<1>8. QED
  BY <1>1, <1>3, <1>4, <1>5, <1>6, <1>7, SeqEqual

LEMMA PendingOf ==
  /\ \A u \in User : Pending[u] = WritesOf(queue[u])
  /\ \A u \in User : Pending'[u] = WritesOf(queue'[u])
BY DEF Pending, WritesOf

\* Where the call stands in the queue: what the server has to read next, or has
\* just refused, is the batch after those whose results are on their way.
LEMMA CallInQueue ==
  ASSUME PipelineInv, NEW s \in Seq(Batch), s # <<>>, pipeline = responses \o s
  PROVE  /\ user \in User /\ Len(responses) + 1 \in 1..Len(Pending[user])
         /\ Pending[user][Len(responses) + 1] = Head(s).write
         /\ Queues!Shown(user, Len(responses) + 1)
<1> DEFINE q == queue[user]
           n == Len(responses)
           b == Head(s)
<1>1. user \in User /\ responses \in Seq(Batch) /\ q \in Seq(Batch) /\ pipeline = Prefix(q)
  BY PipelineOfUser DEF PipelineInv, TypeOK
<1>2. /\ n \in Nat /\ Len(s) \in Nat \ {0} /\ Len(pipeline) = n + Len(s)
      /\ \A i \in 1..n : pipeline[i] = responses[i]
      /\ pipeline[n + 1] = b
  <2>1. n \in Nat /\ Len(s) \in Nat \ {0} /\ Head(s) = s[1]
    BY <1>1, EmptySeq, LenProperties
  <2>2. /\ Len(responses \o s) = n + Len(s)
        /\ \A i \in 1..(n + Len(s)) :
             (responses \o s)[i] = IF i <= n THEN responses[i] ELSE s[i - n]
    BY <1>1, <2>1, ConcatProperties
  <2>3. n + 1 \in 1..(n + Len(s)) /\ (n + 1) - n = 1
    BY <2>1
  <2>4. \A i \in 1..n : i \in 1..(n + Len(s))
    BY <2>1
  <2>5. QED
    BY <2>1, <2>2, <2>3, <2>4
<1>3. /\ Top(q) \in 0..Len(q) /\ Top(q) <= MaxPendingWrites /\ Len(q) \in Nat
      /\ Len(pipeline) = Top(q) /\ \A i \in 1..Top(q) : pipeline[i] = q[i]
  <2> HIDE DEF q
  <2>1. Len(q) \in Nat
    BY <1>1, BatchesOf
  <2>2. QED
    BY <1>1, <2>1, TopFacts, PipelineAssumption DEF Top
<1>4. n + 1 \in 1..Top(q) /\ n + 1 \in 1..Len(q) /\ n + 1 <= MaxPendingWrites
  BY <1>2, <1>3, PipelineAssumption
<1>5. Len(Pending[user]) = Len(q) /\ \A i \in 1..Len(q) : Pending[user][i] = q[i].write
  BY <1>1, <1>3 DEF Pending
<1>6. \A j \in 1..n : Pending[user][j] \in Committed
  <2>1. TAKE j \in 1..n
  <2>2. j \in 1..Top(q) /\ j \in 1..Len(q)
    BY <1>2, <1>3, <1>4
  <2>3. Pending[user][j] = responses[j].write
    BY <1>2, <1>3, <1>5, <2>2
  <2>4. QED
    BY <2>3 DEF PipelineInv, AnswersOnTheWay
<1>7. Pending[user][n + 1] = b.write
  BY <1>2, <1>3, <1>4, <1>5
<1>8. Queues!Shown(user, n + 1)
  <2>1. (n + 1) - 1 = n
    BY <1>2
  <2>2. QED
    BY <1>4, <1>5, <1>6, <2>1 DEF Queues!Shown, Queues!Committed, Committed, Pending
<1>9. QED
  BY <1>1, <1>4, <1>5, <1>7, <1>8

-----------------------------------------------------------------------------
(* Steps. *)

LEMMA QueuesStutter ==
  ASSUME UNCHANGED <<queue, log, refused, answer>>
  PROVE  UNCHANGED Queues!vars
BY DEF Queues!vars

LEMMA WriteIsIssue ==
  ASSUME PipelineInv, NEW w \in Write, WriteMutations(w)
  PROVE  Queues!Issue(w)
<1> DEFINE b == [id |-> nextId, write |-> w]
<1>1. /\ user \in User /\ queue \in [User -> Seq(Batch)] /\ queue[user] \in Seq(Batch)
      /\ b \in Batch
  BY DEF PipelineInv, TypeOK, Batch
<1>2. queue' = [queue EXCEPT ![user] = Append(@, b)] /\ Author[w] = user
  BY DEF WriteMutations
<1>3. WritesOf(queue'[user]) = Append(WritesOf(queue[user]), w)
  BY <1>1, <1>2, WritesAppended
<1>4. \A u \in User : u # user => queue'[u] = queue[u]
  BY <1>1, <1>2
<1>5. Pending' = [Pending EXCEPT ![Author[w]] = Append(@, w)]
  <2>1. Pending = [u \in User |-> WritesOf(queue[u])] /\ Pending' = [u \in User |-> WritesOf(queue'[u])]
    BY DEF Pending, WritesOf
  <2>2. QED
    BY <1>1, <1>2, <1>3, <1>4, <2>1
<1>6. QED
  BY <1>5 DEF Queues!Issue, Pending, WriteMutations

LEMMA CommitIsCommit ==
  ASSUME PipelineInv, ServerCommits
  PROVE  /\ user \in User /\ Len(responses) + 1 \in 1..Len(Pending[user])
         /\ Queues!Commit(user, Len(responses) + 1)
<1>1. hello = "complete" /\ requests # <<>> /\ refusal = <<>> /\ bearer = user
  BY DEF ServerCommits, PipelineInv, ResultIsOfFirst, NoAssertFails, BearerIsUser
<1>2. responses \in Seq(Batch) /\ requests \in Seq(Batch) /\ pipeline = responses \o requests
  BY <1>1, ConcatEmptySeq DEF PipelineInv, TypeOK, ResultIsOfFirst
<1>3. /\ user \in User /\ Len(responses) + 1 \in 1..Len(Pending[user])
      /\ Pending[user][Len(responses) + 1] = Head(requests).write
      /\ Queues!Shown(user, Len(responses) + 1)
  BY <1>1, <1>2, CallInQueue
<1>4. UNCHANGED <<queue, refused, answer>>
  BY DEF ServerCommits, clientVars
<1>5. QED
  BY <1>1, <1>3, <1>4 DEF Queues!Commit, ServerCommits, Pending

LEMMA RefuseIsRefuse ==
  ASSUME PipelineInv, ServerRefuses
  PROVE  /\ user \in User /\ Len(responses) + 1 \in 1..Len(Pending[user])
         /\ Queues!Refuse(user, Len(responses) + 1)
<1>1. hello = "complete" /\ requests # <<>> /\ refusal = <<>>
  BY DEF ServerRefuses, PipelineInv, ResultIsOfFirst
<1>2. responses \in Seq(Batch) /\ requests \in Seq(Batch) /\ pipeline = responses \o requests
  BY <1>1, ConcatEmptySeq DEF PipelineInv, TypeOK, ResultIsOfFirst
<1>3. /\ user \in User /\ Len(responses) + 1 \in 1..Len(Pending[user])
      /\ Pending[user][Len(responses) + 1] = Head(requests).write
      /\ Queues!Shown(user, Len(responses) + 1)
  BY <1>1, <1>2, CallInQueue
<1>4. UNCHANGED <<queue, log, answer>>
  BY DEF ServerRefuses, clientVars
<1>5. QED
  BY <1>3, <1>4 DEF Queues!Refuse, ServerRefuses, Pending

\* The first batch of the pipeline leaves the queue of the user.
LEMMA FrontOfQueue ==
  ASSUME PipelineInv, pipeline # <<>>, UNCHANGED <<user, nextId>>,
         queue' = [queue EXCEPT ![user] = Without(@, Head(pipeline))]
  PROVE  /\ user \in User /\ Pending[user] # <<>>
         /\ Head(Pending[user]) = Head(pipeline).write
         /\ Pending' = [Pending EXCEPT ![user] = Tail(@)]
<1>1. /\ user \in User /\ queue \in [User -> Seq(Batch)] /\ queue[user] \in Seq(Batch)
      /\ queue[user] # <<>> /\ Head(pipeline) = Head(queue[user])
  BY PipelineOfUser, TopFacts DEF PipelineInv, TypeOK
<1>2. /\ queue' \in [User -> Seq(Batch)] /\ queue'[user] = Tail(queue[user])
      /\ \A u \in User : u # user => queue'[u] = queue[u]
  BY <1>1, FrontLeaves
<1>3. /\ WritesOf(queue[user]) # <<>> /\ Head(WritesOf(queue[user])) = Head(queue[user]).write
      /\ Tail(WritesOf(queue[user])) = WritesOf(queue'[user])
  BY <1>1, <1>2, WritesFront
<1>4. Pending = [u \in User |-> WritesOf(queue[u])] /\ Pending' = [u \in User |-> WritesOf(queue'[u])]
  BY DEF Pending, WritesOf
<1>5. QED
  BY <1>1, <1>2, <1>3, <1>4

\* The first result on its way is that of the first batch, which is committed.
LEMMA ResultsOfFront ==
  ASSUME PipelineInv, hello = "complete", responses # <<>>
  PROVE  Head(pipeline).write \in Committed
<1> DEFINE r == responses \o refusal
<1>1. /\ responses \in Seq(Batch) /\ requests \in Seq(Batch) /\ refusal \in Seq(Batch)
      /\ r \in Seq(Batch) /\ r \o requests = pipeline
  BY ConcatProperties DEF PipelineInv, TypeOK, ResultIsOfFirst
<1>2. r # <<>> /\ Head(r) = Head(responses)
  BY <1>1, TailOfConcat
<1>3. Head(r \o requests) = Head(r)
  BY <1>1, <1>2, TailOfConcat
<1>4. Len(responses) \in Nat \ {0} /\ Head(pipeline) = responses[1]
  BY <1>1, <1>2, <1>3, EmptySeq
<1>5. QED
  BY <1>4 DEF PipelineInv, AnswersOnTheWay

LEMMA ResultIsAcknowledge ==
  ASSUME PipelineInv, OnWriteStreamMutationResult
  PROVE  user \in User /\ Queues!Acknowledge(user)
<1>1. /\ hello = "complete" /\ responses # <<>> /\ pipeline # <<>>
      /\ UNCHANGED <<user, nextId, log, refused>>
      /\ queue' = [queue EXCEPT ![user] = Without(@, Head(pipeline))]
      /\ answer' = [answer EXCEPT ![Head(pipeline).write] = "acknowledged"]
  BY DEF OnWriteStreamMutationResult
<1>2. /\ user \in User /\ Pending[user] # <<>>
      /\ Head(Pending[user]) = Head(pipeline).write
      /\ Pending' = [Pending EXCEPT ![user] = Tail(@)]
  BY <1>1, FrontOfQueue
<1>3. Head(pipeline).write \in Committed
  BY <1>1, ResultsOfFront
<1>4. QED
  BY <1>1, <1>2, <1>3 DEF Queues!Acknowledge, Queues!Committed, Committed, Pending

LEMMA ErrorIsReject ==
  ASSUME PipelineInv, HandleWriteError
  PROVE  user \in User /\ Queues!Reject(user)
<1>1. /\ refusal # <<>> /\ pipeline # <<>>
      /\ UNCHANGED <<user, nextId, log, refused>>
      /\ queue' = [queue EXCEPT ![user] = Without(@, Head(pipeline))]
      /\ answer' = [answer EXCEPT ![Head(pipeline).write] = "rejected"]
  BY DEF HandleWriteError
<1>2. /\ user \in User /\ Pending[user] # <<>>
      /\ Head(Pending[user]) = Head(pipeline).write
      /\ Pending' = [Pending EXCEPT ![user] = Tail(@)]
  BY <1>1, FrontOfQueue
<1>3. \E i \in 1..Len(Pending[user]) : Queues!Shown(user, i) /\ Pending[user][i] \in refused
  <2>1. hello = "complete" /\ responses \in Seq(Batch) /\ requests \in Seq(Batch)
        /\ refusal \in Seq(Batch) /\ pipeline = responses \o refusal \o requests
    BY <1>1 DEF PipelineInv, TypeOK, ResultIsOfFirst
  <2> DEFINE s == refusal \o requests
  <2>2. s \in Seq(Batch) /\ s # <<>> /\ Head(s) = refusal[1] /\ refusal[1].write \in refused
    <3>1. Len(refusal) \in Nat \ {0} /\ Len(requests) \in Nat
      BY <1>1, <2>1, EmptySeq, LenProperties
    <3>2. s \in Seq(Batch) /\ Len(s) = Len(refusal) + Len(requests) /\ s[1] = refusal[1]
      BY <2>1, <3>1, ConcatProperties
    <3>3. QED
      BY <3>1, <3>2, EmptySeq DEF PipelineInv, AnswersOnTheWay
  <2>3. pipeline = responses \o s
    BY <2>1, SendContinues
  <2> HIDE DEF s
  <2>4. /\ Len(responses) + 1 \in 1..Len(Pending[user])
        /\ Pending[user][Len(responses) + 1] = Head(s).write
        /\ Queues!Shown(user, Len(responses) + 1)
    BY <2>2, <2>3, CallInQueue
  <2>5. QED
    BY <2>2, <2>4
<1>4. QED
  BY <1>1, <1>2, <1>3 DEF Queues!Reject, Pending

LEMMA NextIsQueues == PipelineInv /\ [Next]_vars => [Queues!Next]_(Queues!vars)
<1> SUFFICES ASSUME PipelineInv, [Next]_vars PROVE [Queues!Next]_(Queues!vars)
  OBVIOUS
<1>1. ASSUME NEW w \in Write, WriteMutations(w) PROVE Queues!Next
  BY <1>1, WriteIsIssue DEF Queues!Next
<1>2. ASSUME ServerCommits PROVE Queues!Next
  BY <1>2, CommitIsCommit DEF Queues!Next, Pending
<1>3. ASSUME ServerRefuses PROVE Queues!Next
  BY <1>3, RefuseIsRefuse DEF Queues!Next, Pending
<1>4. ASSUME OnWriteStreamMutationResult PROVE Queues!Next
  <2>1. user \in User /\ Queues!Acknowledge(user)
    BY <1>4, ResultIsAcknowledge
  <2>2. \E u \in User : Queues!Acknowledge(u) \/ Queues!Reject(u)
    BY <2>1 DEF Queues!Acknowledge, Queues!Reject
  <2>3. QED
    BY <2>2 DEF Queues!Next
<1>5. ASSUME HandleWriteError PROVE Queues!Next
  <2>1. user \in User /\ Queues!Reject(user)
    BY <1>5, ErrorIsReject
  <2>2. \E u \in User : Queues!Acknowledge(u) \/ Queues!Reject(u)
    BY <2>1 DEF Queues!Acknowledge, Queues!Reject
  <2>3. QED
    BY <2>2 DEF Queues!Next
<1>6. ASSUME \/ OnWriteStreamOpen(user) \/ OnWriteStreamHandshakeComplete \/ OnStreamError
             \/ BackoffElapsed \/ IdleTimeout
             \/ \E u \in User : CredentialDidChange(u) \/ Restart(u)
             \/ UNCHANGED vars
      PROVE  UNCHANGED Queues!vars
  <2>1. UNCHANGED <<queue, log, refused, answer>>
    BY <1>6 DEF OnWriteStreamOpen, OnWriteStreamHandshakeComplete, OnStreamError, BackoffElapsed,
       IdleTimeout, CredentialDidChange, Restart, vars, clientVars, historyVars
  <2>2. QED
    BY <2>1, QueuesStutter
<1>7. QED
  BY <1>1, <1>2, <1>3, <1>4, <1>5, <1>6 DEF Next

-----------------------------------------------------------------------------

\* The pipeline keeps the promise of the queues: writes reach the server in the
\* order of the queue of their user and for that user, and are answered in that
\* order, acknowledged only when committed and dropped only after a refusal.
THEOREM PipelineImplementsQueue == Spec => ImplementsWriteQueue
<1>1. Init => Queues!Init
  <2>1. SUFFICES ASSUME Init PROVE Queues!Init
    OBVIOUS
  <2>2. \A u \in User : [i \in 1..Len(queue[u]) |-> queue[u][i].write] = <<>>
    <3>1. TAKE u \in User
    <3>2. queue[u] = <<>> /\ Len(queue[u]) = 0
      BY <2>1, EmptySeq DEF Init
    <3>3. QED
      BY <3>2
  <2>3. QED
    BY <2>1, <2>2 DEF Init, Queues!Init
<1>2. PipelineInv /\ [Next]_vars => [Queues!Next]_(Queues!vars)
  BY NextIsQueues
<1>3. QED
  BY <1>1, <1>2, PipelineInvariant, PTL DEF Spec, ImplementsWriteQueue, Queues!Spec

-----------------------------------------------------------------------------
(* The composition with FirebaseAuth makes only steps of the write pipeline: a *)
(* token that opens a stream is one of the client's user.                      *)

(* Items of the two queues. *)

LEMMA MainFields ==
  /\ \A x \in MainItem : /\ x.kind \in {"user", "token"} /\ x.user \in User
                         /\ x.kind = "token" => x.counter \in Nat /\ x.closes \in Nat
                         /\ x.kind = "user" => x \in Notice
  /\ \A u \in User : NoticeOf(u) \in MainItem /\ NoticeOf(u) \in WorkerItem
                     /\ NoticeOf(u).kind = "user" /\ NoticeOf(u).user = u
BY DEF MainItem, WorkerItem, Notice, NoticeOf

LEMMA WorkerFields ==
  /\ \A x \in WorkerItem : /\ x.kind \in {"user", "token"} /\ x.user \in User
                           /\ x.kind = "token" => x.closes \in Nat
  /\ \A x \in Notice : x \in WorkerItem
BY DEF WorkerItem, Notice

\* A queue with an item x more.
LEMMA Appended ==
  ASSUME NEW S, NEW s \in Seq(S), NEW x \in S
  PROVE  /\ Append(s, x) \in Seq(S) /\ Len(s) \in Nat /\ Len(Append(s, x)) = Len(s) + 1
         /\ \A i \in 1..Len(s) : Append(s, x)[i] = s[i]
         /\ Append(s, x)[Len(s) + 1] = x
         /\ \A i \in 1..(Len(s) + 1) : i \in 1..Len(s) \/ i = Len(s) + 1
BY LenProperties, AppendProperties

\* A queue without its first item.
LEMMA Taken ==
  ASSUME NEW S, NEW s \in Seq(S), s # <<>>
  PROVE  /\ Tail(s) \in Seq(S) /\ Head(s) \in S /\ Head(s) = s[1]
         /\ Len(s) \in Nat \ {0} /\ Len(Tail(s)) = Len(s) - 1
         /\ \A i \in 1..(Len(s) - 1) : Tail(s)[i] = s[i + 1]
BY EmptySeq, LenProperties, HeadTailProperties

\* A queue that ends with a notice of u.
LEMMA NoticeAdded ==
  ASSUME NEW s, NEW t, NEW n \in Nat, NEW v,
         t[n + 1].kind = "user", t[n + 1].user = v
  PROVE  LastNoticeIs(t, n + 1, v) /\ ~NoNotice(t, n + 1)
<1>1. ASSUME NEW i \in 1..(n + 1), \A j \in (i + 1)..(n + 1) : t[j].kind # "user"
      PROVE  t[i].user = v
  <2>1. n + 1 \notin (i + 1)..(n + 1)
    BY <1>1
  <2>2. i = n + 1
    BY <2>1
  <2>3. QED
    BY <2>2
<1>2. n + 1 \in 1..(n + 1)
  OBVIOUS
<1>3. QED
  BY <1>1, <1>2 DEF LastNoticeIs, NoNotice

\* A queue that ends with a token.
LEMMA TokenAdded ==
  ASSUME NEW s, NEW t, NEW n \in Nat, NEW v, \A i \in 1..n : t[i] = s[i],
         t[n + 1].kind # "user"
  PROVE  /\ LastNoticeIs(s, n, v) => LastNoticeIs(t, n + 1, v)
         /\ NoNotice(t, n + 1) <=> NoNotice(s, n)
<1>1. \A i \in 1..(n + 1) : i \in 1..n \/ i = n + 1
  OBVIOUS
<1>2. NoNotice(t, n + 1) <=> NoNotice(s, n)
  BY <1>1 DEF NoNotice
<1>3. ASSUME LastNoticeIs(s, n, v), NEW i \in 1..(n + 1), t[i].kind = "user",
             \A j \in (i + 1)..(n + 1) : t[j].kind # "user"
      PROVE  t[i].user = v
  <2>1. i \in 1..n /\ t[i] = s[i]
    BY <1>1, <1>3
  <2>2. \A j \in (i + 1)..n : j \in (i + 1)..(n + 1) /\ j \in 1..n
    BY <2>1
  <2>3. \A j \in (i + 1)..n : s[j].kind # "user"
    BY <1>3, <2>2
  <2>4. QED
    BY <1>3, <2>1, <2>3 DEF LastNoticeIs
<1>4. QED
  BY <1>2, <1>3 DEF LastNoticeIs

\* Two queues that agree on their first n items.
LEMMA SameItems ==
  ASSUME NEW s, NEW t, NEW n \in Nat, NEW v, \A i \in 1..n : t[i] = s[i]
  PROVE  (LastNoticeIs(s, n, v) <=> LastNoticeIs(t, n, v)) /\ (NoNotice(t, n) <=> NoNotice(s, n))
<1>1. \A i \in 1..n : \A j \in (i + 1)..n : j \in 1..n
  OBVIOUS
<1>2. QED
  BY <1>1 DEF LastNoticeIs, NoNotice

\* A queue t that is s without its first item.
LEMMA FirstTaken ==
  ASSUME NEW s, NEW t, NEW n \in Nat, NEW v, \A i \in 1..n : t[i] = s[i + 1],
         LastNoticeIs(s, n + 1, v)
  PROVE  /\ LastNoticeIs(t, n, v)
         /\ NoNotice(t, n) /\ s[1].kind = "user" => s[1].user = v
         /\ NoNotice(t, n) /\ s[1].kind # "user" => NoNotice(s, n + 1)
<1>1. ASSUME NEW i \in 1..n, t[i].kind = "user", \A j \in (i + 1)..n : t[j].kind # "user"
      PROVE  t[i].user = v
  <2>1. i + 1 \in 1..(n + 1) /\ t[i] = s[i + 1]
    OBVIOUS
  <2>2. ASSUME NEW j \in ((i + 1) + 1)..(n + 1) PROVE s[j].kind # "user"
    <3>1. j - 1 \in (i + 1)..n /\ j - 1 \in 1..n /\ (j - 1) + 1 = j
      OBVIOUS
    <3>2. t[j - 1] = s[j]
      BY <3>1
    <3>3. QED
      BY <1>1, <3>1, <3>2
  <2>3. QED
    BY <1>1, <2>1, <2>2 DEF LastNoticeIs
<1>2. ASSUME NoNotice(t, n), NEW j \in 2..(n + 1) PROVE s[j].kind # "user"
  <2>1. j - 1 \in 1..n /\ (j - 1) + 1 = j
    OBVIOUS
  <2>2. t[j - 1] = s[j]
    BY <2>1
  <2>3. QED
    BY <1>2, <2>1, <2>2 DEF NoNotice
<1>3. NoNotice(t, n) /\ s[1].kind = "user" => s[1].user = v
  <2>1. 1 \in 1..(n + 1) /\ 1 + 1 = 2
    OBVIOUS
  <2>2. QED
    BY <1>2, <2>1 DEF LastNoticeIs
<1>4. NoNotice(t, n) /\ s[1].kind # "user" => NoNotice(s, n + 1)
  <2>1. \A j \in 1..(n + 1) : j = 1 \/ j \in 2..(n + 1)
    OBVIOUS
  <2>2. QED
    BY <1>2, <2>1 DEF NoNotice
<1>5. QED
  BY <1>1, <1>3, <1>4 DEF LastNoticeIs

-----------------------------------------------------------------------------
(* Steps. *)

\* The parts of the invariant, for the steps that leave them alone.
TokensInMain ==
  \A i \in 1..Len(main) : main[i].kind = "token" =>
    /\ main[i].counter <= counter
    /\ main[i].counter = counter /\ NoNotice(main, i - 1) => UserAfter(Len(worker), main[i].user)

TokensInWorker ==
  \A i \in 1..Len(worker) : worker[i].kind = "token" /\ ~worker[i].aborted =>
    UserAfter(i - 1, worker[i].user)

FetchesRight ==
  \A f \in fetching :
    /\ f.counter <= counter
    /\ f.counter = counter /\ NoNotice(main, Len(main)) => f.user = current

NoticesRight ==
  /\ LastNoticeIs(main, Len(main), current)
  /\ NoNotice(main, Len(main)) => UserAfter(Len(worker), current)

LEMMA InvParts ==
  TokenInv <=> /\ TokenTypeOK /\ NoticesRight /\ FetchesRight /\ TokensInMain /\ TokensInWorker
               /\ \A r \in asked : r.counter <= counter
BY DEF TokenInv, NoticesRight, FetchesRight, TokensInMain, TokensInWorker

LEMMA QueueTypes ==
  ASSUME TokenInv
  PROVE  /\ current \in User /\ main \in Seq(MainItem) /\ worker \in Seq(WorkerItem)
         /\ Len(main) \in Nat /\ Len(worker) \in Nat /\ counter \in Nat /\ closes \in Nat
         /\ faults \in Nat /\ asked \subseteq Request /\ fetching \subseteq Fetch
         /\ \A i \in 1..Len(main) : main[i] \in MainItem
         /\ \A i \in 1..Len(worker) : worker[i] \in WorkerItem
BY LenProperties, ElementOfSeq DEF TokenInv, TokenTypeOK

\* A stream that starts asks with the counter of now.
LEMMA AskedWithCounter ==
  ASSUME TokenInv, NEW n \in Nat, StreamClosed(n), counter' = counter
  PROVE  /\ asked' \subseteq Request /\ closes' \in Nat
         /\ \A r \in asked' : r.counter <= counter'
BY DEF TokenInv, TokenTypeOK, StreamClosed, Request

\* The steps of the pipeline that neither take from a queue nor add to one.
LEMMA PipelineStepKeeps ==
  ASSUME TokenInv, NEW n \in Nat, StreamClosed(n), faults' \in Nat,
         UNCHANGED <<user, current, fetching, main, counter, worker>>
  PROVE  TokenInv'
<1>1. TokenTypeOK' /\ \A r \in asked' : r.counter <= counter'
  BY AskedWithCounter DEF TokenInv, TokenTypeOK
<1>2. NoticesRight' /\ FetchesRight' /\ TokensInMain' /\ TokensInWorker'
  BY InvParts DEF NoticesRight, FetchesRight, TokensInMain, TokensInWorker, UserAfter,
     LastNoticeIs, NoNotice
<1>3. QED
  BY <1>1, <1>2 DEF TokenInv, NoticesRight, FetchesRight, TokensInMain, TokensInWorker

\* A step that works off the first item of the worker queue: after each item the
\* client's user is the one it was to be.
LEMMA WorkerStepKeeps ==
  ASSUME TokenInv, NEW n \in Nat, StreamClosed(n), faults' \in Nat, ItemDone,
         UNCHANGED <<current, fetching, main, counter>>,
         user' = IF Head(worker).kind = "user" THEN Head(worker).user ELSE user
  PROVE  TokenInv'
<1>1. /\ worker' \in Seq(WorkerItem) /\ Head(worker) = worker[1]
      /\ Len(worker) \in Nat \ {0} /\ Len(worker') = Len(worker) - 1
      /\ \A i \in 1..(Len(worker) - 1) : worker'[i] = worker[i + 1]
  BY QueueTypes, Taken DEF ItemDone
<1>2. TokenTypeOK' /\ \A r \in asked' : r.counter <= counter'
  BY <1>1, AskedWithCounter DEF TokenInv, TokenTypeOK
<1>3. ASSUME NEW m \in 0..(Len(worker) - 1), NEW v, UserAfter(m + 1, v)
      PROVE  LastNoticeIs(worker', m, v) /\ (NoNotice(worker', m) => user' = v)
  <2>1. m \in Nat /\ \A i \in 1..m : worker'[i] = worker[i + 1]
    BY <1>1
  <2>2. LastNoticeIs(worker, m + 1, v)
    BY <1>3 DEF UserAfter
  <2>3. /\ LastNoticeIs(worker', m, v)
        /\ NoNotice(worker', m) /\ worker[1].kind = "user" => worker[1].user = v
        /\ NoNotice(worker', m) /\ worker[1].kind # "user" => NoNotice(worker, m + 1)
    BY <2>1, <2>2, FirstTaken
  <2>4. NoNotice(worker', m) => user' = v
    BY <1>1, <1>3, <2>3 DEF UserAfter
  <2>5. QED
    BY <2>3, <2>4
<1>4. Len(worker') \in 0..(Len(worker) - 1) /\ Len(worker') + 1 = Len(worker)
  BY <1>1
<1>5. NoticesRight' /\ FetchesRight' /\ TokensInMain'
  <2>1. \A v : UserAfter(Len(worker), v) => UserAfter(Len(worker), v)'
    BY <1>3, <1>4 DEF UserAfter
  <2>2. QED
    BY <2>1, InvParts DEF NoticesRight, FetchesRight, TokensInMain
<1>6. TokensInWorker'
  <2>1. ASSUME NEW i \in 1..Len(worker'), worker'[i].kind = "token", ~worker'[i].aborted
        PROVE  /\ LastNoticeIs(worker', i - 1, worker'[i].user)
               /\ NoNotice(worker', i - 1) => user' = worker'[i].user
    <3>1. /\ i + 1 \in 1..Len(worker) /\ worker'[i] = worker[i + 1] /\ i - 1 \in 0..(Len(worker) - 1)
          /\ (i + 1) - 1 = (i - 1) + 1
      BY <1>1
    <3>2. UserAfter((i - 1) + 1, worker[i + 1].user)
      BY <2>1, <3>1, InvParts DEF TokensInWorker
    <3>3. QED
      BY <1>3, <3>1, <3>2
  <2>2. QED
    BY <2>1 DEF TokensInWorker, UserAfter
<1>7. QED
  BY <1>2, <1>5, <1>6 DEF TokenInv, NoticesRight, FetchesRight, TokensInMain, TokensInWorker

\* A notice is put on the main queue when the user changes.
LEMMA UpdateStep ==
  ASSUME TokenInv, NEW u \in User, UpdateCurrentUser(u)
  PROVE  TokenInv'
<1>1. /\ main' = Append(main, NoticeOf(u)) /\ current' = u /\ faults' = faults + 1
      /\ UNCHANGED <<user, asked, fetching, counter, closes, worker>>
  BY DEF UpdateCurrentUser, Fault, vars, clientVars
<1>2. /\ main' \in Seq(MainItem) /\ Len(main') = Len(main) + 1 /\ Len(main) \in Nat
      /\ \A i \in 1..Len(main) : main'[i] = main[i]
      /\ main'[Len(main) + 1].kind = "user" /\ main'[Len(main) + 1].user = u
      /\ \A i \in 1..(Len(main) + 1) : i \in 1..Len(main) \/ i = Len(main) + 1
  BY <1>1, QueueTypes, Appended, MainFields
<1>3. TokenTypeOK' /\ \A r \in asked' : r.counter <= counter'
  BY <1>1, <1>2 DEF TokenInv, TokenTypeOK
<1>4. LastNoticeIs(main', Len(main'), current') /\ ~NoNotice(main', Len(main'))
  BY <1>1, <1>2, NoticeAdded
<1>5. NoticesRight' /\ FetchesRight'
  BY <1>1, <1>4, InvParts DEF NoticesRight, FetchesRight
<1>6. TokensInMain' /\ TokensInWorker'
  <2>1. ASSUME NEW i \in 1..Len(main), NoNotice(main', i - 1) PROVE NoNotice(main, i - 1)
    <3>1. \A j \in 1..(i - 1) : j \in 1..Len(main)
      BY <1>2
    <3>2. QED
      BY <1>2, <2>1, <3>1 DEF NoNotice
  <2>2. QED
    BY <1>1, <1>2, <2>1, InvParts DEF TokensInMain, TokensInWorker, UserAfter
<1>7. QED
  BY <1>3, <1>5, <1>6 DEF TokenInv, NoticesRight, FetchesRight, TokensInMain, TokensInWorker

LEMMA GetTokenStep ==
  ASSUME TokenInv, NEW r \in asked, GetToken(r)
  PROVE  TokenInv'
<1> DEFINE f == [counter |-> r.counter, closes |-> r.closes, user |-> current]
<1>1. /\ asked' = asked \ {r} /\ fetching' = fetching \cup {f}
      /\ UNCHANGED <<user, current, main, counter, closes, worker, faults>>
  BY DEF GetToken, vars, clientVars
<1>2. f \in Fetch /\ f.counter = r.counter /\ f.user = current
  BY QueueTypes DEF Request, Fetch
<1>3. TokenTypeOK' /\ \A s \in asked' : s.counter <= counter'
  BY <1>1, <1>2 DEF TokenInv, TokenTypeOK
<1>4. FetchesRight'
  BY <1>1, <1>2, InvParts DEF FetchesRight
<1>5. NoticesRight' /\ TokensInMain' /\ TokensInWorker'
  BY <1>1, InvParts DEF NoticesRight, TokensInMain, TokensInWorker, UserAfter
<1>6. QED
  BY <1>3, <1>4, <1>5 DEF TokenInv, NoticesRight, FetchesRight, TokensInMain, TokensInWorker

\* A token comes back: the refreshed token of the current user behind a notice,
\* any other where the requests' users are still told apart by the counter.
LEMMA FetchedStep ==
  ASSUME TokenInv, NEW f \in fetching, NEW refreshed \in BOOLEAN, TokenFetched(f, refreshed)
  PROVE  TokenInv'
<1> DEFINE t == [kind |-> "token", counter |-> f.counter, closes |-> f.closes, user |-> f.user]
           m == IF refreshed THEN Append(main, NoticeOf(f.user)) ELSE main
<1>1. /\ f \in Fetch /\ f.user \in User /\ t \in MainItem /\ t.kind = "token"
      /\ t.counter = f.counter /\ t.user = f.user /\ f.counter <= counter
  BY QueueTypes, InvParts DEF Fetch, MainItem, FetchesRight
<1>2. m \in Seq(MainItem)
  BY <1>1, QueueTypes, Appended, MainFields
<1>3. /\ main' = Append(m, t) /\ fetching' = fetching \ {f} /\ faults' \in Nat
      /\ UNCHANGED <<user, current, asked, counter, closes, worker>>
      /\ refreshed => f.user = current
  <2>1. /\ fetching' = fetching \ {f} /\ faults' \in Nat
        /\ UNCHANGED <<user, current, asked, counter, closes, worker>>
        /\ refreshed => f.user = current
    BY QueueTypes DEF TokenFetched, Fault, vars, clientVars
  <2>2. main \o (IF refreshed THEN <<NoticeOf(f.user)>> ELSE <<>>) = m
    <3>1. CASE refreshed
      BY <1>1, <3>1, QueueTypes, MainFields, AppendIsConcat
    <3>2. CASE ~refreshed
      BY <3>2, QueueTypes, ConcatEmptySeq
    <3>3. QED
      BY <3>1, <3>2
  <2>3. main' = m \o <<t>>
    BY <2>2 DEF TokenFetched
  <2>4. QED
    BY <1>1, <1>2, <2>1, <2>3, AppendIsConcat
<1>4. /\ Len(main) \in Nat /\ Len(m) \in Nat /\ Len(main) <= Len(m)
      /\ \A i \in 1..Len(main) : m[i] = main[i]
      /\ refreshed => Len(m) = Len(main) + 1 /\ m[Len(main) + 1].kind = "user"
                      /\ m[Len(main) + 1].user = current
      /\ ~refreshed => m = main
  BY <1>1, <1>3, QueueTypes, Appended, MainFields
<1>5. /\ main' \in Seq(MainItem) /\ Len(main') = Len(m) + 1
      /\ \A i \in 1..Len(m) : main'[i] = m[i]
      /\ main'[Len(m) + 1] = t
      /\ \A i \in 1..(Len(m) + 1) : i \in 1..Len(m) \/ i = Len(m) + 1
  BY <1>1, <1>2, <1>3, Appended
<1> HIDE DEF m, t
<1>6. TokenTypeOK' /\ \A s \in asked' : s.counter <= counter'
  BY <1>3, <1>5 DEF TokenInv, TokenTypeOK
<1>7. LastNoticeIs(m, Len(m), current) /\ (refreshed => ~NoNotice(m, Len(m)))
  <2>1. CASE refreshed
    BY <1>4, <2>1, NoticeAdded
  <2>2. CASE ~refreshed
    BY <1>4, <2>2, InvParts DEF NoticesRight
  <2>3. QED
    BY <2>1, <2>2
<1>8. /\ LastNoticeIs(main', Len(main'), current)
      /\ NoNotice(main', Len(main')) <=> NoNotice(m, Len(m))
  <2>1. main'[Len(m) + 1].kind # "user"
    BY <1>1, <1>5
  <2>2. QED
    BY <1>4, <1>5, <1>7, <2>1, TokenAdded
<1>9. NoNotice(m, Len(m)) => ~refreshed /\ NoNotice(main, Len(main))
  BY <1>4, <1>7
<1>10. NoticesRight' /\ FetchesRight'
  BY <1>3, <1>8, <1>9, InvParts DEF NoticesRight, FetchesRight, UserAfter
<1>11. TokensInWorker'
  BY <1>3, InvParts DEF TokensInWorker, UserAfter
<1>12. TokensInMain'
  <2>1. ASSUME NEW i \in 1..Len(main'), main'[i].kind = "token"
        PROVE  /\ main'[i].counter <= counter
               /\ main'[i].counter = counter /\ NoNotice(main', i - 1) =>
                    UserAfter(Len(worker), main'[i].user)
    <3>1. CASE i \in 1..Len(main)
      <4>1. main'[i] = main[i] /\ i \in 1..Len(m)
        BY <1>4, <1>5, <3>1
      <4>2. \A j \in 1..(i - 1) : main'[j] = main[j]
        BY <1>4, <1>5, <3>1
      <4>3. i - 1 \in Nat
        BY <3>1
      <4>4. NoNotice(main', i - 1) => NoNotice(main, i - 1)
        BY <4>2 DEF NoNotice
      <4>5. QED
        BY <2>1, <3>1, <4>1, <4>4, InvParts DEF TokensInMain
    <3>2. CASE i \in 1..Len(m) /\ i \notin 1..Len(main)
      <4>1. i = Len(main) + 1 /\ main'[i] = m[i] /\ m[i].kind = "user"
        BY <1>4, <1>5, <3>2
      <4>2. QED
        BY <2>1, <4>1
    <3>3. CASE i = Len(m) + 1
      <4>1. main'[i] = t /\ i - 1 = Len(m)
        BY <1>4, <1>5, <3>3
      <4>2. NoNotice(main', Len(m)) => NoNotice(m, Len(m))
        BY <1>4, <1>5, SameItems
      <4>3. f.counter = counter /\ NoNotice(main, Len(main)) => f.user = current
        BY InvParts DEF FetchesRight
      <4>4. NoNotice(main, Len(main)) => UserAfter(Len(worker), current)
        BY InvParts DEF NoticesRight
      <4>5. QED
        BY <1>1, <1>9, <4>1, <4>2, <4>3, <4>4
    <3>4. QED
      BY <1>5, <3>1, <3>2, <3>3
  <2>2. QED
    BY <1>3, <2>1 DEF TokensInMain, UserAfter
<1>13. QED
  BY <1>6, <1>10, <1>11, <1>12 DEF TokenInv, NoticesRight, FetchesRight, TokensInMain, TokensInWorker

\* The first item of the main queue goes to the worker.  Of a notice the counter
\* tells: no token on its way was asked for after it.
LEMMA HearNoticeStep ==
  ASSUME TokenInv, HearNotice
  PROVE  TokenInv'
<1> DEFINE x == Head(main)
<1>1. /\ x.kind = "user" /\ counter' = counter + 1 /\ worker' = Append(worker, x)
      /\ main' = Tail(main) /\ main # <<>>
      /\ UNCHANGED <<user, current, asked, fetching, closes, faults>>
  BY DEF HearNotice, vars, clientVars
<1>2. /\ main' \in Seq(MainItem) /\ x \in MainItem /\ x = main[1] /\ Len(main) \in Nat \ {0}
      /\ Len(main') = Len(main) - 1 /\ \A i \in 1..(Len(main) - 1) : main'[i] = main[i + 1]
      /\ Len(main') \in Nat /\ Len(main) = Len(main') + 1
  BY <1>1, QueueTypes, Taken
<1>3. /\ worker' \in Seq(WorkerItem) /\ Len(worker) \in Nat /\ Len(worker') = Len(worker) + 1
      /\ \A i \in 1..Len(worker) : worker'[i] = worker[i] /\ worker'[Len(worker) + 1] = x
      /\ worker'[Len(worker) + 1] = x
      /\ \A i \in 1..(Len(worker) + 1) : i \in 1..Len(worker) \/ i = Len(worker) + 1
  <2>1. x \in WorkerItem
    BY <1>1, <1>2, MainFields, WorkerFields
  <2>2. QED
    BY <1>1, <2>1, QueueTypes, Appended
<1>4. TokenTypeOK'
  BY <1>1, <1>2, <1>3, QueueTypes DEF TokenInv, TokenTypeOK
<1>5. counter \in Nat /\ \A s \in asked' : s.counter <= counter'
  <2>1. \A s \in asked : s.counter \in Nat /\ s.counter <= counter
    BY QueueTypes DEF TokenInv, Request
  <2>2. QED
    BY <1>1, <2>1, QueueTypes
<1>6. \A v : LastNoticeIs(worker', Len(worker'), x.user) /\ ~NoNotice(worker', Len(worker'))
  BY <1>1, <1>3, NoticeAdded
<1>7. NoticesRight'
  <2>1. LastNoticeIs(main, Len(main') + 1, current)
    BY <1>2, InvParts DEF NoticesRight
  <2>2. \A i \in 1..Len(main') : main'[i] = main[i + 1]
    BY <1>2
  <2>3. /\ LastNoticeIs(main', Len(main'), current)
        /\ NoNotice(main', Len(main')) /\ main[1].kind = "user" => main[1].user = current
    BY <1>2, <2>1, <2>2, FirstTaken
  <2>4. QED
    BY <1>1, <1>2, <1>6, <2>3 DEF NoticesRight, UserAfter
<1>8. FetchesRight'
  <2>1. \A f \in fetching : f.counter \in Nat /\ f.counter <= counter
    BY QueueTypes, InvParts DEF FetchesRight, Fetch
  <2>2. QED
    BY <1>1, <1>5, <2>1 DEF FetchesRight
<1>9. TokensInMain'
  <2>1. ASSUME NEW i \in 1..Len(main'), main'[i].kind = "token"
        PROVE  main'[i].counter \in Nat /\ main'[i].counter <= counter
    <3>1. i + 1 \in 1..Len(main) /\ main'[i] = main[i + 1]
      BY <1>2
    <3>2. QED
      BY <2>1, <3>1, QueueTypes, MainFields, InvParts DEF TokensInMain
  <2>2. QED
    BY <1>1, <1>5, <2>1 DEF TokensInMain
<1>10. TokensInWorker'
  <2>1. ASSUME NEW i \in 1..Len(worker'), worker'[i].kind = "token", ~worker'[i].aborted
        PROVE  /\ LastNoticeIs(worker', i - 1, worker'[i].user)
               /\ NoNotice(worker', i - 1) => user' = worker'[i].user
    <3>1. i \in 1..Len(worker) /\ worker'[i] = worker[i]
      BY <1>1, <1>3, <2>1
    <3>2. i - 1 \in Nat /\ \A j \in 1..(i - 1) : worker'[j] = worker[j]
      BY <1>3, <3>1
    <3>3. UserAfter(i - 1, worker[i].user)
      BY <2>1, <3>1, InvParts DEF TokensInWorker
    <3>4. QED
      BY <1>1, <3>1, <3>2, <3>3, SameItems DEF UserAfter
  <2>2. QED
    BY <2>1 DEF TokensInWorker, UserAfter
<1>11. QED
  BY <1>4, <1>5, <1>7, <1>8, <1>9, <1>10 DEF TokenInv, NoticesRight, FetchesRight, TokensInMain,
     TokensInWorker

\* A token asked for since the last notice is passed on as it is.
LEMMA HearTokenStep ==
  ASSUME TokenInv, HearToken
  PROVE  TokenInv'
<1> DEFINE t == Head(main)
           x == [kind |-> "token", closes |-> t.closes, user |-> t.user,
                 aborted |-> t.counter # counter]
<1>1. /\ t.kind = "token" /\ worker' = Append(worker, x) /\ main' = Tail(main) /\ main # <<>>
      /\ UNCHANGED <<user, current, asked, fetching, counter, closes, faults>>
  BY DEF HearToken, vars, clientVars
<1>2. /\ main' \in Seq(MainItem) /\ t \in MainItem /\ t = main[1] /\ Len(main) \in Nat \ {0}
      /\ Len(main') = Len(main) - 1 /\ \A i \in 1..(Len(main) - 1) : main'[i] = main[i + 1]
      /\ Len(main') \in Nat /\ Len(main) = Len(main') + 1
  BY <1>1, QueueTypes, Taken
<1>3. x \in WorkerItem /\ x.kind = "token" /\ x.user = t.user /\ x.aborted = (t.counter # counter)
  BY <1>1, <1>2, MainFields DEF WorkerItem
<1> HIDE DEF x
<1>4. /\ worker' \in Seq(WorkerItem) /\ Len(worker) \in Nat /\ Len(worker') = Len(worker) + 1
      /\ \A i \in 1..Len(worker) : worker'[i] = worker[i]
      /\ worker'[Len(worker) + 1] = x
      /\ \A i \in 1..(Len(worker) + 1) : i \in 1..Len(worker) \/ i = Len(worker) + 1
  BY <1>1, <1>3, QueueTypes, Appended
<1>5. TokenTypeOK' /\ \A s \in asked' : s.counter <= counter'
  BY <1>1, <1>2, <1>4 DEF TokenInv, TokenTypeOK
<1>6. ASSUME NEW v, UserAfter(Len(worker), v)
      PROVE  LastNoticeIs(worker', Len(worker'), v) /\ (NoNotice(worker', Len(worker')) => user' = v)
  <2>1. worker'[Len(worker) + 1].kind # "user"
    BY <1>3, <1>4
  <2>2. /\ LastNoticeIs(worker, Len(worker), v) => LastNoticeIs(worker', Len(worker) + 1, v)
        /\ NoNotice(worker', Len(worker) + 1) <=> NoNotice(worker, Len(worker))
    BY <1>4, <2>1, TokenAdded
  <2>3. QED
    BY <1>1, <1>4, <1>6, <2>2 DEF UserAfter
<1>7. NoNotice(main', Len(main')) => NoNotice(main, Len(main))
  <2>1. \A j \in 1..Len(main) : j = 1 \/ (j - 1 \in 1..(Len(main) - 1) /\ main'[j - 1] = main[j])
    BY <1>2
  <2>2. QED
    BY <1>1, <1>2, <2>1 DEF NoNotice
<1>8. LastNoticeIs(main', Len(main'), current)
  <2>1. LastNoticeIs(main, Len(main') + 1, current)
    BY <1>2, InvParts DEF NoticesRight
  <2>2. QED
    BY <1>2, <2>1, FirstTaken
<1>9. NoticesRight' /\ FetchesRight'
  BY <1>1, <1>6, <1>7, <1>8, InvParts DEF NoticesRight, FetchesRight, UserAfter
<1>10. TokensInMain'
  <2>1. ASSUME NEW i \in 1..Len(main'), main'[i].kind = "token"
        PROVE  /\ main'[i].counter <= counter
               /\ main'[i].counter = counter /\ NoNotice(main', i - 1) =>
                    UserAfter(Len(worker), main'[i].user)
    <3>1. i + 1 \in 1..Len(main) /\ main'[i] = main[i + 1] /\ (i + 1) - 1 = i /\ i - 1 \in Nat
      BY <1>2
    <3>2. ASSUME NoNotice(main', i - 1), NEW j \in 1..i PROVE main[j].kind # "user"
      <4>1. j = 1 \/ (j - 1 \in 1..(i - 1) /\ main'[j - 1] = main[j])
        BY <1>2
      <4>2. QED
        BY <1>1, <1>2, <3>2, <4>1 DEF NoNotice
    <3>3. NoNotice(main', i - 1) => NoNotice(main, (i + 1) - 1)
      BY <3>1, <3>2 DEF NoNotice
    <3>4. QED
      BY <2>1, <3>1, <3>3, InvParts DEF TokensInMain
  <2>2. QED
    BY <1>1, <1>6, <2>1 DEF TokensInMain, UserAfter
<1>11. TokensInWorker'
  <2>1. ASSUME NEW i \in 1..Len(worker'), worker'[i].kind = "token", ~worker'[i].aborted
        PROVE  /\ LastNoticeIs(worker', i - 1, worker'[i].user)
               /\ NoNotice(worker', i - 1) => user' = worker'[i].user
    <3>1. i - 1 \in Nat /\ \A j \in 1..(i - 1) : worker'[j] = worker[j]
      BY <1>4
    <3>2. UserAfter(i - 1, worker'[i].user)
      <4>1. CASE i \in 1..Len(worker)
        BY <1>4, <2>1, <4>1, InvParts DEF TokensInWorker
      <4>2. CASE i = Len(worker) + 1
        <5>0. worker'[i] = x
          BY <1>4, <4>2
        <5>1. t.counter = counter /\ worker'[i].user = t.user /\ i - 1 = Len(worker)
          <6>1. t.counter = counter
            BY <1>3, <2>1, <5>0
          <6>2. worker'[i].user = t.user
            BY <1>3, <5>0
          <6>3. QED
            BY <1>4, <4>2, <6>1, <6>2
        <5>2. 1 \in 1..Len(main) /\ NoNotice(main, 1 - 1)
          BY <1>2 DEF NoNotice
        <5>3. UserAfter(Len(worker), t.user)
          BY <1>1, <1>2, <5>1, <5>2, InvParts DEF TokensInMain
        <5>4. QED
          BY <5>1, <5>3
      <4>3. QED
        BY <1>4, <4>1, <4>2
    <3>3. QED
      BY <1>1, <3>1, <3>2, SameItems DEF UserAfter
  <2>2. QED
    BY <2>1 DEF TokensInWorker, UserAfter
<1>12. QED
  BY <1>5, <1>9, <1>10, <1>11 DEF TokenInv, NoticesRight, FetchesRight, TokensInMain, TokensInWorker

LEMMA RestartStep ==
  ASSUME TokenInv, NEW loaded \in BOOLEAN, RestartApp(loaded)
  PROVE  TokenInv'
<1> DEFINE u == IF loaded THEN current ELSE SignedOut
<1>1. /\ user' = u /\ current' = current /\ faults' \in Nat
      /\ fetching' = {} /\ counter' = 0 /\ worker' = <<>> /\ closes' = 0
      /\ asked' \subseteq {[counter |-> 0, closes |-> 0]}
      /\ (main' = <<>> /\ loaded) \/ main' = <<NoticeOf(current)>>
  BY QueueTypes DEF RestartApp, Restart, Fault
<1>2. /\ current \in User /\ Len(worker') = 0 /\ main' \in Seq(MainItem)
      /\ Len(main') \in {0, 1}
      /\ Len(main') = 0 => loaded
      /\ Len(main') = 1 => main'[1].kind = "user" /\ main'[1].user = current
  <2>1. current \in User /\ Len(worker') = 0
    BY <1>1, QueueTypes, EmptySeq
  <2>2. NoticeOf(current) \in MainItem /\ NoticeOf(current).kind = "user" /\ NoticeOf(current).user = current
    BY <2>1, MainFields
  <2>3. CASE main' = <<>> /\ loaded
    BY <2>1, <2>3, EmptySeq
  <2>4. CASE main' = <<NoticeOf(current)>>
    <3>1. main' \in Seq(MainItem) /\ Len(main') = 1 /\ main'[1] = NoticeOf(current)
      BY <2>2, <2>4
    <3>2. QED
      BY <2>1, <2>2, <3>1
  <2>5. QED
    BY <1>1, <2>3, <2>4
<1>3. TokenTypeOK' /\ \A s \in asked' : s.counter <= counter'
  BY <1>1, <1>2, EmptySeq DEF TokenTypeOK, Request
<1>4. NoticesRight'
  BY <1>1, <1>2 DEF NoticesRight, LastNoticeIs, NoNotice, UserAfter
<1>5. FetchesRight' /\ TokensInMain' /\ TokensInWorker'
  BY <1>1, <1>2 DEF FetchesRight, TokensInMain, TokensInWorker
<1>6. QED
  BY <1>3, <1>4, <1>5 DEF TokenInv, NoticesRight, FetchesRight, TokensInMain, TokensInWorker

LEMMA TokenInvInit == CredInit => TokenInv
<1> SUFFICES ASSUME CredInit PROVE TokenInv
  OBVIOUS
<1>1. /\ current = user /\ user \in User /\ asked = {} /\ fetching = {} /\ main = <<>>
      /\ worker = <<>> /\ counter = 0 /\ closes = 0 /\ faults = 0
      /\ Len(main) = 0 /\ Len(worker) = 0
  BY EmptySeq DEF CredInit, Init
<1>2. TokenTypeOK
  BY <1>1, EmptySeq DEF TokenTypeOK
<1>3. QED
  BY <1>1, <1>2 DEF TokenInv, LastNoticeIs, NoNotice, UserAfter

\* The worker's steps take the first item and tell the stream.
LEMMA WorkerSteps ==
  ASSUME TokenInv, WorkerStep \/ TokenFails
  PROVE  TokenInv'
<1>1. faults \in Nat /\ closes \in Nat
  BY QueueTypes
<1>2. CASE TokenDropped
  BY <1>1, <1>2, WorkerStepKeeps DEF TokenDropped, TokenArrives, StreamClosed, vars, clientVars
<1>3. CASE ResumeStartWithCredentials
  BY <1>1, <1>3, WorkerStepKeeps DEF ResumeStartWithCredentials, TokenArrives, StreamClosed,
     OnWriteStreamOpen
<1>5. CASE TokenFails
  BY <1>1, <1>5, WorkerStepKeeps DEF TokenFails, TokenArrives, OnStreamError, Fault
<1>6. CASE HearCredentialChange
  <2>1. (IF IsStarted(stream) THEN closes + 1 ELSE closes) \in Nat
    BY <1>1
  <2>2. QED
    BY <1>1, <1>6, <2>1, WorkerStepKeeps DEF HearCredentialChange, CredentialDidChange
<1>7. QED
  BY <1>2, <1>3, <1>5, <1>6 DEF WorkerStep

\* The steps of the pipeline that no token and no notice has a part in.
LEMMA OtherSteps ==
  ASSUME TokenInv, CallFails \/ AppWrites \/ ClientStep \/ ServerStep \/ ClosingStep
  PROVE  TokenInv'
<1>1. faults \in Nat /\ closes \in Nat /\ closes + 1 \in Nat /\ faults + 1 \in Nat
  BY QueueTypes
<1>2. CASE CallFails
  BY <1>1, <1>2, PipelineStepKeeps DEF CallFails, OnStreamError, Fault
<1>3. CASE AppWrites
  BY <1>1, <1>3, PipelineStepKeeps DEF AppWrites, WriteMutations, StreamKept, Undisturbed
<1>4. CASE ClientStep
  BY <1>1, <1>4, PipelineStepKeeps DEF ClientStep, OnWriteStreamHandshakeComplete,
     OnWriteStreamMutationResult, BackoffElapsed, clientVars, StreamKept, Undisturbed
<1>5. CASE ServerStep
  BY <1>1, <1>5, PipelineStepKeeps DEF ServerStep, ServerCommits, ServerRefuses, clientVars,
     StreamKept, Undisturbed
<1>6. CASE ClosingStep
  BY <1>1, <1>6, PipelineStepKeeps DEF ClosingStep, HandleWriteError, IdleTimeout, Undisturbed
<1>7. QED
  BY <1>2, <1>3, <1>4, <1>5, <1>6

LEMMA TokenInvNext == TokenInv /\ [CredNext]_allVars => TokenInv'
<1> SUFFICES ASSUME TokenInv, [CredNext]_allVars PROVE TokenInv'
  OBVIOUS
<1>1. ASSUME NEW u \in User, UpdateCurrentUser(u) PROVE TokenInv'
  BY <1>1, UpdateStep
<1>2. ASSUME NEW r \in asked, GetToken(r) PROVE TokenInv'
  BY <1>2, GetTokenStep
<1>3. ASSUME NEW f \in fetching, NEW refreshed \in BOOLEAN, TokenFetched(f, refreshed)
      PROVE  TokenInv'
  BY <1>3, FetchedStep
<1>4. CASE HearMain
  BY <1>4, HearNoticeStep, HearTokenStep DEF HearMain
<1>5. CASE WorkerStep \/ TokenFails
  BY <1>5, WorkerSteps
<1>6. CASE CallFails \/ AppWrites \/ ClientStep \/ ServerStep \/ ClosingStep
  BY <1>6, OtherSteps
<1>7. ASSUME NEW loaded \in BOOLEAN, RestartApp(loaded) PROVE TokenInv'
  BY <1>7, RestartStep
<1>8. CASE UNCHANGED allVars
  BY <1>8 DEF allVars, tokenVars, vars, clientVars, TokenInv, TokenTypeOK, LastNoticeIs, NoNotice,
     UserAfter
<1>9. QED
  BY <1>1, <1>2, <1>3, <1>4, <1>5, <1>6, <1>7, <1>8 DEF CredNext

\* The steps of the composition are steps of the pipeline.
LEMMA CredNextIsNext == TokenInv /\ [CredNext]_allVars => [Next]_vars
<1> SUFFICES ASSUME TokenInv, [CredNext]_allVars PROVE [Next]_vars
  OBVIOUS
<1>1. ASSUME ResumeStartWithCredentials PROVE Next
  <2>1. /\ worker # <<>> /\ Head(worker).kind = "token" /\ ~Head(worker).aborted
        /\ OnWriteStreamOpen(Head(worker).user)
    BY <1>1 DEF ResumeStartWithCredentials, TokenArrives
  <2>2. Head(worker) = worker[1] /\ 1 \in 1..Len(worker) /\ 1 - 1 = 0
    BY <2>1, QueueTypes, Taken
  <2>3. UserAfter(0, worker[1].user)
    BY <2>1, <2>2, InvParts DEF TokensInWorker
  <2>4. Head(worker).user = user
    BY <2>2, <2>3 DEF UserAfter, NoNotice
  <2>5. QED
    BY <2>1, <2>4 DEF Next
<1>2. CASE TokenFails \/ CallFails
  BY <1>2 DEF TokenFails, CallFails, Next
<1>3. CASE AppWrites
  BY <1>3 DEF AppWrites, Next
<1>4. CASE ClientStep \/ ServerStep \/ ClosingStep
  BY <1>4 DEF ClientStep, ServerStep, ClosingStep, Next
<1>5. ASSUME HearCredentialChange PROVE Next
  <2>1. worker # <<>> /\ CredentialDidChange(Head(worker).user)
    BY <1>5 DEF HearCredentialChange
  <2>2. Head(worker).user \in User
    BY <2>1, QueueTypes, Taken, WorkerFields
  <2>3. QED
    BY <2>1, <2>2 DEF Next
<1>6. ASSUME NEW loaded \in BOOLEAN, RestartApp(loaded) PROVE Next
  <2>1. (IF loaded THEN current ELSE SignedOut) \in User
    BY QueueTypes, SignedOutAssumption
  <2>2. QED
    BY <1>6, <2>1 DEF RestartApp, Next
<1>7. ASSUME \/ \E u \in User : UpdateCurrentUser(u)
             \/ \E r \in asked : GetToken(r)
             \/ \E f \in fetching, refreshed \in BOOLEAN : TokenFetched(f, refreshed)
             \/ HearMain \/ TokenDropped
             \/ UNCHANGED allVars
      PROVE  UNCHANGED vars
  BY <1>7 DEF UpdateCurrentUser, GetToken, TokenFetched, HearMain, HearNotice, HearToken,
     TokenDropped, allVars
<1>8. QED
  BY <1>1, <1>2, <1>3, <1>4, <1>5, <1>6, <1>7 DEF CredNext, WorkerStep

-----------------------------------------------------------------------------

\* Notices and tokens keep telling of the right users, whatever is refreshed,
\* lost or killed.
THEOREM TokenInvariant == CredSpec => []TokenInv
<1>1. CredInit => TokenInv
  BY TokenInvInit
<1>2. TokenInv /\ [CredNext]_allVars => TokenInv'
  BY TokenInvNext
<1>3. QED
  BY <1>1, <1>2, PTL DEF CredSpec

\* Composed with FirebaseAuth, the write pipeline behaves as it may.
THEOREM CredentialsImplementPipeline == CredSpec => ImplementsPipeline
<1>1. CredInit => Init
  BY DEF CredInit
<1>2. TokenInv /\ [CredNext]_allVars => [Next]_vars
  BY CredNextIsNext
<1>3. QED
  BY <1>1, <1>2, TokenInvariant, PTL DEF CredSpec, Spec, ImplementsPipeline

\* So no write is committed as another user, with the real queues and tokens.
THEOREM CommitsAreOfTheirAuthors == CredSpec => []CommittedAsAuthor
  BY CredentialsImplementPipeline, CommitsAreOfAuthors, PTL DEF ImplementsPipeline

\* And it keeps the promise of the queues of writes.
THEOREM CredentialsImplementQueue == CredSpec => ImplementsWriteQueue
  BY CredentialsImplementPipeline, PipelineImplementsQueue, PTL DEF ImplementsPipeline

=============================================================================
