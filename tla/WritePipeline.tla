--------------------------- MODULE WritePipeline ---------------------------
(***************************************************************************)
(* How the iOS Firestore client of src/ios/Pods gets the writes of its     *)
(* users to the server: the mutation queues in LevelDB, the write pipeline *)
(* of the RemoteStore, the write stream with its handshake, idle timer and *)
(* backoff, and the gRPC call beneath it.  All client steps run on one     *)
(* worker queue, one at a time.                                            *)
(*                                                                         *)
(* The server commits or refuses what it reads from the call.  It may end  *)
(* the call, or the connection may be lost, with answers on the way; the   *)
(* app may be killed at any time.  A call is opened with a token of the    *)
(* client's user: that this is so, Credentials shows.  The stream token is *)
(* left out: the handshake does not send it.  A batch stands for its       *)
(* mutations.                                                              *)
(***************************************************************************)
EXTENDS Integers, Sequences

CONSTANTS User,              \* user ids
          Write,             \* the writes the app ever issues
          Author,            \* Author[w]: the client's user when w is issued
          MaxPendingWrites   \* kMaxPendingWrites

ASSUME AuthorAssumption == Author \in [Write -> User]
ASSUME PipelineAssumption == MaxPendingWrites \in Nat \ {0}

VARIABLES user,      \* _currentUser of the sync engine
          queue,     \* queue[u]: the batches of u in LevelDB, by batch id
          nextId,    \* next_batch_id_ of the queue in use
          pipeline,  \* write_pipeline_: batches sent or about to be
          stream,    \* state_ of the write stream
          bearer,    \* the user whose token opened the stream
          hello,     \* the handshake; handshake_complete_ is "complete"
          idle,      \* the idle timer is set
          requests,  \* batches written to the call that the server has not read
          responses, \* batches committed whose result the client has not read
          refusal,   \* the batch the server ended the call for, if any
          log,       \* what the server committed, and as whom (history)
          refused,   \* writes the server refused (history)
          answer     \* answer[w]: what the app was told of w (history)

clientVars == <<user, queue, nextId, pipeline, stream, bearer, idle>>
callVars == <<hello, requests, responses, refusal>>
historyVars == <<log, refused, answer>>
vars == <<clientVars, callVars, historyVars>>

Batch == [id : Nat, write : Write]

StreamState == {"Initial", "Starting", "Open", "Error", "Backoff"}

IsStarted(s) == s \in {"Starting", "Backoff", "Open"}

Committed == {log[k].write : k \in 1..Len(log)}

-----------------------------------------------------------------------------
(* The mutation queue: a table sorted by batch id. *)

\* The number of rows of q with an id up to i.
Seek(q, i) ==
  CHOOSE n \in 0..Len(q) : \A j \in 1..Len(q) : q[j].id <= i <=> j <= n

\* q without the batch b.
Without(q, b) ==
  LET n == Seek(q, b.id) IN SubSeq(q, 1, n - 1) \o SubSeq(q, n + 1, Len(q))

\* Wrong: only the rows of one user are looked at.
IsNextBatchIdOfOne(n) ==
  \E u \in User :
    /\ \A j \in 1..Len(queue[u]) : queue[u][j].id < n
    /\ n = 0 \/ \E j \in 1..Len(queue[u]) : queue[u][j].id = n - 1

\* n is the id that follows those of all users.
IsNextBatchId(n) ==
  /\ \A u \in User : \A j \in 1..Len(queue[u]) : queue[u][j].id < n
  /\ n = 0 \/ \E u \in User : \E j \in 1..Len(queue[u]) : queue[u][j].id = n - 1

-----------------------------------------------------------------------------
(* The write pipeline. *)

\* The pipeline p with as many of the batches of q that follow it as it has room for.
Filled(q, p) ==
  LET n == Seek(q, IF p = <<>> THEN -1 ELSE p[Len(p)].id)
      m == n + MaxPendingWrites - Len(p)
  IN  p \o SubSeq(q, n + 1, IF m < Len(q) THEN m ELSE Len(q))

\* The state of a stream that was in state s and is started if p needs it.
StartedFor(s, p) ==
  CASE p # <<>> /\ s = "Initial" -> "Starting"
    [] p # <<>> /\ s = "Error" -> "Backoff"
    [] OTHER -> s

\* Wrong: a write does not cancel the idle timer.
FillAndSendIdling(q, p) ==
  /\ pipeline' = Filled(q, p)
  /\ requests' = requests \o SubSeq(pipeline', Len(p) + 1, Len(pipeline'))
  /\ idle' = (idle \/ pipeline' = <<>>)
  /\ stream' = stream

\* The pipeline p is filled from q on an open stream after the handshake:
\* what is added is written to the call, an empty pipeline sets the idle timer.
FillAndSend(q, p) ==
  /\ pipeline' = Filled(q, p)
  /\ requests' = requests \o SubSeq(pipeline', Len(p) + 1, Len(pipeline'))
  /\ idle' = (pipeline' = <<>>)
  /\ stream' = stream

\* The pipeline p is filled from q on a stream in state s that has no call yet,
\* or only begins its handshake.
FillAndStart(q, p, s) ==
  /\ pipeline' = Filled(q, p)
  /\ stream' = StartedFor(s, pipeline')
  /\ UNCHANGED <<requests, idle>>

\* Wrong: a result that has come off the call is still delivered.
EndCallDelivering ==
  /\ hello' = "none" /\ requests' = <<>> /\ refusal' = <<>>
  /\ UNCHANGED responses
  /\ idle' = FALSE

\* The call is over: nothing on its way arrives any more.
EndCall ==
  /\ hello' = "none" /\ requests' = <<>> /\ responses' = <<>> /\ refusal' = <<>>
  /\ idle' = FALSE

-----------------------------------------------------------------------------
(* The client's own steps. *)

\* The app issues w: the batch is persisted, then the pipeline is filled.
WriteMutations(w) ==
  /\ answer[w] = "new" /\ Author[w] = user
  /\ queue' = [queue EXCEPT ![user] = Append(@, [id |-> nextId, write |-> w])]
  /\ nextId' = nextId + 1
  /\ answer' = [answer EXCEPT ![w] = "pending"]
  /\ IF hello = "complete"
     THEN FillAndSend(queue'[user], pipeline)
     ELSE FillAndStart(queue'[user], pipeline, stream)
  /\ UNCHANGED <<user, bearer, hello, responses, refusal, log, refused>>

\* A token of user t arrived: the call is started and the handshake written.
OnWriteStreamOpen(t) ==
  /\ stream = "Starting"
  /\ stream' = "Open" /\ hello' = "sent" /\ bearer' = t
  /\ UNCHANGED <<user, queue, nextId, pipeline, idle, requests, responses, refusal,
                 historyVars>>

\* Wrong: the first batch is taken for sent.
HandshakeCompleteAfterFirst ==
  /\ hello = "sent"
  /\ hello' = "complete"
  /\ requests' = requests \o SubSeq(pipeline, 2, Len(pipeline))
  /\ UNCHANGED <<clientVars, responses, refusal, historyVars>>

\* The server answers the handshake: the pipeline is sent, from its beginning.
OnWriteStreamHandshakeComplete ==
  /\ hello = "sent"
  /\ hello' = "complete"
  /\ requests' = requests \o pipeline
  /\ UNCHANGED <<clientVars, responses, refusal, historyVars>>

\* Wrong: the pipeline is not filled again.
OnWriteStreamMutationResultOnly ==
  /\ hello = "complete" /\ responses # <<>>
  /\ pipeline # <<>>
  /\ LET b == Head(pipeline)
     IN  /\ answer' = [answer EXCEPT ![b.write] = "acknowledged"]
         /\ queue' = [queue EXCEPT ![user] = Without(@, b)]
  /\ responses' = Tail(responses)
  /\ pipeline' = Tail(pipeline) /\ idle' = (pipeline' = <<>>)
  /\ UNCHANGED <<user, nextId, bearer, stream, hello, requests, refusal, log, refused>>

\* A result is read.  It is taken for that of the first batch of the pipeline,
\* which leaves the queue; then the pipeline is filled.
OnWriteStreamMutationResult ==
  /\ hello = "complete" /\ responses # <<>>
  /\ pipeline # <<>>
  /\ LET b == Head(pipeline)
     IN  /\ answer' = [answer EXCEPT ![b.write] = "acknowledged"]
         /\ queue' = [queue EXCEPT ![user] = Without(@, b)]
  /\ responses' = Tail(responses)
  /\ FillAndSend(queue'[user], Tail(pipeline))
  /\ UNCHANGED <<user, nextId, bearer, hello, refusal, log, refused>>

\* Wrong: any error drops the first batch.
HandleAnyError ==
  /\ hello = "complete"
  /\ pipeline # <<>>
  /\ LET b == Head(pipeline)
     IN  /\ answer' = [answer EXCEPT ![b.write] = "rejected"]
         /\ queue' = [queue EXCEPT ![user] = Without(@, b)]
  /\ pipeline' = Filled(queue'[user], Tail(pipeline))
  /\ stream' = StartedFor("Initial", pipeline')
  /\ EndCall
  /\ UNCHANGED <<user, nextId, bearer, log, refused>>

\* The status of a call the server ended is a permanent error: the first batch
\* of the pipeline is dropped, without backoff.  The status arrives when every
\* result has been read, or as soon as a write to the ended call fails.
HandleWriteError ==
  /\ refusal # <<>>
  /\ responses = <<>> \/ requests # <<>>
  /\ pipeline # <<>>
  /\ LET b == Head(pipeline)
     IN  /\ answer' = [answer EXCEPT ![b.write] = "rejected"]
         /\ queue' = [queue EXCEPT ![user] = Without(@, b)]
  /\ pipeline' = Filled(queue'[user], Tail(pipeline))
  /\ stream' = StartedFor("Initial", pipeline')
  /\ EndCall
  /\ UNCHANGED <<user, nextId, bearer, log, refused>>

\* The stream fails with an error that is not about a write: the connection is
\* lost, the server is busy or rejects the handshake, the token is refused or
\* could not be had.  A stream that is still needed backs off.  A call that the
\* server ends with status OK, and a response that cannot be parsed, are left out.
OnStreamError ==
  /\ stream \in {"Starting", "Open"}
  /\ stream' = StartedFor("Error", pipeline)
  /\ EndCall
  /\ UNCHANGED <<user, queue, nextId, pipeline, bearer, historyVars>>

BackoffElapsed ==
  /\ stream = "Backoff"
  /\ stream' = "Starting"
  /\ UNCHANGED <<user, queue, nextId, pipeline, bearer, idle, callVars, historyVars>>

\* The stream has been idle for a minute: it is stopped.
IdleTimeout ==
  /\ idle
  /\ stream' = "Initial"
  /\ EndCall
  /\ UNCHANGED <<user, queue, nextId, pipeline, bearer, historyVars>>

\* Wrong: the pipeline is not emptied.
CredentialDidChangeKeepingPipeline(u) ==
  /\ user' = u
  /\ IF u = user THEN nextId' = nextId
     ELSE nextId' \in {n \in 0..nextId : IsNextBatchId(n)}
  /\ pipeline' = Filled(queue[u], pipeline)
  /\ stream' = StartedFor(IF IsStarted(stream) THEN "Initial" ELSE stream, pipeline')
  /\ EndCall
  /\ UNCHANGED <<queue, bearer, historyVars>>

\* The worker hears that u is signed in: the queue of u replaces that of the
\* user before, the stream is stopped, the pipeline emptied and filled again.
CredentialDidChange(u) ==
  /\ user' = u
  /\ IF u = user THEN nextId' = nextId
     ELSE nextId' \in {n \in 0..nextId : IsNextBatchId(n)}
  /\ pipeline' = Filled(queue[u], <<>>)
  /\ stream' = StartedFor(IF IsStarted(stream) THEN "Initial" ELSE stream, pipeline')
  /\ EndCall
  /\ UNCHANGED <<queue, bearer, historyVars>>

\* The app is killed and started again by u: only the queues are left.
Restart(u) ==
  /\ user' = u
  /\ nextId' \in {n \in 0..nextId : IsNextBatchId(n)}
  /\ pipeline' = Filled(queue[u], <<>>)
  /\ stream' = StartedFor("Initial", pipeline')
  /\ EndCall
  /\ UNCHANGED <<queue, bearer, historyVars>>

-----------------------------------------------------------------------------
(* The server. *)

ServerCommits ==
  /\ requests # <<>> /\ refusal = <<>>
  /\ log' = Append(log, [write |-> Head(requests).write, as |-> bearer])
  /\ responses' = Append(responses, Head(requests))
  /\ requests' = Tail(requests)
  /\ UNCHANGED <<clientVars, hello, refusal, refused, answer>>

\* The server refuses a batch for good and ends the call.
ServerRefuses ==
  /\ requests # <<>> /\ refusal = <<>>
  /\ refused' = refused \cup {Head(requests).write}
  /\ refusal' = <<Head(requests)>>
  /\ requests' = Tail(requests)
  /\ UNCHANGED <<clientVars, hello, responses, log, answer>>

-----------------------------------------------------------------------------

Init ==
  /\ user \in User
  /\ queue = [u \in User |-> <<>>]
  /\ nextId = 0
  /\ pipeline = <<>>
  /\ stream = "Initial"
  /\ bearer = user
  /\ hello = "none"
  /\ idle = FALSE
  /\ requests = <<>> /\ responses = <<>> /\ refusal = <<>>
  /\ log = <<>> /\ refused = {}
  /\ answer = [w \in Write |-> "new"]

Next ==
  \/ \E w \in Write : WriteMutations(w)
  \/ OnWriteStreamOpen(user)
  \/ OnWriteStreamHandshakeComplete
  \/ OnWriteStreamMutationResult
  \/ HandleWriteError
  \/ OnStreamError
  \/ BackoffElapsed
  \/ IdleTimeout
  \/ \E u \in User : CredentialDidChange(u) \/ Restart(u)
  \/ ServerCommits \/ ServerRefuses

Spec == Init /\ [][Next]_vars

-----------------------------------------------------------------------------
(* Properties. *)

\* Every variable keeps the shape the code gives it.
TypeOK ==
  /\ user \in User /\ bearer \in User
  /\ queue \in [User -> Seq(Batch)]
  /\ nextId \in Nat
  /\ pipeline \in Seq(Batch) /\ requests \in Seq(Batch) /\ responses \in Seq(Batch)
  /\ stream \in StreamState
  /\ hello \in {"none", "sent", "complete"}
  /\ idle \in BOOLEAN
  /\ refusal \in Seq(Batch) /\ Len(refusal) <= 1
  /\ log \in Seq([write : Write, as : User])
  /\ refused \subseteq Write
  /\ answer \in [Write -> {"new", "pending", "acknowledged", "rejected"}]

\* Batch ids grow along a queue and are not used again while a batch has them.
QueuesSorted ==
  \A u \in User : \A i, j \in 1..Len(queue[u]) :
    queue[u][i].id < nextId /\ (i < j => queue[u][i].id < queue[u][j].id)

\* The pipeline is the beginning of the queue of the user, as long as it may be.
PipelineIsPrefix ==
  LET q == queue[user]
  IN  pipeline = SubSeq(q, 1, IF MaxPendingWrites < Len(q) THEN MaxPendingWrites ELSE Len(q))

\* What is on the call, in one direction or the other, is the pipeline in its
\* order: a result is that of the first batch, though it does not say of which
\* (remote_store.mm:421-422, "should be correlated to the first write").
ResultIsOfFirst ==
  IF hello = "complete" THEN responses \o refusal \o requests = pipeline
                        ELSE responses = <<>> /\ refusal = <<>> /\ requests = <<>>

\* The assertions of the client: mutations are written after the handshake only
\* (write_stream.mm:71), an idle stream is not needed when its timer stops it
\* (remote_store.mm:444), a result finds a write (:423) and the write its batch
\* (leveldb_mutation_queue.mm:198).  And a write that waits has a stream started.
\* That the server never ends a call with status OK while a write waits, which would
\* fail the assertion of remote_store.mm:444 as well, is assumed.
NoAssertFails ==
  /\ hello # "none" <=> stream = "Open"
  /\ idle => hello = "complete" /\ queue[user] = <<>>
  /\ hello = "complete" /\ responses \o refusal # <<>> =>
       pipeline # <<>> /\ queue[user] # <<>> /\ Head(pipeline) = Head(queue[user])
  /\ queue[user] # <<>> => IsStarted(stream)

\* A write the app was told to be done is on the server, through losses of the
\* connection and of answers, kills and changes of user.
AcknowledgedIsCommitted ==
  \A w \in Write : answer[w] = "acknowledged" => w \in Committed

\* The server commits a write of a user only on a call opened for that user.
CommittedAsAuthor ==
  \A k \in 1..Len(log) : log[k].as = Author[log[k].write]

\* What the three properties above and the refinement below rest on.
AnswersOnTheWay ==
  /\ \A i \in 1..Len(responses) : responses[i].write \in Committed
  /\ \A i \in 1..Len(refusal) : refusal[i].write \in refused

QueuesByAuthor ==
  \A u \in User : \A i \in 1..Len(queue[u]) : Author[queue[u][i].write] = u

BearerIsUser == stream = "Open" => bearer = user

\* The inductive invariant.
PipelineInv ==
  /\ TypeOK /\ QueuesSorted /\ PipelineIsPrefix /\ ResultIsOfFirst /\ NoAssertFails
  /\ AnswersOnTheWay /\ AcknowledgedIsCommitted
  /\ QueuesByAuthor /\ BearerIsUser /\ CommittedAsAuthor

\* The comment of remote_store.mm:501, "the request itself was the problem": the
\* write the app is told to have failed is one the server refused.
RejectedWasRefused ==
  \A w \in Write : answer[w] = "rejected" => w \in refused

\* The queues are all that a client promises: it commits in their order.
Queues ==
  INSTANCE WriteQueue WITH
    pending <- [u \in User |-> [i \in 1..Len(queue[u]) |-> queue[u][i].write]]

ImplementsWriteQueue == Queues!Spec
=============================================================================
