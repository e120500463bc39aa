----------------------------- MODULE WriteQueue -----------------------------
(***************************************************************************)
(* What a Firestore client promises about the writes of its users, without *)
(* streams, retries, restarts or tokens: each user has a queue of writes.  *)
(* The server sees a write only after it has seen every write before it in *)
(* the queue, and may see it again as long as it is not answered.  The     *)
(* oldest write is acknowledged when the server has it, or dropped after   *)
(* the server refused one of the writes it was shown.                      *)
(***************************************************************************)
EXTENDS Integers, Sequences

CONSTANTS User,             \* user ids
          Write,            \* the writes the app ever issues
          Author,           \* Author[w]: the client's user when w is issued
          MaxPendingWrites  \* writes shown to the server at a time

VARIABLES pending,  \* pending[u]: the unanswered writes of u, oldest first
          answer,   \* answer[w]: what the app knows of w
          log,      \* what the server committed, and as whom, in order
          refused   \* the writes the server refused at some time

vars == <<pending, answer, log, refused>>

Committed == {log[k].write : k \in 1..Len(log)}

\* The server is shown the i-th write of u.
Shown(u, i) ==
  /\ i \in 1..Len(pending[u]) /\ i <= MaxPendingWrites
  /\ \A j \in 1..(i - 1) : pending[u][j] \in Committed

Init ==
  /\ pending = [u \in User |-> <<>>]
  /\ answer = [w \in Write |-> "new"]
  /\ log = <<>>
  /\ refused = {}

Issue(w) ==
  /\ answer[w] = "new"
  /\ answer' = [answer EXCEPT ![w] = "pending"]
  /\ pending' = [pending EXCEPT ![Author[w]] = Append(@, w)]
  /\ UNCHANGED <<log, refused>>

Commit(u, i) ==
  /\ Shown(u, i)
  /\ log' = Append(log, [write |-> pending[u][i], as |-> u])
  /\ UNCHANGED <<pending, answer, refused>>

Refuse(u, i) ==
  /\ Shown(u, i)
  /\ refused' = refused \cup {pending[u][i]}
  /\ UNCHANGED <<pending, answer, log>>

Acknowledge(u) ==
  /\ pending[u] # <<>> /\ Head(pending[u]) \in Committed
  /\ answer' = [answer EXCEPT ![Head(pending[u])] = "acknowledged"]
  /\ pending' = [pending EXCEPT ![u] = Tail(@)]
  /\ UNCHANGED <<log, refused>>

Reject(u) ==
  /\ \E i \in 1..Len(pending[u]) : Shown(u, i) /\ pending[u][i] \in refused
  /\ answer' = [answer EXCEPT ![Head(pending[u])] = "rejected"]
  /\ pending' = [pending EXCEPT ![u] = Tail(@)]
  /\ UNCHANGED <<log, refused>>

Next ==
  \/ \E w \in Write : Issue(w)
  \/ \E u \in User : Acknowledge(u) \/ Reject(u)
  \/ \E u \in User : \E i \in 1..Len(pending[u]) : Commit(u, i) \/ Refuse(u, i)

Spec == Init /\ [][Next]_vars
=============================================================================
