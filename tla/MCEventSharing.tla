--------------------------- MODULE MCEventSharing ---------------------------
(* A host and a user it may invite; ids compare one way, hash codes the other. *)
EXTENDS EventSharingInv, TLC

CONSTANTS a, b, c, t, e1

MCOwner == (a :> 1) @@ (b :> 2)

MCOwner3 == MCOwner @@ (c :> 2)

MCHostOf == e1 :> 1

MCHash == [u \in User |-> 12 - u]

(* User 0, listed before the others, has no device and signs up late: from    *)
(* then on one message is enough.                                             *)
OneToNewcomers == server.users # Registered0 => Cardinality(SentMsgs) <= 1

(* Bound of the runs in which only user 2 answers: the host stays out of the  *)
(* chat and hears of no answer, only he invites, and the room list, which     *)
(* decides nothing about an invitation, is heard by nobody.                   *)
HostInvites ==
  /\ ui[a].at # "room"
  /\ cache[a].reacted = {} /\ cache[a].read = {}
  /\ \A d \in Device \ {a} : cache[d].rooms = {} /\ ui[d].at # "sheet"

(* Device d is not used. *)
Unused(d) == ui[d] = Home /\ queue[d] = <<>> /\ cache[d] = EmptyStore

(* Two messages with texts and no event, or an event and one invitation.  Only *)
(* what users do next is left out, no step that fairness promises.            *)
TextsOrEvent ==
  \/ /\ server.events = {}
     /\ \A d \in Device : \A i \in 1..Len(queue[d]) : queue[d][i] # AddEventOp(e1)
  \/ /\ \A m \in SentMsgs : IsInvitation(m)
     /\ Cardinality(SentMsgs) <= 1
     /\ \A d \in Device : Len(queue[d]) <= 2

(* One invitation to a user who answers on two devices, c without the event   *)
(* page, or two invitations, at two times, to a user with one.                *)
TwoAnswers ==
  /\ HostInvites
  /\ \/ /\ ui[c].at \in {"home", "room"}
        /\ \A m \in SentMsgs : m.time = 1
        /\ Cardinality(SentMsgs) <= 1
        /\ \A d \in Device : Len(queue[d]) <= 3
     \/ Unused(c)
=============================================================================
