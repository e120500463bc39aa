---------------------------- MODULE EventSharing ----------------------------
(***************************************************************************)
(* Sharing an event: a user adds an event, invites others from the event's *)
(* page, each invitation is a message of the chat with the invitee, and    *)
(* the invitee's Accept or Reject button on the tile of that message marks *)
(* the message reacted and, on Accept, makes the user a participant        *)
(* (lib/event/event_new.dart, event_view.dart, event_detail.dart,          *)
(* event_invite.dart, lib/chat/chat_invitation.dart).                      *)
(***************************************************************************)
EXTENDS ChatRooms

CONSTANT InviteSlots  \* length of isInvited: 100 in the code

ASSUME SlotsAssumption == InviteSlots \in Nat

VARIABLE accepted  \* history: <<e, u>> once u pressed Accept for event e

vars == <<storeVars, ui, accepted>>

-----------------------------------------------------------------------------
(* Screens.  The event page and the invite sheet keep the EventModal that  *)
(* was read when the event was tapped: `parti' does not follow the store.  *)

DetailScreen == [at : {"detail"}, event : Event, parti : SUBSET User]

SheetScreen == [at : {"sheet"}, event : Event, parti : SUBSET User,
                picked : SUBSET (1..InviteSlots)]

Screen == {Home} \cup RoomScreen \cup DetailScreen \cup SheetScreen

\* u is the i-th document of the users collection as d sees it.
IsUserAt(d, i, u) ==
  /\ u \in cache[d].users
  /\ Cardinality({v \in cache[d].users : v <= u}) = i

-----------------------------------------------------------------------------
(* The calendar and the event page. *)

\* The "Add" button of the new-event page: the creator is host and the first
\* participant.
AddEvent(d, e) ==
  /\ ui[d] = Home
  /\ HostOf[e] = Me(d)
  /\ e \notin server.events
  /\ \A c \in Device : \A i \in 1..Len(queue[c]) : queue[c][i] # AddEventOp(e)
  /\ Perform(d, <<AddEventOp(e)>>, Home)
  /\ UNCHANGED accepted

\* Wrong: the day list shows every event.
OpenDetailOfAny(d, e) ==
  /\ ui[d] = Home
  /\ e \in ViewEvents(d)
  /\ ui' = [ui EXCEPT ![d] =
       [at |-> "detail", event |-> e,
        parti |-> {u \in User : Participates(d, e, u)}]]
  /\ UNCHANGED <<storeVars, accepted>>

\* The day list shows the events the user participates in; a tap opens one.
OpenDetail(d, e) ==
  /\ ui[d] = Home
  /\ e \in ViewEvents(d)
  /\ Participates(d, e, Me(d))
  /\ ui' = [ui EXCEPT ![d] =
       [at |-> "detail", event |-> e,
        parti |-> {u \in User : Participates(d, e, u)}]]
  /\ UNCHANGED <<storeVars, accepted>>

CloseDetail(d) ==
  /\ ui[d].at = "detail"
  /\ ui' = [ui EXCEPT ![d] = Home]
  /\ UNCHANGED <<storeVars, accepted>>

\* "Delete Event" takes the user out of the participants.
DeleteEvent(d) ==
  /\ ui[d].at = "detail"
  /\ Perform(d, <<LeaveOp(ui[d].event, Me(d))>>, Home)
  /\ UNCHANGED accepted

-----------------------------------------------------------------------------
(* The invite sheet. *)

OpenSheet(d) ==
  /\ ui[d].at = "detail"
  /\ ui' = [ui EXCEPT ![d] =
       [at |-> "sheet", event |-> ui[d].event, parti |-> ui[d].parti, picked |-> {}]]
  /\ UNCHANGED <<storeVars, accepted>>

\* Wrong: the flags survive the sheet.
CloseSheetKeepingFlags(d) ==
  /\ ui[d].at = "sheet"
  /\ ui' = [ui EXCEPT ![d].at = "detail"]
  /\ UNCHANGED <<storeVars, accepted>>

CloseSheet(d) ==
  /\ ui[d].at = "sheet"
  /\ ui' = [ui EXCEPT ![d] =
       [at |-> "detail", event |-> ui[d].event, parti |-> ui[d].parti]]
  /\ UNCHANGED <<storeVars, accepted>>

\* A tap on the i-th user flips isInvited[i]; participants have no tile.
Invite(d, i) ==
  /\ ui[d].at = "sheet"
  /\ \E u \in User : IsUserAt(d, i, u) /\ u \notin ui[d].parti
  /\ ui' = [ui EXCEPT ![d].picked = IF i \in @ THEN @ \ {i} ELSE @ \cup {i}]
  /\ UNCHANGED <<storeVars, accepted>>

\* The invitation d sends to u at time now.
InvitationTo(d, u, now) ==
  [from |-> Me(d), to |-> u, content |-> ui[d].event, time |-> now]

\* The users now at the flagged indices, in the order of the indices.
PickedUsers(d, n) ==
  {peers \in [1..n -> User] :
     \A k \in 1..n : \E i \in ui[d].picked :
       /\ Cardinality({j \in ui[d].picked : j <= i}) = k
       /\ IsUserAt(d, i, peers[k])}

\* "Invite": for every flagged index an invitation to the user now at that
\* index and the update of the room with him; then the sheet closes.
SendInvitation(d, now) ==
  /\ ui[d].at = "sheet"
  /\ LET n == Cardinality(ui[d].picked)
     IN  \E peers \in PickedUsers(d, n) :
           /\ \A k \in 1..n : InvitationTo(d, peers[k], now[k]) \notin SentMsgs
           /\ Cardinality(SentMsgs) + n <= MaxMsgs
           /\ Perform(d,
                [x \in 1..(2 * n) |->
                   LET k == (x + 1) \div 2
                   IN  IF x % 2 = 1
                       THEN AddMsgOp(InvitationTo(d, peers[k], now[k]))
                       ELSE SetRoomOp(ChatId(Me(d), peers[k]), now[k])],
                [at |-> "detail", event |-> ui[d].event, parti |-> ui[d].parti])
  /\ UNCHANGED accepted

-----------------------------------------------------------------------------
(* The buttons of an invitation tile. *)

\* Wrong: the sender's copy has buttons, too.
HasButtonsForAll(d, tile) ==
  /\ IsInvitation(tile.msg)
  /\ ~tile.reacted
  /\ tile.msg.content \in ViewEvents(d)

\* The tile shows its buttons: another's invitation, not answered when the tile
\* was made, to an event that was found.
HasButtons(d, tile) ==
  /\ IsInvitation(tile.msg)
  /\ tile.msg.from # Me(d)
  /\ ~tile.reacted
  /\ tile.msg.content \in ViewEvents(d)

\* Wrong: joined before marked; joined whatever the answer; marked in a room
\* whose id was not compared.
AnswerJoinFirst(m, accept) ==
  LET react == ReactOp(ChatId(m.to, m.from), m)
  IN  IF accept THEN <<JoinOp(m.content, m.to), react>> ELSE <<react>>

AnswerAlwaysJoins(m, accept) ==
  <<ReactOp(ChatId(m.to, m.from), m), JoinOp(m.content, m.to)>>

AnswerInSendersRoom(m, accept) ==
  LET react == ReactOp(<<m.from, m.to>>, m)
  IN  IF accept THEN <<react, JoinOp(m.content, m.to)>> ELSE <<react>>

\* The writes of an answer to m, in the room that the ids of m make.
AnswerTo(m, accept) ==
  LET react == ReactOp(ChatId(m.to, m.from), m)
  IN  IF accept THEN <<react, JoinOp(m.content, m.to)>> ELSE <<react>>

\* Accept or Reject on the i-th tile of the room: the tile answers the message
\* it captured.
HandleButton(d, i, accept) ==
  /\ ui[d].at = "room"
  /\ i \in 1..Len(ui[d].tiles)
  /\ LET tile == ui[d].tiles[i]
         m == tile.msg
     IN  /\ HasButtons(d, tile)
         /\ Perform(d, AnswerTo(m, accept), [ui[d] EXCEPT !.tiles[i].reacted = TRUE])
         /\ accepted' = IF accept THEN accepted \cup {<<m.content, Me(d)>>} ELSE accepted

-----------------------------------------------------------------------------
EventStep(d) ==
  \/ \E e \in Event : AddEvent(d, e) \/ OpenDetail(d, e)
  \/ CloseDetail(d)
  \/ DeleteEvent(d)
  \/ OpenSheet(d)
  \/ CloseSheet(d)
  \/ \E i \in 1..InviteSlots : Invite(d, i)
  \/ \E now \in [1..InviteSlots -> Time] : SendInvitation(d, now)
  \/ \E i \in 1..MaxMsgs, accept \in BOOLEAN : HandleButton(d, i, accept)

Init == ChatInit /\ accepted = {}

Next ==
  \/ ChatNext /\ UNCHANGED accepted
  \/ \E d \in Device : EventStep(d)

Spec == Init /\ [][Next]_vars

\* The persisted writes are sent in the end; the messages of a room are listened to,
\* and its rows built, only while it is open.
Fairness ==
  \A d \in Device :
    /\ WF_vars(Commit(d) /\ UNCHANGED <<ui, accepted>>)
    /\ WF_vars(ui[d].at = "room" /\ ListenMsgs(d, RoomOn(d)) /\ UNCHANGED <<ui, accepted>>)
    /\ WF_vars(RenderRoom(d) /\ UNCHANGED accepted)

FairSpec == Spec /\ Fairness

-----------------------------------------------------------------------------
(* Properties. *)

TypeOK ==
  /\ StoreTypeOK
  /\ ui \in [Device -> Screen]
  /\ accepted \subseteq Event \X User

Invitations(S) == {m \in S : IsInvitation(m)}

\* Whoever is a participant of an event on the server created it or answered
\* an invitation to it that is marked reacted there: handleButton marks the
\* message before it joins, so that a kill between the two writes may lose the
\* join but never leave a member whose invitation still has its buttons.
JoinNeedsReaction ==
  \A e \in Event, u \in User : <<e, u>> \in server.parti =>
    \/ u = HostOf[e]
    \/ \E m \in server.reacted : m.content = e /\ m.to = u

\* Nobody becomes a participant without having pressed Accept himself: not by
\* the inviter's copy of the tile, not by a tile that was kept for another
\* message, not by rejecting.
ConsentedMembers ==
  \A e \in Event, u \in User : <<e, u>> \in server.parti =>
    u = HostOf[e] \/ <<e, u>> \in accepted

\* Every invitation on the server was sent by the host of its event or by one
\* who was invited before and answered: the chain of invitations starts at
\* the host, and its event is on the server.
InvitersWereInvited ==
  \A m \in Invitations(server.msgs) :
    /\ m.content \in server.events
    /\ \/ m.from = HostOf[m.content]
       \/ \E n \in server.reacted : n.content = m.content /\ n.to = m.from

\* A reaction is that of the addressee: it is made on a device that had the
\* message, never on the sender's.
ReactedByAddressee ==
  \A m \in server.reacted :
    /\ m.from # m.to
    /\ \E d \in Device : Owner[d] = m.to /\ m \in cache[d].msgs

\* The documents on the server are a guest list: every commit is one of its
\* steps, although the writes were issued off line and under a stale view.
Guests ==
  INSTANCE GuestList WITH
    Guest <- User, Party <- Event, Host <- HostOf,
    parties <- server.events,
    invited <- {<<m.content, m.to>> : m \in Invitations(server.msgs)},
    answered <- {<<m.content, m.to>> : m \in Invitations(server.reacted)},
    members <- server.parti

ImplementsGuestList == Guests!ListSpec

\* An accepted invitation is honoured: once the join is persisted the user
\* becomes a participant, whatever happens to the app afterwards.
AcceptedJoins ==
  \A e \in Event, u \in User :
    (\E d \in Device : JoinOp(e, u) \in Waiting(d)) ~> <<e, u>> \in server.parti
=============================================================================
