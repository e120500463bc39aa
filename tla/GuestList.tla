----------------------------- MODULE GuestList -----------------------------
(***************************************************************************)
(* What sharing an event promises, without devices, messages or queues:    *)
(* each step is one atomic change of the guest lists.  The host is a member *)
(* of the event he creates; a host, or a guest who has answered, invites;  *)
(* an invited user answers; one who has answered may join; a member may    *)
(* leave, and join again.                                                  *)
(***************************************************************************)
CONSTANTS Guest,  \* users
          Party,  \* events
          Host    \* Host[p]: the guest who gives party p

VARIABLES parties,  \* parties that exist
          invited,  \* <<p, g>>: g was invited to p
          answered, \* <<p, g>>: g answered an invitation to p
          members   \* <<p, g>>: g is on the list of p

listVars == <<parties, invited, answered, members>>

ListInit ==
  /\ parties = {}
  /\ invited = {}
  /\ answered = {}
  /\ members = {}

Create(p) ==
  /\ p \notin parties
  /\ parties' = parties \cup {p}
  /\ members' = members \cup {<<p, Host[p]>>}
  /\ UNCHANGED <<invited, answered>>

MayInvite(p, g) == g = Host[p] \/ <<p, g>> \in answered

InviteGuest(p, by, g) ==
  /\ p \in parties
  /\ MayInvite(p, by)
  /\ invited' = invited \cup {<<p, g>>}
  /\ UNCHANGED <<parties, answered, members>>

Answer(p, g) ==
  /\ <<p, g>> \in invited
  /\ answered' = answered \cup {<<p, g>>}
  /\ UNCHANGED <<parties, invited, members>>

Join(p, g) ==
  /\ <<p, g>> \in answered
  /\ members' = members \cup {<<p, g>>}
  /\ UNCHANGED <<parties, invited, answered>>

Leave(p, g) ==
  /\ p \in parties
  /\ members' = members \ {<<p, g>>}
  /\ UNCHANGED <<parties, invited, answered>>

ListNext ==
  \E p \in Party, g \in Guest :
    \/ Create(p)
    \/ \E by \in Guest : InviteGuest(p, by, g)
    \/ Answer(p, g)
    \/ Join(p, g)
    \/ Leave(p, g)

ListSpec == ListInit /\ [][ListNext]_listVars
=============================================================================
