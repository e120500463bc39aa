---------------------------- MODULE MCChatRooms ----------------------------
(* Two users write to each other; the ids compare one way and their hash   *)
(* codes the other.                                                        *)
EXTENDS ChatRoomsInv, TLC

CONSTANTS a, b, c, t

MCOwner == (a :> 1) @@ (b :> 2)

MCOwner3 == MCOwner @@ (c :> 2)

MCHostOf == <<>>

MCHash == (1 :> 20) @@ (2 :> 10)
=============================================================================
