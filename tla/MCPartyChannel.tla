--------------------------- MODULE MCPartyChannel ---------------------------
(* TLC instances of PartyChannel: two or three invocations of party by     *)
(* different users, on a temporary and a kept channel.                     *)
EXTENDS PartyChannel, TLC

CONSTANTS p1, p2, p3

TwoUsers == p1 :> 1 @@ p2 :> 2

ThreeUsers == p1 :> 1 @@ p2 :> 2 @@ p3 :> 3
=============================================================================
