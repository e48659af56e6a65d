----------------------------- MODULE MCPartyWho -----------------------------
(* TLC instances of PartyWho: up to three invocations of party on one or   *)
(* two ttys.                                                               *)
EXTENDS PartyWho, TLC

CONSTANTS p1, p2, p3, t1, t2

OneAndTwo == p1 :> t1 @@ p2 :> t2 @@ p3 :> t2
OneTty == [p \in Proc |-> t1]

AnnAndTwoBobs == p1 :> "ann" @@ p2 :> "bob" @@ p3 :> "bob"
OnlyAnn == [p \in Proc |-> "ann"]

\* finduser() leaves every login name whole.
Whole == [u \in Users |-> u]
=============================================================================
