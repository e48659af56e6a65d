---------------------------- MODULE MCPartyNames ----------------------------
(* TLC instances of PartyNames: ann on one tty, bob on another, where he   *)
(* may run party twice.                                                    *)
EXTENDS PartyNames, TLC

CONSTANTS p1, p2, p3

Three == p1 :> 1 @@ p2 :> 2 @@ p3 :> 2
FirstAndSecond == p1 :> 1 @@ p2 :> 1 @@ p3 :> 2

AnnBob == <<"ann", "bob">>

Spelt(w, b) == [word |-> w, clean |-> b]

\* Everybody's alias option is X.
AliasX == [p \in Proc |-> Spelt("x", FALSE)]

Lower == {Spelt("x", TRUE), Spelt("ann", TRUE)}
AnyCase == Lower \cup {Spelt("x", FALSE)}
=============================================================================
