------------------------------- MODULE MCBank -------------------------------
(***************************************************************************)
(* TLC instances of Bank: invocations by two users.  User 1 has a gribbly, *)
(* user 2 may be the banker, and user 3 has left the passwd file but still *)
(* has an account.                                                         *)
(***************************************************************************)
EXTENDS Bank, TLC

CONSTANTS p1, p2, p3

TwoUsers == p1 :> 1 @@ p2 :> 2

AnyCommand == p1 :> {"menu", "r", "t", "w"} @@ p2 :> {"menu", "t", "b", "f", "o", "c"}

LiveCommands == p1 :> {"menu", "t"} @@ p2 :> {"menu", "b"}

Transfers == p1 :> {"t"} @@ p2 :> {"t"}

\* Balance files: open accounts of users 1 and 3; of users 1 and 2.
OneAndThree == <<Encode(1), 0, Encode(1)>>
OneAndTwo == <<Encode(1), Encode(1)>>

\* A transaction file without notices.
NoNotice == <<0, 0>>
=============================================================================
