----------------------------- MODULE MCSessFile -----------------------------
(* SessFile for TLC.                                                       *)
EXTENDS SessFile, TLC

\* Requests, session ids and users are interchangeable.
Symmetry == Permutations(Proc) \cup Permutations(Sids) \cup Permutations(Users)

\* Bound: a request that has a session id, or has got one, does not log in (again).
LoginFirst == \A p \in Proc : pc[p] = "wantnew" => mysid[p] \notin Sids
=============================================================================
