------------------------------- MODULE MCVote -------------------------------
(* Vote for TLC.                                                            *)
EXTENDS Vote, TLC

Symmetry == Permutations(Proc) \cup Permutations(Cand)
=============================================================================
