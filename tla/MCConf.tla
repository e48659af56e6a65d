------------------------------- MODULE MCConf -------------------------------
(* Conf for TLC.                                                            *)
EXTENDS Conf, TLC

Symmetry == Permutations(Proc) \cup Permutations(Confs)
=============================================================================
