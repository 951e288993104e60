---------------------------- MODULE MCColdArchive ----------------------------
(* Instances of ColdArchive for TLC.                                         *)
EXTENDS ColdArchive, TLC

Symmetry == Permutations(Procs) \cup Permutations(Memories) \cup Permutations(Texts)
=============================================================================
