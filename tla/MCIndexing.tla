---------------------------- MODULE MCIndexing ----------------------------
(* Instances of Indexing for TLC.                                         *)
EXTENDS Indexing, TLC

Symmetry == Permutations(Paths) \cup Permutations(Contents)
=============================================================================
