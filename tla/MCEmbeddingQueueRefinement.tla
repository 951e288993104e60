--------------------- MODULE MCEmbeddingQueueRefinement ---------------------
(* Symmetry for the TLC instance of EmbeddingQueueRefinement. *)
EXTENDS EmbeddingQueueRefinement, TLC

ProcessSymmetry == Permutations(Processes)
=============================================================================
