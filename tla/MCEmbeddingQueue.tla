-------------------------- MODULE MCEmbeddingQueue --------------------------
(* Model values and symmetry for the TLC instances of EmbeddingQueue. *)
EXTENDS EmbeddingQueue, TLC

ProcessSymmetry == Permutations(Processes)
=============================================================================
