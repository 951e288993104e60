---------------------------- MODULE MCWorkerPool ----------------------------
(* Model values for the TLC instance of WorkerPool. *)
EXTENDS WorkerPool, TLC
=============================================================================
