----------------------------- MODULE MCWriteLock -----------------------------
(* Instances of WriteLock for TLC: processes and slots are interchangeable.  *)
EXTENDS WriteLock, TLC

Symmetric == Permutations(Processes) \cup Permutations(Slots)
=============================================================================
