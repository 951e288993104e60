---------------------- MODULE EmbeddingQueueRefinement ----------------------
(***************************************************************************)
(* The outbox implements LeasedQueue: a row of queue_jobs is an item, a    *)
(* worker's batch is its hand, an expired lease is a lapsed item.          *)
(***************************************************************************)
EXTENDS EmbeddingQueue

StageOf(row) ==
  CASE row.status = "absent"  -> "none"
    [] row.status = "pending" -> "waiting"
    [] row.status = "claimed" -> IF row.timer > 0 THEN "taken" ELSE "lapsed"
    [] row.status = "done"    -> "settled"
    [] row.status = "poison"  -> "parked"

ItemOf(row) ==
  [stage |-> StageOf(row), payload |-> row.content, tries |-> row.attempts,
   taker |-> IF row.status = "claimed" THEN row.lockedBy ELSE None]

items == [e \in Entities |-> ItemOf(queue[e])]
hands == [p \in Processes |-> Jobs(p)]

LQ == INSTANCE LeasedQueue WITH
        Items <- Entities, Payloads <- Contents, Takers <- Processes,
        Nobody <- None, Nothing <- None, Limit <- PoisonThreshold,
        item <- items, hand <- hands

\* The outbox implements the leased queue: whatever the interleaving of two workers,
\* users, sweeps and crashes, an item is settled, returned or missed only by the worker
\* it is claimed by and for the payload it still holds (outbox.ts header).
ImplementsLeasedQueue == LQ!LQSpec
=============================================================================
