--------------------------- MODULE EmbeddingQueue ---------------------------
(***************************************************************************)
(* The embedding outbox (embedding-queue/): every write of a memory,       *)
(* standard, task or indexed file leaves a row in the table queue_jobs;    *)
(* the EmbeddingWorker of each process that shares the database (the MCP   *)
(* server and the dashboard) claims rows, embeds the payload snapshot and  *)
(* upserts the entity's vector.                                            *)
(*                                                                         *)
(* One step is one SQL statement or transaction, or one settled await.     *)
(* Another process may take a step between any two of ours; the handlers   *)
(* of the SAME process only run where its event loop is free (Responsive). *)
(* A payload is represented by its content hash, the two being equal       *)
(* exactly when embedPayloadContentHash makes them so.  A worker holds one *)
(* batch at a time, so its identity stands for its batch token locked_by.  *)
(* Deadlines are countdowns: `timer` is the number of ticks left of the    *)
(* only deadline that matters in the row's status (backoff_until while     *)
(* pending, lease_until while claimed, the purge TTL once done or poison). *)
(***************************************************************************)
EXTENDS Integers, Sequences, FiniteSets

CONSTANTS
  Memories, Standards, Tasks, Files, \* the entities, by entity_kind
  Contents,         \* content hashes of the payloads
  None,             \* SQL NULL
  Processes,        \* processes that share the database, one worker each
  BatchSize, LeaseTicks, PoisonThreshold, BackoffBase, BackoffMax,
  DoneTtl, PoisonTtl, BackfillGate,
  UserOps,          \* the user operations this instance explores
  FaultKinds,       \* the faults it explores
  MaxEdits,         \* bound: user operations in a behaviour
  MaxFaults         \* bound: faults in a behaviour

Entities == Memories \cup Standards \cup Tasks \cup Files
\* Those that run under the exclusive file lock (the write tools), and the others.
LockedOps == {"create", "update", "updateTask", "archive", "cancel", "reopen"}
Ops == LockedOps \cup {"unqueued", "standard", "delete", "retry", "clear"}
Faults == {"crash", "busy", "overrun", "abortCycle", "abortSweep"}

ASSUME KindsAssumption ==
  /\ Memories \cap Standards = {} /\ Memories \cap Tasks = {} /\ Memories \cap Files = {}
  /\ Standards \cap Tasks = {} /\ Standards \cap Files = {} /\ Tasks \cap Files = {}
ASSUME DataAssumption == None \notin Contents \cup Processes
ASSUME SizesAssumption ==
  /\ BatchSize \in Nat \ {0} /\ PoisonThreshold \in Nat \ {0} /\ LeaseTicks \in Nat \ {0}
  /\ BackoffBase \in Nat \ {0} /\ BackoffMax \in Nat /\ BackfillGate \in Nat
  /\ DoneTtl \in Nat /\ PoisonTtl \in Nat
  /\ MaxEdits \in Nat /\ MaxFaults \in Nat
ASSUME OpsAssumption == UserOps \subseteq Ops /\ FaultKinds \subseteq Faults

VARIABLES
  entity,    \* the entity tables: status and content of each entity
  queue,     \* the table queue_jobs: one row per entity, status "absent" when there is none
  vector,    \* the *_vectors tables: the content hash stamped on the row, or None
  phase,     \* where the process is in its worker cycle or startup sweep
  batch,     \* jobs of the claimed batch still to be applied
  noop,      \* jobs of the claimed batch to be completed without any work
  job,       \* the job whose outbox write is due: a set of at most one job
  scan,      \* payloads the startup backfill has read and not yet enqueued
  sweep,     \* index of the kind the startup backfill is at
  owed,      \* payloads of committed writes that have not been enqueued yet
  edits, faults

tables  == <<entity, queue, vector>>
cycle   == <<batch, noop, job>>
startup == <<scan, sweep>>
budget  == <<edits, faults>>
vars == <<tables, phase, cycle, startup, owed, budget>>

-----------------------------------------------------------------------------
(* Types *)
Statuses == {"absent", "pending", "claimed", "done", "poison"}
Phases == {"down", "reconcile", "backfill", "insert", "idle", "check",
           "embed", "apply", "complete", "release", "fail"}
Job == [entity: Entities, content: Contents]
Row == [status: Statuses, content: Contents \cup {None}, attempts: Nat,
        timer: Nat, lockedBy: Processes \cup {None}]
EntityRow == [status: {"absent", "active", "archived", "canceled", "deleted"},
              content: Contents \cup {None}]

TypeOK ==
  /\ entity \in [Entities -> EntityRow]
  /\ queue \in [Entities -> Row]
  /\ vector \in [Entities -> Contents \cup {None}]
  /\ phase \in [Processes -> Phases]
  /\ batch \in [Processes -> SUBSET Job]
  /\ noop \in [Processes -> SUBSET Job]
  /\ job \in [Processes -> SUBSET Job]
  /\ scan \in [Processes -> SUBSET Job]
  /\ sweep \in [Processes -> Nat]
  /\ owed \in [Processes -> SUBSET Job]
  /\ edits \in Nat /\ faults \in Nat

-----------------------------------------------------------------------------
(* Rows of queue_jobs *)
NoRow == [status |-> "absent", content |-> None, attempts |-> 0, timer |-> 0, lockedBy |-> None]
Pending(c) ==
  [status |-> "pending", content |-> c, attempts |-> 0, timer |-> 0, lockedBy |-> None]

\* enqueueEmbeddingJob: dedup on an equal hash unless the row is poisoned, else LWW upsert.
Deduped(row, c) == row.status \notin {"absent", "poison"} /\ row.content = c
\* Mutant: the upsert leaves a claim standing.
EnqueuedKeepsClaim(row, c) ==
  IF Deduped(row, c) THEN row
  ELSE IF row.status = "claimed" THEN [row EXCEPT !.content = c] ELSE Pending(c)
Enqueued(row, c) == IF Deduped(row, c) THEN row ELSE Pending(c)

\* enqueueIfAbsent: insert, or revive a terminal done row; everything else is untouched.
\* Mutants: ON CONFLICT DO NOTHING; no WHERE clause on the status.
RevivedNever(row, c) == IF row.status = "absent" THEN Pending(c) ELSE row
RevivedAlways(row, c) == Pending(c)
Revived(row, c) == IF row.status \in {"absent", "done"} THEN Pending(c) ELSE row

\* Mutant: a release counts as an attempt.
UnlockedCounting(row) ==
  [row EXCEPT !.status = "pending", !.timer = 0, !.lockedBy = None, !.attempts = @ + 1]
Unlocked(row) == [row EXCEPT !.status = "pending", !.timer = 0, !.lockedBy = None]
Expired(row) == row.status = "claimed" /\ row.timer = 0
\* Mutant: expired leases are never reclaimed.
EligiblePending(row) == row.status = "pending" /\ row.timer = 0
Eligible(row) == (row.status = "pending" /\ row.timer = 0) \/ Expired(row)

\* complete, release and fail change the row only while it is claimed with our token.
Holds(p, e) == queue[e].status = "claimed" /\ queue[e].lockedBy = p
\* Mutant: the condition on the batch token is dropped.
IfClaimed(p, e, row) ==
  queue' = IF queue[e].status = "claimed" THEN [queue EXCEPT ![e] = row] ELSE queue
IfHeld(p, e, row) == queue' = IF Holds(p, e) THEN [queue EXCEPT ![e] = row] ELSE queue

Completed(row) == [row EXCEPT !.status = "done", !.timer = DoneTtl]
Backoff(n) == LET delay == BackoffBase * 2^(n - 1)
              IN  IF delay < BackoffMax THEN delay ELSE BackoffMax
Failed(row) ==
  LET n == row.attempts + 1
  IN  [row EXCEPT !.attempts = n, !.lockedBy = None,
                  !.status = IF n >= PoisonThreshold THEN "poison" ELSE "pending",
                  !.timer = IF n >= PoisonThreshold THEN PoisonTtl ELSE Backoff(n)]

Retried(row) == Pending(row.content)

-----------------------------------------------------------------------------
(* What an entity is to the worker and to the backfill *)

\* loadExistingEntityIds: the row exists; a canceled task counts as deleted.
Exists(e) == entity[e].status \in {"active", "archived"}

\* The candidates of one backfill phase: active memories, all standards, tasks not canceled.
SweepOrder == <<Memories, Standards, Tasks>>
Candidates(k) == {e \in SweepOrder[k] : entity[e].status = "active"}
NeedsReembed(e) == vector[e] # entity[e].content
JobOf(e) == [entity |-> e, content |-> entity[e].content]

LiveRows == {e \in Entities : queue[e].status \in {"pending", "claimed"}}

-----------------------------------------------------------------------------
(* The fresh database of a process pair that has finished its startup sweep. *)
Init ==
  /\ entity = [e \in Entities |-> [status |-> "absent", content |-> None]]
  /\ queue = [e \in Entities |-> NoRow]
  /\ vector = [e \in Entities |-> None]
  /\ phase = [p \in Processes |-> "idle"]
  /\ batch = [p \in Processes |-> {}]
  /\ noop = [p \in Processes |-> {}]
  /\ job = [p \in Processes |-> {}]
  /\ scan = [p \in Processes |-> {}]
  /\ sweep = [p \in Processes |-> 1]
  /\ owed = [p \in Processes |-> {}]
  /\ edits = 0 /\ faults = 0

\* The event loop of p can run a tool handler: p awaits a timer, the embedding
\* model or the KG extraction, and no handler of p is between commit and enqueue.
\* Mutant: the startup sweep awaits between its reads and its inserts.
ResponsiveInSweep(p) ==
  /\ phase[p] \in {"idle", "apply", "insert"} \/ (phase[p] = "embed" /\ noop[p] = {})
  /\ owed[p] = {}
Responsive(p) ==
  /\ phase[p] \in {"idle", "apply"} \/ (phase[p] = "embed" /\ noop[p] = {})
  /\ owed[p] = {}

Fault(kind) == kind \in FaultKinds /\ faults < MaxFaults /\ faults' = faults + 1

\* WriteLock: a task-write keeps the file lock from its commit to the end of its
\* enqueue.  The delete tools, queue admin and the dashboard never ask for the lock.
WriteLockFree == \A q \in Processes : \A j \in owed[q] : j.entity \notin Tasks

UserStep(p, op) ==
  /\ op \in UserOps /\ Responsive(p)
  /\ op \in LockedOps => WriteLockFree
  /\ edits < MaxEdits /\ edits' = edits + 1
  /\ UNCHANGED <<faults, phase, cycle, startup>>

\* A new memory, standard, task or indexed file: row and job in one transaction.
Create(p, e, c) ==
  /\ UserStep(p, "create")
  /\ entity[e].status = "absent" \/ (e \in Files /\ entity[e].status = "deleted")
  /\ entity' = [entity EXCEPT ![e] = [status |-> "active", content |-> c]]
  /\ queue' = [queue EXCEPT ![e] = Enqueued(@, c)]
  /\ UNCHANGED <<vector, owed>>

\* Content update of a memory or standard, re-index of a file: atomic with the enqueue.
Update(p, e, c) ==
  /\ UserStep(p, "update")
  /\ e \notin Tasks /\ entity[e].status \in {"active", "archived"}
  /\ entity' = [entity EXCEPT ![e].content = c]
  /\ queue' = [queue EXCEPT ![e] = Enqueued(@, c)]
  /\ UNCHANGED <<vector, owed>>

\* Writes that enqueue nothing: a memory title without content (the title is hashed),
\* and what the dashboard writes of memories and new tasks.
WriteUnqueued(p, e, c) ==
  /\ UserStep(p, "unqueued")
  /\ \/ e \in Memories \cup Tasks /\ entity[e].status = "absent"
     \/ e \in Memories /\ entity[e].status \in {"active", "archived"} /\ entity[e].content # c
  /\ entity' = [entity EXCEPT ![e] =
                   [status |-> IF @.status = "absent" THEN "active" ELSE @.status, content |-> c]]
  /\ UNCHANGED <<queue, vector, owed>>

\* task-write of title or description: the transaction commits first ...
UpdateTask(p, e, c) ==
  /\ UserStep(p, "updateTask")
  /\ e \in Tasks /\ entity[e].status \in {"active", "canceled"}
  /\ entity' = [entity EXCEPT ![e].content = c]
  /\ owed' = [owed EXCEPT ![p] = {[entity |-> e, content |-> c]}]
  /\ UNCHANGED <<queue, vector>>

\* The dashboard writes a standard (new or not) and enqueues it in two statements ...
WriteStandard(p, e, c) ==
  /\ UserStep(p, "standard")
  /\ e \in Standards /\ entity[e].status \in {"absent", "active"}
  /\ entity' = [entity EXCEPT ![e] = [status |-> "active", content |-> c]]
  /\ owed' = [owed EXCEPT ![p] = {[entity |-> e, content |-> c]}]
  /\ UNCHANGED <<queue, vector>>

\* ... and the enqueue follows; enrichUpdatedTasks re-reads the task for it.
Payload(j) == IF j.entity \in Tasks THEN entity[j.entity].content ELSE j.content

EnqueueOwed(p, j) ==
  /\ j \in owed[p]
  /\ queue' = [queue EXCEPT ![j.entity] = Enqueued(@, Payload(j))]
  /\ owed' = [owed EXCEPT ![p] = @ \ {j}]
  /\ UNCHANGED <<entity, vector, phase, cycle, startup, budget>>

SetStatus(p, e, op, from, to) ==
  /\ UserStep(p, op)
  /\ entity[e].status = from
  /\ entity' = [entity EXCEPT ![e].status = to]
  /\ UNCHANGED <<queue, vector, owed>>

\* Status-only updates: they reach neither the queue nor the vector.
Archive(p, e) == e \in Memories /\ SetStatus(p, e, "archive", "active", "archived")
Cancel(p, e) == e \in Tasks /\ SetStatus(p, e, "cancel", "active", "canceled")
Reopen(p, e) == \/ e \in Tasks /\ SetStatus(p, e, "reopen", "canceled", "active")
                \/ e \in Memories /\ SetStatus(p, e, "reopen", "archived", "active")

\* purgeEntityAndCleanup, cleanStaleFiles: memories are archived and keep their
\* vector, standards are removed, tasks are canceled; the job goes with the entity.
Delete(p, e) ==
  /\ UserStep(p, "delete")
  /\ entity[e].status \notin {"absent", "deleted"}
  /\ entity' = [entity EXCEPT ![e].status = IF e \in Memories THEN "archived"
                                            ELSE IF e \in Tasks THEN "canceled"
                                            ELSE "deleted"]
  /\ vector' = [vector EXCEPT ![e] = IF e \in Memories THEN @ ELSE None]
  /\ queue' = [queue EXCEPT ![e] = NoRow]
  /\ UNCHANGED owed

\* Queue admin: retryJob, retryAllPoison and deleteJob, on terminal rows only.
Retry(p, E) ==
  /\ UserStep(p, "retry")
  /\ \/ \E e \in Entities : E = {e} /\ queue[e].status \in {"poison", "done"}
     \/ E # {} /\ E = {e \in Entities : queue[e].status = "poison"}
  /\ queue' = [e \in Entities |-> IF e \in E THEN Retried(queue[e]) ELSE queue[e]]
  /\ UNCHANGED <<entity, vector, owed>>

Clear(p, e) ==
  /\ UserStep(p, "clear")
  /\ queue[e].status \in {"poison", "done"}
  /\ queue' = [queue EXCEPT ![e] = NoRow]
  /\ UNCHANGED <<entity, vector, owed>>

-----------------------------------------------------------------------------
(* One worker cycle: runOnce and drainClaimedBatch *)
WorkerStep(p, from, to) ==
  /\ phase[p] = from /\ owed[p] = {}
  /\ phase' = [phase EXCEPT ![p] = to]
  /\ UNCHANGED <<entity, startup, owed, edits>>

\* One UPDATE claims up to BatchSize eligible rows; the payloads are parsed in memory
\* (no writer of this code stores one that parsePayload rejects).
Claim(p, S) ==
  LET claimed == {[entity |-> e, content |-> queue[e].content] : e \in S}
  IN  /\ WorkerStep(p, "idle", "check")
      /\ S # {} /\ \A e \in S : Eligible(queue[e])
      /\ Cardinality(S) <= BatchSize
      /\ Cardinality(S) = BatchSize \/ \A e \in Entities \ S : ~Eligible(queue[e])
      /\ queue' = [e \in Entities |->
            IF e \in S THEN [queue[e] EXCEPT !.status = "claimed", !.timer = LeaseTicks,
                                             !.lockedBy = p]
            ELSE queue[e]]
      /\ batch' = [batch EXCEPT ![p] = claimed]
      /\ UNCHANGED <<vector, noop, job, faults>>

\* A job whose entity is gone is completed; a BUSY complete waits for the lease to expire.
NoOpComplete(p, j) ==
  /\ phase[p] = "embed" /\ j \in noop[p]
  /\ noop' = [noop EXCEPT ![p] = @ \ {j}]
  /\ \/ IfHeld(p, j.entity, Completed(queue[j.entity])) /\ UNCHANGED faults
     \/ Fault("busy") /\ UNCHANGED queue
  /\ UNCHANGED <<entity, vector, phase, batch, job, startup, owed, edits>>

CheckExistence(p) ==
  LET missing == {j \in batch[p] : ~Exists(j.entity)}
  IN  /\ WorkerStep(p, "check", "embed")
      /\ noop' = [noop EXCEPT ![p] = missing]
      /\ batch' = [batch EXCEPT ![p] = @ \ missing]
      /\ UNCHANGED <<queue, vector, job, faults>>

\* vectors.embed resolved (file jobs need no embedding and wait with the rest).
Embed(p) ==
  /\ WorkerStep(p, "embed", "apply") /\ noop[p] = {}
  /\ UNCHANGED <<queue, vector, cycle, faults>>

\* applyJob: the KG extraction settled; writeVector, whoever holds the row by now.
WriteVector(p, j) ==
  /\ WorkerStep(p, "apply", "complete") /\ j \in batch[p]
  /\ vector' = [vector EXCEPT ![j.entity] = IF j.entity \in Files THEN @ ELSE j.content]
  /\ job' = [job EXCEPT ![p] = {j}]
  /\ batch' = [batch EXCEPT ![p] = @ \ {j}]
  /\ UNCHANGED <<queue, noop, faults>>

Complete(p, j) ==
  /\ WorkerStep(p, "complete", "apply") /\ j \in job[p]
  /\ IfHeld(p, j.entity, Completed(queue[j.entity]))
  /\ job' = [job EXCEPT ![p] = {}]
  /\ UNCHANGED <<vector, batch, noop, faults>>

\* applyJob or complete threw: SQLITE_BUSY is no failure of the job, all else is.
Interrupted(p, j, to) ==
  /\ \/ /\ phase[p] = "apply" /\ j \in batch[p] /\ WorkerStep(p, "apply", to)
        /\ job' = [job EXCEPT ![p] = {j}] /\ batch' = [batch EXCEPT ![p] = @ \ {j}]
     \/ /\ phase[p] = "complete" /\ j \in job[p] /\ WorkerStep(p, "complete", to)
        /\ UNCHANGED <<job, batch>>
  /\ UNCHANGED <<queue, vector, noop>>

JobBusy(p, j) == Interrupted(p, j, "release") /\ Fault("busy")
JobError(p, j) == Interrupted(p, j, "fail") /\ UNCHANGED faults

\* release and fail run inside runOutboxWrite: a BUSY one leaves the row claimed.
Release(p, j) ==
  /\ WorkerStep(p, "release", "apply") /\ j \in job[p]
  /\ \/ IfHeld(p, j.entity, Unlocked(queue[j.entity])) /\ UNCHANGED faults
     \/ Fault("busy") /\ UNCHANGED queue
  /\ job' = [job EXCEPT ![p] = {}]
  /\ UNCHANGED <<vector, batch, noop>>

Fail(p, j) ==
  /\ WorkerStep(p, "fail", "apply") /\ j \in job[p]
  /\ \/ IfHeld(p, j.entity, Failed(queue[j.entity])) /\ UNCHANGED faults
     \/ Fault("busy") /\ UNCHANGED queue
  /\ job' = [job EXCEPT ![p] = {}]
  /\ UNCHANGED <<vector, batch, noop>>

EndBatch(p) ==
  /\ WorkerStep(p, "apply", "idle") /\ batch[p] = {}
  /\ UNCHANGED <<queue, vector, cycle, faults>>

Forget(p) ==
  /\ batch' = [batch EXCEPT ![p] = {}]
  /\ noop' = [noop EXCEPT ![p] = {}]
  /\ job' = [job EXCEPT ![p] = {}]

\* An error no catch of the batch handles (the existence read or the embedding
\* threw): loop() logs it, the rows stay claimed until their lease expires.
AbortCycle(p) ==
  /\ \E from \in {"check", "embed"} : WorkerStep(p, from, "idle")
  /\ Fault("abortCycle") /\ Forget(p)
  /\ UNCHANGED <<queue, vector>>

-----------------------------------------------------------------------------
(* Crash, restart and the startup sweep (one synchronous run of the process) *)
Crash(p) ==
  /\ phase[p] # "down" /\ Fault("crash")
  /\ phase' = [phase EXCEPT ![p] = "down"]
  /\ Forget(p)
  /\ scan' = [scan EXCEPT ![p] = {}] /\ sweep' = [sweep EXCEPT ![p] = 1]
  /\ owed' = [owed EXCEPT ![p] = {}]
  /\ UNCHANGED <<tables, edits>>

Start(p) ==
  /\ phase[p] = "down"
  /\ phase' = [phase EXCEPT ![p] = "reconcile"]
  /\ UNCHANGED <<tables, cycle, startup, owed, budget>>

SweepStep(p, from, to) ==
  /\ phase[p] = from
  /\ phase' = [phase EXCEPT ![p] = to]
  /\ UNCHANGED <<entity, vector, cycle, owed, budget>>

ReconcileExpiredLeases(p) ==
  /\ SweepStep(p, "reconcile", "backfill")
  /\ queue' = [e \in Entities |-> IF Expired(queue[e]) THEN Unlocked(queue[e]) ELSE queue[e]]
  /\ UNCHANGED startup

\* The gate on the queue depth, read once before the first kind.
\* Mutant: it closes one row early.
BackfillGatedEarly(p) ==
  /\ SweepStep(p, "backfill", "idle")
  /\ sweep[p] = 1 /\ Cardinality(LiveRows) + 1 >= BackfillGate
  /\ UNCHANGED <<queue, startup>>
BackfillGated(p) ==
  /\ SweepStep(p, "backfill", "idle")
  /\ sweep[p] = 1 /\ Cardinality(LiveRows) >= BackfillGate
  /\ UNCHANGED <<queue, startup>>

\* The candidates of one kind are read outside any transaction ...
BackfillRead(p) ==
  /\ SweepStep(p, "backfill", "insert")
  /\ sweep[p] \in DOMAIN SweepOrder
  /\ sweep[p] = 1 => Cardinality(LiveRows) < BackfillGate
  /\ scan' = [scan EXCEPT ![p] = {JobOf(e) : e \in {c \in Candidates(sweep[p]) : NeedsReembed(c)}}]
  /\ UNCHANGED <<queue, sweep>>

\* ... and enqueued in one; then the next kind, then the worker's first poll.
BackfillInsert(p) ==
  LET last == sweep[p] = Len(SweepOrder)
  IN  /\ SweepStep(p, "insert", IF last THEN "idle" ELSE "backfill")
      /\ queue' = [e \in Entities |->
            IF \E j \in scan[p] : j.entity = e
            THEN Revived(queue[e], (CHOOSE j \in scan[p] : j.entity = e).content)
            ELSE queue[e]]
      /\ scan' = [scan EXCEPT ![p] = {}]
      /\ sweep' = [sweep EXCEPT ![p] = IF last THEN 1 ELSE @ + 1]

\* runStartupMaintenance catches what the sweep throws: the rest of it is skipped.
AbortSweep(p) ==
  /\ phase[p] \in {"reconcile", "backfill", "insert"} /\ Fault("abortSweep")
  /\ phase' = [phase EXCEPT ![p] = "idle"]
  /\ scan' = [scan EXCEPT ![p] = {}] /\ sweep' = [sweep EXCEPT ![p] = 1]
  /\ UNCHANGED <<tables, cycle, owed, edits>>

\* purge, at the end of the startup sweep and on its interval: done and poison
\* rows are swept by a DELETE each.
Purge(p, status) ==
  /\ Responsive(p)
  /\ \E e \in Entities : queue[e].status = status /\ queue[e].timer = 0
  /\ queue' = [e \in Entities |->
        IF queue[e].status = status /\ queue[e].timer = 0 THEN NoRow ELSE queue[e]]
  /\ UNCHANGED <<entity, vector, phase, cycle, startup, owed, budget>>

-----------------------------------------------------------------------------
(* Time.  A tick that expires the lease of a batch still being drained is an  *)
(* overrun of the lease and counts as a fault.                                *)
InHand(p) == {j.entity : j \in batch[p] \cup noop[p] \cup job[p]}
Overruns == \E p \in Processes : \E e \in InHand(p) : Holds(p, e) /\ queue[e].timer = 1

Elapsed(n) == IF n > 0 THEN n - 1 ELSE 0

Tick ==
  /\ \E e \in Entities : queue[e].timer > 0
  /\ queue' = [e \in Entities |-> [queue[e] EXCEPT !.timer = Elapsed(@)]]
  /\ IF Overruns THEN Fault("overrun") ELSE UNCHANGED faults
  /\ UNCHANGED <<entity, vector, phase, cycle, startup, owed, edits>>

-----------------------------------------------------------------------------
Write(p, e, c) ==
  \/ Create(p, e, c) \/ Update(p, e, c) \/ WriteUnqueued(p, e, c)
  \/ UpdateTask(p, e, c) \/ WriteStandard(p, e, c)

User(p) ==
  \/ \E e \in Entities :
        \/ \E c \in Contents : Write(p, e, c)
        \/ Archive(p, e) \/ Cancel(p, e) \/ Reopen(p, e) \/ Delete(p, e) \/ Clear(p, e)
  \/ \E E \in SUBSET Entities : Retry(p, E)

Worker(p) ==
  \/ \E S \in SUBSET Entities : Claim(p, S)
  \/ \E j \in noop[p] : NoOpComplete(p, j)
  \/ CheckExistence(p) \/ Embed(p) \/ EndBatch(p)
  \/ \E j \in batch[p] : WriteVector(p, j)
  \/ \E j \in batch[p] \cup job[p] : JobBusy(p, j) \/ JobError(p, j)
  \/ \E j \in job[p] : Complete(p, j) \/ Release(p, j) \/ Fail(p, j)
  \/ AbortCycle(p)

Sweep(p) ==
  \/ Start(p) \/ ReconcileExpiredLeases(p)
  \/ BackfillGated(p) \/ BackfillRead(p) \/ BackfillInsert(p) \/ AbortSweep(p)

Process(p) ==
  \/ Worker(p) \/ Sweep(p)
  \/ \E j \in owed[p] : EnqueueOwed(p, j)

Next ==
  \/ \E p \in Processes : User(p) \/ Process(p) \/ Crash(p)
                          \/ \E status \in {"done", "poison"} : Purge(p, status)
  \/ Tick

Spec == Init /\ [][Next]_vars

\* The event loop keeps turning, a dead process is started again, time passes.
Fairness == WF_vars(Tick) /\ \A p \in Processes : WF_vars(Process(p))
FairSpec == Spec /\ Fairness

-----------------------------------------------------------------------------
(* Properties *)

Jobs(p) == batch[p] \cup noop[p] \cup job[p]

\* The token pins the snapshot: while a row is still claimed with the token of a
\* worker that has its job in hand, the row's payload is the one the worker took,
\* so complete() can never mark a newer payload done (outbox.ts, conditional writes).
HeldSnapshot ==
  \A p \in Processes : \A j \in Jobs(p) :
     Holds(p, j.entity) => queue[j.entity].content = j.content

\* Poison is reached by failures alone: a row is poisoned exactly when it has failed
\* PoisonThreshold times since it was last reset; BUSY errors, crashes, overrun
\* leases and sweeps never bring it there (outbox.ts fail, batch.ts release path).
AttemptsMatchStatus ==
  \A e \in Entities : IF queue[e].status = "poison"
                       THEN queue[e].attempts = PoisonThreshold
                       ELSE queue[e].attempts < PoisonThreshold

\* What the invariants above rest on.  A job is in one place at a time: checked ones in
\* batch, gone ones in noop until the embedding starts, at most one between applyJob
\* and its outbox write; every stored row and entity has a content, and only for an
\* entity that was written is an enqueue owed (drainClaimedBatch, enrichUpdatedTasks).
JobsMatchPhase ==
  \A p \in Processes :
     /\ noop[p] # {} => phase[p] = "embed"
     /\ job[p] # {} => phase[p] \in {"complete", "release", "fail"}
     /\ \A j \in job[p] : job[p] = {j} /\ j \notin batch[p]
     /\ batch[p] \cap noop[p] = {}
Stored ==
  /\ \A e \in Entities : queue[e].status # "absent" => queue[e].content \in Contents
  /\ \A e \in Entities : entity[e].status # "absent" => entity[e].content \in Contents
  /\ \A p \in Processes : \A j \in owed[p] : entity[j.entity].status # "absent"
IInv == TypeOK /\ AttemptsMatchStatus /\ HeldSnapshot /\ JobsMatchPhase /\ Stored

\* A row becomes done only by the hand of the worker holding it, and only for the
\* payload stored in the row (outbox.ts complete, guarded by status and token).
EarnsDone ==
  \A e \in Entities :
     queue[e].status # "done" /\ queue'[e].status = "done" =>
       \E p \in Processes : /\ Holds(p, e)
                            /\ [entity |-> e, content |-> queue[e].content] \in Jobs(p)
DoneIsEarned == [][EarnsDone]_vars

\* Attempts and backoff of a live row survive everything but new content: restarts,
\* backfills, dedup'ed enqueues and lost leases never reset the retry budget of a payload,
\* and only time shortens its backoff, which it waits out before it is claimed
\* (enqueue.ts enqueueIfAbsent: a live row keeps its attempts and backoff_until).
KeepsAttempts ==
  \A e \in Entities :
     /\ queue[e].status \in {"pending", "claimed"}
     /\ queue'[e].status \in {"pending", "claimed", "poison"}
     /\ queue'[e].content = queue[e].content
     => /\ queue'[e].attempts >= queue[e].attempts
        /\ queue[e].status = "pending" /\ queue[e].timer > 0 =>
             queue'[e].status = "pending" /\ queue'[e].timer >= Elapsed(queue[e].timer)
AttemptsSurvive == [][KeepsAttempts]_vars

\* Dedup stays sound: a done row tells of a vector built from its payload, so an enqueue
\* that is skipped for an equal hash leaves nothing undone, and no step makes it otherwise but
\* the completion without work of a job whose entity is gone (types.ts EmbeddingJobPayload:
\* coalescing converges on the newest committed write).
DoneOK(e) == queue[e].status = "done" => vector[e] = queue[e].content
DedupSound == [][\A e \in Entities \ Files : Exists(e) /\ DoneOK(e) => DoneOK(e)']_vars

\* A done row is put back to work with the content its entity has at that moment, or
\* with its own payload when an operator retries it (enqueue.ts enqueueIfAbsent:
\* payload and content_hash are replaced by the current snapshot).
RevivedIsCurrent ==
  [][\A e \in Entities :
        queue[e].status = "done" /\ queue'[e].status = "pending" =>
          queue'[e].content \in {entity'[e].content, queue[e].content}]_vars

\* Every job is eventually finished or parked, whatever is lost on the way
\* (lease expiry, reconcile and backfill cover crashes).
Drains ==
  \A e \in Entities :
     queue[e].status \in {"pending", "claimed"} ~> queue[e].status \notin {"pending", "claimed"}

\* If no job is ever poisoned, every active entity ends with the vector of its last
\* content, crashes between commit and enqueue included (startup backfill).
Current(e) == entity[e].status = "active"
              => vector[e] = entity[e].content
Converges ==
  [](\A e \in Entities : queue[e].status # "poison") =>
     <>[](\A e \in Entities \ Files : Current(e))

\* A restart repairs: once no user operation is left or under way, an entity without a live job when
\* the startup sweep begins gets the vector of its content, or is parked
\* (enqueue.ts backfillMissingVectors; the gate is the instance's BackfillGate).
Repairs ==
  \A p \in Processes : \A e \in Entities \ Files :
     /\ phase[p] = "backfill" /\ sweep[p] = 1 /\ Cardinality(LiveRows) < BackfillGate
     /\ edits = MaxEdits /\ (\A q \in Processes : owed[q] = {})
     /\ queue[e].status \in {"absent", "done"}
     ~> Current(e) \/ queue[e].status = "poison"
=============================================================================
