------------------------ MODULE EmbeddingQueueProofs ------------------------
(***************************************************************************)
(* Proofs about EmbeddingQueue.  The inductive invariant IInv rests on     *)
(* three layers: what the operators on one row of queue_jobs preserve      *)
(* (GoodRow), what each action does to the rows, and what it does to the   *)
(* jobs the workers have in hand.  With it the outbox implements           *)
(* LeasedQueue, for any number of processes and entities: each step is a   *)
(* step of the leased queue or leaves its variables alone.                 *)
(***************************************************************************)
EXTENDS EmbeddingQueueRefinement, FiniteSetTheorems, TLAPS

-----------------------------------------------------------------------------
(* One row *)

\* The part of IInv that speaks about a single row.
GoodRow(row) ==
  /\ row \in Row
  /\ row.status # "absent" => row.content \in Contents
  /\ IF row.status = "poison" THEN row.attempts = PoisonThreshold
                              ELSE row.attempts < PoisonThreshold

\* The backoff of fail() is a number of ticks, whatever the number of attempts.
LEMMA BackoffType == \A n \in Nat : Backoff(n + 1) \in Nat
<1>. SUFFICES ASSUME NEW n \in Nat PROVE Backoff(n + 1) \in Nat
  OBVIOUS
<1>1. IsFiniteSet(1..n) /\ Cardinality(1..n) = n
  BY FS_Interval
<1>2. IsFiniteSet(SUBSET (1..n)) /\ Cardinality(SUBSET (1..n)) = 2^n
  BY <1>1, FS_SUBSET, Zenon
<1>3. 2^n \in Nat
  BY <1>2, FS_CardinalityType, Zenon
<1>4. BackoffBase * 2^n \in Nat
  BY <1>3, SizesAssumption
<1>5. (n + 1) - 1 = n
  OBVIOUS
<1>. QED
  BY <1>4, <1>5, SizesAssumption DEF Backoff

\* A fresh row is good; the updates of the outbox keep a good row good.
LEMMA FreshRows == GoodRow(NoRow) /\ \A c \in Contents : GoodRow(Pending(c))
BY SizesAssumption DEF GoodRow, NoRow, Pending, Row, Statuses

LEMMA RowUpdates ==
  ASSUME NEW row, GoodRow(row)
  PROVE  /\ \A c \in Contents : GoodRow(Enqueued(row, c)) /\ GoodRow(Revived(row, c))
         /\ row.status # "absent" => GoodRow(Retried(row))
         /\ row.status = "claimed" => 
               GoodRow(Unlocked(row)) /\ GoodRow(Completed(row)) /\ GoodRow(Failed(row))
<1>1. \A c \in Contents : GoodRow(Enqueued(row, c)) /\ GoodRow(Revived(row, c))
  BY FreshRows DEF Enqueued, Revived
<1>2. ASSUME row.status = "claimed" PROVE GoodRow(Unlocked(row))
  BY <1>2 DEF GoodRow, Unlocked, Row, Statuses
<1>3. ASSUME row.status # "absent" PROVE GoodRow(Retried(row))
  BY <1>3, FreshRows DEF GoodRow, Retried
<1>4. ASSUME row.status = "claimed" PROVE GoodRow(Completed(row))
  BY <1>4, SizesAssumption DEF GoodRow, Completed, Row, Statuses
<1>5. ASSUME row.status = "claimed" PROVE GoodRow(Failed(row))
  <2>. DEFINE n == row.attempts + 1
  <2>1. row \in Row /\ n \in Nat /\ n <= PoisonThreshold /\ row.content \in Contents
    BY <1>5, SizesAssumption DEF GoodRow, Row
  <2>2. Backoff(n) \in Nat
    BY BackoffType, <2>1 DEF GoodRow, Row
  <2>. HIDE DEF n
  <2>3. Failed(row) =
          [status |-> IF n >= PoisonThreshold THEN "poison" ELSE "pending",
           content |-> row.content, attempts |-> n, lockedBy |-> None,
           timer |-> IF n >= PoisonThreshold THEN PoisonTtl ELSE Backoff(n)]
    <3>1. Failed(row) = [row EXCEPT !.attempts = n, !.lockedBy = None,
                  !.status = IF n >= PoisonThreshold THEN "poison" ELSE "pending",
                  !.timer = IF n >= PoisonThreshold THEN PoisonTtl ELSE Backoff(n)]
      BY Zenon DEF Failed, n
    <3>. QED
      BY <2>1, <3>1 DEF Row
  <2>4. PoisonTtl \in Nat /\ PoisonThreshold \in Nat
    BY SizesAssumption
  <2>5. CASE n >= PoisonThreshold
    BY <2>1, <2>3, <2>4, <2>5 DEF GoodRow, Row, Statuses
  <2>6. CASE ~(n >= PoisonThreshold)
    BY <2>1, <2>2, <2>3, <2>4, <2>6 DEF GoodRow, Row, Statuses
  <2>. QED
    BY <2>5, <2>6
<1>. QED
  BY <1>1, <1>2, <1>3, <1>4, <1>5

-----------------------------------------------------------------------------
(* All rows *)
GoodRows(q) == q \in [Entities -> Row] /\ \A e \in Entities : GoodRow(q[e])

LEMMA InvRows == IInv => GoodRows(queue)
BY DEF IInv, TypeOK, AttemptsMatchStatus, Stored, GoodRows, GoodRow

\* One row or every row may be replaced by good ones.
LEMMA OneRow ==
  ASSUME NEW q, GoodRows(q), NEW e \in Entities, NEW row, GoodRow(row)
  PROVE  GoodRows([q EXCEPT ![e] = row])
BY DEF GoodRows, GoodRow

LEMMA EachRow ==
  ASSUME NEW q, q = [e \in Entities |-> q[e]], \A e \in Entities : GoodRow(q[e])
  PROVE  GoodRows(q)
BY DEF GoodRows, GoodRow

\* A conditional write of the outbox keeps the rows good, whoever holds the row.
LEMMA IfHeldRows ==
  ASSUME IInv, NEW p \in Processes, NEW e \in Entities,
         NEW row, row \in {Completed(queue[e]), Unlocked(queue[e]), Failed(queue[e])},
         IfHeld(p, e, row)
  PROVE  GoodRows(queue')
<1>1. GoodRows(queue) /\ GoodRow(queue[e])
  BY InvRows DEF GoodRows
<1>2. CASE Holds(p, e)
  <2>1. GoodRow(row)
    BY <1>1, <1>2, RowUpdates DEF Holds
  <2>. QED
    BY <1>1, <1>2, <2>1, OneRow DEF IfHeld
<1>3. CASE ~Holds(p, e)
  BY <1>1, <1>3 DEF IfHeld
<1>. QED
  BY <1>2, <1>3

\* The jobs a worker has in hand are jobs of entities.
LEMMA InvJobs ==
  ASSUME IInv, NEW p \in Processes
  PROVE  /\ batch[p] \subseteq Job /\ noop[p] \subseteq Job /\ job[p] \subseteq Job
         /\ scan[p] \subseteq Job /\ owed[p] \subseteq Job
         /\ \A j \in Job : j.entity \in Entities /\ j.content \in Contents
BY DEF IInv, TypeOK, Job, Entities

\* What is owed to an entity is a content.
LEMMA OwedPayload ==
  ASSUME IInv, NEW p \in Processes, NEW j \in owed[p]
  PROVE  j.entity \in Entities /\ Payload(j) \in Contents
BY InvJobs DEF IInv, Stored, Payload

\* Every step of the specification keeps every row of queue_jobs good.
LEMMA RowsStep == IInv /\ [Next]_vars => GoodRows(queue')
<1>. SUFFICES ASSUME IInv, [Next]_vars PROVE GoodRows(queue')
  OBVIOUS
<1>. USE InvRows, InvJobs
<1>0. GoodRows(queue) /\ \A e \in Entities : GoodRow(queue[e])
  BY DEF GoodRows
<1>1. ASSUME NEW p \in Processes, User(p) PROVE GoodRows(queue')
  <2>1. ASSUME NEW e \in Entities, NEW c \in Contents, Write(p, e, c)
        PROVE  GoodRows(queue')
    <3>1. GoodRow(Enqueued(queue[e], c))
      BY <1>0, RowUpdates
    <3>. QED
      BY <1>0, <2>1, <3>1, OneRow DEF Write, Create, Update, WriteUnqueued,
          UpdateTask, WriteStandard
  <2>2. ASSUME NEW e \in Entities,
               Archive(p, e) \/ Cancel(p, e) \/ Reopen(p, e) \/ Delete(p, e) \/ Clear(p, e)
        PROVE  GoodRows(queue')
    BY <1>0, <2>2, OneRow, FreshRows
       DEF Archive, Cancel, Reopen, SetStatus, Delete, Clear
  <2>3. ASSUME NEW E \in SUBSET Entities, Retry(p, E) PROVE GoodRows(queue')
    <3>1. \A e \in E : queue[e].status # "absent"
      BY <2>3 DEF Retry
    <3>2. \A e \in Entities : GoodRow(queue'[e])
      BY <1>0, <2>3, <3>1, RowUpdates DEF Retry
    <3>. QED
      BY <2>3, <3>2, EachRow DEF Retry
  <2>. QED
    BY <1>1, <2>1, <2>2, <2>3 DEF User
<1>2. ASSUME NEW p \in Processes, Worker(p) PROVE GoodRows(queue')
  <2>1. ASSUME NEW S \in SUBSET Entities, Claim(p, S) PROVE GoodRows(queue')
    <3>1. \A e \in Entities : GoodRow(queue'[e])
      BY <1>0, <2>1, SizesAssumption DEF Claim, Eligible, Expired, GoodRow, Row, Statuses
    <3>. QED
      BY <2>1, <3>1, EachRow DEF Claim
  <2>2. ASSUME NEW j \in noop[p], NoOpComplete(p, j) PROVE GoodRows(queue')
    BY <1>0, <2>2, IfHeldRows DEF NoOpComplete
  <2>3. ASSUME NEW j \in job[p], Complete(p, j) \/ Release(p, j) \/ Fail(p, j)
        PROVE  GoodRows(queue')
    BY <1>0, <2>3, IfHeldRows DEF Complete, Release, Fail
  <2>4. ASSUME NEW j, JobBusy(p, j) \/ JobError(p, j) \/ WriteVector(p, j)
        PROVE  GoodRows(queue')
    BY <1>0, <2>4 DEF JobBusy, JobError, Interrupted, WriteVector
  <2>5. ASSUME CheckExistence(p) \/ Embed(p) \/ EndBatch(p) \/ AbortCycle(p)
        PROVE  GoodRows(queue')
    BY <1>0, <2>5 DEF CheckExistence, Embed, EndBatch, AbortCycle
  <2>. QED
    BY <1>2, <2>1, <2>2, <2>3, <2>4, <2>5 DEF Worker
<1>3. ASSUME NEW p \in Processes, Sweep(p) PROVE GoodRows(queue')
  <2>1. ASSUME ReconcileExpiredLeases(p) PROVE GoodRows(queue')
    <3>1. \A e \in Entities : GoodRow(queue'[e])
      BY <1>0, <2>1, RowUpdates DEF ReconcileExpiredLeases, Expired
    <3>. QED
      BY <2>1, <3>1, EachRow DEF ReconcileExpiredLeases
  <2>2. ASSUME BackfillInsert(p) PROVE GoodRows(queue')
    <3>1. \A e \in Entities : GoodRow(queue'[e])
      <4>. SUFFICES ASSUME NEW e \in Entities PROVE GoodRow(queue'[e])
        OBVIOUS
      <4>1. CASE \E j \in scan[p] : j.entity = e
        <5>. DEFINE c == (CHOOSE j \in scan[p] : j.entity = e).content
        <5>1. c \in Contents
          BY <4>1
        <5>2. queue'[e] = Revived(queue[e], c)
          BY <2>2, <4>1 DEF BackfillInsert
        <5>. HIDE DEF c
        <5>. QED
          BY <1>0, <5>1, <5>2, RowUpdates
      <4>2. CASE ~\E j \in scan[p] : j.entity = e
        BY <1>0, <2>2, <4>2 DEF BackfillInsert
      <4>. QED
        BY <4>1, <4>2
    <3>. QED
      BY <2>2, <3>1, EachRow DEF BackfillInsert
  <2>3. ASSUME Start(p) \/ BackfillGated(p) \/ BackfillRead(p) \/ AbortSweep(p)
        PROVE  GoodRows(queue')
    BY <1>0, <2>3 DEF Start, BackfillGated, BackfillRead, AbortSweep, tables
  <2>. QED
    BY <1>3, <2>1, <2>2, <2>3 DEF Sweep
<1>4. ASSUME NEW p \in Processes, NEW j \in owed[p], EnqueueOwed(p, j) PROVE GoodRows(queue')
  <2>1. j.entity \in Entities /\ Payload(j) \in Contents
    BY OwedPayload
  <2>2. GoodRow(Enqueued(queue[j.entity], Payload(j)))
    BY <1>0, <2>1, RowUpdates
  <2>. QED
    BY <1>0, <1>4, <2>1, <2>2, OneRow DEF EnqueueOwed
<1>5. ASSUME NEW p \in Processes, Crash(p) PROVE GoodRows(queue')
  BY <1>0, <1>5 DEF Crash, tables
<1>6. ASSUME NEW p \in Processes, NEW status \in {"done", "poison"}, Purge(p, status)
      PROVE  GoodRows(queue')
  BY <1>0, <1>6, EachRow, FreshRows DEF Purge
<1>7. ASSUME Tick PROVE GoodRows(queue')
  <2>1. \A e \in Entities : GoodRow(queue'[e])
    BY <1>0, <1>7 DEF Tick, Elapsed, GoodRow, Row
  <2>. QED
    BY <1>7, <2>1, EachRow DEF Tick
<1>8. ASSUME UNCHANGED vars PROVE GoodRows(queue')
  BY <1>0, <1>8 DEF vars, tables
<1>. QED
  BY <1>1, <1>2, <1>3, <1>4, <1>5, <1>6, <1>7, <1>8 DEF Next, Process

-----------------------------------------------------------------------------
(* The variables other than queue *)

\* TypeOK without the table queue_jobs, in the groups the actions change together.
TablesOK ==
  /\ entity \in [Entities -> EntityRow]
  /\ vector \in [Entities -> Contents \cup {None}]
WorkersOK ==
  /\ phase \in [Processes -> Phases]
  /\ batch \in [Processes -> SUBSET Job]
  /\ noop \in [Processes -> SUBSET Job]
  /\ job \in [Processes -> SUBSET Job]
  /\ scan \in [Processes -> SUBSET Job]
  /\ sweep \in [Processes -> Nat]
  /\ owed \in [Processes -> SUBSET Job]
BooksOK ==
  /\ edits \in Nat /\ faults \in Nat

\* Every step keeps the types of all variables but queue.
LEMMA TypeStep == IInv /\ [Next]_vars => TablesOK' /\ WorkersOK' /\ BooksOK'
<1>. SUFFICES ASSUME IInv, [Next]_vars PROVE TablesOK' /\ WorkersOK' /\ BooksOK'
  OBVIOUS
<1>. USE DEF TablesOK, WorkersOK, BooksOK
<1>0. TablesOK /\ WorkersOK /\ BooksOK
  BY DEF IInv, TypeOK
<1>1. ASSUME NEW p \in Processes, User(p) PROVE TablesOK' /\ WorkersOK' /\ BooksOK'
  <2>1. ASSUME NEW e \in Entities, NEW c \in Contents, Write(p, e, c)
        PROVE  TablesOK' /\ WorkersOK' /\ BooksOK'
    <3>. USE DEF UserStep, cycle, startup, EntityRow
    <3>1. CASE Create(p, e, c)
      BY <1>0, <3>1 DEF Create
    <3>2. CASE Update(p, e, c)
      BY <1>0, <3>2 DEF Update
    <3>3. CASE WriteUnqueued(p, e, c)
      BY <1>0, <3>3 DEF WriteUnqueued
    <3>4. [entity |-> e, content |-> c] \in Job
      BY DEF Job
    <3>5. CASE UpdateTask(p, e, c)
      BY <1>0, <3>4, <3>5 DEF UpdateTask
    <3>6. CASE WriteStandard(p, e, c)
      BY <1>0, <3>4, <3>6 DEF WriteStandard
    <3>. QED
      BY <2>1, <3>1, <3>2, <3>3, <3>5, <3>6 DEF Write
  <2>2. ASSUME NEW e \in Entities,
               Archive(p, e) \/ Cancel(p, e) \/ Reopen(p, e) \/ Delete(p, e) \/ Clear(p, e)
        PROVE  TablesOK' /\ WorkersOK' /\ BooksOK'
    <3>. USE DEF UserStep, cycle, startup, EntityRow
    <3>1. CASE Archive(p, e) \/ Cancel(p, e) \/ Reopen(p, e)
      <4>1. \A op : \A from, to \in {"active", "archived", "canceled"} :
               SetStatus(p, e, op, from, to) => TablesOK' /\ WorkersOK' /\ BooksOK'
        BY <1>0 DEF SetStatus
      <4>. QED
        BY <3>1, <4>1 DEF Archive, Cancel, Reopen
    <3>2. CASE Delete(p, e)
      BY <1>0, <3>2 DEF Delete
    <3>3. CASE Clear(p, e)
      BY <1>0, <3>3 DEF Clear
    <3>. QED
      BY <2>2, <3>1, <3>2, <3>3
  <2>3. ASSUME NEW E \in SUBSET Entities, Retry(p, E)
        PROVE  TablesOK' /\ WorkersOK' /\ BooksOK'
    BY <1>0, <2>3 DEF Retry, UserStep, cycle, startup
  <2>. QED
    BY <1>1, <2>1, <2>2, <2>3 DEF User
<1>2. ASSUME NEW p \in Processes, Worker(p) PROVE TablesOK' /\ WorkersOK' /\ BooksOK'
  <2>. USE DEF WorkerStep, cycle, startup, Phases
  <2>1. ASSUME NEW S \in SUBSET Entities, Claim(p, S)
        PROVE  TablesOK' /\ WorkersOK' /\ BooksOK'
    <3>1. {[entity |-> e, content |-> queue[e].content] : e \in S} \subseteq Job
      <4>1. \A e \in S : e \in Entities /\ queue[e].content \in Contents
        BY <2>1 DEF Claim, IInv, Stored, Eligible, Expired
      <4>. QED
        BY <4>1 DEF Job
    <3>. QED
      BY <1>0, <2>1, <3>1 DEF Claim
  <2>2. ASSUME NEW j \in noop[p], NoOpComplete(p, j)
        PROVE  TablesOK' /\ WorkersOK' /\ BooksOK'
    BY <1>0, <2>2 DEF NoOpComplete, Fault
  <2>3. ASSUME NEW j \in job[p], Complete(p, j) \/ Release(p, j) \/ Fail(p, j)
        PROVE  TablesOK' /\ WorkersOK' /\ BooksOK'
    <3>1. CASE Complete(p, j)
      BY <1>0, <3>1 DEF Complete
    <3>2. CASE Release(p, j)
      BY <1>0, <3>2 DEF Release, Fault
    <3>3. CASE Fail(p, j)
      BY <1>0, <3>3 DEF Fail, Fault
    <3>. QED
      BY <2>3, <3>1, <3>2, <3>3
  <2>4. ASSUME NEW j \in batch[p] \cup job[p], JobBusy(p, j) \/ JobError(p, j)
        PROVE  TablesOK' /\ WorkersOK' /\ BooksOK'
    <3>1. CASE JobBusy(p, j)
      BY <1>0, <2>4, <3>1 DEF JobBusy, Interrupted, Fault
    <3>2. CASE JobError(p, j)
      BY <1>0, <2>4, <3>2 DEF JobError, Interrupted
    <3>. QED
      BY <2>4, <3>1, <3>2
  <2>5. ASSUME NEW j \in batch[p], WriteVector(p, j)
        PROVE  TablesOK' /\ WorkersOK' /\ BooksOK'
    BY <1>0, <2>5 DEF WriteVector, Job
  <2>6. ASSUME CheckExistence(p) \/ Embed(p) \/ EndBatch(p) \/ AbortCycle(p)
        PROVE  TablesOK' /\ WorkersOK' /\ BooksOK'
    BY <1>0, <2>6 DEF CheckExistence, Embed, EndBatch, AbortCycle, Forget, Fault
  <2>. QED
    BY <1>2, <2>1, <2>2, <2>3, <2>4, <2>5, <2>6 DEF Worker
<1>3. ASSUME NEW p \in Processes, Sweep(p) PROVE TablesOK' /\ WorkersOK' /\ BooksOK'
  <2>. USE DEF SweepStep, cycle, startup, budget, tables, Phases
  <2>1. ASSUME BackfillRead(p) PROVE TablesOK' /\ WorkersOK' /\ BooksOK'
    <3>1. \A e \in Candidates(sweep[p]) : JobOf(e) \in Job
      BY <2>1 DEF BackfillRead, Candidates, SweepOrder, Entities, JobOf, Job, IInv, Stored
    <3>. QED
      BY <1>0, <2>1, <3>1 DEF BackfillRead
  <2>2. ASSUME Start(p) \/ AbortSweep(p) PROVE TablesOK' /\ WorkersOK' /\ BooksOK'
    BY <1>0, <2>2 DEF Start, AbortSweep, Fault
  <2>3. ASSUME ReconcileExpiredLeases(p) \/ BackfillGated(p)
        PROVE  TablesOK' /\ WorkersOK' /\ BooksOK'
    BY <1>0, <2>3 DEF ReconcileExpiredLeases, BackfillGated
  <2>4. ASSUME BackfillInsert(p) PROVE TablesOK' /\ WorkersOK' /\ BooksOK'
    BY <1>0, <2>4 DEF BackfillInsert
  <2>. QED
    BY <1>3, <2>1, <2>2, <2>3, <2>4 DEF Sweep
<1>4. ASSUME NEW p \in Processes, NEW j \in owed[p], EnqueueOwed(p, j)
      PROVE  TablesOK' /\ WorkersOK' /\ BooksOK'
  BY <1>0, <1>4 DEF EnqueueOwed, cycle, startup, budget
<1>5. ASSUME NEW p \in Processes, Crash(p) PROVE TablesOK' /\ WorkersOK' /\ BooksOK'
  BY <1>0, <1>5 DEF Crash, Forget, Fault, tables, Phases
<1>6. ASSUME NEW p \in Processes, NEW status \in {"done", "poison"}, Purge(p, status)
      PROVE  TablesOK' /\ WorkersOK' /\ BooksOK'
  BY <1>0, <1>6 DEF Purge, cycle, startup, budget
<1>7. ASSUME Tick PROVE TablesOK' /\ WorkersOK' /\ BooksOK'
  BY <1>0, <1>7 DEF Tick, Fault, cycle, startup
<1>8. ASSUME UNCHANGED vars PROVE TablesOK' /\ WorkersOK' /\ BooksOK'
  BY <1>0, <1>8 DEF vars, tables, cycle, startup, budget
<1>. QED
  BY <1>1, <1>2, <1>3, <1>4, <1>5, <1>6, <1>7, <1>8 DEF Next, Process

-----------------------------------------------------------------------------
(* The jobs in hand *)

\* Every step keeps each job in one place and in the phase that handles it.
LEMMA JobsStep == IInv /\ [Next]_vars => JobsMatchPhase'
<1>. SUFFICES ASSUME IInv, [Next]_vars PROVE JobsMatchPhase'
  OBVIOUS
<1>. USE DEF JobsMatchPhase
<1>0. JobsMatchPhase /\ WorkersOK
  BY DEF IInv, TypeOK, WorkersOK
<1>. USE DEF WorkersOK
<1>1. ASSUME NEW p \in Processes, User(p) PROVE JobsMatchPhase'
  <2>1. UNCHANGED <<phase, batch, noop, job>>
    BY <1>1 DEF User, Write, Create, Update, WriteUnqueued, UpdateTask, WriteStandard,
         Archive, Cancel, Reopen, SetStatus,
                Delete, Clear, Retry, UserStep, cycle
  <2>. QED
    BY <1>0, <2>1
<1>2. ASSUME NEW p \in Processes, Worker(p) PROVE JobsMatchPhase'
  <2>. USE DEF WorkerStep, cycle
  <2>1. ASSUME NEW S \in SUBSET Entities, Claim(p, S) PROVE JobsMatchPhase'
    BY <1>0, <2>1 DEF Claim
  <2>2. ASSUME NEW j \in noop[p], NoOpComplete(p, j) PROVE JobsMatchPhase'
    BY <1>0, <2>2 DEF NoOpComplete
  <2>3. ASSUME NEW j \in job[p], Complete(p, j) \/ Release(p, j) \/ Fail(p, j)
        PROVE  JobsMatchPhase'
    BY <1>0, <2>3 DEF Complete, Release, Fail
  <2>4. ASSUME NEW j \in batch[p] \cup job[p], JobBusy(p, j) \/ JobError(p, j)
        PROVE  JobsMatchPhase'
    BY <1>0, <2>4 DEF JobBusy, JobError, Interrupted
  <2>5. ASSUME NEW j \in batch[p], WriteVector(p, j) PROVE JobsMatchPhase'
    BY <1>0, <2>5 DEF WriteVector
  <2>6. ASSUME CheckExistence(p) PROVE JobsMatchPhase'
    BY <1>0, <2>6 DEF CheckExistence
  <2>7. ASSUME Embed(p) \/ EndBatch(p) PROVE JobsMatchPhase'
    BY <1>0, <2>7 DEF Embed, EndBatch
  <2>8. ASSUME AbortCycle(p) PROVE JobsMatchPhase'
    BY <1>0, <2>8 DEF AbortCycle, Forget
  <2>. QED
    BY <1>2, <2>1, <2>2, <2>3, <2>4, <2>5, <2>6, <2>7, <2>8 DEF Worker
<1>3. ASSUME NEW p \in Processes, Sweep(p) PROVE JobsMatchPhase'
  BY <1>0, <1>3 DEF Sweep, Start, ReconcileExpiredLeases, BackfillGated, BackfillRead,
                    BackfillInsert, AbortSweep, SweepStep, cycle
<1>4. ASSUME NEW p \in Processes, NEW j \in owed[p], EnqueueOwed(p, j) PROVE JobsMatchPhase'
  BY <1>0, <1>4 DEF EnqueueOwed, cycle
<1>5. ASSUME NEW p \in Processes, Crash(p) PROVE JobsMatchPhase'
  BY <1>0, <1>5 DEF Crash, Forget
<1>6. ASSUME NEW p \in Processes, NEW status \in {"done", "poison"}, Purge(p, status)
      PROVE  JobsMatchPhase'
  BY <1>0, <1>6 DEF Purge, cycle
<1>7. ASSUME Tick PROVE JobsMatchPhase'
  BY <1>0, <1>7 DEF Tick, cycle
<1>8. ASSUME UNCHANGED vars PROVE JobsMatchPhase'
  BY <1>0, <1>8 DEF vars, cycle
<1>. QED
  BY <1>1, <1>2, <1>3, <1>4, <1>5, <1>6, <1>7, <1>8 DEF Next, Process

\* Every step keeps contents on what is stored and tasks behind what is owed.
LEMMA StoredStep == IInv /\ [Next]_vars => Stored'
<1>. SUFFICES ASSUME IInv, [Next]_vars PROVE Stored'
  OBVIOUS
<1>1. \A e \in Entities : queue'[e].status # "absent" => queue'[e].content \in Contents
  BY RowsStep DEF GoodRows, GoodRow
<1>. DEFINE Kept == /\ \A e \in Entities : entity[e].status # "absent" =>
                          /\ entity'[e].status # "absent"
                          /\ entity'[e].content \in Contents
                    /\ \A e \in Entities : entity'[e].status # "absent" =>
                          entity'[e].content \in Contents
                    /\ \A p \in Processes : \A j \in owed'[p] : entity'[j.entity].status # "absent"
<1>2. Stored /\ TablesOK /\ WorkersOK
  BY DEF IInv, TypeOK, TablesOK, WorkersOK
<1>3. ASSUME NEW p \in Processes, User(p) PROVE Kept
  <2>. USE DEF Stored, TablesOK, WorkersOK
  <2>1. ASSUME NEW e \in Entities, NEW c \in Contents, Create(p, e, c) PROVE Kept
    BY <1>2, <2>1 DEF Create, EntityRow
  <2>2. ASSUME NEW e \in Entities, NEW c \in Contents, Update(p, e, c) PROVE Kept
    BY <1>2, <2>2 DEF Update, EntityRow
  <2>3. ASSUME NEW e \in Entities, NEW c \in Contents, WriteUnqueued(p, e, c) PROVE Kept
    BY <1>2, <2>3 DEF WriteUnqueued, EntityRow
  <2>4. ASSUME NEW e \in Entities, NEW c \in Contents, UpdateTask(p, e, c) PROVE Kept
    BY <1>2, <2>4 DEF UpdateTask, EntityRow
  <2>9. ASSUME NEW e \in Entities, NEW c \in Contents, WriteStandard(p, e, c) PROVE Kept
    BY <1>2, <2>9 DEF WriteStandard, EntityRow
  <2>5. ASSUME NEW e \in Entities, Archive(p, e) \/ Cancel(p, e) \/ Reopen(p, e) PROVE Kept
    <3>1. \A op, from, to : SetStatus(p, e, op, from, to) /\ from # "absent"
                               /\ to # "absent" => Kept
      BY <1>2 DEF SetStatus, EntityRow
    <3>. QED
      BY <2>5, <3>1 DEF Archive, Cancel, Reopen
  <2>6. ASSUME NEW e \in Entities, Delete(p, e) PROVE Kept
    BY <1>2, <2>6 DEF Delete, EntityRow
  <2>7. ASSUME NEW e \in Entities, Clear(p, e) PROVE Kept
    BY <1>2, <2>7 DEF Clear
  <2>8. ASSUME NEW E \in SUBSET Entities, Retry(p, E) PROVE Kept
    BY <1>2, <2>8 DEF Retry
  <2>. QED
    BY <1>3, <2>1, <2>2, <2>3, <2>4, <2>5, <2>6, <2>7, <2>8, <2>9 DEF User, Write
<1>4. ASSUME NEW p \in Processes, Worker(p) \/ Sweep(p) \/ Purge(p, "done") \/ Purge(p, "poison")
      PROVE  Kept
  <2>1. UNCHANGED <<entity, owed>>
    BY <1>4 DEF Worker, Claim, NoOpComplete, CheckExistence, Embed, WriteVector, Complete,
         JobBusy, JobError, Interrupted, Release, Fail, EndBatch, AbortCycle, WorkerStep,
         Sweep, Start, ReconcileExpiredLeases, BackfillGated, BackfillRead, BackfillInsert,
         AbortSweep, SweepStep, Purge, tables
  <2>. QED
    BY <1>2, <2>1 DEF Stored
<1>5. ASSUME NEW p \in Processes, NEW j \in owed[p], EnqueueOwed(p, j) PROVE Kept
  BY <1>2, <1>5 DEF EnqueueOwed, Stored, WorkersOK
<1>6. ASSUME NEW p \in Processes, Crash(p) PROVE Kept
  BY <1>2, <1>6 DEF Crash, Stored, WorkersOK, tables
<1>7. ASSUME Tick \/ UNCHANGED vars PROVE Kept
  BY <1>2, <1>7 DEF Tick, Stored, vars, tables
<1>8. Kept
  BY <1>3, <1>4, <1>5, <1>6, <1>7 DEF Next, Process
<1>. QED
  BY <1>1, <1>8 DEF Stored

\* Rows are claimed by Claim alone; what stays claimed keeps its token and payload.
KeepsClaims ==
  /\ \A e \in Entities : queue'[e].status = "claimed" =>
        /\ queue[e].status = "claimed"
        /\ queue'[e].lockedBy = queue[e].lockedBy /\ queue'[e].content = queue[e].content
  /\ \A q \in Processes : Jobs(q)' \subseteq Jobs(q)

LEMMA KeepsClaimsHeld ==
  ASSUME IInv, KeepsClaims PROVE HeldSnapshot'
<1>. SUFFICES ASSUME NEW p \in Processes, NEW j \in Jobs(p)', Holds(p, j.entity)'
             PROVE  queue'[j.entity].content = j.content
  BY DEF HeldSnapshot
<1>1. j \in Jobs(p) /\ j.entity \in Entities
  BY InvJobs DEF KeepsClaims, Jobs
<1>. QED
  BY <1>1 DEF IInv, HeldSnapshot, KeepsClaims, Holds

LEMMA IfHeldKeeps ==
  ASSUME IInv, NEW p \in Processes, NEW e \in Entities, NEW row, row.status # "claimed",
         IfHeld(p, e, row)
  PROVE  \A f \in Entities : queue'[f].status = "claimed" => queue'[f] = queue[f]
BY DEF IInv, TypeOK, IfHeld

LEMMA OutboxStatuses ==
  ASSUME NEW row \in Row
  PROVE  /\ Completed(row).status = "done" /\ Unlocked(row).status = "pending"
         /\ Failed(row).status \in {"pending", "poison"}
BY DEF Completed, Unlocked, Failed, Row

LEMMA JobsStay ==
  ASSUME UNCHANGED <<batch, noop, job>>
  PROVE  \A q \in Processes : Jobs(q)' = Jobs(q)
BY DEF Jobs

\* Every step keeps the payload of a held row that of the job in hand.
LEMMA HeldStep == IInv /\ [Next]_vars => HeldSnapshot'
<1>. SUFFICES ASSUME IInv, [Next]_vars PROVE HeldSnapshot'
  OBVIOUS
<1>0. /\ queue \in [Entities -> Row] /\ WorkersOK /\ JobsMatchPhase /\ HeldSnapshot
      /\ \A e \in Entities : queue[e] \in Row
  BY DEF IInv, TypeOK, WorkersOK
<1>1. ASSUME NEW p \in Processes, User(p) PROVE KeepsClaims
  <2>1. \A q \in Processes : Jobs(q)' = Jobs(q)
    BY <1>1, JobsStay DEF User, Write, Create, Update, WriteUnqueued, UpdateTask,
         WriteStandard, Archive, Cancel, Reopen, SetStatus, Delete, Clear, Retry, UserStep, cycle
  <2>2. \A e \in Entities : queue'[e].status = "claimed" => queue'[e] = queue[e]
    <3>1. ASSUME NEW e \in Entities, NEW c \in Contents, Write(p, e, c)
          PROVE  \A f \in Entities : queue'[f].status = "claimed" => queue'[f] = queue[f]
      BY <1>0, <3>1 DEF Write, Create, Update, WriteUnqueued, UpdateTask,
            WriteStandard, Enqueued, Pending
    <3>2. ASSUME NEW e \in Entities, Archive(p, e) \/ Cancel(p, e) \/ Reopen(p, e)
                                     \/ Delete(p, e) \/ Clear(p, e)
          PROVE  \A f \in Entities : queue'[f].status = "claimed" => queue'[f] = queue[f]
      BY <1>0, <3>2 DEF Archive, Cancel, Reopen, SetStatus, Delete, Clear, NoRow
    <3>3. ASSUME NEW E \in SUBSET Entities, Retry(p, E)
          PROVE  \A f \in Entities : queue'[f].status = "claimed" => queue'[f] = queue[f]
      BY <1>0, <3>3 DEF Retry, Retried, Pending
    <3>. QED
      BY <1>1, <3>1, <3>2, <3>3 DEF User
  <2>. QED
    BY <2>1, <2>2 DEF KeepsClaims
<1>2. ASSUME NEW p \in Processes, NEW S \in SUBSET Entities, Claim(p, S) PROVE HeldSnapshot'
  <2>. DEFINE claimed == {[entity |-> e, content |-> queue[e].content] : e \in S}
  <2>1. noop[p] = {} /\ job[p] = {}
    BY <1>0, <1>2 DEF Claim, WorkerStep, JobsMatchPhase
  <2>2. Jobs(p)' = claimed /\ \A q \in Processes \ {p} : Jobs(q)' = Jobs(q)
    BY <1>0, <1>2, <2>1 DEF Claim, Jobs, WorkersOK
  <2>3. \A e \in Entities : /\ queue'[e].content = queue[e].content
                            /\ e \in S => queue'[e].lockedBy = p
                            /\ e \notin S => queue'[e] = queue[e]
    BY <1>0, <1>2 DEF Claim, Row
  <2>4. SUFFICES ASSUME NEW q \in Processes, NEW j \in Jobs(q)', Holds(q, j.entity)'
                 PROVE  queue'[j.entity].content = j.content
    BY DEF HeldSnapshot
  <2>5. CASE q = p
    BY <2>2, <2>3, <2>4, <2>5
  <2>6. CASE q # p
    <3>1. j \in Jobs(q) /\ j.entity \in Entities
      BY <2>2, <2>6, InvJobs DEF Jobs
    <3>2. j.entity \notin S
      BY <2>3, <2>4, <2>6, <3>1 DEF Holds
    <3>. QED
      BY <1>0, <2>3, <2>4, <3>1, <3>2 DEF HeldSnapshot, Holds
  <2>. QED
    BY <2>5, <2>6
<1>3. ASSUME NEW p \in Processes, Worker(p), ~\E S \in SUBSET Entities : Claim(p, S)
      PROVE  KeepsClaims
  <2>1. ASSUME NEW j \in noop[p], NoOpComplete(p, j) PROVE KeepsClaims
    <3>1. \A f \in Entities : queue'[f].status = "claimed" => queue'[f] = queue[f]
      BY <1>0, <2>1, InvJobs, IfHeldKeeps, OutboxStatuses DEF NoOpComplete
    <3>2. \A q \in Processes : Jobs(q)' \subseteq Jobs(q)
      BY <1>0, <2>1 DEF NoOpComplete, Jobs, WorkersOK
    <3>. QED
      BY <3>1, <3>2 DEF KeepsClaims
  <2>2. ASSUME NEW j \in job[p], Complete(p, j) \/ Release(p, j) \/ Fail(p, j)
        PROVE  KeepsClaims
    <3>1. \A f \in Entities : queue'[f].status = "claimed" => queue'[f] = queue[f]
      BY <1>0, <2>2, InvJobs, IfHeldKeeps, OutboxStatuses DEF Complete, Release, Fail
    <3>2. \A q \in Processes : Jobs(q)' \subseteq Jobs(q)
      BY <1>0, <2>2 DEF Complete, Release, Fail, Jobs, WorkersOK
    <3>. QED
      BY <3>1, <3>2 DEF KeepsClaims
  <2>3. ASSUME NEW j \in batch[p] \cup job[p],
               JobBusy(p, j) \/ JobError(p, j) \/ (j \in batch[p] /\ WriteVector(p, j))
        PROVE  KeepsClaims
    <3>1. UNCHANGED queue
      BY <2>3 DEF JobBusy, JobError, Interrupted, WriteVector
    <3>2. \A q \in Processes : Jobs(q)' \subseteq Jobs(q)
      BY <1>0, <2>3 DEF JobBusy, JobError, Interrupted, WriteVector, Jobs, WorkersOK
    <3>. QED
      BY <3>1, <3>2 DEF KeepsClaims
  <2>4. ASSUME CheckExistence(p) \/ Embed(p) \/ EndBatch(p) \/ AbortCycle(p)
        PROVE  KeepsClaims
    <3>1. UNCHANGED queue
      BY <2>4 DEF CheckExistence, Embed, EndBatch, AbortCycle
    <3>2. \A q \in Processes : Jobs(q)' \subseteq Jobs(q)
      BY <1>0, <2>4 DEF CheckExistence, Embed, EndBatch, AbortCycle, Forget, cycle,
                        Jobs, WorkersOK
    <3>. QED
      BY <3>1, <3>2 DEF KeepsClaims
  <2>. QED
    BY <1>3, <2>1, <2>2, <2>3, <2>4 DEF Worker
<1>4. ASSUME NEW p \in Processes, Sweep(p) PROVE KeepsClaims
  <2>1. \A q \in Processes : Jobs(q)' = Jobs(q)
    BY <1>4, JobsStay DEF Sweep, Start, ReconcileExpiredLeases, BackfillGated, BackfillRead,
         BackfillInsert, AbortSweep, SweepStep, cycle
  <2>2. \A e \in Entities : queue'[e].status = "claimed" => queue'[e] = queue[e]
    <3>1. CASE ReconcileExpiredLeases(p)
      BY <1>0, <3>1, OutboxStatuses DEF ReconcileExpiredLeases
    <3>2. CASE BackfillInsert(p)
      BY <1>0, <3>2 DEF BackfillInsert, Revived, Pending
    <3>3. CASE Start(p) \/ BackfillGated(p) \/ BackfillRead(p) \/ AbortSweep(p)
      BY <3>3 DEF Start, BackfillGated, BackfillRead, AbortSweep, tables
    <3>. QED
      BY <1>4, <3>1, <3>2, <3>3 DEF Sweep
  <2>. QED
    BY <2>1, <2>2 DEF KeepsClaims
<1>5. ASSUME NEW p \in Processes, NEW j \in owed[p], EnqueueOwed(p, j) PROVE KeepsClaims
  BY <1>0, <1>5, JobsStay DEF EnqueueOwed, Enqueued, Pending, cycle, KeepsClaims
<1>6. ASSUME NEW p \in Processes, Crash(p) PROVE KeepsClaims
  BY <1>0, <1>6 DEF Crash, Forget, KeepsClaims, Jobs, tables, WorkersOK
<1>7. ASSUME NEW p \in Processes, NEW status \in {"done", "poison"}, Purge(p, status)
      PROVE  KeepsClaims
  BY <1>0, <1>7, JobsStay DEF Purge, NoRow, cycle, KeepsClaims
<1>8. ASSUME Tick PROVE KeepsClaims
  BY <1>0, <1>8, JobsStay DEF Tick, cycle, KeepsClaims, Row
<1>9. ASSUME UNCHANGED vars PROVE KeepsClaims
  BY <1>0, <1>9, JobsStay DEF vars, tables, cycle, KeepsClaims
<1>. QED
  BY <1>1, <1>2, <1>3, <1>4, <1>5, <1>6, <1>7, <1>8, <1>9, KeepsClaimsHeld DEF Next, Process

-----------------------------------------------------------------------------
(* The invariant *)

LEMMA Initially == Init => IInv
<1>. SUFFICES ASSUME Init PROVE IInv
  OBVIOUS
<1>1. TypeOK
  BY FreshRows, SizesAssumption
     DEF Init, TypeOK, GoodRow, EntityRow, Phases
<1>2. AttemptsMatchStatus /\ HeldSnapshot /\ JobsMatchPhase /\ Stored
  BY SizesAssumption
     DEF Init, AttemptsMatchStatus, HeldSnapshot, Jobs, JobsMatchPhase, Stored, NoRow
<1>. QED
  BY <1>1, <1>2 DEF IInv

LEMMA Inductive == IInv /\ [Next]_vars => IInv'
<1>. SUFFICES ASSUME IInv, [Next]_vars PROVE IInv'
  OBVIOUS
<1>1. GoodRows(queue')
  BY RowsStep
<1>2. TypeOK'
  BY <1>1, TypeStep DEF TypeOK, TablesOK, WorkersOK, BooksOK, GoodRows
<1>3. AttemptsMatchStatus'
  BY <1>1 DEF GoodRows, GoodRow, AttemptsMatchStatus
<1>. QED
  BY <1>2, <1>3, JobsStep, StoredStep, HeldStep DEF IInv

\* IInv holds in every reachable state of the outbox.
THEOREM InductiveInvariant == Spec => []IInv
BY Initially, Inductive, PTL DEF Spec

\* The variables keep their types, for any number of processes, entities and attempts.
THEOREM TypeCorrect == Spec => []TypeOK
<1>1. IInv => TypeOK
  BY DEF IInv
<1>. QED
  BY <1>1, InductiveInvariant, PTL

\* A row is poisoned exactly when it failed PoisonThreshold times, for every threshold.
THEOREM PoisonEarned == Spec => []AttemptsMatchStatus
<1>1. IInv => AttemptsMatchStatus
  BY DEF IInv
<1>. QED
  BY <1>1, InductiveInvariant, PTL

\* The token of a claimed row pins its payload, for any number of competing workers.
THEOREM TokenPinsSnapshot == Spec => []HeldSnapshot
<1>1. IInv => HeldSnapshot
  BY DEF IInv
<1>. QED
  BY <1>1, InductiveInvariant, PTL

-----------------------------------------------------------------------------
(* What a step does to a done row and to the attempts of a live one *)

NoneDone ==
  \A e \in Entities : queue'[e].status = "done" =>
    queue[e].status = "done" /\ queue'[e].content = queue[e].content

LEMMA RowStatuses ==
  ASSUME NEW row \in Row, NEW c
  PROVE  /\ Pending(c).status = "pending" /\ NoRow.status = "absent"
         /\ Retried(row).status = "pending" /\ Unlocked(row).status = "pending"
         /\ Enqueued(row, c) = row \/ Enqueued(row, c).status = "pending"
         /\ Revived(row, c) = row \/ Revived(row, c).status = "pending"
         /\ Failed(row).status \in {"pending", "poison"}
BY OutboxStatuses DEF Pending, NoRow, Retried, Unlocked, Enqueued, Revived

\* A complete that changes a row finds it held by a worker with that very job in hand.
LEMMA CompletedHeld ==
  ASSUME IInv, NEW p \in Processes, NEW j \in Jobs(p),
         IfHeld(p, j.entity, Completed(queue[j.entity])),
         NEW e \in Entities, queue[e].status # "done", queue'[e].status = "done"
  PROVE  Holds(p, e) /\ [entity |-> e, content |-> queue[e].content] \in Jobs(p)
<1>1. e = j.entity /\ Holds(p, e)
  BY DEF IfHeld, IInv, TypeOK
<1>2. queue[e].content = j.content
  BY <1>1 DEF IInv, HeldSnapshot
<1>3. j \in Job
  BY InvJobs DEF Jobs
<1>4. j = [entity |-> e, content |-> queue[e].content]
  BY <1>1, <1>2, <1>3 DEF Job
<1>. QED
  BY <1>1, <1>4

\* Only a worker's completes make a row done.
Completes == \E p \in Processes : \/ \E j \in noop[p] : NoOpComplete(p, j)
                                 \/ \E j \in job[p] : Complete(p, j)

LEMMA DoneRows == IInv /\ [Next]_vars => NoneDone \/ Completes
<1>. SUFFICES ASSUME IInv, [Next]_vars PROVE NoneDone \/ Completes
  OBVIOUS
<1>0. queue \in [Entities -> Row] /\ \A e \in Entities : queue[e] \in Row
  BY DEF IInv, TypeOK
<1>1. ASSUME NEW p \in Processes, User(p) PROVE NoneDone
  <2>1. ASSUME NEW e \in Entities, NEW c \in Contents, Write(p, e, c)
        PROVE  NoneDone
    BY <1>0, <2>1, RowStatuses DEF NoneDone, Write, Create, Update, WriteUnqueued,
          UpdateTask, WriteStandard
  <2>2. ASSUME NEW e \in Entities, Archive(p, e) \/ Cancel(p, e) \/ Reopen(p, e)
                                   \/ Delete(p, e) \/ Clear(p, e)
        PROVE  NoneDone
    BY <1>0, <2>2, RowStatuses
       DEF NoneDone, Archive, Cancel, Reopen, SetStatus, Delete, Clear
  <2>3. ASSUME NEW E \in SUBSET Entities, Retry(p, E) PROVE NoneDone
    BY <1>0, <2>3, RowStatuses DEF NoneDone, Retry
  <2>. QED
    BY <1>1, <2>1, <2>2, <2>3 DEF User
<1>2. ASSUME NEW p \in Processes, NEW j \in job[p], Release(p, j) \/ Fail(p, j) PROVE NoneDone
  BY <1>0, <1>2, RowStatuses, InvJobs DEF NoneDone, Release, Fail, IfHeld
<1>3. ASSUME NEW p \in Processes, NEW S \in SUBSET Entities, Claim(p, S) PROVE NoneDone
  BY <1>0, <1>3 DEF NoneDone, Claim, Row
<1>4. ASSUME NEW p \in Processes, NEW j,
             WriteVector(p, j) \/ JobBusy(p, j) \/ JobError(p, j) \/ CheckExistence(p)
             \/ Embed(p) \/ EndBatch(p) \/ AbortCycle(p)
      PROVE  NoneDone
  BY <1>4 DEF NoneDone, WriteVector, JobBusy, JobError, Interrupted, CheckExistence, Embed,
              EndBatch, AbortCycle
<1>5. ASSUME NEW p \in Processes, Worker(p) PROVE NoneDone \/ Completes
  BY <1>2, <1>3, <1>4, <1>5 DEF Worker, Completes
<1>6. ASSUME NEW p \in Processes, Sweep(p) PROVE NoneDone
  <2>1. CASE ReconcileExpiredLeases(p) \/ BackfillInsert(p)
    BY <1>0, <2>1, RowStatuses DEF NoneDone, ReconcileExpiredLeases, BackfillInsert
  <2>2. CASE Start(p) \/ BackfillGated(p) \/ BackfillRead(p) \/ AbortSweep(p)
    BY <2>2 DEF NoneDone, Start, BackfillGated, BackfillRead, AbortSweep, tables
  <2>. QED
    BY <1>6, <2>1, <2>2 DEF Sweep
<1>7. ASSUME NEW p \in Processes,
             Crash(p) \/ (\E j \in owed[p] : EnqueueOwed(p, j))
             \/ (\E status \in {"done", "poison"} : Purge(p, status))
      PROVE  NoneDone
  BY <1>0, <1>7, RowStatuses DEF NoneDone, Crash, EnqueueOwed, Purge, tables
<1>8. ASSUME Tick \/ UNCHANGED vars PROVE NoneDone
  BY <1>0, <1>8 DEF NoneDone, Tick, vars, tables, Row
<1>. QED
  BY <1>1, <1>5, <1>6, <1>7, <1>8 DEF Next, Process

LEMMA DoneStep == IInv /\ [Next]_vars => EarnsDone
<1>. SUFFICES ASSUME IInv, [Next]_vars PROVE EarnsDone
  OBVIOUS
<1>1. CASE NoneDone
  BY <1>1 DEF NoneDone, EarnsDone
<1>2. ASSUME NEW p \in Processes, NEW j \in noop[p], NoOpComplete(p, j) PROVE EarnsDone
  <2>1. CASE IfHeld(p, j.entity, Completed(queue[j.entity]))
    BY <2>1, CompletedHeld DEF Jobs, EarnsDone
  <2>2. CASE UNCHANGED queue
    BY <2>2 DEF EarnsDone
  <2>. QED
    BY <1>2, <2>1, <2>2 DEF NoOpComplete
<1>3. ASSUME NEW p \in Processes, NEW j \in job[p], Complete(p, j) PROVE EarnsDone
  BY <1>3, CompletedHeld DEF Complete, Jobs, EarnsDone
<1>. QED
  BY <1>1, <1>2, <1>3, DoneRows DEF Completes

\* A row becomes done only by the worker that holds it, with the payload in the row.
THEOREM DoneEarned == Spec => DoneIsEarned
BY DoneStep, InductiveInvariant, PTL DEF Spec, DoneIsEarned

\* A move of a row that takes neither attempts nor backoff from a live payload.
NoReset(x, y) ==
  /\ x.status \in {"pending", "claimed"} /\ y.status \in {"pending", "claimed", "poison"}
  /\ y.content = x.content
  => /\ y.attempts >= x.attempts
     /\ x.status = "pending" /\ x.timer > 0 =>
          y.status = "pending" /\ y.timer >= Elapsed(x.timer)

LEMMA NoResets ==
  ASSUME NEW row \in Row
  PROVE  /\ NoReset(row, row) /\ NoReset(row, NoRow)
         /\ \A c \in Contents : NoReset(row, Enqueued(row, c)) /\ NoReset(row, Revived(row, c))
         /\ NoReset(row, Completed(row))
         /\ row.status = "claimed" => NoReset(row, Unlocked(row)) /\ NoReset(row, Failed(row))
         /\ row.status \in {"poison", "done"} => NoReset(row, Retried(row))
<1>1. NoReset(row, row) /\ NoReset(row, NoRow) /\ NoReset(row, Completed(row))
      /\ (row.status = "claimed" => NoReset(row, Unlocked(row)))
  BY DEF NoReset, NoRow, Completed, Unlocked, Row, Elapsed
<1>2. \A c \in Contents : NoReset(row, Enqueued(row, c)) /\ NoReset(row, Revived(row, c))
  BY <1>1 DEF NoReset, Enqueued, Deduped, Revived, Pending
<1>3. row.status = "claimed" => NoReset(row, Failed(row))
  BY DEF NoReset, Failed, Row
<1>4. row.status \in {"poison", "done"} => NoReset(row, Retried(row))
  BY DEF NoReset
<1>. QED
  BY <1>1, <1>2, <1>3, <1>4

LEMMA IfHeldNoReset ==
  ASSUME IInv, NEW p \in Processes, NEW e \in Entities, NEW row,
         row \in {Completed(queue[e]), Unlocked(queue[e]), Failed(queue[e])},
         IfHeld(p, e, row)
  PROVE  \A f \in Entities : NoReset(queue[f], queue'[f])
BY NoResets DEF IInv, TypeOK, IfHeld, Holds

LEMMA AttemptsStep == IInv /\ [Next]_vars => KeepsAttempts
<1>. SUFFICES ASSUME IInv, [Next]_vars
              PROVE  \A e \in Entities : NoReset(queue[e], queue'[e])
  BY DEF NoReset, KeepsAttempts
<1>. DEFINE Kept == \A e \in Entities : NoReset(queue[e], queue'[e])
<1>0. queue \in [Entities -> Row] /\ \A e \in Entities : queue[e] \in Row
  BY DEF IInv, TypeOK
<1>1. UNCHANGED queue => Kept
  BY <1>0, NoResets
<1>2. ASSUME NEW p \in Processes, User(p) PROVE Kept
  <2>1. ASSUME NEW e \in Entities, NEW c \in Contents, Write(p, e, c)
        PROVE  Kept
    BY <1>0, <1>1, <2>1, NoResets DEF Write, Create, Update, WriteUnqueued,
          UpdateTask, WriteStandard
  <2>2. ASSUME NEW e \in Entities, Archive(p, e) \/ Cancel(p, e) \/ Reopen(p, e)
                                   \/ Delete(p, e) \/ Clear(p, e)
        PROVE  Kept
    BY <1>0, <1>1, <2>2, NoResets DEF Archive, Cancel, Reopen, SetStatus, Delete, Clear
  <2>3. ASSUME NEW E \in SUBSET Entities, Retry(p, E) PROVE Kept
    BY <1>0, <2>3, NoResets DEF Retry
  <2>. QED
    BY <1>2, <2>1, <2>2, <2>3 DEF User
<1>3. ASSUME NEW p \in Processes, Worker(p) PROVE Kept
  <2>1. ASSUME NEW S \in SUBSET Entities, Claim(p, S) PROVE Kept
    <3>1. ASSUME NEW row \in Row, Eligible(row)
          PROVE  NoReset(row, [row EXCEPT !.status = "claimed", !.timer = LeaseTicks, !.lockedBy = p])
      BY <3>1 DEF Eligible, Expired, NoReset, Row
    <3>. QED
      BY <1>0, <2>1, <3>1, NoResets DEF Claim
  <2>2. ASSUME NEW j \in noop[p], NoOpComplete(p, j) PROVE Kept
    BY <1>1, <2>2, IfHeldNoReset, InvJobs DEF NoOpComplete
  <2>3. ASSUME NEW j \in job[p], Complete(p, j) \/ Release(p, j) \/ Fail(p, j) PROVE Kept
    BY <1>1, <2>3, IfHeldNoReset, InvJobs DEF Complete, Release, Fail
  <2>4. ASSUME NEW j, WriteVector(p, j) \/ JobBusy(p, j) \/ JobError(p, j)
                      \/ CheckExistence(p) \/ Embed(p) \/ EndBatch(p) \/ AbortCycle(p)
        PROVE  Kept
    BY <1>1, <2>4 DEF WriteVector, JobBusy, JobError, Interrupted, CheckExistence, Embed,
                      EndBatch, AbortCycle
  <2>. QED
    BY <1>3, <2>1, <2>2, <2>3, <2>4 DEF Worker
<1>4. ASSUME NEW p \in Processes, Sweep(p) PROVE Kept
  <2>1. CASE ReconcileExpiredLeases(p)
    BY <1>0, <2>1, NoResets DEF ReconcileExpiredLeases, Expired
  <2>2. CASE BackfillInsert(p)
    <3>1. \A e \in Entities : (\E j \in scan[p] : j.entity = e) =>
             (CHOOSE j \in scan[p] : j.entity = e).content \in Contents
      BY InvJobs
    <3>. QED
      BY <1>0, <2>2, <3>1, NoResets DEF BackfillInsert
  <2>3. CASE Start(p) \/ BackfillGated(p) \/ BackfillRead(p) \/ AbortSweep(p)
    BY <1>1, <2>3 DEF Start, BackfillGated, BackfillRead, AbortSweep, tables
  <2>. QED
    BY <1>4, <2>1, <2>2, <2>3 DEF Sweep
<1>5. ASSUME NEW p \in Processes, NEW j \in owed[p], EnqueueOwed(p, j) PROVE Kept
  <2>1. j.entity \in Entities /\ Payload(j) \in Contents
    BY OwedPayload
  <2>. QED
    BY <1>0, <1>5, <2>1, NoResets DEF EnqueueOwed
<1>6. ASSUME NEW p \in Processes,
             Crash(p) \/ (\E status \in {"done", "poison"} : Purge(p, status))
      PROVE  Kept
  BY <1>0, <1>1, <1>6, NoResets DEF Crash, Purge, tables
<1>7. ASSUME Tick \/ UNCHANGED vars PROVE Kept
  BY <1>0, <1>1, <1>7 DEF Tick, NoReset, Elapsed, Row, vars, tables
<1>. QED
  BY <1>2, <1>3, <1>4, <1>5, <1>6, <1>7 DEF Next, Process

\* No restart, sweep, lost lease or dedup'ed enqueue resets the retry budget or cuts the
\* backoff of a payload.
THEOREM AttemptsKept == Spec => AttemptsSurvive
BY AttemptsStep, InductiveInvariant, PTL DEF Spec, AttemptsSurvive

-----------------------------------------------------------------------------
(* A process that has the queue to itself *)

\* Between the steps of a write, of the sweep and of a job nothing else happens, so what the
\* process has read is what the tables still hold.
NoneHeld(p) == phase[p] \in {"down", "reconcile", "backfill", "insert", "idle"} => Jobs(p) = {}
OneJobEach(p) == \A j, k \in Jobs(p) : j.entity = k.entity => j = k
NotDone(p) == \A j \in Jobs(p) : queue[j.entity].status # "done"
Gone(p) == \A j \in noop[p] : ~Exists(j.entity)
Embedded(p) == phase[p] = "complete" => \A j \in job[p] : j.entity \notin Files => vector[j.entity] = j.content
ScanHolds(p) ==
  /\ phase[p] # "insert" => scan[p] = {}
  /\ \A j \in scan[p] : entity[j.entity].content = j.content
OwedHolds(p) == \A j \in owed[p] : entity[j.entity].content = j.content
AloneInv ==
  \A p \in Processes : /\ NoneHeld(p) /\ OneJobEach(p) /\ NotDone(p) /\ Gone(p)
                       /\ Embedded(p) /\ ScanHolds(p) /\ OwedHolds(p)
Alone == \A p, q \in Processes : p = q

LEMMA AloneInit == Init => AloneInv
BY DEF Init, AloneInv, NoneHeld, OneJobEach, NotDone, Gone, Embedded, ScanHolds, OwedHolds, Jobs

\* The jobs in hand: none outside a cycle, one for each row, which is not done meanwhile.
HandsAlone == \A p \in Processes : NoneHeld(p) /\ OneJobEach(p) /\ NotDone(p)

\* Jobs that leave the hand, and rows that do not become done, keep the hand so.
LEMMA HandsShrink ==
  ASSUME IInv, HandsAlone, \A q \in Processes : Jobs(q)' \subseteq Jobs(q), \A q \in Processes : NoneHeld(q)',
         \A e \in Entities : queue'[e].status = "done" =>
           queue[e].status = "done" \/ \A q \in Processes : \A j \in Jobs(q)' : j.entity # e
  PROVE  HandsAlone'
<1>1. \A q \in Processes : \A j \in Jobs(q) : j.entity \in Entities
  BY InvJobs DEF Jobs
<1>. QED
  BY <1>1 DEF HandsAlone, OneJobEach, NotDone

LEMMA HandsStep == IInv /\ Alone /\ HandsAlone /\ [Next]_vars => HandsAlone'
<1>. SUFFICES ASSUME IInv, Alone, HandsAlone, [Next]_vars PROVE HandsAlone'
  OBVIOUS
<1>0. WorkersOK /\ JobsMatchPhase /\ HeldSnapshot /\ queue \in [Entities -> Row]
  BY DEF IInv, TypeOK, WorkersOK
<1>1. NoneDone \/ Completes
  BY DoneRows
<1>2. ASSUME NoneDone, \A q \in Processes : Jobs(q)' \subseteq Jobs(q), \A q \in Processes : NoneHeld(q)'
      PROVE  HandsAlone'
  BY <1>2, HandsShrink DEF NoneDone
\* A job that is completed was the only one for its row, and it leaves the hand.
<1>3. ASSUME NEW p \in Processes, NEW j \in Jobs(p), j \notin Jobs(p)', Jobs(p)' \subseteq Jobs(p), NoneHeld(p)',
             IfHeld(p, j.entity, Completed(queue[j.entity])) \/ UNCHANGED queue
      PROVE  HandsAlone'
  <2>1. \A e \in Entities : e # j.entity => queue'[e] = queue[e]
    BY <1>0, <1>3 DEF IfHeld
  <2>2. \A k \in Jobs(p)' : k.entity # j.entity
    BY <1>3 DEF HandsAlone, OneJobEach
  <2>3. \A q \in Processes : q = p
    BY DEF Alone
  <2>. QED
    BY <1>3, <2>1, <2>2, <2>3, HandsShrink
<1>4. ASSUME NEW p \in Processes, User(p) PROVE HandsAlone'
  <2>1. UNCHANGED <<phase, batch, noop, job>>
    BY <1>4 DEF User, Write, Create, Update, WriteUnqueued, UpdateTask, WriteStandard,
         Archive, Cancel, Reopen, SetStatus, Delete, Clear, Retry, UserStep, cycle
  <2>2. CASE NoneDone
    BY <1>2, <2>1, <2>2, JobsStay DEF HandsAlone, NoneHeld
  <2>3. CASE Completes
    BY <1>0, <2>1, <2>3 DEF Completes, NoOpComplete, Complete, WorkerStep, WorkersOK
  <2>. QED
    BY <1>1, <2>2, <2>3
<1>5. ASSUME NEW p \in Processes, NEW S \in SUBSET Entities, Claim(p, S) PROVE HandsAlone'
  <2>. DEFINE claimed == {[entity |-> e, content |-> queue[e].content] : e \in S}
  <2>1. noop[p] = {} /\ job[p] = {} /\ phase'[p] = "check"
    BY <1>0, <1>5 DEF Claim, WorkerStep, JobsMatchPhase, WorkersOK
  <2>2. Jobs(p)' = claimed
    BY <1>0, <1>5, <2>1 DEF Claim, Jobs, WorkersOK
  <2>3. \A e \in S : queue'[e].status = "claimed"
    BY <1>0, <1>5 DEF Claim, Row
  <2>4. NoneHeld(p)' /\ OneJobEach(p)' /\ NotDone(p)'
    BY <2>1, <2>2, <2>3 DEF NoneHeld, OneJobEach, NotDone
  <2>. QED
    BY <2>4 DEF Alone, HandsAlone
<1>6. ASSUME NEW p \in Processes, NEW j \in noop[p], NoOpComplete(p, j) PROVE HandsAlone'
  <2>1. j \notin noop'[p] /\ noop'[p] \subseteq noop[p] /\ UNCHANGED <<phase, batch, job>>
        /\ phase[p] = "embed" /\ job[p] = {} /\ j \notin batch[p]
    BY <1>0, <1>6 DEF NoOpComplete, WorkersOK, JobsMatchPhase
  <2>2. j \in Jobs(p) /\ j \notin Jobs(p)' /\ Jobs(p)' \subseteq Jobs(p) /\ NoneHeld(p)'
    BY <2>1 DEF Jobs, NoneHeld
  <2>. QED
    BY <1>3, <1>6, <2>2 DEF NoOpComplete
<1>7. ASSUME NEW p \in Processes, NEW j \in job[p], Complete(p, j) PROVE HandsAlone'
  <2>1. job'[p] = {} /\ UNCHANGED <<batch, noop>> /\ phase'[p] = "apply"
        /\ noop[p] = {} /\ j \notin batch[p]
    BY <1>0, <1>7 DEF Complete, WorkerStep, WorkersOK, JobsMatchPhase
  <2>2. j \in Jobs(p) /\ j \notin Jobs(p)' /\ Jobs(p)' \subseteq Jobs(p) /\ NoneHeld(p)'
    BY <2>1 DEF Jobs, NoneHeld
  <2>. QED
    BY <1>3, <1>7, <2>2 DEF Complete
<1>8. CASE Completes
  BY <1>6, <1>7, <1>8 DEF Completes
<1>9. ASSUME NEW p \in Processes, Worker(p), ~(\E S \in SUBSET Entities : Claim(p, S)), NoneDone PROVE HandsAlone'
  <2>1. ASSUME NEW j, NoOpComplete(p, j) \/ Complete(p, j) \/ Release(p, j) \/ Fail(p, j)
        PROVE  Jobs(p)' \subseteq Jobs(p) /\ NoneHeld(p)'
    BY <1>0, <2>1 DEF NoOpComplete, Complete, Release, Fail, WorkerStep, Jobs, NoneHeld, WorkersOK
  <2>2. ASSUME NEW j, JobBusy(p, j) \/ JobError(p, j) \/ (j \in batch[p] /\ WriteVector(p, j))
        PROVE  Jobs(p)' \subseteq Jobs(p) /\ NoneHeld(p)'
    BY <1>0, <2>2 DEF JobBusy, JobError, Interrupted, WriteVector, WorkerStep, Jobs, NoneHeld, WorkersOK
  <2>3. ASSUME CheckExistence(p) \/ Embed(p)
        PROVE  Jobs(p)' \subseteq Jobs(p) /\ NoneHeld(p)'
    BY <1>0, <2>3 DEF CheckExistence, Embed, WorkerStep, cycle, Jobs, NoneHeld, WorkersOK
  <2>4. ASSUME EndBatch(p) PROVE Jobs(p)' \subseteq Jobs(p) /\ NoneHeld(p)'
    <3>1. UNCHANGED <<batch, noop, job>> /\ phase[p] = "apply" /\ batch[p] = {}
      BY <2>4 DEF EndBatch, WorkerStep, cycle
    <3>2. noop[p] = {} /\ job[p] = {}
      BY <1>0, <3>1 DEF JobsMatchPhase
    <3>. QED
      BY <3>1, <3>2 DEF Jobs, NoneHeld
  <2>5. ASSUME AbortCycle(p) PROVE Jobs(p)' \subseteq Jobs(p) /\ NoneHeld(p)'
    BY <1>0, <2>5 DEF AbortCycle, Forget, Jobs, NoneHeld, WorkersOK
  <2>6. Jobs(p)' \subseteq Jobs(p) /\ NoneHeld(p)'
    BY <1>9, <2>1, <2>2, <2>3, <2>4, <2>5 DEF Worker
  <2>7. \A q \in Processes : q = p
    BY DEF Alone
  <2>. QED
    BY <1>2, <1>9, <2>6, <2>7
<1>10. ASSUME NEW p \in Processes, Sweep(p), NoneDone PROVE HandsAlone'
  <2>1. UNCHANGED <<batch, noop, job>>
    BY <1>10 DEF Sweep, Start, ReconcileExpiredLeases, BackfillGated, BackfillRead, BackfillInsert,
                 AbortSweep, SweepStep, cycle
  <2>2. phase[p] \in {"down", "reconcile", "backfill", "insert"}
    BY <1>10 DEF Sweep, Start, ReconcileExpiredLeases, BackfillGated, BackfillRead, BackfillInsert,
                 AbortSweep, SweepStep
  <2>3. Jobs(p) = {}
    BY <2>2 DEF HandsAlone, NoneHeld
  <2>4. \A q \in Processes : q = p
    BY DEF Alone
  <2>5. \A q \in Processes : Jobs(q)' \subseteq Jobs(q) /\ NoneHeld(q)'
    BY <2>1, <2>3, <2>4, JobsStay DEF NoneHeld
  <2>. QED
    BY <1>2, <1>10, <2>5
<1>11. ASSUME NEW p \in Processes, Crash(p), NoneDone PROVE HandsAlone'
  <2>1. Jobs(p)' = {}
    BY <1>0, <1>11 DEF Crash, Forget, Jobs, WorkersOK
  <2>2. \A q \in Processes : q = p
    BY DEF Alone
  <2>. QED
    BY <1>2, <1>11, <2>1, <2>2 DEF NoneHeld
<1>12. ASSUME NoneDone, UNCHANGED <<phase, batch, noop, job>> PROVE HandsAlone'
  BY <1>2, <1>12, JobsStay DEF HandsAlone, NoneHeld
<1>13. ASSUME NEW p \in Processes,
              (\E j \in owed[p] : EnqueueOwed(p, j)) \/ (\E status \in {"done", "poison"} : Purge(p, status))
       PROVE  UNCHANGED <<phase, batch, noop, job>>
  BY <1>13 DEF EnqueueOwed, Purge, cycle
<1>14. ASSUME Tick \/ UNCHANGED vars PROVE UNCHANGED <<phase, batch, noop, job>>
  BY <1>14 DEF Tick, vars, cycle
<1>15. CASE NoneDone
  BY <1>4, <1>5, <1>9, <1>10, <1>11, <1>12, <1>13, <1>14, <1>15 DEF Next, Process
<1>. QED
  BY <1>1, <1>8, <1>15

\* What the process has read: the entities it found gone, the payloads the sweep read and
\* those of the committed writes are still so, and a vector just written is still there.
Reads(p) == Gone(p) /\ Embedded(p) /\ ScanHolds(p) /\ OwedHolds(p)

LEMMA ReadsStep ==
  IInv /\ Alone /\ (\A p \in Processes : Reads(p)) /\ [Next]_vars => \A p \in Processes : Reads(p)'
<1>. SUFFICES ASSUME IInv, Alone, \A p \in Processes : Reads(p), [Next]_vars, NEW p \in Processes
              PROVE  Reads(p)'
  OBVIOUS
<1>0. /\ TablesOK /\ WorkersOK /\ JobsMatchPhase /\ Reads(p)
      /\ \A q \in Processes : q = p
  BY DEF IInv, TypeOK, TablesOK, WorkersOK, Alone
<1>. USE DEF Reads, Gone, Embedded, ScanHolds, OwedHolds, Exists
<1>1. CASE User(p)
  <2>1. /\ UNCHANGED <<phase, noop, job, scan>> /\ noop[p] = {} /\ owed[p] = {}
        /\ phase[p] \notin {"complete", "insert"}
    BY <1>0, <1>1 DEF User, Write, Create, Update, WriteUnqueued, UpdateTask, WriteStandard,
         Archive, Cancel, Reopen, SetStatus, Delete, Clear, Retry, UserStep, Responsive,
         JobsMatchPhase, cycle, startup
  <2>2. \A j \in owed'[p] : entity'[j.entity].content = j.content
    <3>1. ASSUME NEW e \in Entities, NEW c \in Contents, UpdateTask(p, e, c) \/ WriteStandard(p, e, c)
          PROVE  \A j \in owed'[p] : entity'[j.entity].content = j.content
      <4>1. entity'[e].content = c
        BY <1>0, <3>1 DEF UpdateTask, WriteStandard, TablesOK, EntityRow
      <4>2. owed'[p] = {[entity |-> e, content |-> c]}
        BY <1>0, <3>1 DEF UpdateTask, WriteStandard, WorkersOK
      <4>. QED
        BY <4>1, <4>2
    <3>2. \/ owed' = owed
          \/ \E e \in Entities, c \in Contents : UpdateTask(p, e, c) \/ WriteStandard(p, e, c)
      BY <1>1 DEF User, Write, Create, Update, WriteUnqueued, Archive, Cancel, Reopen, SetStatus,
                  Delete, Clear, Retry
    <3>. QED
      BY <2>1, <3>1, <3>2
  <2>. QED
    BY <2>1, <2>2
<1>2. CASE Worker(p)
  <2>1. UNCHANGED <<entity, scan, owed>>
    BY <1>2 DEF Worker, Claim, NoOpComplete, CheckExistence, Embed, WriteVector, Complete, JobBusy,
         JobError, Interrupted, Release, Fail, EndBatch, AbortCycle, WorkerStep, startup
  <2>2. Gone(p)'
    <3>1. CASE CheckExistence(p)
      BY <1>0, <2>1, <3>1 DEF CheckExistence, WorkersOK
    <3>2. CASE ~CheckExistence(p)
      <4>1. noop' = noop \/ (\E j \in noop[p] : NoOpComplete(p, j)) \/ AbortCycle(p)
        BY <1>2, <3>2 DEF Worker, Claim, Embed, WriteVector, Complete, JobBusy, JobError,
                          Interrupted, Release, Fail, EndBatch, cycle
      <4>2. noop'[p] \subseteq noop[p]
        BY <1>0, <4>1 DEF NoOpComplete, AbortCycle, Forget, WorkersOK
      <4>. QED
        BY <1>0, <2>1, <4>2
    <3>. QED
      BY <3>1, <3>2
  <2>3. Embedded(p)'
    <3>1. ASSUME NEW j \in batch[p], WriteVector(p, j) PROVE Embedded(p)'
      <4>1. j.entity \in Entities
        BY InvJobs
      <4>. QED
        BY <1>0, <3>1, <4>1 DEF WriteVector, TablesOK, WorkersOK
    <3>2. \/ phase'[p] # "complete" \/ UNCHANGED <<phase, job, vector>>
          \/ \E j \in batch[p] : WriteVector(p, j)
      BY <1>0, <1>2 DEF Worker, Claim, NoOpComplete, CheckExistence, Embed, Complete, JobBusy,
           JobError, Interrupted, Release, Fail, EndBatch, AbortCycle, WorkerStep, WorkersOK
    <3>. QED
      BY <1>0, <3>1, <3>2
  <2>4. ScanHolds(p)' /\ OwedHolds(p)'
    <3>1. phase[p] # "insert"
      BY <1>0, <1>2 DEF Worker, Claim, NoOpComplete, CheckExistence, Embed, WriteVector, Complete,
           JobBusy, JobError, Interrupted, Release, Fail, EndBatch, AbortCycle, WorkerStep
    <3>. QED
      BY <1>0, <2>1, <3>1
  <2>. QED
    BY <2>2, <2>3, <2>4
<1>3. CASE Sweep(p)
  <2>1. UNCHANGED <<entity, vector, noop, job, owed>> /\ phase'[p] # "complete"
    BY <1>0, <1>3 DEF Sweep, Start, ReconcileExpiredLeases, BackfillGated, BackfillRead,
         BackfillInsert, AbortSweep, SweepStep, tables, cycle, WorkersOK
  <2>2. ScanHolds(p)'
    <3>1. CASE BackfillRead(p)
      BY <1>0, <2>1, <3>1 DEF BackfillRead, SweepStep, JobOf, WorkersOK
    <3>2. CASE BackfillInsert(p) \/ AbortSweep(p)
      BY <1>0, <3>2 DEF BackfillInsert, AbortSweep, WorkersOK
    <3>3. CASE Start(p) \/ ReconcileExpiredLeases(p) \/ BackfillGated(p)
      <4>1. scan' = scan /\ phase[p] # "insert"
        BY <3>3 DEF Start, ReconcileExpiredLeases, BackfillGated, SweepStep, startup
      <4>. QED
        BY <1>0, <4>1
    <3>. QED
      BY <1>3, <3>1, <3>2, <3>3 DEF Sweep
  <2>. QED
    BY <1>0, <2>1, <2>2
<1>4. ASSUME NEW j \in owed[p], EnqueueOwed(p, j) PROVE Reads(p)'
  BY <1>0, <1>4 DEF EnqueueOwed, cycle, startup, WorkersOK
<1>5. CASE Crash(p)
  BY <1>0, <1>5 DEF Crash, Forget, tables, WorkersOK
<1>6. ASSUME UNCHANGED <<entity, vector, phase, cycle, startup, owed>> PROVE Reads(p)'
  BY <1>0, <1>6 DEF cycle, startup
<1>7. ASSUME NEW status \in {"done", "poison"}, Purge(p, status) PROVE Reads(p)'
  BY <1>6, <1>7 DEF Purge
<1>8. CASE Tick \/ UNCHANGED vars
  BY <1>6, <1>8 DEF Tick, vars, tables
<1>. QED
  BY <1>0, <1>1, <1>2, <1>3, <1>4, <1>5, <1>7, <1>8 DEF Next, Process

LEMMA AloneStep == IInv /\ Alone /\ AloneInv /\ [Next]_vars => AloneInv'
<1>. SUFFICES ASSUME IInv, Alone, AloneInv, [Next]_vars PROVE AloneInv'
  OBVIOUS
<1>1. HandsAlone /\ \A p \in Processes : Reads(p)
  BY DEF AloneInv, HandsAlone, Reads
<1>2. HandsAlone' /\ \A p \in Processes : Reads(p)'
  BY <1>1, HandsStep, ReadsStep
<1>. QED
  BY <1>2 DEF AloneInv, HandsAlone, Reads

\* A vector changes under the worker's hand, or goes with its entity.
LEMMA VectorRows ==
  IInv /\ [Next]_vars =>
    \/ UNCHANGED vector
    \/ \E p \in Processes : \/ \E j \in batch[p] : WriteVector(p, j)
                            \/ \E e \in Entities : Delete(p, e)
<1>. SUFFICES ASSUME IInv, [Next]_vars
              PROVE  \/ UNCHANGED vector
                     \/ \E p \in Processes : \/ \E j \in batch[p] : WriteVector(p, j)
                                             \/ \E e \in Entities : Delete(p, e)
  OBVIOUS
<1>1. ASSUME NEW p \in Processes, User(p) PROVE UNCHANGED vector \/ \E e \in Entities : Delete(p, e)
  BY <1>1 DEF User, Write, Create, Update, WriteUnqueued, UpdateTask, WriteStandard,
       Archive, Cancel, Reopen, SetStatus, Clear, Retry
<1>2. ASSUME NEW p \in Processes, Worker(p)
      PROVE  UNCHANGED vector \/ \E j \in batch[p] : WriteVector(p, j)
  BY <1>2 DEF Worker, Claim, NoOpComplete, CheckExistence, Embed, Complete, JobBusy, JobError,
       Interrupted, Release, Fail, EndBatch, AbortCycle
<1>3. ASSUME NEW p \in Processes,
             Sweep(p) \/ Crash(p) \/ (\E j \in owed[p] : EnqueueOwed(p, j))
             \/ (\E status \in {"done", "poison"} : Purge(p, status))
      PROVE  UNCHANGED vector
  BY <1>3 DEF Sweep, Start, ReconcileExpiredLeases, BackfillGated, BackfillRead, BackfillInsert,
       AbortSweep, SweepStep, Crash, EnqueueOwed, Purge, tables
<1>4. ASSUME Tick \/ UNCHANGED vars PROVE UNCHANGED vector
  BY <1>4 DEF Tick, vars, tables
<1>. QED
  BY <1>1, <1>2, <1>3, <1>4 DEF Next, Process

LEMMA DedupStep ==
  IInv /\ Alone /\ AloneInv /\ [Next]_vars =>
    \A e \in Entities \ Files : Exists(e) /\ DoneOK(e) => DoneOK(e)'
<1>. SUFFICES ASSUME IInv, Alone, AloneInv, [Next]_vars,
                     NEW e \in Entities \ Files, Exists(e), DoneOK(e)
              PROVE  DoneOK(e)'
  OBVIOUS
<1>0. queue \in [Entities -> Row] /\ vector \in [Entities -> Contents \cup {None}]
      /\ \A p \in Processes : batch[p] \subseteq Job
  BY DEF IInv, TypeOK
<1>1. ASSUME NEW p \in Processes, NEW j \in Jobs(p), IfHeld(p, j.entity, Completed(queue[j.entity])),
             UNCHANGED vector, j.entity = e => vector[e] = j.content
      PROVE  DoneOK(e)'
  <2>1. CASE Holds(p, j.entity) /\ j.entity = e
    <3>1. queue[e].content = j.content /\ Completed(queue[e]).content = queue[e].content
      BY <1>0, <2>1 DEF IInv, HeldSnapshot, Completed, Row
    <3>2. queue'[e].content = queue[e].content
      BY <1>0, <1>1, <2>1, <3>1 DEF IfHeld
    <3>. QED
      BY <1>1, <2>1, <3>1, <3>2 DEF DoneOK
  <2>2. CASE ~(Holds(p, j.entity) /\ j.entity = e)
    <3>1. queue'[e] = queue[e]
      BY <1>0, <1>1, <2>2 DEF IfHeld
    <3>. QED
      BY <1>1, <3>1 DEF DoneOK
  <2>. QED
    BY <2>1, <2>2
<1>2. ASSUME NEW p \in Processes, NEW j \in noop[p], NoOpComplete(p, j) PROVE DoneOK(e)'
  <2>1. j \in Jobs(p) /\ j.entity # e
    BY DEF AloneInv, Gone, Jobs
  <2>. QED
    BY <1>1, <1>2, <2>1 DEF NoOpComplete, DoneOK
<1>3. ASSUME NEW p \in Processes, NEW j \in job[p], Complete(p, j) PROVE DoneOK(e)'
  <2>1. j \in Jobs(p) /\ (j.entity = e => vector[e] = j.content)
    BY <1>3 DEF Complete, WorkerStep, AloneInv, Embedded, Jobs
  <2>. QED
    BY <1>1, <1>3, <2>1 DEF Complete
<1>4. CASE NoneDone
  <2>1. CASE UNCHANGED vector
    BY <1>4, <2>1 DEF NoneDone, DoneOK
  <2>2. ASSUME NEW p \in Processes, NEW j \in batch[p], WriteVector(p, j) PROVE DoneOK(e)'
    <3>1. j \in Jobs(p) /\ (j.entity = e => queue[e].status # "done")
      BY DEF AloneInv, NotDone, Jobs
    <3>2. queue' = queue /\ (j.entity # e => vector'[e] = vector[e])
      BY <1>0, <2>2 DEF WriteVector
    <3>. QED
      BY <3>1, <3>2 DEF DoneOK
  <2>3. ASSUME NEW p \in Processes, NEW d \in Entities, Delete(p, d) PROVE DoneOK(e)'
    <3>1. CASE d = e
      BY <1>0, <2>3, <3>1 DEF Delete, NoRow, DoneOK
    <3>2. CASE d # e
      BY <1>0, <2>3, <3>2 DEF Delete, DoneOK
    <3>. QED
      BY <3>1, <3>2
  <2>. QED
    BY <2>1, <2>2, <2>3, VectorRows
<1>. QED
  BY <1>2, <1>3, <1>4, DoneRows DEF Completes

\* A done row is put back to work by new content, a retry, an owed enqueue or the sweep.
LEMMA RevivedStep ==
  IInv /\ Alone /\ AloneInv /\ [Next]_vars =>
    \A e \in Entities : queue[e].status = "done" /\ queue'[e].status = "pending" =>
                          queue'[e].content \in {entity'[e].content, queue[e].content}
<1>. SUFFICES ASSUME IInv, Alone, AloneInv, [Next]_vars,
                     NEW e \in Entities, queue[e].status = "done", queue'[e].status = "pending"
              PROVE  queue'[e].content \in {entity'[e].content, queue[e].content}
  OBVIOUS
<1>0. /\ queue \in [Entities -> Row] /\ entity \in [Entities -> EntityRow]
      /\ \A q \in Processes : Reads(q) /\ scan[q] \subseteq Job
      /\ queue'[e] # queue[e]
  BY DEF IInv, TypeOK, AloneInv, Reads
<1>1. \A row, c : Enqueued(row, c).content \in {row.content, c} /\ Revived(row, c).content \in {row.content, c}
  BY DEF Enqueued, Revived, Pending
<1>2. ASSUME NEW p \in Processes, User(p)
      PROVE  queue'[e].content \in {entity'[e].content, queue[e].content}
  <2>1. ASSUME NEW d \in Entities, NEW c \in Contents, Write(p, d, c)
        PROVE  queue'[e].content \in {entity'[e].content, queue[e].content}
    <3>1. (Create(p, d, c) \/ Update(p, d, c)) /\ d = e
      BY <1>0, <2>1 DEF Write, Create, Update, WriteUnqueued, UpdateTask, WriteStandard
    <3>2. queue'[e] = Enqueued(queue[e], c) /\ entity'[e].content = c
      BY <1>0, <3>1 DEF Create, Update, EntityRow
    <3>. QED
      BY <1>1, <3>2
  <2>2. ASSUME NEW d \in Entities, Archive(p, d) \/ Cancel(p, d) \/ Reopen(p, d) PROVE FALSE
    BY <1>0, <2>2 DEF Archive, Cancel, Reopen, SetStatus
  <2>3. ASSUME NEW d \in Entities, Delete(p, d) \/ Clear(p, d) PROVE FALSE
    BY <1>0, <2>3 DEF Delete, Clear, NoRow
  <2>4. ASSUME NEW E \in SUBSET Entities, Retry(p, E) PROVE queue'[e].content = queue[e].content
    BY <1>0, <2>4 DEF Retry, Retried, Pending
  <2>. QED
    BY <1>2, <2>1, <2>2, <2>3, <2>4 DEF User
<1>3. ASSUME NEW p \in Processes, Worker(p) PROVE queue'[e].content = queue[e].content
  <2>1. ASSUME NEW S \in SUBSET Entities, Claim(p, S) PROVE queue'[e].content = queue[e].content
    BY <1>0, <2>1 DEF Claim, Row
  <2>2. ASSUME NEW j \in noop[p], NoOpComplete(p, j) PROVE queue'[e] = queue[e]
    BY <1>0, <2>2 DEF NoOpComplete, IfHeld, Holds
  <2>3. ASSUME NEW j \in job[p], Complete(p, j) \/ Release(p, j) \/ Fail(p, j)
        PROVE  queue'[e] = queue[e]
    BY <1>0, <2>3 DEF Complete, Release, Fail, IfHeld, Holds
  <2>4. ASSUME NEW j, WriteVector(p, j) \/ JobBusy(p, j) \/ JobError(p, j)
                      \/ CheckExistence(p) \/ Embed(p) \/ EndBatch(p) \/ AbortCycle(p)
        PROVE  queue' = queue
    BY <2>4 DEF WriteVector, JobBusy, JobError, Interrupted, CheckExistence, Embed, EndBatch,
                AbortCycle
  <2>. QED
    BY <1>3, <2>1, <2>2, <2>3, <2>4 DEF Worker
<1>4. ASSUME NEW p \in Processes, Sweep(p)
      PROVE  queue'[e].content \in {entity'[e].content, queue[e].content}
  <2>1. CASE BackfillInsert(p)
    <3>. DEFINE k == CHOOSE j \in scan[p] : j.entity = e
    <3>1. k \in scan[p] /\ k.entity = e /\ queue'[e] = Revived(queue[e], k.content)
      BY <1>0, <2>1 DEF BackfillInsert
    <3>. HIDE DEF k
    <3>2. entity'[e].content = k.content
      BY <1>0, <2>1, <3>1 DEF Reads, ScanHolds, BackfillInsert, SweepStep
    <3>. QED
      BY <1>1, <3>1, <3>2
  <2>2. CASE ReconcileExpiredLeases(p)
    BY <1>0, <2>2 DEF ReconcileExpiredLeases, Expired
  <2>3. CASE Start(p) \/ BackfillGated(p) \/ BackfillRead(p) \/ AbortSweep(p)
    BY <1>0, <2>3 DEF Start, BackfillGated, BackfillRead, AbortSweep, tables
  <2>. QED
    BY <1>4, <2>1, <2>2, <2>3 DEF Sweep
<1>5. ASSUME NEW p \in Processes, NEW j \in owed[p], EnqueueOwed(p, j)
      PROVE  queue'[e].content \in {entity'[e].content, queue[e].content}
  <2>1. j.entity = e /\ queue'[e] = Enqueued(queue[e], Payload(j))
    BY <1>0, <1>5, InvJobs DEF EnqueueOwed
  <2>2. Payload(j) = entity'[e].content
    BY <1>0, <1>5, <2>1 DEF Reads, OwedHolds, Payload, EnqueueOwed
  <2>. QED
    BY <1>1, <2>1, <2>2
<1>6. ASSUME NEW p \in Processes, Crash(p) \/ \E status \in {"done", "poison"} : Purge(p, status)
      PROVE  queue'[e].content = queue[e].content
  BY <1>0, <1>6 DEF Crash, Purge, NoRow, tables
<1>7. ASSUME Tick \/ UNCHANGED vars PROVE queue'[e].content = queue[e].content
  BY <1>0, <1>7 DEF Tick, vars, tables, Row
<1>. QED
  BY <1>2, <1>3, <1>4, <1>5, <1>6, <1>7 DEF Next, Process

\* With one process, what it has read stays so until it has used it.
THEOREM AloneHolds == ASSUME Alone PROVE Spec => []AloneInv
BY AloneInit, AloneStep, InductiveInvariant, PTL DEF Spec

\* With one process a done row tells of a vector built from its payload, and only the
\* completion without work of a job whose entity is gone makes it otherwise.
THEOREM DedupIsSound == ASSUME Alone PROVE Spec => DedupSound
BY AloneHolds, DedupStep, InductiveInvariant, PTL DEF Spec, DedupSound

\* With one process a done row is revived with the content its entity has, or retried.
THEOREM RevivesCurrent == ASSUME Alone PROVE Spec => RevivedIsCurrent
BY AloneHolds, RevivedStep, InductiveInvariant, PTL DEF Spec, RevivedIsCurrent

-----------------------------------------------------------------------------
(* The refinement: a row is an item, a batch is a hand *)

\* The stage of a row, by its status.
LEMMA Stages ==
  ASSUME NEW row
  PROVE  /\ row.status = "absent" => StageOf(row) = "none"
         /\ row.status = "pending" => StageOf(row) = "waiting"
         /\ row.status = "claimed" /\ row.timer > 0 => StageOf(row) = "taken"
         /\ row.status = "claimed" /\ ~(row.timer > 0) => StageOf(row) = "lapsed"
         /\ row.status = "done" => StageOf(row) = "settled"
         /\ row.status = "poison" => StageOf(row) = "parked"
BY DEF StageOf

Item == [stage: LQ!Stages, payload: Contents \cup {None}, tries: Nat,
         taker: Processes \cup {None}]

LEMMA ItemType == \A row \in Row : ItemOf(row) \in Item
BY Stages DEF Item, ItemOf, Row, Statuses, LQ!Stages

\* An item whose stage and taker are replaced, field by field.
LEMMA Restaged ==
  ASSUME NEW x \in Item, NEW st, NEW t
  PROVE  [x EXCEPT !.stage = st, !.taker = t] =
           [stage |-> st, payload |-> x.payload, tries |-> x.tries, taker |-> t]
<1>. DEFINE y == [x EXCEPT !.stage = st]
<1>1. /\ y = [stage |-> st, payload |-> x.payload, tries |-> x.tries, taker |-> x.taker]
      /\ [x EXCEPT !.stage = st, !.taker = t] = [y EXCEPT !.taker = t]
  BY DEF Item
<1>2. y \in [stage: {st}, payload: Contents \cup {None}, tries: Nat,
             taker: Processes \cup {None}]
  BY <1>1 DEF Item
<1>3. y.stage = st /\ y.payload = x.payload /\ y.tries = x.tries
  BY <1>1
<1>. HIDE DEF y
<1>4. [y EXCEPT !.taker = t] =
        [stage |-> y.stage, payload |-> y.payload, tries |-> y.tries, taker |-> t]
  BY <1>2
<1>. QED
  BY <1>1, <1>3, <1>4

\* What the owner of the queue may do to one item.
OwnerMove(x, y) ==
  y = x \/ LQ!Submit(x, y) \/ LQ!Remove(x, y) \/ LQ!Lapse(x, y) \/ LQ!Reclaim(x, y)

\* The updates of a row by users, sweeps and time are moves of the owner.
LEMMA FreshItems ==
  /\ ItemOf(NoRow) = LQ!Absent
  /\ \A c : ItemOf(Pending(c)) = LQ!Waiting(c, 0)
BY DEF ItemOf, StageOf, NoRow, Pending, LQ!Absent, LQ!Waiting

LEMMA OwnerMoves ==
  ASSUME NEW row \in Row
  PROVE  /\ OwnerMove(ItemOf(row), ItemOf(row))
         /\ OwnerMove(ItemOf(row), ItemOf(NoRow))
         /\ \A c \in Contents : /\ OwnerMove(ItemOf(row), ItemOf(Enqueued(row, c)))
                               /\ OwnerMove(ItemOf(row), ItemOf(Revived(row, c)))
         /\ row.status \in {"poison", "done"} /\ row.content \in Contents =>
               OwnerMove(ItemOf(row), ItemOf(Retried(row)))
         /\ Expired(row) => OwnerMove(ItemOf(row), ItemOf(Unlocked(row)))
         /\ OwnerMove(ItemOf(row), ItemOf([row EXCEPT !.timer = Elapsed(@)]))
<1>1. OwnerMove(ItemOf(row), ItemOf(row)) /\ OwnerMove(ItemOf(row), ItemOf(NoRow))
  BY FreshItems DEF OwnerMove, LQ!Remove
<1>2. ASSUME NEW c \in Contents PROVE OwnerMove(ItemOf(row), ItemOf(Enqueued(row, c)))
  <2>1. CASE Deduped(row, c)
    BY <1>1, <2>1 DEF Enqueued
  <2>2. CASE ~Deduped(row, c)
    <3>1. c # ItemOf(row).payload \/ ItemOf(row).stage \in {"none", "settled", "parked"}
      BY <2>2 DEF Deduped, ItemOf, StageOf, Row, Statuses
    <3>. QED
      BY <2>2, <3>1, FreshItems DEF Enqueued, OwnerMove, LQ!Submit
  <2>. QED
    BY <2>1, <2>2
<1>3. ASSUME NEW c \in Contents PROVE OwnerMove(ItemOf(row), ItemOf(Revived(row, c)))
  <2>1. CASE row.status \in {"absent", "done"}
    BY <2>1, FreshItems DEF Revived, OwnerMove, LQ!Submit, ItemOf, StageOf
  <2>2. CASE row.status \notin {"absent", "done"}
    BY <1>1, <2>2 DEF Revived
  <2>. QED
    BY <2>1, <2>2
<1>4. ASSUME row.status \in {"poison", "done"}, row.content \in Contents
      PROVE  OwnerMove(ItemOf(row), ItemOf(Retried(row)))
  BY <1>4, FreshItems DEF Retried, OwnerMove, LQ!Submit, ItemOf, StageOf
<1>5. ASSUME Expired(row) PROVE OwnerMove(ItemOf(row), ItemOf(Unlocked(row)))
  BY <1>5 DEF Expired, Unlocked, OwnerMove, LQ!Reclaim, LQ!Waiting, ItemOf, StageOf, Row
<1>6. OwnerMove(ItemOf(row), ItemOf([row EXCEPT !.timer = Elapsed(@)]))
  <2>. DEFINE aged == [row EXCEPT !.timer = Elapsed(@)]
  <2>1. CASE row.status = "claimed" /\ row.timer = 1
    BY <2>1 DEF OwnerMove, LQ!Lapse, ItemOf, StageOf, Elapsed, Row
  <2>2. CASE ~(row.status = "claimed" /\ row.timer = 1)
    <3>1. ItemOf(aged) = ItemOf(row)
      <4>1. /\ aged.status = row.status /\ aged.content = row.content
            /\ aged.attempts = row.attempts /\ aged.lockedBy = row.lockedBy
        BY DEF Row
      <4>2. row.status = "claimed" => (aged.timer > 0 <=> row.timer > 0)
        BY <2>2 DEF Elapsed, Row
      <4>3. StageOf(aged) = StageOf(row)
        BY <4>1, <4>2, Stages DEF Row, Statuses
      <4>. QED
        BY <4>1, <4>3 DEF ItemOf
    <3>. QED
      BY <3>1 DEF OwnerMove
  <2>. QED
    BY <2>1, <2>2
<1>. QED
  BY <1>1, <1>2, <1>3, <1>4, <1>5, <1>6

-----------------------------------------------------------------------------
(* Steps that leave every hand alone *)
LEMMA HandsStay ==
  ASSUME UNCHANGED <<batch, noop, job>> PROVE hands' = hands
BY DEF hands, Jobs

LEMMA OwnersStep ==
  ASSUME \A e \in Entities : OwnerMove(ItemOf(queue[e]), ItemOf(queue'[e])),
         UNCHANGED <<batch, noop, job>>
  PROVE  LQ!OwnerStep
<1>1. /\ \A e \in Entities : items[e] = ItemOf(queue[e]) /\ items'[e] = ItemOf(queue'[e])
      /\ items' = [e \in Entities |-> items'[e]]
  BY DEF items
<1>. QED
  BY <1>1, HandsStay DEF LQ!OwnerStep, OwnerMove

(* Steps of a worker *)
LEMMA TakerStays ==
  ASSUME IInv, UNCHANGED queue, NEW p \in Processes, NEW H \in SUBSET Jobs(p),
         hands' = [hands EXCEPT ![p] = H]
  PROVE  LQ!LQNext
<1>1. items' = items /\ hands[p] = Jobs(p)
  BY DEF items, hands
<1>. QED
  BY <1>1 DEF LQ!LQNext, LQ!Drop

\* A conditional write of the outbox finishes the job in hand or finds it lost.
LEMMA Finishes ==
  ASSUME IInv, NEW p \in Processes, NEW j \in Jobs(p), NEW row,
         row \in {Completed(queue[j.entity]), Unlocked(queue[j.entity]),
                  Failed(queue[j.entity])},
         IfHeld(p, j.entity, row),
         hands' = [hands EXCEPT ![p] = @ \ {j}]
  PROVE  LQ!LQNext
<1>. DEFINE e == j.entity
<1>1. /\ j \in Job /\ e \in Entities /\ queue \in [Entities -> Row] /\ queue[e] \in Row
      /\ hands[p] = Jobs(p)
  BY InvJobs DEF Jobs, IInv, TypeOK, hands
<1>2. CASE ~Holds(p, e)
  <2>1. UNCHANGED queue
    BY <1>2 DEF IfHeld
  <2>. DEFINE H == hands[p] \ {j}
  <2>2. items' = items /\ H \in SUBSET hands[p] /\ hands' = [hands EXCEPT ![p] = H]
    BY <2>1 DEF items
  <2>3. LQ!Drop(p, H)
    BY <2>2 DEF LQ!Drop
  <2>. QED
    BY <2>2, <2>3 DEF LQ!LQNext
<1>3. CASE Holds(p, e)
  <2>. DEFINE x == items[e]
  <2>1. x = ItemOf(queue[e])
    BY <1>1 DEF items
  <2>2. LQ!InTheHandOf(x, p) /\ x.payload = j.content
    BY <1>3, <2>1 DEF Holds, ItemOf, StageOf, LQ!InTheHandOf, IInv, HeldSnapshot
  <2>3. items' = [items EXCEPT ![e] = ItemOf(row)]
    BY <1>1, <1>3 DEF IfHeld, items
  <2>4. ItemOf(row) \in {LQ!Settled(x), LQ!Missed(x), LQ!Waiting(x.payload, x.tries)}
    <3>1. queue[e].status = "claimed"
      BY <1>3 DEF Holds
    <3>. DEFINE st == StageOf(queue[e])
    <3>2. /\ x = [stage |-> st, payload |-> queue[e].content,
                  tries |-> queue[e].attempts, taker |-> queue[e].lockedBy]
          /\ x \in Item
      BY <1>1, <2>1, <3>1, ItemType DEF ItemOf
    <3>. HIDE DEF x, st
    <3>3. CASE row = Completed(queue[e])
      <4>1. row.status = "done" /\ row.content = queue[e].content
            /\ row.attempts = queue[e].attempts
        BY <1>1, <3>3 DEF Completed, Row
      <4>2. ItemOf(row) = [stage |-> "settled", payload |-> queue[e].content,
                           tries |-> queue[e].attempts, taker |-> None]
        BY <4>1, Stages DEF ItemOf
      <4>. QED
        BY <3>2, <4>2, Restaged DEF LQ!Settled
    <3>4. CASE row = Unlocked(queue[e])
      <4>1. row.status = "pending" /\ row.content = queue[e].content
            /\ row.attempts = queue[e].attempts
        BY <1>1, <3>4 DEF Unlocked, Row
      <4>. QED
        BY <3>2, <4>1, Stages DEF ItemOf, LQ!Waiting
    <3>5. CASE row = Failed(queue[e])
      <4>. DEFINE n == queue[e].attempts + 1
      <4>1. CASE n >= PoisonThreshold
        <5>1. row.status = "poison" /\ row.content = queue[e].content /\ row.attempts = n
          BY <1>1, <3>5, <4>1 DEF Failed, Row
        <5>2. ItemOf(row) = [stage |-> "parked", payload |-> queue[e].content,
                             tries |-> n, taker |-> None]
          BY <5>1, Stages DEF ItemOf
        <5>. QED
          <6>1. x.payload = queue[e].content /\ x.tries + 1 = n
            BY <3>2
          <6>2. LQ!Missed(x) = [x EXCEPT !.stage = "parked", !.taker = None, !.tries = n]
            BY <4>1, <6>1 DEF LQ!Missed
          <6>3. LQ!Missed(x) = [[x EXCEPT !.stage = "parked", !.taker = None] EXCEPT !.tries = n]
            BY <3>2, <6>2 DEF Item
          <6>. QED
            BY <3>2, <5>2, <6>1, <6>3, Restaged
      <4>2. CASE ~(n >= PoisonThreshold)
        <5>1. row.status = "pending" /\ row.content = queue[e].content /\ row.attempts = n
          BY <1>1, <3>5, <4>2 DEF Failed, Row
        <5>2. ItemOf(row) = LQ!Waiting(queue[e].content, n)
          BY <5>1, Stages DEF ItemOf, LQ!Waiting
        <5>. QED
          BY <3>2, <4>2, <5>2 DEF LQ!Missed
      <4>. QED
        BY <4>1, <4>2
    <3>. QED
      BY <3>3, <3>4, <3>5
  <2>5. LQ!Finish(p, j)
    BY <1>1, <2>1, <2>2, <2>3, <2>4 DEF LQ!Finish
  <2>. QED
    BY <1>1, <2>5 DEF LQ!LQNext
<1>. QED
  BY <1>2, <1>3

LEMMA Takes ==
  ASSUME IInv, NEW p \in Processes, NEW S \in SUBSET Entities, Claim(p, S)
  PROVE  LQ!LQNext
<1>. DEFINE copies == {[entity |-> e, content |-> queue[e].content] : e \in S}
<1>1. queue \in [Entities -> Row] /\ WorkersOK /\ noop[p] = {} /\ job[p] = {}
  BY DEF IInv, TypeOK, WorkersOK, JobsMatchPhase, Claim, WorkerStep
<1>2. Jobs(p)' = copies /\ \A q \in Processes \ {p} : Jobs(q)' = Jobs(q)
  BY <1>1 DEF Claim, Jobs, WorkersOK
<1>3. hands' = [hands EXCEPT ![p] = {[entity |-> e, content |-> items[e].payload] : e \in S}]
  <2>1. \A e \in S : items[e].payload = queue[e].content
    BY DEF items, ItemOf
  <2>2. copies = {[entity |-> e, content |-> items[e].payload] : e \in S}
    BY <2>1
  <2>3. hands' = [hands EXCEPT ![p] = copies]
    BY <1>2 DEF hands
  <2>. QED
    BY <2>2, <2>3
<1>4. \A e \in S : items[e].stage \in {"waiting", "lapsed"}
  <2>1. \A e \in S : Eligible(queue[e]) /\ items[e].stage = StageOf(queue[e])
    BY DEF Claim, items, ItemOf
  <2>. QED
    BY <2>1, Stages DEF Eligible, Expired
<1>5. items' = [e \in Entities |->
                  IF e \in S THEN [items[e] EXCEPT !.stage = "taken", !.taker = p] ELSE items[e]]
  <2>1. \A e \in S : ItemOf(queue'[e]) = [ItemOf(queue[e]) EXCEPT !.stage = "taken", !.taker = p]
    <3>. SUFFICES ASSUME NEW e \in S
                  PROVE  ItemOf(queue'[e]) = [ItemOf(queue[e]) EXCEPT !.stage = "taken",
                                                                      !.taker = p]
      OBVIOUS
    <3>1. /\ queue[e] \in Row
          /\ queue'[e] = [queue[e] EXCEPT !.status = "claimed", !.timer = LeaseTicks,
                                          !.lockedBy = p]
      BY <1>1 DEF Claim
    <3>2. /\ queue'[e].status = "claimed" /\ queue'[e].timer > 0 /\ queue'[e].lockedBy = p
          /\ queue'[e].content = queue[e].content /\ queue'[e].attempts = queue[e].attempts
      BY <3>1, SizesAssumption DEF Row
    <3>3. ItemOf(queue'[e]) = [stage |-> "taken", payload |-> queue[e].content,
                               tries |-> queue[e].attempts, taker |-> p]
      BY <3>2, Stages DEF ItemOf
    <3>. QED
      <4>1. ItemOf(queue[e]) \in Item
        BY <3>1, ItemType
      <4>2. ItemOf(queue[e]).payload = queue[e].content
            /\ ItemOf(queue[e]).tries = queue[e].attempts
        BY DEF ItemOf
      <4>. QED
        <5>. DEFINE x == ItemOf(queue[e])
        <5>. HIDE DEF x
        <5>1. x \in Item /\ x.payload = queue[e].content /\ x.tries = queue[e].attempts
          BY <4>1, <4>2 DEF x
        <5>2. [x EXCEPT !.stage = "taken", !.taker = p] =
                [stage |-> "taken", payload |-> x.payload, tries |-> x.tries, taker |-> p]
          BY <5>1, Restaged, Zenon
        <5>. QED
          BY <3>3, <5>1, <5>2 DEF x
  <2>2. \A e \in Entities \ S : queue'[e] = queue[e]
    BY DEF Claim
  <2>. QED
    BY <2>1, <2>2 DEF items
<1>. QED
  BY <1>3, <1>4, <1>5 DEF LQ!LQNext, LQ!Take

-----------------------------------------------------------------------------
(* The refinement *)
LEMMA InitRefines == Init => LQ!LQInit
BY FreshItems DEF Init, LQ!LQInit, items, hands, Jobs

\* Every step of the outbox is a step of the leased queue, or none.
LEMMA StepRefines == IInv /\ [Next]_vars => [LQ!LQNext]_<<items, hands>>
<1>. SUFFICES ASSUME IInv, [Next]_vars PROVE [LQ!LQNext]_<<items, hands>>
  OBVIOUS
<1>. DEFINE Moves == \A e \in Entities : OwnerMove(ItemOf(queue[e]), ItemOf(queue'[e]))
            Refined == LQ!LQNext \/ UNCHANGED <<items, hands>>
<1>0. /\ queue \in [Entities -> Row] /\ \A e \in Entities : queue[e] \in Row
      /\ WorkersOK /\ JobsMatchPhase /\ Stored
  BY DEF IInv, TypeOK, WorkersOK
<1>1. /\ Moves /\ UNCHANGED <<batch, noop, job>> => Refined
      /\ UNCHANGED <<queue, batch, noop, job>> => Refined
      /\ UNCHANGED queue => UNCHANGED items
  BY OwnersStep, HandsStay DEF LQ!LQNext, items
<1>2. \A e \in Entities : /\ OwnerMove(ItemOf(queue[e]), ItemOf(queue[e]))
                          /\ OwnerMove(ItemOf(queue[e]), ItemOf(NoRow))
  <2>1. \A x : OwnerMove(x, x)
    BY DEF OwnerMove
  <2>2. \A x : OwnerMove(x, LQ!Absent)
    BY DEF OwnerMove, LQ!Remove
  <2>. QED
    BY <2>1, <2>2, FreshItems
<1>3. ASSUME NEW p \in Processes, User(p) PROVE Refined
  <2>1. UNCHANGED <<batch, noop, job>>
    BY <1>3 DEF User, Write, Create, Update, WriteUnqueued, UpdateTask,
         WriteStandard, Archive, Cancel, Reopen, SetStatus,
                Delete, Clear, Retry, UserStep, cycle
  <2>2. ASSUME NEW e \in Entities, NEW c \in Contents,
               Write(p, e, c)
        PROVE  Moves
    <3>1. CASE queue' = [queue EXCEPT ![e] = Enqueued(@, c)]
      BY <1>0, <1>2, <3>1, OwnerMoves
    <3>2. CASE UNCHANGED queue
      BY <1>2, <3>2
    <3>. QED
      BY <2>2, <3>1, <3>2 DEF Write, Create, Update, WriteUnqueued, UpdateTask,
          WriteStandard
  <2>3. ASSUME NEW e \in Entities, Archive(p, e) \/ Cancel(p, e) \/ Reopen(p, e)
                                   \/ Delete(p, e) \/ Clear(p, e)
        PROVE  Moves
    BY <1>0, <1>2, <2>3 DEF Archive, Cancel, Reopen, SetStatus, Delete, Clear
  <2>4. ASSUME NEW E \in SUBSET Entities, Retry(p, E) PROVE Moves
    <3>1. \A e \in E : queue[e].status \in {"poison", "done"} /\ queue[e].content \in Contents
      BY <1>0, <2>4 DEF Retry, Stored
    <3>. QED
      BY <1>0, <1>2, <2>4, <3>1, OwnerMoves DEF Retry
  <2>. QED
    BY <1>1, <1>3, <2>1, <2>2, <2>3, <2>4 DEF User
<1>4. ASSUME NEW p \in Processes, Worker(p) PROVE Refined
  <2>1. ASSUME NEW S \in SUBSET Entities, Claim(p, S) PROVE Refined
    BY <2>1, Takes
  <2>2. ASSUME NEW j \in noop[p], NoOpComplete(p, j) PROVE Refined
    <3>. DEFINE H == Jobs(p) \ {j}
    <3>1. j \in Jobs(p) /\ j \notin batch[p] /\ job[p] = {}
      BY <1>0, <2>2 DEF NoOpComplete, Jobs, JobsMatchPhase
    <3>2. Jobs(p)' = H /\ \A q \in Processes \ {p} : Jobs(q)' = Jobs(q)
      BY <1>0, <2>2, <3>1 DEF NoOpComplete, Jobs, WorkersOK
    <3>3. hands' = [hands EXCEPT ![p] = H] /\ H \in SUBSET Jobs(p)
      BY <3>2 DEF hands
    <3>4. hands' = [hands EXCEPT ![p] = @ \ {j}]
      BY <3>3 DEF hands
    <3>. HIDE DEF H
    <3>. QED
      BY <2>2, <3>1, <3>3, <3>4, Finishes, TakerStays DEF NoOpComplete
  <2>3. ASSUME NEW j \in job[p], Complete(p, j) \/ Release(p, j) \/ Fail(p, j) PROVE Refined
    <3>. DEFINE H == Jobs(p) \ {j}
    <3>1. j \in Jobs(p) /\ j \notin batch[p] /\ job[p] = {j} /\ noop[p] = {}
      BY <1>0, <2>3 DEF Complete, Release, Fail, WorkerStep, Jobs, JobsMatchPhase
    <3>2. Jobs(p)' = H /\ \A q \in Processes \ {p} : Jobs(q)' = Jobs(q)
      BY <1>0, <2>3, <3>1 DEF Complete, Release, Fail, Jobs, WorkersOK
    <3>3. hands' = [hands EXCEPT ![p] = H] /\ H \in SUBSET Jobs(p)
      BY <3>2 DEF hands
    <3>4. hands' = [hands EXCEPT ![p] = @ \ {j}]
      BY <3>3 DEF hands
    <3>. HIDE DEF H
    <3>. QED
      BY <2>3, <3>1, <3>3, <3>4, Finishes, TakerStays DEF Complete, Release, Fail
  <2>4. ASSUME NEW j \in batch[p] \cup job[p],
               JobBusy(p, j) \/ JobError(p, j) \/ (j \in batch[p] /\ WriteVector(p, j))
        PROVE  Refined
    <3>1. (UNCHANGED queue /\ job[p] = {}) \/ UNCHANGED <<queue, batch, noop, job>>
      BY <1>0, <2>4 DEF JobBusy, JobError, Interrupted, WriteVector, WorkerStep, JobsMatchPhase
    <3>2. CASE UNCHANGED <<queue, batch, noop, job>>
      BY <1>1, <3>2
    <3>3. CASE UNCHANGED queue /\ job[p] = {}
      <4>1. hands' = hands
        BY <1>0, <2>4, <3>3 DEF JobBusy, JobError, Interrupted, WriteVector, hands, Jobs, WorkersOK
      <4>. QED
        BY <1>1, <3>3, <4>1
    <3>. QED
      BY <3>1, <3>2, <3>3
  <2>5. ASSUME CheckExistence(p) PROVE Refined
    <3>1. UNCHANGED queue /\ noop[p] = {}
      BY <1>0, <2>5 DEF CheckExistence, WorkerStep, JobsMatchPhase
    <3>2. hands' = hands
      BY <1>0, <2>5, <3>1 DEF CheckExistence, hands, Jobs, WorkersOK
    <3>. QED
      BY <1>1, <3>1, <3>2
  <2>6. ASSUME Embed(p) \/ EndBatch(p) PROVE Refined
    BY <1>1, <2>6 DEF Embed, EndBatch, cycle
  <2>7. ASSUME AbortCycle(p) PROVE Refined
    <3>. DEFINE H == {}
    <3>1. UNCHANGED queue /\ hands' = [hands EXCEPT ![p] = H] /\ H \in SUBSET Jobs(p)
      BY <1>0, <2>7 DEF AbortCycle, Forget, hands, Jobs, WorkersOK
    <3>. HIDE DEF H
    <3>. QED
      BY <3>1, TakerStays
  <2>. QED
    BY <1>4, <2>1, <2>2, <2>3, <2>4, <2>5, <2>6, <2>7 DEF Worker
<1>5. ASSUME NEW p \in Processes, Sweep(p) PROVE Refined
  <2>1. UNCHANGED <<batch, noop, job>>
    BY <1>5 DEF Sweep, Start, ReconcileExpiredLeases, BackfillGated, BackfillRead,
                BackfillInsert, AbortSweep, SweepStep, cycle
  <2>2. CASE ReconcileExpiredLeases(p)
    <3>1. ASSUME NEW e \in Entities, Expired(queue[e])
          PROVE  OwnerMove(ItemOf(queue[e]), ItemOf(Unlocked(queue[e])))
      <4>1. queue[e].content \in Contents
        BY <1>0, <3>1 DEF Stored, Expired
      <4>. QED
        BY <1>0, <3>1, <4>1, OwnerMoves
    <3>2. Moves
      BY <1>0, <1>2, <2>2, <3>1 DEF ReconcileExpiredLeases
    <3>. QED
      BY <1>1, <2>1, <3>2
  <2>3. CASE BackfillInsert(p)
    <3>1. \A e \in Entities : (\E j \in scan[p] : j.entity = e) =>
             (CHOOSE j \in scan[p] : j.entity = e).content \in Contents
      BY InvJobs
    <3>2. Moves
      BY <1>0, <1>2, <2>3, <3>1, OwnerMoves DEF BackfillInsert
    <3>. QED
      BY <1>1, <2>1, <3>2
  <2>4. CASE Start(p) \/ BackfillGated(p) \/ BackfillRead(p) \/ AbortSweep(p)
    BY <1>1, <2>1, <2>4 DEF Start, BackfillGated, BackfillRead, AbortSweep, tables
  <2>. QED
    BY <1>5, <2>2, <2>3, <2>4 DEF Sweep
<1>6. ASSUME NEW p \in Processes, NEW j \in owed[p], EnqueueOwed(p, j) PROVE Refined
  <2>1. j.entity \in Entities /\ Payload(j) \in Contents
    BY <1>0, OwedPayload
  <2>2. Moves
    BY <1>0, <1>2, <1>6, <2>1, OwnerMoves DEF EnqueueOwed
  <2>. QED
    BY <1>1, <1>6, <2>2 DEF EnqueueOwed, cycle
<1>7. ASSUME NEW p \in Processes, Crash(p) PROVE Refined
  <2>. DEFINE H == {}
  <2>1. UNCHANGED queue /\ hands' = [hands EXCEPT ![p] = H] /\ H \in SUBSET Jobs(p)
    BY <1>0, <1>7 DEF Crash, Forget, tables, hands, Jobs, WorkersOK
  <2>. HIDE DEF H
  <2>. QED
    BY <2>1, TakerStays
<1>8. ASSUME NEW p \in Processes, NEW status \in {"done", "poison"}, Purge(p, status)
      PROVE  Refined
  <2>1. Moves
    BY <1>0, <1>2, <1>8 DEF Purge
  <2>. QED
    BY <1>1, <1>8, <2>1 DEF Purge, cycle
<1>9. ASSUME Tick PROVE Refined
  <2>1. ASSUME NEW e \in Entities
        PROVE  OwnerMove(ItemOf(queue[e]), ItemOf([queue[e] EXCEPT !.timer = Elapsed(@)]))
    BY <1>0, OwnerMoves
  <2>2. Moves
    BY <1>9, <2>1 DEF Tick
  <2>. QED
    BY <1>1, <1>9, <2>2 DEF Tick, cycle
<1>10. ASSUME UNCHANGED vars PROVE Refined
  BY <1>1, <1>10 DEF vars, tables, cycle
<1>. QED
  BY <1>3, <1>4, <1>5, <1>6, <1>7, <1>8, <1>9, <1>10 DEF Next, Process

\* The outbox implements the leased queue, for any number of processes and entities.
THEOREM Refinement == Spec => ImplementsLeasedQueue
<1>1. Init /\ [][Next]_vars /\ []IInv => ImplementsLeasedQueue
  BY InitRefines, StepRefines, PTL DEF ImplementsLeasedQueue, LQ!LQSpec
<1>. QED
  BY <1>1, InductiveInvariant DEF Spec
=============================================================================
