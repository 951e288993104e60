# TLA+ verification of local-memory-mcp

local-memory-mcp is an MCP server that keeps memories, coding standards, tasks and a
code index in SQLite.  Several processes share the database: any number of MCP servers
(stdio or daemon) and a dashboard.  This directory holds a TLA+ model of the parts of
the program whose correctness depends on interleavings, crashes and time, the TLC
instances that check it, and TLAPS proofs.

Read `EmbeddingQueue.tla` first, then `LeasedQueue.tla` and
`EmbeddingQueueRefinement.tla`, then `WriteLock.tla` and, on top of it,
`TaskCoordination.tla`, `ColdArchive.tla` and `Indexing.tla`; `WorkerPool.tla`,
`DaemonLock.tla` and `HttpSessions.tla` stand alone.  `PROJECT.json` maps every definition to the source lines
it stands for.

## 1. Inventory

Paths are relative to `src/src/mcp/` unless they start with `dashboard/`
(`src/src/dashboard/`).

| component | state | operations | hard behaviour | what makes it correct |
|---|---|---|---|---|
| **embedding-queue** (`embedding-queue/`) | table `queue_jobs`; the batch in a worker's memory | enqueue (dedup + last-writer-wins upsert), enqueueIfAbsent, claim, complete, release, fail, reconcile, backfill, purge, retry/clear | two workers, lease expiry under a slow batch, BUSY writes, crash between commit and enqueue, reads before awaits | token pins the snapshot; `done` is earned; retry budget kept; dedup never hides a missing vector; every job ends; vectors converge |
| **write lock** (`storage/write-lock.ts`) | `locked`, `compromised`, `tail` per process; the lockfile | withLock, withExclusiveLock, acquire, release, onCompromised | event-loop stall past the stale threshold, takeover, crash while holding, concurrent vs nested calls | exclusion; nobody deletes another's lock; no call waits for ever |
| **worker pool** (`workers/pool.ts`) | maps of workers, idle and busy ones, queue, crash history | run, message, timeout, exit, respawn, disable, close | timeout racing answer and exit, crash storm, close while busy | a task settles exactly once, by its own answer; no task is lost; the pool keeps its size; close comes to an end |
| **daemon** (`cli/daemon.ts`, `runDaemonWorker` in `cli/combined-server.ts`) | pid file, lock file, the port | start, stop, boot, shutdown | two commands at once, a command killed between two system calls, stale files, a worker that closes while its successor boots | a lone start is never refused; one daemon, which the pid file names; a signalled worker goes |
| **HTTP sessions** (`transport/http.ts`) | session map, open-stream counts, buffered messages, idle timers | initialize, call, stream, DELETE, sweep, recovery, close | sweep racing a request or a stream, a stream that ends in one of five ways, messages between two streams | map, transports, counts and flags agree; nothing in use is swept; messages in order; requests end, sessions are reclaimed |
| combined server (`cli/combined-server.ts`, `server.ts`) | boot and shutdown flags | start, close | failure in the middle of the boot | covered where it meets the daemon's files and the sessions |
| **task coordination** (`tools/task-write/`, `entities/task/`, `entities/handoff.ts`, `utils/coordination.ts`) | task status and parent, claims, handoffs | create, update, bulk, interactive, claim, release, delete, handoff | gates read before the transaction, writers without the lock, nested and inline sections, a user who never answers | started before completed; completed and archived once; after its children; with no claim or handoff left; one active claim |
| **maintenance and cold archive** (`services/maintenance-job.ts`, `services/soul-maintenance.ts`, `services/cold-archive.ts`, `storage/cold-archive.ts`) | run record; hot and cold database | decay, archive, offload, prune | crash between copying to and deleting from two databases, edits in between, two processes sweeping | no memory is lost; only old, archived, untouched ones leave |
| **code index** (`codebase-index/services/`) | file, symbol and reference tables; the guard of running repositories; plan, batch and renames of a run | discover, plan, read, parse, write a batch, rename, clean up | files edited or moved under a run, rows and symbols in different commits, half-applied rename, runs of two processes | no change is passed over; rows and symbols agree; a run leaves the tree behind |
| memory, standard tools (`tools/memory-*`, `tools/standard-*`) | memories, standards | create, update, archive, delete | content and enqueue in one transaction | covered where they meet the queue |
| knowledge graph (`entities/knowledge-graph.ts`) | entities, relations, observations | upserts | idempotence under replay | idempotent SQL |
| storage (`storage/`) | connections, derived database, vectors | open, attach, retry on BUSY | see the users | transactions are atomic |
| migrations (`storage/migrations/`) | schema version | 42 forward migrations | - | sequential |
| router, session, prompts, resources (`router.ts`, `session.ts`, `prompts/`) | session scope | dispatch | - | - |
| dashboard (`dashboard/`) | none of its own | REST over the same tables, queue admin | writes without the lock or without an enqueue | covered where it meets the queue |

How they interact: every tool handler runs SQL transactions on the shared file; task-,
memory- and standard-write, the maintenance sweep and the indexing writer run under the
write lock, the dashboard's single writes, claims, handoffs and the delete tools do not.
Writers leave a row in `queue_jobs`; the embedding worker of *each* process takes rows under
a lease and writes vectors.  Queue admin in the dashboard edits the same rows.  The parser
and the embedding model run in worker threads behind the pool.  The daemon's worker is one
such process: it serves the HTTP endpoint and the dashboard, sweeps at its start, and runs
an embedding worker.

## 2. Modules

| module | what it is |
|---|---|
| `EmbeddingQueue` | the outbox, its workers, the startup sweep, and all writers as the queue sees them |
| `MCEmbeddingQueue` | model values of the other instances of the queue |
| `LeasedQueue` | abstract specification: a queue of items taken under a lease |
| `EmbeddingQueueRefinement` | the refinement mapping from the first to the third |
| `MCEmbeddingQueueRefinement` | symmetry for the instance `EQSafety` |
| `EmbeddingQueueProofs` | type correctness, inductive invariant, safety and action properties; what one process alone may rely on; the refinement |
| `WriteLock` | the exclusive lock of all processes over one lockfile |
| `MCWriteLock` | symmetry for its TLC instances |
| `WriteLockProofs` | the invariant of the promise chain; exclusion without stalls |
| `WorkerPool` | the pool of worker threads, its callers and its threads |
| `MCWorkerPool` | its TLC instance |
| `WorkerPoolProofs` | nothing lost or doubled, settled once by its own answer, size kept |
| `TaskCoordination` | task-write under the lock against claims, deletions, handoffs and the dashboard without it |
| `MCTaskCoordination` | the calls its TLC instances explore |
| `TaskCoordinationProofs` | snapshots of the bodies, gates, completion once, one active claim |
| `DaemonLock` | `daemon start` and `daemon stop`, the files they share, and the workers |
| `MCDaemonLock` | its TLC instance |
| `DaemonLockProofs` | what commands know; lone starts; one daemon, named by the pid file |
| `HttpSessions` | the legacy sessions of the HTTP endpoint, their streams, sweep and close |
| `MCHttpSessions` | its TLC instance |
| `HttpSessionsProofs` | map, transports, counts and flags agree; messages in order; nothing in use is swept |
| `ColdArchive` | the maintenance sweep and the move of memories between two databases |
| `MCColdArchive` | symmetry for its TLC instance |
| `ColdArchiveProofs` | nothing is lost; only old, archived rows leave |
| `Indexing` | index runs of several processes against a tree that changes |
| `MCIndexing` | symmetry for its TLC instance |

`TaskCoordination` and `ColdArchive` take the write lock as a variable (`holder`, `sweeper`)
that excludes processes, and in `Indexing` a section under it is one step, which is what `WriteLockProofs` proves of `WriteLock` as long as no
event loop stalls.

### EmbeddingQueue

One step is one SQL statement or transaction, or one settled `await`.  Node runs handlers
of one process one at a time, so a user operation of process `p` is possible only when
`p`'s event loop is free (`Responsive`): idle, awaiting the model (`embed`) or the
extraction of a job (`apply`).  The other process may step anywhere.

| variable | code |
|---|---|
| `entity` | the entity tables (status, content) |
| `queue` | `queue_jobs`: `status`, `content_hash`, `attempts`, `locked_by`, and as `timer` the one deadline that matters in that status (`backoff_until`, `lease_until`, purge TTL) |
| `vector` | the `*_vectors` tables |
| `phase`, `batch`, `noop`, `job` | program counter and locals of `runOnce`/`drainClaimedBatch` |
| `scan`, `sweep` | what `backfillMissingVectors` has read, and the kind it is at |
| `owed` | writes that are committed but not yet enqueued (`handleUpdate` of task-write, dashboard standards) |

| actions | code |
|---|---|
| `Create`, `Update` | memory-write, standard-write, task create, indexing writer: row and job in one transaction |
| `WriteUnqueued` | writes that enqueue nothing: title-only memory update, dashboard memory create/update, dashboard task create |
| `UpdateTask`, `WriteStandard`, `EnqueueOwed` | task-write update and dashboard standards: commit first, enqueue later (task-write re-reads the task) |
| `Archive`, `Cancel`, `Reopen`, `Delete` | status updates and `purgeEntityAndCleanup` |
| `Retry`, `Clear` | queue administration |
| `Claim`, `CheckExistence`, `NoOpComplete`, `Embed`, `WriteVector`, `Complete`, `JobBusy`, `JobError`, `Release`, `Fail`, `EndBatch`, `AbortCycle` | one worker cycle |
| `Crash`, `Start`, `ReconcileExpiredLeases`, `BackfillGated`, `BackfillRead`, `BackfillInsert`, `AbortSweep` | crash, restart, startup sweep |
| `Purge`, `Tick` | retention, time |

### WriteLock

A call is one `withExclusiveLock(fn)`.  `stage` says where each call is, `tail[p]` is the
promise chain of the process, `lockfile` whose the file is and whether its mtime is
fresh.  A process dies (`Crash`, the file goes stale) or its event loop stalls past
`LOCK_STALE_MS` (`Stall`: the heartbeat does not run, and anyone may take the lock).
`Acquire`, `GiveUp` and the two release paths follow `acquire()` and `release()`;
`unlock` removes the file without asking whose it is, as proper-lockfile does.

### WorkerPool

One step is a call of `run` or `close`, or one event of the main thread with everything
its handler does: `Message` (`handleMessage`), `Timeout` (`handleTimeout`), and
`ExitExpected`, `ExitRespawn`, `ExitDisable` (`handleExit` by its outcomes).  Each ends,
as in the code, in `dispatch` and `maybeFinishClose` (`Conclude`).  In between, on their
own, threads answer (`Respond`) or die (`Crash`).

| variable | code |
|---|---|
| `queue`, `busy`, `idle`, `workers` | the fields of those names |
| `outcome` | `settled` of each task and how its promise was settled |
| `crashes`, `disabled` | `recentCrashTimestamps` (its length; `CrashAges` moves the window), `disabled` |
| `closing`, `stopping` | `closing`, `closed`, and the terminations `close()` awaits |
| `thread`, `given`, `reply` | the worker threads: alive or not, the request one is at, the message on its way |

The timer of a task is not a variable: it runs exactly while a worker is busy with the
task.  A replacement worker takes a free name: in `ExitRespawn` that of the dead one.  The
idle list is a set (which idle worker is taken makes no difference to the others).  Node
delivers a thread's messages before its exit event.  Requests are plain data, so the
`catch` around `postMessage` is not reached and not modelled.

### TaskCoordination

A call is one request of a process: an update of one or several ids, a bulk of update items,
a creation, an interactive creation, or a claim.  All but claims run under the lock, inline
when the process holds it already.  A body is synchronous, so bodies of one process do not
interleave (`OthersIdle`), but its reads, its transactions and its archive are steps of
their own, and other processes commit in between.

| variable | code |
|---|---|
| `status`, `parent` | `tasks.status`, `tasks.parent_id` |
| `claims` | the unreleased rows of `claims` of each task; `offered`: the tasks with a pending handoff |
| `holder`, `stage` | who holds the exclusive lock; where each call is |
| `req`, `todo`, `seen`, `owed` | arguments, remaining bulk items, the statuses read before the transaction, `completedTaskIds` |

| actions | code |
|---|---|
| `Ask`, `Begin`, `GiveUp`, `Answer`, `Decline`, `Finish` | `handleTaskWrite`, `handleInteractive`, `archiveCompletedTasks` and the end of the section |
| `ReadRows`, `Commit`, `Rollback` | `handleUpdate`/`handleBulkUpdateByIds`: rows read first, validated, gated and written in one transaction |
| `ReadItem`, `CommitItem`, `FlushItems` | `executeBulkOperation`: each item gated outside its own transaction |
| `Create`, `DashboardCreate` | creation by task-write and by the dashboard |
| `ReadForClaim`, `Claim`, `Promote`, `ReleaseClaim` | `claimCoordinated`: read, claim in a transaction, promote in another |
| `Delete`, `CreateHandoff`, `UpdateHandoff` | `purgeEntityAndCleanup`, handoffs |
| `Crash` | a process dies with its calls, its lock goes stale |

### DaemonLock

One step is one system call of a command or a worker.  A command may die at any of them.

| variable | code |
|---|---|
| `pidFile`, `lockFile` | `daemon.pid`; `daemon.lock`, with the command that created it (its open descriptor) and the pid in it |
| `stage`, `saw`, `child` | where a command is, the pid it read last, the worker it forked |
| `worker`, `port`, `signalled` | the life of each worker, who listens, who was sent SIGTERM |
| `overlap`, `disturbed` | history: which commands were not alone, and whether any overlapped or died |

`BeginStart` to `WriteLockPid` are `startDaemon` with `acquireLock`, `BeginStop` to
`RemoveLock` `stopDaemon`; `Bind`, `PortInUse`, `BootFails`, `Close` and `Exit` are
`runDaemonWorker`.

### HttpSessions

One step is what the event loop does between two awaits.  Requests are a sequence, in the
order they arrive; each keeps its stage, its session and, while it is being served, its age.

| variable | code |
|---|---|
| `table`, `idle`, `openStreams` | `legacySessions` with `lastSeen` and `openSseStreams` |
| `transport`, `sdkStream` | the SDK's transport and the GET stream it has registered |
| `sseOpen`, `buffer` | the flag and the queue of `bufferStandaloneUntilSse` |
| `pipe`, `quiet` | `withSseIdleTimeout`: chunks not pulled yet, and its timer |
| `got`, `sent` | history of the standalone messages |
| `server` | up, closing, cleared, down |

`Initialize` with `Open`/`OpenFails`, `Call`, `CallRecovered`, `Listen`, `ListenRefused` and
`Delete` are `serveLegacy`, each with the sweep it begins with; `SweepTimer` is the sweep's
own timer; `Emit`, `Pull`, `IdleClose` and `ListenerGone` are the stream; `CloseBegin`,
`CloseSessions` and `CloseListener` the two `close` functions.

### ColdArchive

`Start` to `Record` are `runStartupMaintenance`, statement by statement where another
process can see the difference: `DecayRead`/`DecayRow`, `ArchiveRows` (twice), `Select`,
`CopyBatch`, `DeleteUnchanged`.  `Edit` and `Delete` are the dashboard and memory-delete,
which take no lock; `Write` is everything that does, and `Acknowledge` the recall counter of
`memory-acknowledge`, which a row gets under the lock and without a new stamp.

| variable | code |
|---|---|
| `hotIds`, `row` | `memories`: which ids it has, and each row's status, `updated_at`, text and recall counter (its last, once it is gone) |
| `copy` | `cold_memories` |
| `now`, `lastRun` | the clock and the recorded run |
| `sweeper`, `stage`, `began`, `left`, `seen` | who holds the lock, and the locals of each process: time taken, ids to do, rows selected |

### Indexing

A run is `performIndexRepository`: `Sweep` or `Call` walks the tree, `Plan` compares with the
rows, `Read` reads one file and decides, `Upsert` and `Replace` are the two write sections of
a batch, `ApplyRenames` and `CleanStale` those at the end.  Between any two of them files
change and the runs of other processes write.

| variable | code |
|---|---|
| `disk`, `now` | content and mtime of the files; the clock |
| `files` | `codebase_files`: checksum and `last_indexed_at` |
| `symbols` | `codebase_symbols` and `codebase_references`, as the contents each path's rows were parsed from |
| `run` | for each process: the discovered mtimes, the checksums of `existingMap` and `checksumToOldPaths` it may still look at, the plans left, the batch, `renameMap`, `stalePaths` |
| `torn`, and `loose`, `moved`, `calm` in the records | history: paths a fault or an overlap may have torn; rows whose stamp covers changes their checksum does not, files moved with an old mtime, runs that were alone |

`RenameThrows` is the unique index on paths, `RenameBreaks` a failure between the statements
of a pair; after either, `retryDbWrite` tries again with all the pairs, or the run ends
(`Fails`); a run without renames goes from the last batch to the clean-up (`AllRead`); the other failures are alternatives of the step they strike.  A checksum is the
content itself (collisions of SHA-256 are left out).

## 3. Runs

Bounds: in the `EQ` runs and in `Index`, `MaxEdits` user operations (file edits for `Index`)
and `MaxFaults` faults in a behaviour; in the others the calls, tasks, commands, workers,
sessions, requests and messages of a behaviour; and the clocks of `ColdArchive` and
`Indexing`.  Everything else is finite by itself.  Two processes, two contents and one or two
entities suffice for the races listed: each of them is between two processes over one row, or
a row and its parent.  `CHECK_DEADLOCK FALSE`
everywhere but in `HTTP` (whose clock always ticks): when the bounded operations are used
up, the modelled system has nothing to do.

| run | question | bounds |
|---|---|---|
| `EQSafety` | snapshot pinned by the token, poison only by failures, `done` earned, retry budget kept; refinement of `LeasedQueue` | 2 processes, 1 task, 1 standard, 2 edits, 1 fault of any kind, poison at 3 attempts with backoffs of 1 and 2 ticks |
| `EQSingle` | dedup stays sound but for jobs of entities that are gone, backfill revives current content, a startup sweep repairs what has no live job: one process | 1 memory, 1 task, 3 edits (unqueued writes and reopened entities included), 2 faults, the gate at 2 live rows; no aborted sweep, which repairs nothing |
| `EQConverge` | vectors converge when write and enqueue are one transaction, and every live job ends | 1 process, 1 memory, 1 file, 3 edits, 2 faults |
| `WLock` | chain invariant; one holder and fresh lockfiles kept until an event loop stalls; every queued call returns | 2 processes, 2 calls each, 3 crashes or stalls in any mix |
| `WPool` | no task lost, doubled, settled twice or by another's answer; size kept; tasks settle and `close` resolves | 3 tasks (one without timeout), pool of 2, a third name for replacements of workers still terminating, guard at 2 crashes |
| `TCoord` | starts not skipped, completions once, after the children, with nothing left open; one active claim; every call returns | 2 tasks, 2 agents, 3 calls of 2 processes (updates that complete or re-parent, items, claims, interactive), any deletions, handoffs, releases, dashboard creations and crashes |
| `DLock` | lone starts not refused; one daemon and the pid file names it; what is signalled goes | 2 starts, 1 stop, 2 workers, kills and crashes at any step |
| `HTTP` | map, transports, counts and flags agree; order of messages; nothing in use swept; requests end; sessions reclaimed | 2 sessions, 3 requests, 3 messages, TTL and stream idle time 1 tick, buffer of 1, recovery on |
| `Cold` | no memory lost; only old, archived ones leave; the invariant of a pass | 2 processes, 2 memories, 2 texts, batches of 1, retention and interval 1 tick, one acknowledgement a memory, clock to 3, so that a second pass meets the copies of the first |
| `Index` | no change passed over; rows and symbols agree; a run that was alone leaves the tree behind | 2 processes, one of them only watching and not struck by faults, 2 paths, 2 contents, batches of 1, 1 edit or move, 1 fault of any kind, clock of one margin |

TTL 1 tick is the smallest time at which a session can be used, idle, and expired; a
buffer of 1 with 3 messages overflows and is flushed; a batch of 1 puts a crash and an edit
between any two copies.  In `Index` one edit suffices because the tree and the runs before it
are arbitrary, and one margin of clock separates what the mtime filter may skip from what it
must read; the second process can overlap with any part of the first one's run.

### Disagreements between code and documentation

Two runs each check one property that a comment of the code states, and TLC shows a
behaviour of the code that violates it.

| run | what happens |
|---|---|
| `WLInlineEscape` | A concurrent call of the holder's process runs inline, outlives the holder, and interleaves with another process's section. |
| `TCClaimReopens` | A claim reads the task; another process completes it; the claim promotes it back to `in_progress` by the status it read. |

Of others, the behaviour is short and TLC finds it at once when it is asked for the formula
given (an invariant, or `[][...]_vars`) in a small instance of the module.  The properties of
the passing runs except or condition away these cases, and this is what they except:

| formula, instance | what TLC shows |
|---|---|
| `EmbeddingQueue`, 2 processes, 1 standard, 2 edits, no fault: a standard whose row is `done` with the standard's content, and of which no worker has a job in hand, has the vector of that content | A worker claims a job; the standard is updated and re-enqueued; the other worker embeds the new content; the first one then upserts its older vector, because `writeVector` (`worker-jobs.ts:162`) does not ask whether the claim stands.  The `done` row hides the stale vector from every later enqueue of that content, until a startup; `types.ts:75-76`: coalescing "always converges on the newest committed write".  (13 states) |
| `EmbeddingQueue`, the same with a crash: `RevivedIsCurrent` | The startup backfill of one process reads a candidate; the other process updates and embeds it; the first revives the `done` row with what it read, which is not "the current snapshot" (`enqueue.ts:300-301`).  (15 states) |
| `EmbeddingQueue`, 1 process, 1 standard: a deleted standard has no vector | A standard deleted while its text is being embedded gets its vector back, though a stale job "can never re-embed the vector" (`purge-entity-cleanup.ts:151-152`).  (7 states) |
| `WriteLock`, 1 stall: `stage[c]` goes from `unlocking` to `done` only with `lockfile.owner` in `{None, Home(c)}` | A holder whose event loop has stalled is overtaken; its section ends before its heartbeat tells it so, and its `unlock` (`write-lock.ts:250`) removes the lockfile of the new holder: "we must NOT unlock it" (`write-lock.ts:240`).  (9 states) |
| `DaemonLock`, 2 starts: one start at most is in `fork`, `record` or `relabel` | A start finds the lock file another has created and not yet written, takes the empty body for stale (`daemon.ts:176`), removes it and creates its own; both fork, where the lock is there to close that race (`daemon.ts:279-281`).  (10 states) |
| `Indexing`, 1 process, a rename that fails: `Agrees(f)` for every path outside a batch in flight | The row is at the new path and the symbols at the old one, where "a failure rolls the whole rename back together" (`indexing-writer.ts:107-108`): `withExclusiveWrite` is a file lock, and each statement commits by itself.  (12 states) |
| `Indexing`, 1 process, no fault: a file the filter `Skips` has the content its row has the checksum of | A file edited after it was read, more than the margin before its row is stamped, is skipped by every later run, where the planner says it "was not modified since it was last indexed" (`indexing-planner.ts:112-114`).  (7 states) |

The rest were met while modelling.

Queue.  The first two behaviours of the table are why `DedupSound` and `RevivedIsCurrent` are
checked and proved for one process.
- A canceled task's job is completed without a vector (`worker-jobs.ts:94`); the task is
  reopened; its enqueue is deduplicated against the `done` row.  The reopening may even come
  with other content whose enqueue a crash loses, and a later edit go back to the content of
  the `done` row: the attempt to prove an earlier form of `DedupSound`, which excepted only
  a task that is reopened, found this behaviour of five edits and a crash.  `DedupSound` now
  says that completing the job of an entity that is gone is the only step after which a
  `done` row may lack its vector.
- Two dashboard writes of one standard (`dashboard/services/standards.service.ts:242`): rows
  in one order, enqueues in the other.  `Converges` is about writes that enqueue in their
  transaction.
- A crash between a task's commit and its enqueue while an older job of the task is live
  leaves the older content's vector for good: the backfill does not touch live jobs
  (`Repairs` is about rows that are absent or `done`).
- `counters.poisoned++` (`worker/batch.ts:222`) runs after every failure, and the comment
  above it says only when the row is poisoned; counters are not modelled.

Write lock.  After an unlock of another's lockfile two sections run at once: `FreshLockKept`
and `OneHolder` speak of behaviours up to the first stall.

Worker pool.  `handleTimeout` starts a new worker in a disabled pool too, and a success of
one of its workers clears the crash history so that `handleExit` respawns again
(`pool.ts:52-53`: "respawning STOPS"); `SizeKept` shows that the pool still never exceeds its
size, and `EveryTaskSettles` that such workers cannot leave a task behind.  A `close()` does
not wait for the termination of workers that timed out before it (`pool.ts:288` says it
resolves once every worker is terminated): `stopping` holds the pooled ones.

Tasks.
- A bulk's items are gated outside their transactions (`bulk-executor.ts:159`): a child
  created by the dashboard in between leaves a completed parent with an open child.
  `GateHolds` is about updates, whose gate is inside.
- An update decides what is a change of status by the row it read before its transaction
  (`Changes`): if another process moves the task in between, an update that names the status
  read skips validation, gate and clean-up.  The lock keeps out other bodies of task-write;
  a deletion or a claim is not kept out.
- A task already claimed is silently taken over by the next claimer (`claimTask`), where
  `.agents/documents/application/modules/handoffs/overview.md:35` says that claiming fails.
- `updateHandoffStatus` makes settled handoffs pending again.
- A crash between the commit of a completion and its archive loses the archive: the task is
  completed, so no later call owes it.

Daemon.  Of the workers of two racing starts the port lets one live, and the loser's start may
be the one whose pid stays in the pid file; two starts that find a really stale lock can both
reclaim it as well.  After `stop; start` the old worker may still hold the port when the new
one boots, which then exits: no daemon is left.  An old worker that exits late removes the lock file of the new
daemon.

HTTP.  A call that runs for longer than the idle TTL is cut off by the sweep: only streams
count as use.  An `initialize` in flight when `close()` clears the map enters it afterwards
and is never closed.  The idle timer discards chunks that have not been pulled.  The buffer
drops the oldest message at its bound.

Maintenance.  Two processes that start together both sweep, so importance decays twice
(whether a sweep ran recently is read outside the lock).  An edit by the dashboard that
finds the row gone (moved between its read and its write) is lost.
The decay writes rows without a second look, edited ones too.  The check before the delete
is by presence in the cold database; it is the stamps that make it sound.  A memory restored
or edited after its copy leaves a stale cold row behind until the next move replaces it.

Code index.
- `last_indexed_at` is stamped when a row is written or transferred, not when its file was
  read.  Like the edit in the table, an `mv` that brings an older file with its mtime is
  skipped by every later run.  `SkipSound` excepts these and the next (`loose`, `moved`).
- A rename moves the *current* row of the old path and stamps it with the present time
  (`entities/codebase-file.ts:125`), although the pair was matched by the checksum that row
  had when the run was planned (`decide-phase.ts:86`).  If another process has indexed the
  old path again in between, the new path gets a checksum that is not its content's, with a
  stamp newer than its mtime, and is skipped by every later run.  The proof of `SkipSound`
  found this; it takes two edits and a run restricted by globs, more than `Index` explores.
- The symbols that a failed rename leaves at the old path no clean-up visits, since it goes by
  rows.
- `writeParseBatch` commits the rows with their new checksums before the symbols: when the
  second section fails, the next run skips the files by checksum and their symbols stay old.
- A parse that times out gives no symbols, and its row is written and its symbols emptied, where
  the log says "skipped" (`batch-persist.ts:121`).
- A forced run detects renames too, and does not parse the renamed files again.
- A run restricted by globs takes every row outside them for stale and deletes it.
- The guard `indexingRepos` is per process: two processes may leave the row of one content with
  the symbols of another, and one of them may delete as stale what the other has just added.
- The watcher leaves a repository alone whose index has become empty.

`SymbolsAgree` excepts the paths these failures have `torn`; `LeavesTree` shows that a forced
run that is alone mends all of them but the renamed.

## 4. Fairness

`EmbeddingQueue!FairSpec`: `WF(Process(p))`: the event loop keeps turning and a dead
process is started again (the daemon's service unit, or the MCP client that launches the
server); `WF(Tick)`: time passes.  User operations and faults are not fair; both are
bounded.  `Drains` needs nothing else: the poison threshold bounds the attempts.

`WriteLock!FairSpec`: `WF(Proceed(c))` for each call: a section ends, and `acquire`
resolves or rejects within its bounded retries; `WF(Wake(p))`: a long synchronous
statement ends.  Restarts and takeovers are not assumed.

`WorkerPool!FairSpec`: `WF(Serve(w))` for each worker: its messages and its exit are
delivered and its task's timer fires; only of a task without a timeout is it assumed that
its worker answers or dies.  `WF(ResolveClose)`: `terminate()` settles.  Callers, crashes
and the ageing of crashes are not fair.

`TaskCoordination!FairSpec`: `WF(Proceed(c))` for each call: a body is finite and the wait
for the lock is bounded by its retries.  The user of an interactive call owes no answer.

`DaemonLock!FairSpec`: commands that have begun go on unless they are killed, and workers
that are booting or closing get on with it.  A serving worker owes nothing.

`HttpSessions!FairSpec`: time passes, timers fire (`SweepTimer`, `IdleClose`), factories and
calls end (`Open`, `Answer`), a close that has begun goes on.  Clients are not fair: none
needs to read, to close its stream, or to send DELETE.

`ColdArchive` and `Indexing` have safety properties only: a run may always be overtaken by the
next edit, and a repository whose index is empty is never indexed again without a call.

## 5. Proofs

All for every set of processes, entities, contents and calls and every bound.

**EmbeddingQueue.**  `TypeOK`, `AttemptsMatchStatus` and `HeldSnapshot` are not inductive
by themselves.  `HeldSnapshot` (a row still claimed with my token holds the payload I
took) needs to know that a worker's jobs sit in one place at a time and only in the
phases that may touch them (`JobsMatchPhase`), and that stored rows and entities have
contents (`Stored`); `IInv` is the conjunction.  `InductiveInvariant` proves
`Spec => []IInv` with a lemma per group of actions; from it follow `TypeCorrect`,
`PoisonEarned`, `TokenPinsSnapshot` and the action properties `DoneEarned` and
`AttemptsKept`.  `Refinement` proves that every step is a step of `LeasedQueue` or a
stutter: `Complete`, `Release` and `Fail` are its `Finish` when the row is still held and
its `Drop` when it is not, and it is `HeldSnapshot` that makes the payload in the hand
the one in the row.  Assumptions: the kinds of entities are disjoint, `None` is no
content or process, sizes are positive where the code's defaults are.

`DedupIsSound` and `RevivesCurrent` have the hypothesis that there is one process (`Alone`),
which is the server without a dashboard beside it; section 3 tells what two do.  They rest on
`AloneInv`: what a process has read is still so when it uses it.  Its jobs are one for each
row, and their rows are not done meanwhile (`HandsStep`); the entities it found gone stay
gone until they are completed, the vector just written is there until `complete`, and what
the sweep has read or a committed write owes is what the entity has (`ReadsStep`).  All
operations and faults are allowed, also those `EQSingle` leaves out.

**WriteLock.**  `ChainInvariant` proves `LockInv` for any faults: a call is in the chain
exactly while it waits, holds or unlocks, the chain has no duplicates, only its first
call is past waiting, and `locked` is set on that one's behalf.  Lemmas treat the chain
alone (`Joins`, `HeadMoves`, `HeadLeaves`, `Aside`, `Elsewhere`).  `Exclusion` and
`FreshLockKeptAlways` hold of every behaviour up to its first stall: the number of stalls
never goes down (`StallsStay`), and while it is zero, `Owned` is an invariant (whoever
believes to hold, or is about to unlock, owns a fresh lockfile).  Crashes are allowed in
any number.

**WorkerPool.**  `PoolInvariant` proves `PoolInv`, which is inductive as it stands: tasks
are in one place (`Placed`), workers are idle or busy (`Staffed`), and what a pooled
thread computes is what it is busy with (`Matched`).  Every handler leaves a `Tidy` state
to `dispatch`; `Dispatches` and `Concludes` show once that `dispatch` and
`maybeFinishClose` make a good state of it, and the lemma of each handler only shows
tidiness.  From it follow `SettlesOnce` and `AnsweredByItsOwn` (the busy map identifies
the task although the id of the message is never compared).  `KeepsSize` adds the
finiteness of `workers` and counts.

**TaskCoordination.**  `BodiesAreSound` proves `CoordInv`: at most one body runs in a process, a
body that writes has the lock from its read to its commit, and since its read none of its
rows was completed or put back to unstarted (`SnapshotOK`).  What happens without the lock is
`Harmless` to snapshots, which is shown once and used for claims, deletions, creations and
handoffs alike.  `StartsAreNotSkipped`, `CompletionsAreOnce`, `ParentsComeLast` and
`CompletionsClose` are then properties of single steps (`AtCommit` says what the snapshot
gives a commit); `ClaimsAreExclusive` is an induction of its own.

**DaemonLock.**  `DaemonInv`, `NeverWedged` and `StatusIsTrue` are inductive only together:
between commands the pid file names the daemon (`StatusIsTrue`), so a command that reads it
knows who runs (`OrderedOK`), and what it cleans or forks keeps it so; a start that has been
alone finds nobody alive but its child (`AloneOK`), so it does not refuse; and no command
reads its own pid as the owner's (`OwnOK`).  One lemma per action.

**HttpSessions.**  `HttpInv` is inductive as it stands.  `CutKeeps` and `VisitKeeps` treat
the sweep every request begins with once; `UseIsKept` follows because an expired session has
no stream and its calls are at least as old as its idle time.  `MessagesInOrder` is an
induction over the messages: what a client has got, what is in the pipe and what is buffered,
in this order, rise, and all were sent (`OrderInv`).  From `HttpInv` it takes that the
buffer is empty while a stream takes messages directly.

**ColdArchive.**  `PassInv` and `NeverLost` are inductive together: every writer stamps a row
with the present time, which is later than what a pass has selected since the retention is
positive, so a row with the selected `updated_at` is the selected row, and what the guarded
delete takes away is what the copy holds.  `Retention > 0` is the assumption this needs.  The
recall counter is written without a stamp: that it cannot fall between copy and delete is due
to the lock, which an acknowledgement waits for (`AcknowledgeKeeps`); the mutant that does not
wait loses it.

**Indexing.**  Four invariants, on top of the types.  `StampInv` gives `FilterIsSound`: a file
with an mtime before a reading of it, and not moved, still has the content that was read,
whoever edits meanwhile; so a row stamped within the margin of its reading hides no change.
`RunInv` says that the paths a run has read, has yet to read and takes for stale are apart.
With it `SymbolInv` gives `RowsAndSymbolsAgree`: a path that is not `torn` belongs, between
the two sections of a batch, to that run alone and has the row of its batch, and at all other
times rows and symbols agree (`Held`).  `CalmInv` gives `RunLeavesTree`: of a run that nobody
has disturbed since it began, every file is still to be read, in the batch, to be renamed or
settled, and every other row is stale; its renames never meet a row at the new path
(`CalmRenames`), so only its clean-up ends it; of the index it found nothing is assumed.

**Only model-checked.** Liveness (`Drains`, `Converges`, `Repairs`, both `EveryCallReturns`,
`EveryTaskSettles`, `CloseResolves`, `StopStops`, `EveryRequestEnds`, `Reclaimed`) is beyond
the prover.  Every other property of a passing run has a
theorem.

## 6. What is not modelled

In the modelled components: `model_version` drift; the backfill cap, its ordering and
its 200-row chunks (one chunk per kind); the claim's order by `created_at` (any eligible
rows are taken; the claim's UPDATE and read-back are one step); payloads that do not
parse (no writer makes them); what the KG extraction stores; collisions of batch tokens;
repository scopes; the worker's counters; the graceful stop of a worker (like a crash);
a poll that runs before the deferred startup sweep. `EmbeddingQueue` assumes the write
lock excludes task updates from each other (`WriteLockFree`), which `WriteLock` shows to
hold without stalls and inline calls. Of proper-lockfile, the race of two takeovers of
one stale lockfile is left out: a takeover is one step.

A nested call after the outer section lost its lock would queue behind itself and hang.
It is not reachable today, since the only nested call (task-write archiving a completed
task) comes before the section's first yield; it would be with an `await` before it.

`TaskCoordination`: task codes, dependencies, comments, owner and repository moves, which
fields a transition asks for besides the status, and the enqueues (they are in
`EmbeddingQueue`).  Stalls and inline escapes, which `WriteLock` treats: the lock is taken
to exclude.

`DaemonLock`: pids that are reused, workers that an OS service starts without the lock file,
the moment in which a rewritten file is empty (`writeFileSync`; a start that creates the
lock exclusively does pass through it), writes of the files that fail (the command throws,
which leaves what a killed one leaves), `SIGKILL` after a grace period (the code has none).

`HttpSessions`: the modern per-request handler (it keeps nothing between requests), Host and
Origin validation, keep-alive comments, what the SDK does inside an exchange, several POST
streams of one session (only the standalone stream is counted and buffered by this code).

`Indexing`: targets of imports and re-exports (resolved from the symbols of other files, and
stale until those files' users are parsed again), exploration observations, the enqueues
(in `EmbeddingQueue`), file size limits, `maxFiles` (like a glob), language and semantic
enrichment, when the watcher and the TTLs start a run, stalls of the write lock.

`ColdArchive`: the hit counter of memories (nothing calls its increments), importance values
and which rows a decay or a low score selects (any set is), the prunes and the vacuum, search in the cold database, import and export of the
dashboard, and a failed read of the run record, which counts as "not recent" and makes a
sweep start that the model starts later.  A purged memory's cold row stays; nothing reads
it back into the hot database on its own.

Not modelled at all: the knowledge graph (idempotent upserts of extracted text), storage
set-up and migrations (sequential, at boot, before anything above runs), router, session
scope and prompts (no state that outlives a call), the code parser and the rankers (pure
computation on source text), the dashboard's routes and its UI.  Most of the repository's
implementation lines are of these kinds (UI components, parsers, formatting, schemas,
benchmarks, argument normalisation), so the share of all lines that the map covers stays
small; what it covers is the code in which processes meet.  See `PROJECT.json`,
"components".

## 7. What is left

Composition: the writers of `EmbeddingQueue`, `TaskCoordination` and `ColdArchive` under
`WriteLock` itself in place of the exclusive variable each has, with stalls and inline calls.
