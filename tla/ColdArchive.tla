----------------------------- MODULE ColdArchive -----------------------------
(***************************************************************************)
(* The maintenance sweep that every process tries at its start             *)
(* (services/maintenance-job.ts) and its move of long-archived memories    *)
(* from the hot database into the cold one (services/cold-archive.ts):     *)
(* two SQLite files, so no transaction spans the copy and the delete.      *)
(*                                                                         *)
(* A sweep runs under the exclusive write lock, taken here to be           *)
(* exclusive (WriteLock is about how it is); the dashboard's edits and     *)
(* deletes do not take it and come between any two of its statements.      *)
(* A row is its status, its updated_at, its text and its recall counter,   *)
(* which alone is written without a new updated_at; which active rows the  *)
(* sweep decays or archives is left open.                                  *)
(***************************************************************************)
EXTENDS Integers, FiniteSets

CONSTANTS
  Procs,       \* processes that start, and start again
  Memories,    \* the memories
  Texts,       \* what a memory may say
  None,        \* no process, no row
  Retention,   \* COLD_ARCHIVE_RETENTION_DAYS, in ticks
  Interval,    \* MAINTENANCE_INTERVAL_MS, in ticks
  MaxRows,     \* COLD_ARCHIVE_OFFLOAD_MAX_ROWS
  BatchSize,   \* COLD_ARCHIVE_BATCH_SIZE
  MaxUses,     \* bound: how often a memory is acknowledged as used
  MaxTime      \* bound: how far the clock goes

ASSUME ColdAssumption ==
  /\ Retention \in Nat \ {0} /\ Interval \in Nat /\ MaxTime \in Nat
  /\ MaxRows \in Nat \ {0} /\ BatchSize \in Nat \ {0} /\ MaxUses \in Nat
  /\ None \notin Procs

VARIABLES
  now,         \* the clock
  lastRun,     \* when a sweep was last recorded; -1: never
  sweeper,     \* the process that holds the exclusive lock
  stage,       \* where each process is in runStartupMaintenance
  began,       \* the time a process last took from the clock
  left,        \* ids the statement loop of a process still has to do
  seen,        \* the rows a process has selected for the move, as they were; None: not selected
  hotIds,      \* ids in memories
  row,         \* each row of memories; of a row that is gone, its last value
  copy         \* each row of cold_memories; None: not there

pass == <<began, left, seen>>
vars == <<now, lastRun, sweeper, stage, began, left, seen, hotIds, row, copy>>

Time == 0..MaxTime
Rows == [status: {"active", "archived"}, stamp: Time, text: Texts, used: 0..MaxUses]
ASSUME NoneAssumption == None \notin Rows
Chosen(p) == {m \in Memories : seen[p][m] # None}
Cold == {m \in Memories : copy[m] # None}
Sweeping == {"decay", "decaying", "expired", "lowScore", "offload", "copying", "record"}

TypeOK ==
  /\ now \in Time /\ lastRun \in Time \cup {-1}
  /\ sweeper \in Procs \cup {None}
  /\ stage \in [Procs -> Sweeping \cup {"idle", "waiting"}]
  /\ began \in [Procs -> Time]
  /\ left \in [Procs -> SUBSET Memories]
  /\ seen \in [Procs -> [Memories -> Rows \cup {None}]]
  /\ hotIds \subseteq Memories /\ row \in [Memories -> Rows]
  /\ copy \in [Memories -> Rows \cup {None}]

Init ==
  /\ now = 0 /\ lastRun = -1 /\ sweeper = None
  /\ stage = [p \in Procs |-> "idle"]
  /\ began = [p \in Procs |-> 0]
  /\ left = [p \in Procs |-> {}]
  /\ seen = [p \in Procs |-> [m \in Memories |-> None]]
  /\ row \in [Memories -> {r \in Rows : r.stamp = 0 /\ r.used = 0}]
  /\ hotIds = Memories
  /\ copy = [m \in Memories |-> None]

Goes(p, to) == stage' = [stage EXCEPT ![p] = to]
\* A function returns, or its process dies: what it held in its locals is gone.
Forget(p) ==
  /\ began' = [began EXCEPT ![p] = 0]
  /\ left' = [left EXCEPT ![p] = {}]
  /\ seen' = [seen EXCEPT ![p] = [m \in Memories |-> None]]

-----------------------------------------------------------------------------
(* The sweep *)

\* wasMaintenanceRunRecent, read outside the lock.
Recent == lastRun # -1 /\ now - lastRun < Interval
Start(p) ==
  /\ stage[p] = "idle" /\ ~Recent
  /\ Goes(p, "waiting")
  /\ UNCHANGED <<now, lastRun, sweeper, pass, hotIds, row, copy>>

\* withExclusiveWrite is entered, or gives up on the lock.  Mutant: no lock is taken.
EnterUnlocked(p) ==
  /\ stage[p] = "waiting"
  /\ sweeper' = p /\ Goes(p, "decay")
  /\ UNCHANGED <<now, lastRun, pass, hotIds, row, copy>>
Enter(p) ==
  /\ stage[p] = "waiting" /\ sweeper = None
  /\ sweeper' = p /\ Goes(p, "decay")
  /\ UNCHANGED <<now, lastRun, pass, hotIds, row, copy>>
GiveUp(p) ==
  /\ stage[p] = "waiting" /\ sweeper # None
  /\ Goes(p, "idle")
  /\ UNCHANGED <<now, lastRun, sweeper, pass, hotIds, row, copy>>

\* applyDecay: the unused active rows are read, then written one by one, without a second look.
DecayRead(p) ==
  /\ stage[p] = "decay" /\ Goes(p, "decaying")
  /\ began' = [began EXCEPT ![p] = now]
  /\ \E unused \in SUBSET {m \in hotIds : row[m].status = "active"} : left' = [left EXCEPT ![p] = unused]
  /\ UNCHANGED <<now, lastRun, sweeper, seen, hotIds, row, copy>>
DecayRow(p) ==
  /\ stage[p] = "decaying"
  /\ \E m \in left[p] :
       /\ row' = [row EXCEPT ![m].stamp = began[p]]
       /\ left' = [left EXCEPT ![p] = @ \ {m}]
  /\ UNCHANGED <<now, lastRun, sweeper, stage, began, seen, hotIds, copy>>
Decayed(p) ==
  /\ stage[p] = "decaying" /\ left[p] = {} /\ Goes(p, "expired")
  /\ Forget(p)
  /\ UNCHANGED <<now, lastRun, sweeper, hotIds, row, copy>>

\* archiveExpiredMemories, then archiveLowScoreMemories.
Archived(ids) ==
  [m \in Memories |-> IF m \in ids THEN [row[m] EXCEPT !.status = "archived", !.stamp = now] ELSE row[m]]
ArchiveRows(p) ==
  /\ \/ stage[p] = "expired" /\ Goes(p, "lowScore")
     \/ stage[p] = "lowScore" /\ Goes(p, "offload")
  /\ \E ids \in SUBSET {m \in hotIds : row[m].status = "active"} : row' = Archived(ids)
  /\ UNCHANGED <<now, lastRun, sweeper, pass, hotIds, copy>>

\* selectArchivedForOffload: the oldest of the rows that have been archived long enough.
Eligible == {m \in hotIds : row[m].status = "archived" /\ row[m].stamp <= now - Retention}
Oldest(ids) ==
  /\ ids \subseteq Eligible
  /\ ids = Eligible \/ Cardinality(ids) = MaxRows
  /\ Cardinality(ids) <= MaxRows
  /\ \A m \in ids, other \in Eligible \ ids : row[m].stamp <= row[other].stamp
Select(p) ==
  /\ stage[p] = "offload"
  /\ \E ids \in SUBSET Memories :
       /\ Oldest(ids)
       /\ seen' = [seen EXCEPT ![p] = [m \in Memories |-> IF m \in ids THEN row[m] ELSE None]]
       /\ left' = [left EXCEPT ![p] = ids]
       /\ Goes(p, IF ids = {} THEN "record" ELSE "copying")
  /\ UNCHANGED <<now, lastRun, sweeper, began, hotIds, row, copy>>

\* insertMemories: INSERT OR REPLACE, one transaction a batch.  Mutant: INSERT OR IGNORE.
CopyBatchIgnoring(p) ==
  /\ stage[p] = "copying"
  /\ \E batch \in SUBSET left[p] \ {{}} :
       /\ Cardinality(batch) <= BatchSize
       /\ copy' = [m \in Memories |-> IF m \in batch \ Cold THEN seen[p][m] ELSE copy[m]]
       /\ left' = [left EXCEPT ![p] = @ \ batch]
  /\ UNCHANGED <<now, lastRun, sweeper, stage, began, seen, hotIds, row>>
CopyBatch(p) ==
  /\ stage[p] = "copying"
  /\ \E batch \in SUBSET left[p] \ {{}} :
       /\ Cardinality(batch) <= BatchSize
       /\ copy' = [m \in Memories |-> IF m \in batch THEN seen[p][m] ELSE copy[m]]
       /\ left' = [left EXCEPT ![p] = @ \ batch]
  /\ UNCHANGED <<now, lastRun, sweeper, stage, began, seen, hotIds, row>>

\* deleteArchivedIfUnchanged, once countByIds finds every id.  Mutant: bulkDeleteMemories.
Unchanged(p) == {m \in Chosen(p) : row[m].status = "archived" /\ row[m].stamp = seen[p][m].stamp}
DeleteChosen(p) ==
  /\ stage[p] = "copying" /\ left[p] = {} /\ Goes(p, "record")
  /\ hotIds' = IF Chosen(p) \subseteq Cold THEN hotIds \ Chosen(p) ELSE hotIds
  /\ Forget(p)
  /\ UNCHANGED <<now, lastRun, sweeper, row, copy>>
DeleteUnchanged(p) ==
  /\ stage[p] = "copying" /\ left[p] = {} /\ Goes(p, "record")
  /\ hotIds' = IF Chosen(p) \subseteq Cold THEN hotIds \ Unchanged(p) ELSE hotIds
  /\ Forget(p)
  /\ UNCHANGED <<now, lastRun, sweeper, row, copy>>

\* runColdArchiveOffload: a database that throws ends the move and not the sweep.
OffloadFails(p) ==
  /\ stage[p] = "copying" /\ Goes(p, "record") /\ Forget(p)
  /\ UNCHANGED <<now, lastRun, sweeper, hotIds, row, copy>>

\* The prunes are done; recordMaintenanceRun does not fail the sweep.
Record(p) ==
  /\ stage[p] = "record" /\ Goes(p, "idle")
  /\ sweeper' = None
  /\ lastRun' \in {now, lastRun}
  /\ UNCHANGED <<now, pass, hotIds, row, copy>>

\* A statement of the sweep throws, or the process dies and its lock goes stale.
Crash(p) ==
  /\ stage[p] \in Sweeping /\ Goes(p, "idle") /\ Forget(p)
  /\ sweeper' = None
  /\ UNCHANGED <<now, lastRun, hotIds, row, copy>>

-----------------------------------------------------------------------------
(* The other writers: an UPDATE of a row that is gone changes nothing. *)

\* The dashboard's update: withWrite takes no file lock.
Edit(m) ==
  /\ m \in hotIds
  /\ \E text \in Texts : row' = [row EXCEPT ![m].text = text, ![m].stamp = now]
  /\ UNCHANGED <<now, lastRun, sweeper, stage, pass, hotIds, copy>>
\* memory-delete and the dashboard's delete archive the row, without the lock.
Delete(m) ==
  /\ m \in hotIds
  /\ row' = Archived({m})
  /\ UNCHANGED <<now, lastRun, sweeper, stage, pass, hotIds, copy>>
\* memory-write and the dashboard's bulk update hold the lock the sweep holds.
Write(m) ==
  /\ m \in hotIds /\ sweeper = None
  /\ \E text \in Texts, status \in {"active", "archived"} :
       row' = [row EXCEPT ![m].status = status, ![m].stamp = now, ![m].text = text]
  /\ UNCHANGED <<now, lastRun, sweeper, stage, pass, hotIds, copy>>
\* memory-write's acknowledgement counts a use under that lock: updated_at, by which the
\* guarded delete knows a row, stays.  Mutant: it does without the lock.
AcknowledgeUnlocked(m) ==
  /\ m \in hotIds /\ row[m].used < MaxUses
  /\ row' = [row EXCEPT ![m].used = @ + 1]
  /\ UNCHANGED <<now, lastRun, sweeper, stage, pass, hotIds, copy>>
Acknowledge(m) ==
  /\ m \in hotIds /\ sweeper = None /\ row[m].used < MaxUses
  /\ row' = [row EXCEPT ![m].used = @ + 1]
  /\ UNCHANGED <<now, lastRun, sweeper, stage, pass, hotIds, copy>>

Tick ==
  /\ now < MaxTime /\ now' = now + 1
  /\ UNCHANGED <<lastRun, sweeper, stage, pass, hotIds, row, copy>>

-----------------------------------------------------------------------------
Next ==
  \/ \E p \in Procs :
       \/ Start(p) \/ Enter(p) \/ GiveUp(p)
       \/ DecayRead(p) \/ DecayRow(p) \/ Decayed(p) \/ ArchiveRows(p)
       \/ Select(p) \/ CopyBatch(p) \/ DeleteUnchanged(p) \/ OffloadFails(p)
       \/ Record(p) \/ Crash(p)
  \/ \E m \in Memories : Edit(m) \/ Delete(m) \/ Write(m) \/ Acknowledge(m)
  \/ Tick

Spec == Init /\ [][Next]_vars

-----------------------------------------------------------------------------
(* Properties *)

\* No memory is lost between the two databases: one that has left the hot database is in
\* the cold one as its last writer wrote it, its recall counter included, whatever crashed,
\* failed, was tried again or was edited meanwhile, and however old the copies earlier
\* passes left behind.
NeverLost == \A m \in Memories \ hotIds : copy[m] = row[m]

\* A pass that is copying alone holds the lock, its rows are still in the hot database, what
\* it has copied is in the cold one as it was selected, and a row with the updated_at it
\* had then is the row it was then.
PassOK(p) ==
  /\ stage[p] \in Sweeping => sweeper = p
  /\ stage[p] = "decaying" => left[p] \subseteq hotIds
  /\ stage[p] = "copying" =>
       /\ Chosen(p) \subseteq hotIds /\ left[p] \subseteq Chosen(p)
       /\ \A m \in Chosen(p) \ left[p] : copy[m] = seen[p][m]
       /\ \A m \in Chosen(p) : /\ seen[p][m].stamp <= now - Retention
                               /\ row[m].stamp = seen[p][m].stamp => row[m] = seen[p][m]
PassInv ==
  /\ TypeOK
  /\ \A m \in Memories : row[m].stamp <= now
  /\ \A p \in Procs : began[p] <= now /\ PassOK(p)

\* A memory leaves the hot database only while it is archived and nothing has been written
\* to it for the whole retention: an edit, a restore or a new delete during the move keeps it.
LeavesWhenOld ==
  \A m \in hotIds \ hotIds' : row[m].status = "archived" /\ row[m].stamp <= now - Retention
OnlyOldLeave == [][LeavesWhenOld]_vars
=============================================================================
