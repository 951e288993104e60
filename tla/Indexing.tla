------------------------------ MODULE Indexing ------------------------------
(***************************************************************************)
(* Index runs over one repository (codebase-index/services): discovery,    *)
(* the plan with its mtime filter, reading and deciding, the writes of a   *)
(* batch, renames and the clean-up of stale rows, against files that are   *)
(* edited, moved and removed meanwhile, by processes that share the        *)
(* database.                                                               *)
(*                                                                         *)
(* A process has one run of the repository at a time (indexingRepos); no   *)
(* lock spans a run: only its write sections exclude each other            *)
(* (WriteLock), so each of them is one step.  A file is its content and    *)
(* mtime; its symbols and references, replaced together, are the content   *)
(* they were parsed from.  The watcher's interval and the TTLs only put a  *)
(* run off: one may begin at any time.  The clock counts in units of the   *)
(* coarsest mtime.  "History" marks what the code does not keep and only   *)
(* the properties read.                                                    *)
(***************************************************************************)
EXTENDS Integers, FiniteSets

CONSTANTS
  Processes,   \* processes that index the repository
  Callers,     \* those of them that are called to and that faults strike; the others only watch
  Paths,       \* paths of source files
  Contents,    \* what a file may contain
  None,        \* no file, no row
  Margin,      \* MTIME_AMBIGUITY_MARGIN_MS, in units of the clock
  BatchSize,   \* resolveConcurrency: files parsed together
  FaultKinds,  \* what may go wrong
  MaxFaults, MaxEdits, MaxTime   \* bounds

ASSUME IndexAssumption ==
  /\ Callers \subseteq Processes
  /\ Margin \in Nat \ {0} /\ BatchSize \in Nat \ {0}
  /\ MaxFaults \in Nat /\ MaxEdits \in Nat /\ MaxTime \in Nat

VARIABLES
  now,       \* the clock
  disk,      \* the file at each path; moved (history): it came with an older mtime
  files,     \* codebase_files; loose (history): its stamp covers changes the checksum does not
  symbols,   \* codebase_symbols and codebase_references: the contents each path's come from
  run,       \* the index run of each process
  torn,      \* history: paths whose symbols a fault or another run's write may have left behind
  edits, faults

world == <<now, disk, edits>>
index == <<files, symbols, torn>>
vars == <<world, index, run, faults>>

Time == 0..MaxTime
File == [content: Contents, mtime: Time, moved: BOOLEAN]
FileRow == [sum: Contents, at: Time, loose: BOOLEAN]
Reading == [content: Contents, read: Time, parsed: BOOLEAN]
Rename == [from: Paths, sum: Contents, read: Time]  \* sum (history): what they were matched by
Run == [phase: {"idle", "walk", "parse", "replace", "clean"}, force: BOOLEAN,
        found: [Paths -> Time \cup {None}], known: [Paths -> Contents \cup {None}],
        todo: SUBSET Paths, batch: [Paths -> Reading \cup {None}],
        renames: [Paths -> Rename \cup {None}], stale: SUBSET Paths, calm: BOOLEAN]
ASSUME NoneAssumption == None \notin Contents \cup Time \cup File \cup FileRow \cup Reading \cup Rename
Nowhere == [f \in Paths |-> None]
Idle == [phase |-> "idle", force |-> FALSE, found |-> Nowhere, known |-> Nowhere, todo |-> {},
         batch |-> Nowhere, renames |-> Nowhere, stale |-> {}, calm |-> FALSE]
In(map) == {f \in Paths : map[f] # None}

TypeOK ==
  /\ now \in Time /\ edits \in 0..MaxEdits /\ faults \in 0..MaxFaults
  /\ disk \in [Paths -> File \cup {None}]
  /\ files \in [Paths -> FileRow \cup {None}]
  /\ symbols \in [Paths -> SUBSET Contents]
  /\ torn \subseteq Paths
  /\ run \in [Processes -> Run]

Init ==
  /\ now = 0 /\ edits = 0 /\ faults = 0
  /\ disk \in [Paths -> {file \in File : file.mtime = 0 /\ ~file.moved} \cup {None}]
  /\ files = Nowhere /\ symbols = [f \in Paths |-> {}] /\ torn = {}
  /\ run = [p \in Processes |-> Idle]

-----------------------------------------------------------------------------
(* Helpers *)

Fault(p, kind) ==
  /\ p \in Callers /\ kind \in FaultKinds /\ faults < MaxFaults
  /\ faults' = faults + 1
At(p, phase) == run[p].phase = phase
Ends(p) == run' = [run EXCEPT ![p] = Idle]
\* A write section of p: the runs of the others are no longer alone.
Disturb(p, mine) ==
  run' = [q \in Processes |-> IF q = p THEN mine ELSE [run[q] EXCEPT !.calm = FALSE]]
\* Paths whose row another run has written and whose symbols it has yet to replace.
Open(p) == UNION {In(run[q].batch) : q \in {q \in Processes \ {p} : At(q, "replace")}}
\* A stamp is loose once a change after the read may have an mtime the margin does not cover,
\* or when the checksum is not of what was read.
Stamp(sum, content, read) == [sum |-> sum, at |-> now, loose |-> sum # content \/ now - read >= Margin]

-----------------------------------------------------------------------------
(* Discovery and plan *)

\* discoverFiles, over the whole tree or what the globs let through; a directory it cannot
\* read is skipped with what is in it.
Begins(p, how, scope) ==
  /\ At(p, "idle")
  /\ run' = [run EXCEPT ![p] =
       [Idle EXCEPT !.phase = "walk", !.force = how, !.calm = (scope = Paths),
                    !.found = [f \in Paths |-> IF f \in scope \cap In(disk) THEN disk[f].mtime ELSE None]]]
Discovers(p, how) ==
  \/ Begins(p, how, Paths) /\ UNCHANGED faults
  \/ \E f \in In(disk) : Begins(p, how, Paths \ {f}) /\ Fault(p, "unreadable")
\* sweepWatchedRepos: a repository without a row is left alone.
Sweep(p) == In(files) # {} /\ Discovers(p, FALSE) /\ UNCHANGED <<world, index>>
\* The tool, the CLI or the start of a process.
Call(p) ==
  /\ p \in Callers
  /\ \/ \E how \in BOOLEAN : Discovers(p, how)
     \/ \E scope \in SUBSET Paths : scope # Paths /\ Begins(p, FALSE, scope) /\ Fault(p, "scoped")
  /\ UNCHANGED <<world, index>>

\* createIndexPlan's mtime filter.  Mutant: without the margin.
SkipsNoMargin(row, mtime) == row # None /\ mtime <= row.at
Skips(row, mtime) == row # None /\ mtime + Margin <= row.at
\* The checksums a run may still look at.
Checksums(paths) == [f \in Paths |-> IF f \in paths \cap In(files) THEN files[f].sum ELSE None]
Plan(p) ==
  LET found == run[p].found
      todo == {f \in In(found) : run[p].force \/ ~Skips(files[f], found[f])}
      stale == In(files) \ In(found)
  IN /\ At(p, "walk")
     /\ run' = [run EXCEPT ![p] =
          [@ EXCEPT !.phase = "parse", !.found = Nowhere, !.todo = todo, !.stale = stale,
                    !.known = IF todo = {} THEN Nowhere ELSE Checksums(todo \cup stale)]]
     /\ UNCHANGED <<world, index, faults>>

-----------------------------------------------------------------------------
(* The batches: read and decide, then two write sections *)

\* decideRow: a file only touched, or gone by now.
Unchanged(p, f) == ~run[p].force /\ run[p].known[f] = disk[f].content
Dropped(p, f) == disk[f] = None \/ (disk[f] # None /\ Unchanged(p, f))
\* The stale paths a new file may have been renamed from.
Sources(p, f) ==
  IF run[p].known[f] # None THEN {} ELSE {old \in run[p].stale : run[p].known[old] = disk[f].content}
Read(p) ==
  \E f \in run[p].todo :
    /\ At(p, "parse") /\ Cardinality(In(run[p].batch)) < BatchSize
    /\ LET rest == [run[p] EXCEPT !.todo = @ \ {f},
                                     !.known = IF run[p].todo = {f} THEN Nowhere ELSE [@ EXCEPT ![f] = None]]
           Parse(ok) == [rest EXCEPT !.batch[f] = [content |-> disk[f].content, read |-> now, parsed |-> ok],
                                     !.calm = @ /\ ok]
           To(next) == run' = [run EXCEPT ![p] = next]
       IN \/ Dropped(p, f) /\ To(rest) /\ UNCHANGED faults
          \/ /\ disk[f] # None
             /\ \E old \in Sources(p, f) :
                  To([rest EXCEPT !.renames[f] = [from |-> old, sum |-> disk[f].content, read |-> now], !.stale = @ \ {old}])
             /\ UNCHANGED faults
          \/ /\ disk[f] # None /\ ~Unchanged(p, f) /\ Sources(p, f) = {}
             /\ \/ To(Parse(TRUE)) /\ UNCHANGED faults
                \/ To(Parse(FALSE)) /\ Fault(p, "timeout")
          \/ disk[f] # None /\ To([rest EXCEPT !.calm = FALSE]) /\ Fault(p, "unreadable")
    /\ UNCHANGED <<world, index>>

\* upsertFile, in a section of its own; a failure is counted and the replace goes on.
Upserted(p, done) ==
  [f \in Paths |-> LET new == run[p].batch[f]
                   IN  IF f \in done THEN Stamp(new.content, new.content, new.read) ELSE files[f]]
Upsert(p) ==
  LET batch == In(run[p].batch)
      next == [run[p] EXCEPT !.phase = "replace"]
  IN /\ At(p, "parse") /\ batch # {}
     /\ \/ /\ files' = Upserted(p, batch)
           /\ torn' = (torn \ batch) \cup (batch \cap Open(p))
           /\ Disturb(p, next) /\ UNCHANGED faults
        \/ /\ \E done \in SUBSET batch : files' = Upserted(p, done)
           /\ torn' = torn \cup batch
           /\ Disturb(p, [next EXCEPT !.calm = FALSE]) /\ Fault(p, "upsert")
     /\ UNCHANGED <<world, symbols>>

\* Delete and insert, one transaction; a parse that timed out or crashed has given no symbols.
\* Mutant: the rows are inserted and the old ones kept.
Parsed(p, f) == IF run[p].batch[f].parsed THEN {run[p].batch[f].content} ELSE {}
ReplacedKeeping(p) ==
  [f \in Paths |-> symbols[f] \cup (IF f \in In(run[p].batch) THEN Parsed(p, f) ELSE {})]
Replaced(p) == [f \in Paths |-> IF f \in In(run[p].batch) THEN Parsed(p, f) ELSE symbols[f]]
Replace(p) ==
  LET batch == In(run[p].batch)
      next == [run[p] EXCEPT !.phase = "parse", !.batch = Nowhere]
  IN /\ At(p, "replace")
     /\ \/ /\ symbols' = Replaced(p)
           /\ torn' = torn \cup {f \in batch : ~run[p].batch[f].parsed}
           /\ Disturb(p, next) /\ UNCHANGED faults
        \/ /\ torn' = torn \cup batch /\ UNCHANGED symbols
           /\ Disturb(p, [next EXCEPT !.calm = FALSE]) /\ Fault(p, "replace")
     /\ UNCHANGED <<world, files>>

-----------------------------------------------------------------------------
(* Renames and clean-up, after the last batch *)

From(p, f) == run[p].renames[f].from
\* transferFile and the transfers of what hangs on it, for the pairs in done.
Transferred(p, done) ==
  LET left == {From(p, f) : f \in done}
  IN [f \in Paths |->
        IF f \in done /\ files[From(p, f)] # None
        THEN Stamp(files[From(p, f)].sum, run[p].renames[f].sum, run[p].renames[f].read)
        ELSE IF f \in left THEN None ELSE files[f]]
\* Mutant: the symbols stay at the old path.
NotTransferredSymbols(p, done) == symbols
TransferredSymbols(p, done) ==
  LET left == {From(p, f) : f \in done}
  IN [f \in Paths |-> IF f \in done THEN symbols[f] \cup symbols[From(p, f)]
                      ELSE IF f \in left THEN {} ELSE symbols[f]]
TornBy(p, done) ==
  LET left == {From(p, f) : f \in done}
  IN (torn \ left) \cup {f \in done : {f, From(p, f)} \cap (torn \cup Open(p)) # {}} \cup (left \cap Open(p))
\* The new path has a row another process has given it: the UPDATE throws.
Clashes(p) == {f \in In(run[p].renames) : files[f] # None /\ files[From(p, f)] # None}

\* The parse pipeline is through: without renames (renameMap.size === 0) the clean-up is next.
AllRead(p) == At(p, "parse") /\ run[p].todo = {} /\ In(run[p].batch) = {}
Transfers(p, done) ==
  /\ AllRead(p)
  /\ files' = Transferred(p, done)
  /\ symbols' = TransferredSymbols(p, done)
  /\ torn' = TornBy(p, done)
ApplyRenames(p) ==
  /\ In(run[p].renames) # {} /\ Clashes(p) = {} /\ Transfers(p, In(run[p].renames))
  /\ Disturb(p, [run[p] EXCEPT !.phase = "clean"])
  /\ UNCHANGED <<world, faults>>
\* A failed attempt is made again (retryDbWrite: once, or three times if it looks like a lock;
\* how often is left open), with all the pairs, or ends the run.
Fails(p) == \E next \in {Idle, [run[p] EXCEPT !.calm = FALSE]} : Disturb(p, next)
\* It throws: the pairs before the one that failed are done.
RenameThrows(p) ==
  /\ Clashes(p) # {}
  /\ \E done \in SUBSET (In(run[p].renames) \ Clashes(p)) : Transfers(p, done)
  /\ Fails(p) /\ UNCHANGED <<world, faults>>
\* The statements of a pair are no transaction: a failure, or a crash, leaves it with the row
\* moved and the rest at the old path, until the next attempt if there is one.
RenameBreaks(p) ==
  /\ AllRead(p)
  /\ \E f \in In(run[p].renames) \ Clashes(p) : \E done \in SUBSET (In(run[p].renames) \ (Clashes(p) \cup {f})) :
       /\ files' = Transferred(p, done \cup {f})
       /\ symbols' = TransferredSymbols(p, done)
       /\ torn' = TornBy(p, done) \cup {f, From(p, f)}
  /\ Fails(p) /\ Fault(p, "rename")
  /\ UNCHANGED world

\* cleanStaleFiles: symbols, references, job and row of each path, a transaction for each
\* chunk of paths; a failure leaves the chunks before it done.
Clean(p, done) ==
  /\ files' = [f \in Paths |-> IF f \in done THEN None ELSE files[f]]
  /\ symbols' = [f \in Paths |-> IF f \in done THEN {} ELSE symbols[f]]
  /\ torn' = (torn \ done) \cup (done \cap Open(p))
  /\ IF done = {} THEN Ends(p) ELSE Disturb(p, Idle)
CleanStale(p) ==
  /\ At(p, "clean") \/ (AllRead(p) /\ In(run[p].renames) = {})
  /\ \/ Clean(p, run[p].stale) /\ UNCHANGED faults
     \/ \E done \in SUBSET run[p].stale : Clean(p, done) /\ Fault(p, "clean")
  /\ UNCHANGED world

\* The process dies, or a run throws outside its writes: the finally frees the guard.
Crash(p) ==
  /\ ~At(p, "idle") /\ Fault(p, "crash") /\ Ends(p)
  /\ torn' = torn \cup (IF At(p, "replace") THEN In(run[p].batch) ELSE {})
  /\ UNCHANGED <<world, files, symbols>>

-----------------------------------------------------------------------------
(* The working tree and the clock *)

Changes(next) ==
  /\ edits < MaxEdits /\ edits' = edits + 1
  /\ disk' = next
  /\ run' = [p \in Processes |-> [run[p] EXCEPT !.calm = FALSE]]
  /\ UNCHANGED <<now, index, faults>>
Edit(f) ==
  \E c \in Contents : Changes([disk EXCEPT ![f] = [content |-> c, mtime |-> now, moved |-> FALSE]])
Remove(f) == disk[f] # None /\ Changes([disk EXCEPT ![f] = None])
\* mv keeps the mtime.
Move(f) ==
  \E g \in Paths \ {f} :
    /\ disk[f] # None
    /\ Changes([disk EXCEPT ![f] = None, ![g] = [disk[f] EXCEPT !.moved = disk[f].mtime < now]])

Tick == now < MaxTime /\ now' = now + 1 /\ UNCHANGED <<disk, edits, index, run, faults>>

-----------------------------------------------------------------------------
Next ==
  \/ \E p \in Processes :
       \/ Sweep(p) \/ Call(p) \/ Plan(p) \/ Read(p) \/ Upsert(p) \/ Replace(p)
       \/ ApplyRenames(p) \/ RenameThrows(p) \/ RenameBreaks(p) \/ CleanStale(p) \/ Crash(p)
  \/ \E f \in Paths : Edit(f) \/ Remove(f) \/ Move(f)
  \/ Tick

Spec == Init /\ [][Next]_vars
-----------------------------------------------------------------------------
(* Properties *)

\* The mtime filter never passes over a change: a file it would skip has the content its row
\* has the checksum of, with the exceptions the margin does not cover: the row was stamped a
\* margin after the file was read, or came by a rename from a path that another process had
\* indexed again since it was matched, or the file was moved there with its old mtime.
SkipSound ==
  \A f \in In(disk) :
    Skips(files[f], disk[f].mtime) /\ ~files[f].loose /\ ~disk[f].moved => files[f].sum = disk[f].content

\* Symbols and rows agree, through batches, renames and clean-ups of several processes:
\* a path outside a batch in flight has the symbols of the content its row has the checksum
\* of, and none without a row, unless a write on it failed half-way, its parse timed out or
\* two runs wrote it at once.
Agrees(f) == symbols[f] = IF files[f] = None THEN {} ELSE {files[f].sum}
SymbolsAgree ==
  \A f \in Paths :
    f \notin torn /\ (\A p \in Processes : At(p, "replace") => f \notin In(run[p].batch)) => Agrees(f)

\* A run that had the tree and the index to itself leaves the tree behind: a row with its
\* checksum for each file (but those the filter passed over, as above) and no other, whatever
\* earlier runs, faults and other processes had left.  A forced run passes over nothing, and
\* gives every file the symbols of its content, but for renamed ones, which it does not parse.
Indexed(file, row, forced) ==
  IF file = None THEN row = None
  ELSE row # None /\ (row.sum = file.content \/ (~forced /\ (row.loose \/ file.moved)))
Reparsed(p, f) == run[p].force /\ disk[f] # None /\ run[p].renames[f] = None
LeavesIt(p) ==
  ~At(p, "idle") /\ At(p, "idle")' /\ run[p].calm /\ faults' = faults =>
    \A f \in Paths : /\ Indexed(disk[f], files'[f], run[p].force)
                     /\ Reparsed(p, f) => symbols'[f] = {disk[f].content}
LeavesTree == [][\A p \in Processes : LeavesIt(p)]_vars
=============================================================================
