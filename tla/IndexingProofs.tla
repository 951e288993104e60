---------------------------- MODULE IndexingProofs ----------------------------
(***************************************************************************)
(* Proofs about Indexing, for any processes, paths, bounds and margin.     *)
(*                                                                         *)
(* Three inductive invariants: what is known of a reading taken while      *)
(* files change (StampInv, for SkipSound), of rows and symbols between the *)
(* two sections of a batch (SymbolInv, for SymbolsAgree), and of a run     *)
(* that has been alone since it began (CalmInv, for LeavesTree).  They     *)
(* rest on types and on the paths a run keeps apart (RunInv).              *)
(***************************************************************************)
EXTENDS Indexing, TLAPS

-----------------------------------------------------------------------------
(* The invariants *)

\* A file that is older than a reading of it still has the content that was read, unless it
\* was moved there.
StillRead(f, content, read) ==
  /\ read \in Time /\ read <= now
  /\ disk[f] # None /\ ~disk[f].moved /\ disk[f].mtime < read => disk[f].content = content
Readings(p) ==
  \A f \in Paths :
    /\ run[p].batch[f] # None => StillRead(f, run[p].batch[f].content, run[p].batch[f].read)
    /\ run[p].renames[f] # None => StillRead(f, run[p].renames[f].sum, run[p].renames[f].read)
\* A row does not pass over a change of the file at f.
RowSound(f, row) ==
  row # None =>
    /\ row.at <= now
    /\ disk[f] # None /\ Skips(row, disk[f].mtime) /\ ~row.loose /\ ~disk[f].moved => row.sum = disk[f].content
StampInv == (\A f \in Paths : RowSound(f, files[f])) /\ (\A p \in Processes : Readings(p))

\* What a run has read, what it has to read and what it takes for stale are different paths.
Froms(r) == {r.renames[f].from : f \in In(r.renames)}
Apart(r) ==
  /\ r.todo \cap In(r.batch) = {} /\ r.todo \cap In(r.renames) = {}
  /\ In(r.batch) \cap In(r.renames) = {}
  /\ (r.todo \cup In(r.batch) \cup In(r.renames)) \cap (r.stale \cup Froms(r)) = {}
  /\ r.phase \in {"idle", "walk"} =>
       r.todo = {} /\ r.batch = Nowhere /\ r.renames = Nowhere /\ r.stale = {}
RunInv == \A p \in Processes : Apart(run[p])

\* Until its symbols are replaced, a path in a batch belongs to that run, or is torn.
Replacing(p, f) == At(p, "replace") /\ f \in In(run[p].batch)
Owned(p, f) ==
  /\ files[f] # None /\ files[f].sum = run[p].batch[f].content
  /\ \A q \in Processes \ {p} : ~Replacing(q, f)
Held(f) ==
  /\ \A p \in Processes : Replacing(p, f) => Owned(p, f)
  /\ (\A p \in Processes : ~Replacing(p, f)) => Agrees(f)
SymbolInv == \A f \in Paths \ torn : Held(f)

\* What a run that was alone knows: the tree it has found; after the plan, that every file is
\* to be read, in the batch, to be renamed or settled, and every other row stale.
Settled(r, f) ==
  /\ Indexed(disk[f], files[f], r.force)
  /\ r.force /\ r.renames[f] = None => symbols[f] = {disk[f].content}
Sum(f) == IF files[f] = None THEN None ELSE files[f].sum
Planned(r) ==
  /\ r.todo \cup In(r.batch) \cup In(r.renames) \subseteq In(disk)
  /\ (r.stale \cup Froms(r)) \cap In(disk) = {}
  /\ r.todo # {} => \A f \in r.todo \cup r.stale : r.known[f] = Sum(f)
  /\ \A f \in In(r.batch) :
       /\ r.batch[f].parsed /\ r.batch[f].content = disk[f].content
       /\ r.phase = "replace" => Sum(f) = disk[f].content
  /\ r.phase # "clean" => \A f \in In(r.renames) : files[f] = None /\ Sum(r.renames[f].from) = disk[f].content
  /\ \A f \in In(disk) \ (r.todo \cup In(r.batch)) :
       Settled(r, f) \/ (r.phase # "clean" /\ f \in In(r.renames))
  /\ \A f \in In(files) \ In(disk) : f \in r.stale \/ (r.phase # "clean" /\ f \in Froms(r))
  /\ r.phase = "clean" => r.todo = {} /\ In(r.batch) = {}
Calm(r) ==
  r.calm =>
    /\ r.phase = "walk" => r.found = [f \in Paths |-> IF f \in In(disk) THEN disk[f].mtime ELSE None]
    /\ r.phase \in {"parse", "replace", "clean"} => Planned(r)
CalmInv == \A p \in Processes : Calm(run[p])

-----------------------------------------------------------------------------
(* Types, and what a step of p does to the runs *)

Disturbed(r) == [r EXCEPT !.calm = FALSE]
\* The others' runs are at most disturbed.
GoesOn(p) ==
  /\ run' \in [Processes -> Run]
  /\ \A q \in Processes \ {p} : run'[q] \in {run[q], Disturbed(run[q])}
DisturbsAll(p) == \A q \in Processes \ {p} : run'[q] = Disturbed(run[q])

LEMMA IdleRun == Idle \in Run
BY DEF Idle, Run, Nowhere

LEMMA OwnStep ==
  ASSUME TypeOK, NEW p \in Processes, NEW mine \in Run, run' = [run EXCEPT ![p] = mine]
  PROVE  GoesOn(p) /\ run'[p] = mine
BY DEF TypeOK, GoesOn

LEMMA DisturbStep ==
  ASSUME TypeOK, NEW p \in Processes, NEW mine \in Run, Disturb(p, mine)
  PROVE  GoesOn(p) /\ run'[p] = mine /\ DisturbsAll(p)
<1>1. \A r \in Run : Disturbed(r) \in Run BY DEF Disturbed, Run
<1> QED BY <1>1 DEF TypeOK, GoesOn, Disturb, DisturbsAll, Disturbed

\* The fields of a run that matters to the index are the same when it is disturbed.
LEMMA Bystander ==
  ASSUME NEW r \in Run, NEW s \in {r, Disturbed(r)}
  PROVE  /\ s \in Run /\ s.phase = r.phase /\ s.batch = r.batch /\ s.renames = r.renames
         /\ s.todo = r.todo /\ s.stale = r.stale
         /\ s.calm => s = r
BY DEF Run, Disturbed

LEMMA RowTypes ==
  ASSUME TypeOK
  PROVE  /\ \A f \in Paths : disk[f] = None \/ (/\ disk[f] \in File /\ disk[f].content \in Contents
                                               /\ disk[f].mtime \in Time /\ disk[f].moved \in BOOLEAN)
         /\ \A f \in Paths : files[f] = None \/ (/\ files[f] \in FileRow /\ files[f].sum \in Contents
                                                /\ files[f].at \in Time /\ files[f].loose \in BOOLEAN)
         /\ \A p \in Processes, f \in Paths :
              /\ run[p] \in Run
              /\ run[p].batch[f] = None \/ (/\ run[p].batch[f] \in Reading /\ run[p].batch[f].content \in Contents
                                           /\ run[p].batch[f].read \in Time /\ run[p].batch[f].parsed \in BOOLEAN)
              /\ run[p].renames[f] = None \/ (/\ run[p].renames[f] \in Rename /\ run[p].renames[f].from \in Paths
                                             /\ run[p].renames[f].sum \in Contents /\ run[p].renames[f].read \in Time)
         /\ now \in Time /\ Time \subseteq Nat
<1>1. \A r \in Run : /\ r.batch \in [Paths -> Reading \cup {None}]
                     /\ r.renames \in [Paths -> Rename \cup {None}]
  BY DEF Run
<1>2. now \in Time /\ Time \subseteq Nat BY IndexAssumption DEF TypeOK, Time
<1>3. \A f \in Paths : (disk[f] = None \/ disk[f] \in File) /\ (files[f] = None \/ files[f] \in FileRow)
  BY DEF TypeOK
<1>4. \A p \in Processes : run[p] \in Run BY DEF TypeOK
<1>5. \A p \in Processes, f \in Paths :
        /\ run[p].batch[f] = None \/ run[p].batch[f] \in Reading
        /\ run[p].renames[f] = None \/ run[p].renames[f] \in Rename
  BY <1>1, <1>4
<1>6. /\ \A x \in File : x.content \in Contents /\ x.mtime \in Time /\ x.moved \in BOOLEAN
      /\ \A x \in FileRow : x.sum \in Contents /\ x.at \in Time /\ x.loose \in BOOLEAN
      /\ \A x \in Reading : x.content \in Contents /\ x.read \in Time /\ x.parsed \in BOOLEAN
      /\ \A x \in Rename : x.from \in Paths /\ x.sum \in Contents /\ x.read \in Time
  BY DEF File, FileRow, Reading, Rename
<1> QED BY <1>2, <1>3, <1>4, <1>5, <1>6

LEMMA StampType ==
  ASSUME TypeOK, NEW sum \in Contents, NEW content, NEW read
  PROVE  /\ Stamp(sum, content, read) \in FileRow /\ Stamp(sum, content, read) # None
         /\ Stamp(sum, content, read).sum = sum
<1> DEFINE loose == sum # content \/ now - read >= Margin
<1>1. loose \in BOOLEAN OBVIOUS
<1> HIDE DEF loose
<1>2. [sum |-> sum, at |-> now, loose |-> loose] \in FileRow BY <1>1, RowTypes DEF FileRow
<1> QED BY <1>2, NoneAssumption DEF Stamp, loose

LEMMA InitTypes == Init => TypeOK
<1> SUFFICES ASSUME Init PROVE TypeOK OBVIOUS
<1>1. 0 \in Time BY IndexAssumption DEF Time
<1> QED BY <1>1, IdleRun, IndexAssumption DEF Init, TypeOK, Nowhere

\* A run begins: nothing is known but what was found.
LEMMA BeginShape ==
  ASSUME TypeOK, NEW p \in Processes, NEW how \in BOOLEAN, NEW scope \in SUBSET Paths, Begins(p, how, scope)
  PROVE  /\ GoesOn(p) /\ At(p, "idle")
         /\ run'[p].phase = "walk" /\ run'[p].todo = {} /\ run'[p].stale = {}
         /\ run'[p].batch = Nowhere /\ run'[p].renames = Nowhere
         /\ run'[p].calm => /\ scope = Paths
                           /\ run'[p].found = [f \in Paths |-> IF f \in In(disk) THEN disk[f].mtime ELSE None]
<1> DEFINE found == [f \in Paths |-> IF f \in scope \cap In(disk) THEN disk[f].mtime ELSE None]
           mine == [Idle EXCEPT !.phase = "walk", !.force = how, !.calm = (scope = Paths), !.found = found]
<1>1. found \in [Paths -> Time \cup {None}] BY RowTypes DEF In
<1>2. run' = [run EXCEPT ![p] = mine] BY DEF Begins
<1> HIDE DEF found
<1>3. /\ mine \in Run /\ mine.phase = "walk" /\ mine.todo = {} /\ mine.stale = {}
      /\ mine.batch = Nowhere /\ mine.renames = Nowhere /\ mine.calm = (scope = Paths) /\ mine.found = found
  BY <1>1, IdleRun DEF Run, Idle
<1> HIDE DEF mine
<1>4. GoesOn(p) /\ run'[p] = mine BY <1>2, <1>3, OwnStep
<1>5. scope = Paths => found = [f \in Paths |-> IF f \in In(disk) THEN disk[f].mtime ELSE None] BY DEF found, In
<1> QED BY <1>3, <1>4, <1>5 DEF Begins

\* Sweep and Call begin a run and touch nothing else.
LEMMA StartShape ==
  ASSUME NEW p \in Processes, Sweep(p) \/ Call(p)
  PROVE  /\ \E how \in BOOLEAN, scope \in SUBSET Paths : Begins(p, how, scope)
         /\ UNCHANGED <<world, index>>
         /\ faults' \in {faults, faults + 1} /\ (faults' # faults => faults < MaxFaults)
BY DEF Sweep, Call, Discovers, Fault

LEMMA PlanShape ==
  ASSUME TypeOK, NEW p \in Processes, Plan(p)
  PROVE  /\ GoesOn(p) /\ At(p, "walk") /\ UNCHANGED <<world, index, faults>>
         /\ run'[p].phase = "parse" /\ run'[p].force = run[p].force /\ run'[p].calm = run[p].calm
         /\ run'[p].batch = run[p].batch /\ run'[p].renames = run[p].renames
         /\ run'[p].todo = {f \in In(run[p].found) : run[p].force \/ ~Skips(files[f], run[p].found[f])}
         /\ run'[p].stale = In(files) \ In(run[p].found)
         /\ run'[p].todo # {} => run'[p].known = Checksums(run'[p].todo \cup run'[p].stale)
<1> DEFINE todo == {f \in In(run[p].found) : run[p].force \/ ~Skips(files[f], run[p].found[f])}
           stale == In(files) \ In(run[p].found)
           known == IF todo = {} THEN Nowhere ELSE Checksums(todo \cup stale)
           mine == [run[p] EXCEPT !.phase = "parse", !.found = Nowhere, !.todo = todo, !.stale = stale, !.known = known]
<1>1. todo \in SUBSET Paths /\ stale \in SUBSET Paths BY DEF In
<1>2. known \in [Paths -> Contents \cup {None}] BY RowTypes DEF Checksums, In, Nowhere
<1>3. run' = [run EXCEPT ![p] = mine] BY DEF Plan, TypeOK
<1>4. run[p] \in Run /\ Nowhere \in [Paths -> Time \cup {None}] BY DEF TypeOK, Nowhere
<1>5. todo # {} => known = Checksums(todo \cup stale) OBVIOUS
<1> HIDE DEF todo, stale, known
<1>6. /\ mine \in Run /\ mine.phase = "parse" /\ mine.force = run[p].force /\ mine.calm = run[p].calm
      /\ mine.batch = run[p].batch /\ mine.renames = run[p].renames /\ mine.todo = todo /\ mine.stale = stale
      /\ mine.known = known
  BY <1>1, <1>2, <1>4 DEF Run
<1> HIDE DEF mine
<1>7. GoesOn(p) /\ run'[p] = mine BY <1>3, <1>6, OwnStep
<1> QED BY <1>5, <1>6, <1>7 DEF Plan, todo, stale

\* What becomes of a path that is read: nothing, a rename, an entry of the batch, or a failed
\* read, after which the run is no longer taken for calm.
Passed(p, f) ==
  Dropped(p, f) /\ run'[p].batch = run[p].batch /\ run'[p].renames = run[p].renames
  /\ run'[p].stale = run[p].stale
Matched(p, f) ==
  \E old \in Sources(p, f) :
    /\ disk[f] # None
    /\ run'[p].renames = [run[p].renames EXCEPT ![f] = [from |-> old, sum |-> disk[f].content, read |-> now]]
    /\ run'[p].stale = run[p].stale \ {old} /\ run'[p].batch = run[p].batch
Batched(p, f) ==
  \E ok \in BOOLEAN :
    /\ disk[f] # None /\ ~Unchanged(p, f) /\ Sources(p, f) = {}
    /\ run'[p].batch = [run[p].batch EXCEPT ![f] = [content |-> disk[f].content, read |-> now, parsed |-> ok]]
    /\ run'[p].renames = run[p].renames /\ run'[p].stale = run[p].stale
    /\ run'[p].calm => ok
Unread(p) ==
  /\ run'[p].batch = run[p].batch /\ run'[p].renames = run[p].renames /\ run'[p].stale = run[p].stale
  /\ ~run'[p].calm

LEMMA ReadShape ==
  ASSUME TypeOK, NEW p \in Processes, Read(p)
  PROVE  /\ GoesOn(p) /\ At(p, "parse") /\ UNCHANGED <<world, index>>
         /\ faults' \in {faults, faults + 1} /\ (faults' # faults => faults < MaxFaults)
         /\ run'[p].phase = "parse" /\ run'[p].force = run[p].force
         /\ run'[p].calm => run[p].calm
         /\ \E f \in run[p].todo :
              /\ run'[p].todo = run[p].todo \ {f}
              /\ run'[p].todo # {} => run'[p].known = [run[p].known EXCEPT ![f] = None]
              /\ Passed(p, f) \/ Matched(p, f) \/ Batched(p, f) \/ Unread(p)
<1>1. PICK f \in run[p].todo :
        LET rest == [run[p] EXCEPT !.todo = @ \ {f},
                                     !.known = IF run[p].todo = {f} THEN Nowhere ELSE [@ EXCEPT ![f] = None]]
            Parse(ok) == [rest EXCEPT !.batch[f] = [content |-> disk[f].content, read |-> now, parsed |-> ok],
                                     !.calm = @ /\ ok]
            To(next) == run' = [run EXCEPT ![p] = next]
        IN \/ Dropped(p, f) /\ To(rest) /\ UNCHANGED faults
           \/ /\ disk[f] # None
              /\ \E old \in Sources(p, f) :
                   To([rest EXCEPT !.renames[f] = [from |-> old, sum |-> disk[f].content, read |-> now], !.stale = @ \ {old}])
              /\ UNCHANGED faults
           \/ /\ disk[f] # None /\ ~Unchanged(p, f) /\ Sources(p, f) = {}
              /\ \/ To(Parse(TRUE)) /\ UNCHANGED faults
                 \/ To(Parse(FALSE)) /\ Fault(p, "timeout")
           \/ disk[f] # None /\ To([rest EXCEPT !.calm = FALSE]) /\ Fault(p, "unreadable")
  BY DEF Read
<1> DEFINE known == IF run[p].todo = {f} THEN Nowhere ELSE [run[p].known EXCEPT ![f] = None]
           rest == [run[p] EXCEPT !.todo = @ \ {f}, !.known = known]
           To(next) == run' = [run EXCEPT ![p] = next]
<1>2. At(p, "parse") /\ UNCHANGED <<world, index>> BY DEF Read
<1>3. run[p] \in Run /\ f \in Paths BY DEF TypeOK, Run
<1>4. known \in [Paths -> Contents \cup {None}] BY <1>3 DEF Run, Nowhere
<1>5. run[p].todo \ {f} # {} => known = [run[p].known EXCEPT ![f] = None] BY <1>1
<1> HIDE DEF known
<1>6. /\ rest \in Run /\ rest.phase = run[p].phase /\ rest.force = run[p].force /\ rest.calm = run[p].calm
      /\ rest.todo = run[p].todo \ {f} /\ rest.known = known
      /\ rest.batch = run[p].batch /\ rest.renames = run[p].renames /\ rest.stale = run[p].stale
  BY <1>3, <1>4 DEF Run
<1> DEFINE goal(next) == /\ next \in Run /\ next.phase = run[p].phase /\ next.force = run[p].force
                         /\ next.calm => run[p].calm
                         /\ next.todo = run[p].todo \ {f} /\ next.known = known
<1>7. /\ faults' \in {faults, faults + 1} /\ (faults' # faults => faults < MaxFaults)
      /\ \E next : goal(next) /\ To(next) /\ (run'[p] = next => Passed(p, f) \/ Matched(p, f) \/ Batched(p, f) \/ Unread(p))
  <2> USE DEF goal
  <2> HIDE DEF rest
  <2>1. CASE Dropped(p, f) /\ To(rest) /\ UNCHANGED faults
    <3>1. goal(rest) BY <1>6
    <3>2. run'[p] = rest => Passed(p, f) BY <1>6, <2>1 DEF Passed
    <3> HIDE DEF goal
    <3> QED BY <2>1, <3>1, <3>2
  <2>2. ASSUME NEW old \in Sources(p, f), disk[f] # None, UNCHANGED faults,
               To([rest EXCEPT !.renames[f] = [from |-> old, sum |-> disk[f].content, read |-> now], !.stale = @ \ {old}])
        PROVE  \E next : goal(next) /\ To(next) /\ (run'[p] = next => Matched(p, f))
    <3> DEFINE pair == [from |-> old, sum |-> disk[f].content, read |-> now]
               next == [rest EXCEPT !.renames[f] = pair, !.stale = @ \ {old}]
    <3>1. pair \in Rename
      <4>1. old \in Paths BY <1>3 DEF Sources, Run
      <4> QED BY <1>3, <2>2, <4>1, RowTypes DEF Rename
    <3> HIDE DEF pair
    <3>2. goal(next) /\ next.renames = [rest.renames EXCEPT ![f] = pair] /\ next.stale = rest.stale \ {old}
          /\ next.batch = rest.batch
      BY <1>3, <1>6, <3>1 DEF Run
    <3>3. To(next) BY <2>2 DEF pair
    <3> HIDE DEF next
    <3>4. run'[p] = next => Matched(p, f) BY <1>6, <2>2, <3>2 DEF Matched, pair
    <3> HIDE DEF goal
    <3> QED BY <3>2, <3>3, <3>4
  <2>3. ASSUME NEW ok \in BOOLEAN, disk[f] # None, ~Unchanged(p, f), Sources(p, f) = {},
               To([rest EXCEPT !.batch[f] = [content |-> disk[f].content, read |-> now, parsed |-> ok], !.calm = @ /\ ok])
        PROVE  \E next : goal(next) /\ To(next) /\ (run'[p] = next => Batched(p, f))
    <3> DEFINE entry == [content |-> disk[f].content, read |-> now, parsed |-> ok]
               next == [rest EXCEPT !.batch[f] = entry, !.calm = @ /\ ok]
    <3>1. entry \in Reading BY <1>3, <2>3, RowTypes DEF Reading
    <3> HIDE DEF entry
    <3>2. goal(next) /\ next.batch = [rest.batch EXCEPT ![f] = entry] /\ next.stale = rest.stale
          /\ next.renames = rest.renames /\ (next.calm => ok)
      BY <1>3, <1>6, <3>1 DEF Run
    <3>3. To(next) BY <2>3 DEF entry
    <3> HIDE DEF next
    <3>4. run'[p] = next => Batched(p, f) BY <1>6, <2>3, <3>2 DEF Batched, entry
    <3> HIDE DEF goal
    <3> QED BY <3>2, <3>3, <3>4
  <2>4. CASE disk[f] # None /\ To([rest EXCEPT !.calm = FALSE]) /\ Fault(p, "unreadable")
    <3> DEFINE next == [rest EXCEPT !.calm = FALSE]
    <3>1. goal(next) /\ next.stale = rest.stale /\ next.renames = rest.renames /\ next.batch = rest.batch /\ ~next.calm
      BY <1>6 DEF Run
    <3>2. To(next) BY <2>4
    <3> HIDE DEF next
    <3>3. run'[p] = next => Unread(p) BY <1>6, <3>1 DEF Unread
    <3> HIDE DEF goal
    <3> QED BY <2>4, <3>1, <3>2, <3>3 DEF Fault
  <2>5. \/ Dropped(p, f) /\ To(rest) /\ UNCHANGED faults
        \/ /\ disk[f] # None
           /\ \E old \in Sources(p, f) :
                To([rest EXCEPT !.renames[f] = [from |-> old, sum |-> disk[f].content, read |-> now], !.stale = @ \ {old}])
           /\ UNCHANGED faults
        \/ /\ disk[f] # None /\ ~Unchanged(p, f) /\ Sources(p, f) = {}
           /\ \E ok \in BOOLEAN :
                /\ To([rest EXCEPT !.batch[f] = [content |-> disk[f].content, read |-> now, parsed |-> ok], !.calm = @ /\ ok])
                /\ UNCHANGED faults \/ Fault(p, "timeout")
        \/ disk[f] # None /\ To([rest EXCEPT !.calm = FALSE]) /\ Fault(p, "unreadable")
    BY <1>1 DEF rest, known
  <2> HIDE DEF goal, To
  <2>6. UNCHANGED faults \/ Fault(p, "timeout") \/ Fault(p, "unreadable") BY <2>5
  <2>7. faults' \in {faults, faults + 1} /\ (faults' # faults => faults < MaxFaults) BY <2>6 DEF Fault
  <2>8. \E next : goal(next) /\ To(next) /\ (run'[p] = next => Passed(p, f) \/ Matched(p, f) \/ Batched(p, f) \/ Unread(p))
    BY <2>1, <2>2, <2>3, <2>4, <2>5
  <2> QED BY <2>7, <2>8
<1>8. PICK next : goal(next) /\ To(next) /\ (run'[p] = next => Passed(p, f) \/ Matched(p, f) \/ Batched(p, f) \/ Unread(p))
  BY <1>7
<1>9. GoesOn(p) /\ run'[p] = next BY <1>8, OwnStep
<1> HIDE DEF To
<1> QED BY <1>2, <1>5, <1>7, <1>8, <1>9 DEF At

LEMMA UpsertShape ==
  ASSUME TypeOK, NEW p \in Processes, Upsert(p)
  PROVE  /\ GoesOn(p) /\ DisturbsAll(p) /\ At(p, "parse") /\ UNCHANGED <<world, symbols>>
         /\ faults' \in {faults, faults + 1} /\ (faults' # faults => faults < MaxFaults)
         /\ run'[p].phase = "replace" /\ run'[p].force = run[p].force /\ run'[p].batch = run[p].batch
         /\ run'[p].renames = run[p].renames /\ run'[p].todo = run[p].todo /\ run'[p].stale = run[p].stale
         /\ run'[p].known = run[p].known /\ (run'[p].calm => run[p].calm)
         /\ \E done \in SUBSET In(run[p].batch) :
              /\ files' = Upserted(p, done)
              /\ \/ /\ done = In(run[p].batch)
                    /\ torn' = (torn \ In(run[p].batch)) \cup (In(run[p].batch) \cap Open(p))
                 \/ torn' = torn \cup In(run[p].batch) /\ ~run'[p].calm
<1> DEFINE batch == In(run[p].batch)
           next == [run[p] EXCEPT !.phase = "replace"]
<1>1. run[p] \in Run BY DEF TypeOK
<1>2. ASSUME NEW mine \in {next, [next EXCEPT !.calm = FALSE]}, Disturb(p, mine)
      PROVE  /\ GoesOn(p) /\ DisturbsAll(p)
             /\ run'[p].phase = "replace" /\ run'[p].force = run[p].force /\ run'[p].batch = run[p].batch
             /\ run'[p].renames = run[p].renames /\ run'[p].todo = run[p].todo /\ run'[p].stale = run[p].stale
             /\ run'[p].known = run[p].known /\ (run'[p].calm => run[p].calm)
             /\ mine = [next EXCEPT !.calm = FALSE] => ~run'[p].calm
  <2>1. /\ mine \in Run
        /\ mine.phase = "replace" /\ mine.force = run[p].force /\ mine.batch = run[p].batch
        /\ mine.renames = run[p].renames /\ mine.todo = run[p].todo /\ mine.stale = run[p].stale
        /\ mine.known = run[p].known /\ (mine.calm => run[p].calm)
        /\ mine = [next EXCEPT !.calm = FALSE] => ~mine.calm
    BY <1>1 DEF Run
  <2>2. GoesOn(p) /\ run'[p] = mine /\ DisturbsAll(p) BY <1>2, <2>1, DisturbStep
  <2> HIDE DEF next
  <2> QED BY <2>1, <2>2
<1>3. At(p, "parse") /\ UNCHANGED <<world, symbols>> BY DEF Upsert
<1>4. CASE /\ files' = Upserted(p, batch) /\ torn' = (torn \ batch) \cup (batch \cap Open(p))
           /\ Disturb(p, next) /\ UNCHANGED faults
  BY <1>2, <1>3, <1>4
<1>5. CASE /\ \E done \in SUBSET batch : files' = Upserted(p, done)
           /\ torn' = torn \cup batch /\ Disturb(p, [next EXCEPT !.calm = FALSE]) /\ Fault(p, "upsert")
  <2>1. faults' = faults + 1 /\ faults < MaxFaults BY <1>5 DEF Fault
  <2> QED BY <1>2, <1>3, <1>5, <2>1
<1>6. \/ /\ files' = Upserted(p, batch) /\ torn' = (torn \ batch) \cup (batch \cap Open(p))
         /\ Disturb(p, next) /\ UNCHANGED faults
      \/ /\ \E done \in SUBSET batch : files' = Upserted(p, done)
         /\ torn' = torn \cup batch /\ Disturb(p, [next EXCEPT !.calm = FALSE]) /\ Fault(p, "upsert")
  BY DEF Upsert
<1> QED BY <1>4, <1>5, <1>6

LEMMA ReplaceShape ==
  ASSUME TypeOK, NEW p \in Processes, Replace(p)
  PROVE  /\ GoesOn(p) /\ DisturbsAll(p) /\ At(p, "replace") /\ UNCHANGED <<world, files>>
         /\ faults' \in {faults, faults + 1} /\ (faults' # faults => faults < MaxFaults)
         /\ run'[p].phase = "parse" /\ run'[p].force = run[p].force /\ run'[p].batch = Nowhere
         /\ run'[p].renames = run[p].renames /\ run'[p].todo = run[p].todo /\ run'[p].stale = run[p].stale
         /\ run'[p].known = run[p].known /\ (run'[p].calm => run[p].calm)
         /\ \/ /\ symbols' = Replaced(p)
               /\ torn' = torn \cup {f \in In(run[p].batch) : ~run[p].batch[f].parsed}
            \/ torn' = torn \cup In(run[p].batch) /\ UNCHANGED symbols /\ ~run'[p].calm
<1> DEFINE batch == In(run[p].batch)
           next == [run[p] EXCEPT !.phase = "parse", !.batch = Nowhere]
<1>1. run[p] \in Run /\ Nowhere \in [Paths -> Reading \cup {None}] BY DEF TypeOK, Nowhere
<1>2. ASSUME NEW mine \in {next, [next EXCEPT !.calm = FALSE]}, Disturb(p, mine)
      PROVE  /\ GoesOn(p) /\ DisturbsAll(p)
             /\ run'[p].phase = "parse" /\ run'[p].force = run[p].force /\ run'[p].batch = Nowhere
             /\ run'[p].renames = run[p].renames /\ run'[p].todo = run[p].todo /\ run'[p].stale = run[p].stale
             /\ run'[p].known = run[p].known /\ (run'[p].calm => run[p].calm)
             /\ mine = [next EXCEPT !.calm = FALSE] => ~run'[p].calm
  <2>1. /\ mine \in Run
        /\ mine.phase = "parse" /\ mine.force = run[p].force /\ mine.batch = Nowhere
        /\ mine.renames = run[p].renames /\ mine.todo = run[p].todo /\ mine.stale = run[p].stale
        /\ mine.known = run[p].known /\ (mine.calm => run[p].calm)
        /\ mine = [next EXCEPT !.calm = FALSE] => ~mine.calm
    BY <1>1 DEF Run
  <2>2. GoesOn(p) /\ run'[p] = mine /\ DisturbsAll(p) BY <1>2, <2>1, DisturbStep
  <2> HIDE DEF next
  <2> QED BY <2>1, <2>2
<1>3. At(p, "replace") /\ UNCHANGED <<world, files>> BY DEF Replace
<1>4. CASE /\ symbols' = Replaced(p) /\ torn' = torn \cup {f \in batch : ~run[p].batch[f].parsed}
           /\ Disturb(p, next) /\ UNCHANGED faults
  BY <1>2, <1>3, <1>4
<1>5. CASE /\ torn' = torn \cup batch /\ UNCHANGED symbols
           /\ Disturb(p, [next EXCEPT !.calm = FALSE]) /\ Fault(p, "replace")
  <2>1. faults' = faults + 1 /\ faults < MaxFaults BY <1>5 DEF Fault
  <2> QED BY <1>2, <1>3, <1>5, <2>1
<1>6. \/ /\ symbols' = Replaced(p) /\ torn' = torn \cup {f \in batch : ~run[p].batch[f].parsed}
         /\ Disturb(p, next) /\ UNCHANGED faults
      \/ /\ torn' = torn \cup batch /\ UNCHANGED symbols
         /\ Disturb(p, [next EXCEPT !.calm = FALSE]) /\ Fault(p, "replace")
  BY DEF Replace
<1> QED BY <1>4, <1>5, <1>6

\* The pairs in done are transferred, those in broken only half; then the run goes on to its
\* clean-up, all pairs being done, or has failed: it is over or tries once more.
GoesToClean(p, done, broken) ==
  done = In(run[p].renames) /\ broken = {} /\ run'[p] = [run[p] EXCEPT !.phase = "clean"]
HasFailed(p) == run'[p] = Idle \/ run'[p] = Disturbed(run[p])

LEMMA FailStep ==
  ASSUME TypeOK, NEW p \in Processes, Fails(p)
  PROVE  GoesOn(p) /\ HasFailed(p) /\ DisturbsAll(p)
<1>0. run[p] \in Run BY DEF TypeOK
<1>1. Disturbed(run[p]) \in Run BY <1>0, Bystander
<1>2. PICK next \in {Idle, Disturbed(run[p])} : Disturb(p, next) BY DEF Fails, Disturbed
<1>3. next \in Run BY <1>1, IdleRun
<1> QED BY <1>2, <1>3, DisturbStep DEF HasFailed

LEMMA RenameShape ==
  ASSUME TypeOK, NEW p \in Processes, ApplyRenames(p) \/ RenameThrows(p) \/ RenameBreaks(p)
  PROVE  /\ GoesOn(p) /\ At(p, "parse") /\ UNCHANGED world
         /\ DisturbsAll(p) \/ UNCHANGED <<files, symbols>>
         /\ faults' \in {faults, faults + 1} /\ (faults' # faults => faults < MaxFaults)
         /\ run[p].todo = {} /\ In(run[p].batch) = {}
         /\ \E done, broken \in SUBSET In(run[p].renames) :
              /\ done \cap broken = {}
              /\ \A f \in done \cup broken : files[f] = None \/ files[From(p, f)] = None
              /\ files' = Transferred(p, done \cup broken) /\ symbols' = TransferredSymbols(p, done)
              /\ torn' = TornBy(p, done) \cup broken \cup {From(p, f) : f \in broken}
              /\ HasFailed(p) \/ GoesToClean(p, done, broken)
<1> DEFINE pairs == In(run[p].renames)
           next == [run[p] EXCEPT !.phase = "clean"]
<1>1. run[p] \in Run /\ next \in Run
  <2>1. run[p] \in Run BY DEF TypeOK
  <2> QED BY <2>1 DEF Run
<1>2. \A f \in pairs : f \notin Clashes(p) => files[f] = None \/ files[From(p, f)] = None BY DEF Clashes
<1>3. /\ At(p, "parse") /\ run[p].todo = {} /\ In(run[p].batch) = {} /\ UNCHANGED world
  BY DEF ApplyRenames, RenameThrows, RenameBreaks, Transfers, AllRead
<1>4. CASE ApplyRenames(p)
  <2>1. /\ files' = Transferred(p, pairs) /\ symbols' = TransferredSymbols(p, pairs) /\ torn' = TornBy(p, pairs)
        /\ faults' = faults /\ Disturb(p, next)
    BY <1>4 DEF ApplyRenames, Transfers
  <2>2. \A f \in pairs : files[f] = None \/ files[From(p, f)] = None BY <1>2, <1>4 DEF ApplyRenames
  <2>3. GoesOn(p) /\ run'[p] = next /\ DisturbsAll(p) BY <1>1, <2>1, DisturbStep
  <2> HIDE DEF next
  <2> QED BY <1>3, <2>1, <2>2, <2>3 DEF next, GoesToClean
<1>5. CASE RenameThrows(p)
  <2>1. GoesOn(p) /\ HasFailed(p) /\ DisturbsAll(p) BY <1>5, FailStep DEF RenameThrows
  <2>2. faults' = faults BY <1>5 DEF RenameThrows
  <2>3. PICK done \in SUBSET (pairs \ Clashes(p)) : Transfers(p, done) BY <1>5 DEF RenameThrows
  <2> QED BY <1>2, <1>3, <2>1, <2>2, <2>3 DEF Transfers
<1>6. CASE RenameBreaks(p)
  <2>1. GoesOn(p) /\ HasFailed(p) /\ DisturbsAll(p) BY <1>6, FailStep DEF RenameBreaks
  <2>2. faults' = faults + 1 /\ faults < MaxFaults BY <1>6 DEF RenameBreaks, Fault
  <2>3. PICK f \in pairs \ Clashes(p) : \E done \in SUBSET (pairs \ (Clashes(p) \cup {f})) :
          /\ files' = Transferred(p, done \cup {f})
          /\ symbols' = TransferredSymbols(p, done)
          /\ torn' = TornBy(p, done) \cup {f, From(p, f)}
    BY <1>6 DEF RenameBreaks
  <2>4. PICK done \in SUBSET (pairs \ (Clashes(p) \cup {f})) :
          /\ files' = Transferred(p, done \cup {f})
          /\ symbols' = TransferredSymbols(p, done)
          /\ torn' = TornBy(p, done) \cup {f, From(p, f)}
    BY <2>3
  <2> DEFINE broken == {f}
  <2>5. done \in SUBSET pairs /\ broken \in SUBSET pairs /\ done \cap broken = {}
        /\ \A g \in done \cup broken : files[g] = None \/ files[From(p, g)] = None
    BY <1>2, <2>4
  <2>6. TornBy(p, done) \cup {f, From(p, f)} = TornBy(p, done) \cup broken \cup {From(p, g) : g \in broken}
    OBVIOUS
  <2>7. files' = Transferred(p, done \cup broken) BY <2>4
  <2> HIDE DEF broken
  <2> QED BY <1>3, <2>1, <2>2, <2>4, <2>5, <2>6, <2>7
<1> QED BY <1>4, <1>5, <1>6

LEMMA CleanShape ==
  ASSUME TypeOK, NEW p \in Processes, CleanStale(p)
  PROVE  /\ At(p, "clean") \/ (AllRead(p) /\ In(run[p].renames) = {})
         /\ GoesOn(p) /\ run'[p] = Idle /\ UNCHANGED world
         /\ DisturbsAll(p) \/ UNCHANGED <<files, symbols>>
         /\ faults' \in {faults, faults + 1} /\ (faults' # faults => faults < MaxFaults)
         /\ \E done \in SUBSET run[p].stale :
              /\ files' = [f \in Paths |-> IF f \in done THEN None ELSE files[f]]
              /\ symbols' = [f \in Paths |-> IF f \in done THEN {} ELSE symbols[f]]
              /\ torn' = (torn \ done) \cup (done \cap Open(p))
              /\ faults' = faults => done = run[p].stale
<1>1. PICK done \in SUBSET run[p].stale :
        Clean(p, done) /\ ((done = run[p].stale /\ UNCHANGED faults) \/ Fault(p, "clean"))
  BY DEF CleanStale
<1>2. faults \in Nat BY IndexAssumption DEF TypeOK
<1>3. /\ faults' \in {faults, faults + 1} /\ (faults' # faults => faults < MaxFaults)
      /\ faults' = faults => done = run[p].stale
  BY <1>1, <1>2 DEF Fault
<1>4. GoesOn(p) /\ run'[p] = Idle /\ (done = {} \/ DisturbsAll(p))
  <2>1. CASE done = {} BY <1>1, <2>1, IdleRun, OwnStep DEF Clean, Ends
  <2>2. CASE done # {} BY <1>1, <2>2, IdleRun, DisturbStep DEF Clean
  <2> QED BY <2>1, <2>2
<1>5. done = {} => UNCHANGED <<files, symbols>>
  <2>1. done = {} => files' = [f \in Paths |-> files[f]] /\ symbols' = [f \in Paths |-> symbols[f]]
    BY <1>1 DEF Clean
  <2> QED BY <2>1 DEF TypeOK
<1> QED BY <1>1, <1>3, <1>4, <1>5 DEF CleanStale, Clean

LEMMA CrashShape ==
  ASSUME TypeOK, NEW p \in Processes, Crash(p)
  PROVE  /\ GoesOn(p) /\ run'[p] = Idle /\ UNCHANGED <<world, files, symbols>>
         /\ faults' = faults + 1 /\ faults < MaxFaults
         /\ torn' = torn \cup (IF At(p, "replace") THEN In(run[p].batch) ELSE {})
BY IdleRun, OwnStep DEF Crash, Ends, Fault

\* Files change, and every run is disturbed.
LEMMA ChangeShape ==
  ASSUME TypeOK, NEW next, Changes(next)
  PROVE  /\ run' \in [Processes -> Run] /\ \A q \in Processes : run'[q] = Disturbed(run[q])
         /\ disk' = next /\ edits' \in 0..MaxEdits /\ UNCHANGED <<now, index, faults>>
<1>1. \A r \in Run : Disturbed(r) \in Run BY DEF Disturbed, Run
<1>2. run' \in [Processes -> Run] /\ \A q \in Processes : run'[q] = Disturbed(run[q])
  BY <1>1 DEF Changes, TypeOK, Disturbed
<1> QED BY <1>2, IndexAssumption DEF Changes, TypeOK

-----------------------------------------------------------------------------
(* Types *)

LEMMA StepTypes ==
  ASSUME TypeOK, [Next]_vars
  PROVE  TypeOK'
<1>1. /\ faults \in 0..MaxFaults /\ faults \in Nat /\ edits \in 0..MaxEdits
      /\ disk \in [Paths -> File \cup {None}] /\ files \in [Paths -> FileRow \cup {None}]
      /\ symbols \in [Paths -> SUBSET Contents] /\ torn \subseteq Paths /\ run \in [Processes -> Run]
  BY IndexAssumption DEF TypeOK
<1>2. faults' \in {faults, faults + 1} /\ (faults' # faults => faults < MaxFaults) => faults' \in 0..MaxFaults
  BY <1>1, IndexAssumption
<1>3. ASSUME UNCHANGED world, faults' \in {faults, faults + 1}, faults' # faults => faults < MaxFaults,
             run' \in [Processes -> Run], files' \in [Paths -> FileRow \cup {None}],
             symbols' \in [Paths -> SUBSET Contents], torn' \subseteq Paths
      PROVE  TypeOK'
  BY <1>2, <1>3 DEF TypeOK, world
<1>4. ASSUME NEW p \in Processes, Sweep(p) \/ Call(p) PROVE TypeOK'
  <2>1. PICK how \in BOOLEAN, scope \in SUBSET Paths : Begins(p, how, scope) BY <1>4, StartShape
  <2>2. run' \in [Processes -> Run] BY <2>1, BeginShape DEF GoesOn
  <2> QED BY <1>1, <1>3, <1>4, <2>2, StartShape DEF index
<1>5. ASSUME NEW p \in Processes, Plan(p) PROVE TypeOK'
  BY <1>1, <1>3, <1>5, PlanShape DEF index, GoesOn
<1>6. ASSUME NEW p \in Processes, Read(p) PROVE TypeOK'
  <2>1. run' \in [Processes -> Run] /\ UNCHANGED <<world, index>> BY <1>6, ReadShape DEF GoesOn
  <2>2. faults' \in {faults, faults + 1} /\ (faults' # faults => faults < MaxFaults) BY <1>6, ReadShape
  <2> QED BY <1>1, <1>3, <2>1, <2>2 DEF index
<1>7. ASSUME NEW p \in Processes, Upsert(p) PROVE TypeOK'
  <2>1. run' \in [Processes -> Run] /\ UNCHANGED <<world, symbols>> BY <1>7, UpsertShape DEF GoesOn
  <2>2. faults' \in {faults, faults + 1} /\ (faults' # faults => faults < MaxFaults) BY <1>7, UpsertShape
  <2>3. PICK done \in SUBSET In(run[p].batch) : files' = Upserted(p, done) BY <1>7, UpsertShape
  <2>4. torn' \subseteq Paths BY <1>1, <1>7, UpsertShape DEF In
  <2>5. \A f \in Paths : f \in done => run[p].batch[f].content \in Contents BY <2>3, RowTypes DEF In
  <2>6. files' \in [Paths -> FileRow \cup {None}] BY <1>1, <2>3, <2>5, StampType DEF Upserted
  <2> QED BY <1>1, <1>3, <2>1, <2>2, <2>4, <2>6
<1>8. ASSUME NEW p \in Processes, Replace(p) PROVE TypeOK'
  <2>1. run' \in [Processes -> Run] /\ UNCHANGED <<world, files>> BY <1>8, ReplaceShape DEF GoesOn
  <2>2. faults' \in {faults, faults + 1} /\ (faults' # faults => faults < MaxFaults) BY <1>8, ReplaceShape
  <2>3. torn' \subseteq Paths BY <1>1, <1>8, ReplaceShape DEF In
  <2>4. \A f \in Paths : f \in In(run[p].batch) => Parsed(p, f) \subseteq Contents BY RowTypes DEF In, Parsed
  <2>5. symbols' = Replaced(p) \/ symbols' = symbols BY <1>8, ReplaceShape
  <2>6. symbols' \in [Paths -> SUBSET Contents] BY <1>1, <2>4, <2>5 DEF Replaced
  <2> QED BY <1>1, <1>3, <2>1, <2>2, <2>3, <2>6
<1>9. ASSUME NEW p \in Processes, ApplyRenames(p) \/ RenameThrows(p) \/ RenameBreaks(p) PROVE TypeOK'
  <2>1. run' \in [Processes -> Run] /\ UNCHANGED world BY <1>9, RenameShape DEF GoesOn
  <2>2. faults' \in {faults, faults + 1} /\ (faults' # faults => faults < MaxFaults) BY <1>9, RenameShape
  <2>3. PICK done, broken \in SUBSET In(run[p].renames) :
          /\ files' = Transferred(p, done \cup broken) /\ symbols' = TransferredSymbols(p, done)
          /\ torn' = TornBy(p, done) \cup broken \cup {From(p, f) : f \in broken}
    BY <1>9, RenameShape
  <2>4. \A f \in In(run[p].renames) : f \in Paths /\ From(p, f) \in Paths BY RowTypes DEF From, In
  <2>5. \A f \in Paths : files[f] # None => files[f].sum \in Contents BY RowTypes
  <2>6. files' \in [Paths -> FileRow \cup {None}]
    <3> DEFINE row(f) == IF f \in done \cup broken /\ files[From(p, f)] # None
                         THEN Stamp(files[From(p, f)].sum, run[p].renames[f].sum, run[p].renames[f].read)
                         ELSE IF f \in {From(p, g) : g \in done \cup broken} THEN None ELSE files[f]
    <3>1. \A f \in Paths : row(f) \in FileRow \cup {None} BY <1>1, <2>3, <2>4, <2>5, StampType
    <3>2. files' = [f \in Paths |-> row(f)] BY <2>3 DEF Transferred
    <3> HIDE DEF row
    <3> QED BY <3>1, <3>2
  <2>7. symbols' \in [Paths -> SUBSET Contents] BY <1>1, <2>3, <2>4 DEF TransferredSymbols
  <2>8. torn' \subseteq Paths BY <1>1, <2>3, <2>4 DEF TornBy, In
  <2> QED BY <1>3, <2>1, <2>2, <2>6, <2>7, <2>8
<1>10. ASSUME NEW p \in Processes, CleanStale(p) PROVE TypeOK'
  <2>1. run' \in [Processes -> Run] /\ UNCHANGED world BY <1>10, CleanShape DEF GoesOn
  <2>2. faults' \in {faults, faults + 1} /\ (faults' # faults => faults < MaxFaults) BY <1>10, CleanShape
  <2>3. run[p].stale \subseteq Paths
    <3>1. run[p] \in Run BY <1>1
    <3> QED BY <3>1 DEF Run
  <2>4. files' \in [Paths -> FileRow \cup {None}] /\ symbols' \in [Paths -> SUBSET Contents] /\ torn' \subseteq Paths
    BY <1>1, <1>10, <2>3, CleanShape
  <2> QED BY <1>3, <2>1, <2>2, <2>4
<1>11. ASSUME NEW p \in Processes, Crash(p) PROVE TypeOK'
  <2>1. run' \in [Processes -> Run] BY <1>11, CrashShape DEF GoesOn
  <2>2. torn' \subseteq Paths BY <1>1, <1>11, CrashShape DEF In
  <2> QED BY <1>1, <1>3, <1>11, <2>1, <2>2, CrashShape
<1>12. ASSUME NEW next \in [Paths -> File \cup {None}], Changes(next) PROVE TypeOK'
  BY <1>1, <1>12, ChangeShape DEF TypeOK, index
<1>13. ASSUME NEW f \in Paths, Edit(f) \/ Remove(f) \/ Move(f) PROVE TypeOK'
  <2>1. CASE Edit(f)
    <3>1. PICK c \in Contents : Changes([disk EXCEPT ![f] = [content |-> c, mtime |-> now, moved |-> FALSE]])
      BY <2>1 DEF Edit
    <3>2. [content |-> c, mtime |-> now, moved |-> FALSE] \in File BY RowTypes DEF File
    <3> QED BY <1>1, <1>12, <3>1, <3>2
  <2>2. CASE Remove(f) BY <1>1, <1>12, <2>2 DEF Remove
  <2>3. CASE Move(f)
    <3>1. PICK g \in Paths \ {f} :
            /\ disk[f] # None
            /\ Changes([disk EXCEPT ![f] = None, ![g] = [disk[f] EXCEPT !.moved = disk[f].mtime < now]])
      BY <2>3 DEF Move
    <3>2. disk[f] \in File /\ (disk[f].mtime < now) \in BOOLEAN BY <3>1, RowTypes
    <3>3. [disk[f] EXCEPT !.moved = disk[f].mtime < now] \in File BY <3>2 DEF File
    <3> QED BY <1>1, <1>12, <3>1, <3>3
  <2> QED BY <1>13, <2>1, <2>2, <2>3
<1>14. ASSUME Tick PROVE TypeOK'
  <2>1. now' \in Time BY <1>14, RowTypes, IndexAssumption DEF Tick, Time
  <2> QED BY <1>1, <1>14, <2>1 DEF Tick, TypeOK, index
<1>15. ASSUME UNCHANGED vars PROVE TypeOK'
  BY <1>15 DEF TypeOK, vars, world, index
<1> QED BY <1>4, <1>5, <1>6, <1>7, <1>8, <1>9, <1>10, <1>11, <1>13, <1>14, <1>15 DEF Next

\* Every variable keeps its type.
THEOREM TypeCorrect == Spec => []TypeOK
<1>1. TypeOK /\ [Next]_vars => TypeOK' BY StepTypes
<1> QED BY <1>1, InitTypes, PTL DEF Spec

-----------------------------------------------------------------------------
(* The mtime filter *)

\* A row stamped now, after a reading that still holds, is sound.
LEMMA StampSound ==
  ASSUME TypeOK, NEW f \in Paths, NEW sum \in Contents, NEW content, NEW read, StillRead(f, content, read)
  PROVE  RowSound(f, Stamp(sum, content, read))
<1> DEFINE row == Stamp(sum, content, read)
<1>1. row.at = now /\ row.sum = sum /\ row.loose = (sum # content \/ now - read >= Margin) BY DEF Stamp
<1>2. row.at <= now BY <1>1, RowTypes
<1>3. ASSUME disk[f] # None, Skips(row, disk[f].mtime), ~row.loose, ~disk[f].moved PROVE sum = disk[f].content
  <2>1. sum = content /\ now - read < Margin
    <3>1. sum = content /\ ~(now - read >= Margin) BY <1>1, <1>3
    <3> QED BY <3>1, RowTypes, IndexAssumption DEF StillRead
  <2>2. disk[f].mtime + Margin <= now BY <1>1, <1>3 DEF Skips
  <2>3. disk[f].mtime \in Nat /\ now \in Nat /\ read \in Nat BY <1>3, RowTypes DEF StillRead
  <2>4. disk[f].mtime < read BY <2>1, <2>2, <2>3, IndexAssumption
  <2> QED BY <1>3, <2>1, <2>4 DEF StillRead
<1> QED BY <1>1, <1>2, <1>3 DEF RowSound

\* What the others have read stays read while the files stay.
LEMMA ReadingsStay ==
  ASSUME TypeOK, StampInv, UNCHANGED world, NEW p \in Processes, GoesOn(p), Readings(p)'
  PROVE  \A q \in Processes : Readings(q)'
<1>1. ASSUME NEW q \in Processes, q # p PROVE Readings(q)'
  <2>1. run[q] \in Run /\ run'[q] \in {run[q], Disturbed(run[q])} BY <1>1 DEF GoesOn, TypeOK
  <2>2. run'[q].batch = run[q].batch /\ run'[q].renames = run[q].renames BY <2>1, Bystander
  <2>3. Readings(q) /\ disk' = disk /\ now' = now BY DEF StampInv, world
  <2> QED BY <2>2, <2>3 DEF Readings, StillRead
<1> QED BY <1>1

LEMMA SameRows ==
  ASSUME TypeOK, StampInv, UNCHANGED world,
         \A f \in Paths : files'[f] = files[f] \/ files'[f] = None \/ RowSound(f, files'[f]),
         \A q \in Processes : Readings(q)'
  PROVE  StampInv'
<1>1. ASSUME NEW f \in Paths PROVE RowSound(f, files[f])'
  <2>1. RowSound(f, files[f]) BY DEF StampInv
  <2>2. RowSound(f, files'[f]) BY <2>1 DEF RowSound
  <2>3. disk' = disk /\ now' = now BY DEF world
  <2> QED BY <2>2, <2>3 DEF RowSound, Skips
<1> QED BY <1>1 DEF StampInv

LEMMA StampStep ==
  ASSUME TypeOK, StampInv, [Next]_vars
  PROVE  StampInv'
<1>1. \A f \in Paths : RowSound(f, files[f]) BY DEF StampInv
<1>2. \A p \in Processes : Readings(p) BY DEF StampInv
<1>3. ASSUME NEW p \in Processes, NEW S \in SUBSET {run[p].batch, Nowhere}, NEW R \in SUBSET {run[p].renames, Nowhere},
             UNCHANGED world, run'[p].batch \in S, run'[p].renames \in R
      PROVE  Readings(p)'
  <2>1. /\ run'[p].batch = run[p].batch \/ run'[p].batch = Nowhere
        /\ run'[p].renames = run[p].renames \/ run'[p].renames = Nowhere
        /\ disk' = disk /\ now' = now
    BY <1>3 DEF world
  <2>2. \A f \in Paths : Nowhere[f] = None BY DEF Nowhere
  <2> QED BY <1>2, <2>1, <2>2 DEF Readings, StillRead
<1>4. Idle.batch = Nowhere /\ Idle.renames = Nowhere BY DEF Idle
<1>5. ASSUME NEW p \in Processes, Sweep(p) \/ Call(p) PROVE StampInv'
  <2>1. PICK how \in BOOLEAN, scope \in SUBSET Paths : Begins(p, how, scope) BY <1>5, StartShape
  <2>2. GoesOn(p) /\ Readings(p)' BY <1>3, <1>5, <2>1, BeginShape, StartShape
  <2> QED BY <1>5, <2>2, ReadingsStay, SameRows, StartShape DEF index
<1>6. ASSUME NEW p \in Processes, Plan(p) PROVE StampInv'
  <2>1. GoesOn(p) /\ Readings(p)' BY <1>3, <1>6, PlanShape
  <2> QED BY <1>6, <2>1, ReadingsStay, SameRows, PlanShape DEF index
<1>7. ASSUME NEW p \in Processes, Read(p) PROVE StampInv'
  <2>1. GoesOn(p) /\ UNCHANGED <<world, index>> BY <1>7, ReadShape
  <2>2. PICK f \in run[p].todo : Passed(p, f) \/ Matched(p, f) \/ Batched(p, f) \/ Unread(p) BY <1>7, ReadShape
  <2>3. run[p] \in Run /\ now \in Time /\ now <= now BY RowTypes DEF TypeOK
  <2>4. f \in Paths /\ run[p].batch \in [Paths -> Reading \cup {None}] /\ run[p].renames \in [Paths -> Rename \cup {None}]
    BY <2>2, <2>3 DEF Run
  <2>5. disk' = disk /\ now' = now BY <2>1 DEF world
  <2>6. CASE Passed(p, f) \/ Unread(p) BY <1>3, <2>1, <2>6, ReadingsStay, SameRows DEF Passed, Unread, index
  <2>7. CASE Matched(p, f)
    <3>1. PICK old : run'[p].renames = [run[p].renames EXCEPT ![f] = [from |-> old, sum |-> disk[f].content, read |-> now]]
                     /\ run'[p].batch = run[p].batch
      BY <2>7 DEF Matched
    <3>2. Readings(p)' BY <1>2, <2>3, <2>4, <2>5, <3>1 DEF Readings, StillRead
    <3> QED BY <2>1, <3>2, ReadingsStay, SameRows DEF index
  <2>8. CASE Batched(p, f)
    <3>1. PICK ok : run'[p].batch = [run[p].batch EXCEPT ![f] = [content |-> disk[f].content, read |-> now, parsed |-> ok]]
                    /\ run'[p].renames = run[p].renames
      BY <2>8 DEF Batched
    <3>2. Readings(p)' BY <1>2, <2>3, <2>4, <2>5, <3>1 DEF Readings, StillRead
    <3> QED BY <2>1, <3>2, ReadingsStay, SameRows DEF index
  <2> QED BY <2>2, <2>6, <2>7, <2>8
<1>8. ASSUME NEW p \in Processes, Upsert(p) PROVE StampInv'
  <2>1. GoesOn(p) /\ UNCHANGED world /\ Readings(p)' BY <1>3, <1>8, UpsertShape
  <2>2. PICK done \in SUBSET In(run[p].batch) : files' = Upserted(p, done) BY <1>8, UpsertShape
  <2>3. ASSUME NEW f \in Paths PROVE files'[f] = files[f] \/ RowSound(f, files'[f])
    <3>1. CASE f \in done
      <4>1. run[p].batch[f] # None BY <2>2, <3>1 DEF In
      <4>2. StillRead(f, run[p].batch[f].content, run[p].batch[f].read) BY <1>2, <4>1 DEF Readings
      <4>3. RowSound(f, Stamp(run[p].batch[f].content, run[p].batch[f].content, run[p].batch[f].read))
        BY <4>1, <4>2, RowTypes, StampSound
      <4> QED BY <2>2, <3>1, <4>3 DEF Upserted
    <3>2. CASE f \notin done BY <2>2, <3>2 DEF Upserted
    <3> QED BY <3>1, <3>2
  <2> QED BY <2>1, <2>3, ReadingsStay, SameRows
<1>9. ASSUME NEW p \in Processes, Replace(p) PROVE StampInv'
  <2>1. GoesOn(p) /\ UNCHANGED <<world, files>> /\ Readings(p)' BY <1>3, <1>9, ReplaceShape
  <2> QED BY <2>1, ReadingsStay, SameRows
<1>10. ASSUME NEW p \in Processes, ApplyRenames(p) \/ RenameThrows(p) \/ RenameBreaks(p) PROVE StampInv'
  <2>1. PICK done, broken \in SUBSET In(run[p].renames) :
          files' = Transferred(p, done \cup broken) /\ (HasFailed(p) \/ GoesToClean(p, done, broken))
    BY <1>10, RenameShape
  <2>2. run[p] \in Run BY DEF TypeOK
  <2>3. /\ run'[p].batch \in {run[p].batch, Nowhere} /\ run'[p].renames \in {run[p].renames, Nowhere}
    BY <1>4, <2>1, <2>2, Bystander DEF Run, GoesToClean, HasFailed
  <2>4. GoesOn(p) /\ UNCHANGED world BY <1>10, RenameShape
  <2>5. Readings(p)' BY <1>3, <2>3, <2>4
  <2>6. ASSUME NEW f \in Paths PROVE files'[f] = files[f] \/ files'[f] = None \/ RowSound(f, files'[f])
    <3>1. CASE f \in done \cup broken /\ files[From(p, f)] # None
      <4>1. run[p].renames[f] # None BY <2>1, <3>1 DEF In
      <4>2. StillRead(f, run[p].renames[f].sum, run[p].renames[f].read) BY <1>2, <4>1 DEF Readings
      <4>3. files[From(p, f)].sum \in Contents BY <3>1, <4>1, RowTypes DEF From
      <4>4. RowSound(f, Stamp(files[From(p, f)].sum, run[p].renames[f].sum, run[p].renames[f].read))
        BY <4>2, <4>3, StampSound
      <4> QED BY <2>1, <3>1, <4>4 DEF Transferred
    <3>2. CASE ~(f \in done \cup broken /\ files[From(p, f)] # None) BY <2>1, <3>2 DEF Transferred
    <3> QED BY <3>1, <3>2
  <2> QED BY <2>4, <2>5, <2>6, ReadingsStay, SameRows
<1>11. ASSUME NEW p \in Processes, CleanStale(p) PROVE StampInv'
  <2>1. GoesOn(p) /\ UNCHANGED world /\ run'[p] = Idle BY <1>11, CleanShape
  <2>2. Readings(p)' BY <1>3, <1>4, <2>1
  <2>3. \A f \in Paths : files'[f] = files[f] \/ files'[f] = None BY <1>11, CleanShape
  <2> QED BY <2>1, <2>2, <2>3, ReadingsStay, SameRows
<1>12. ASSUME NEW p \in Processes, Crash(p) PROVE StampInv'
  <2>1. GoesOn(p) /\ UNCHANGED <<world, files>> /\ run'[p] = Idle BY <1>12, CrashShape
  <2>2. Readings(p)' BY <1>3, <1>4, <2>1
  <2> QED BY <2>1, <2>2, ReadingsStay, SameRows
\* A file that changes is newer than every stamp and reading, or was moved.
<1>13. ASSUME NEW next \in [Paths -> File \cup {None}], Changes(next),
              \A f \in Paths : \/ next[f] = disk[f] \/ next[f] = None
                               \/ next[f].moved \/ next[f].mtime >= now
       PROVE  StampInv'
  <2>1. disk' = next /\ now' = now /\ files' = files BY <1>13, ChangeShape DEF index
  <2>2. ASSUME NEW f \in Paths, next[f] # None, ~next[f].moved PROVE next[f] = disk[f] \/ next[f].mtime >= now
    BY <1>13, <2>2
  <2>3. \A f \in Paths : next[f] # None => next[f].mtime \in Time
    <3>1. \A x \in File : x.mtime \in Time BY DEF File
    <3> QED BY <3>1
  <2>4. ASSUME NEW f \in Paths PROVE RowSound(f, files[f])'
    <3>1. CASE next[f] = disk[f] BY <1>1, <2>1, <3>1 DEF RowSound, Skips
    <3>2. CASE files[f] # None /\ next[f] # None /\ ~next[f].moved /\ next[f].mtime >= now
      <4>1. files[f].at <= now BY <1>1, <3>2 DEF RowSound
      <4>2. files[f].at \in Nat /\ now \in Nat /\ next[f].mtime \in Nat BY <2>3, <3>2, RowTypes
      <4>3. ~(next[f].mtime + Margin <= files[f].at) BY <3>2, <4>1, <4>2, IndexAssumption
      <4> QED BY <2>1, <4>1, <4>3 DEF RowSound, Skips
    <3>3. CASE files[f] = None \/ next[f] = None \/ next[f].moved BY <1>1, <2>1, <3>3 DEF RowSound
    <3> QED BY <2>2, <3>1, <3>2, <3>3
  <2>5. ASSUME NEW f \in Paths, NEW content, NEW read, StillRead(f, content, read) PROVE StillRead(f, content, read)'
    <3>1. next[f] # None => next[f].mtime \in Nat BY <2>3, RowTypes
    <3>2. read \in Nat /\ now \in Nat /\ read <= now BY <2>5, RowTypes DEF StillRead
    <3>3. CASE next[f] = disk[f] BY <2>1, <2>5, <3>3 DEF StillRead
    <3>4. CASE next[f] # None /\ next[f].mtime >= now
      <4>1. ~(next[f].mtime < read) BY <3>1, <3>2, <3>4
      <4> QED BY <2>1, <2>5, <4>1 DEF StillRead
    <3>5. CASE next[f] = None \/ next[f].moved BY <2>1, <2>5, <3>5 DEF StillRead
    <3> QED BY <2>2, <3>3, <3>4, <3>5
  <2>6. ASSUME NEW q \in Processes PROVE Readings(q)'
    <3>1. run'[q] = Disturbed(run[q]) /\ run[q] \in Run BY <1>13, ChangeShape DEF TypeOK
    <3>2. run'[q].batch = run[q].batch /\ run'[q].renames = run[q].renames BY <3>1, Bystander
    <3>3. Readings(q) BY <1>2
    <3> QED BY <2>5, <3>2, <3>3 DEF Readings
  <2> QED BY <2>4, <2>6 DEF StampInv
<1>14. ASSUME NEW f \in Paths, Edit(f) \/ Remove(f) \/ Move(f) PROVE StampInv'
  <2>0. disk \in [Paths -> File \cup {None}] /\ now <= now BY RowTypes DEF TypeOK
  <2>1. CASE Edit(f)
    <3>1. PICK c \in Contents : Changes([disk EXCEPT ![f] = [content |-> c, mtime |-> now, moved |-> FALSE]])
      BY <2>1 DEF Edit
    <3>2. [content |-> c, mtime |-> now, moved |-> FALSE] \in File BY RowTypes DEF File
    <3> QED BY <1>13, <2>0, <3>1, <3>2
  <2>2. CASE Remove(f) BY <1>13, <2>0, <2>2 DEF Remove
  <2>3. CASE Move(f)
    <3>1. PICK g \in Paths \ {f} :
            /\ disk[f] # None
            /\ Changes([disk EXCEPT ![f] = None, ![g] = [disk[f] EXCEPT !.moved = disk[f].mtime < now]])
      BY <2>3 DEF Move
    <3> DEFINE file == [disk[f] EXCEPT !.moved = disk[f].mtime < now]
    <3>2. disk[f] \in File /\ disk[f].mtime \in Nat /\ now \in Nat BY <3>1, RowTypes
    <3>3. file \in File /\ file.mtime = disk[f].mtime /\ (disk[f].mtime < now => file.moved)
      <4> DEFINE late == disk[f].mtime < now
      <4>1. late \in BOOLEAN OBVIOUS
      <4> HIDE DEF late
      <4>2. [disk[f] EXCEPT !.moved = late] \in File /\ [disk[f] EXCEPT !.moved = late].mtime = disk[f].mtime
            /\ [disk[f] EXCEPT !.moved = late].moved = late
        BY <3>2, <4>1 DEF File
      <4> QED BY <4>2 DEF late
    <3>4. file.moved \/ file.mtime >= now
      <4>1. disk[f].mtime < now \/ disk[f].mtime >= now BY <3>2
      <4> QED BY <3>3, <4>1
    <3>5. Changes([disk EXCEPT ![f] = None, ![g] = file]) BY <3>1
    <3> HIDE DEF file
    <3>6. [disk EXCEPT ![f] = None, ![g] = file] \in [Paths -> File \cup {None}] BY <2>0, <3>3
    <3> QED BY <1>13, <2>0, <3>1, <3>4, <3>5, <3>6
  <2> QED BY <1>14, <2>1, <2>2, <2>3
<1>15. ASSUME Tick PROVE StampInv'
  <2>1. now' = now + 1 /\ disk' = disk /\ files' = files /\ run' = run BY <1>15 DEF Tick, index
  <2>2. now \in Nat /\ (\A f \in Paths : files[f] # None => files[f].at \in Nat) BY RowTypes
  <2>3. ASSUME NEW f \in Paths PROVE RowSound(f, files[f])' BY <1>1, <2>1, <2>2 DEF RowSound, Skips
  <2>4. now' \in Time BY <1>15, RowTypes, IndexAssumption DEF Tick, Time
  <2>5. ASSUME NEW f \in Paths, NEW content, NEW read, StillRead(f, content, read) PROVE StillRead(f, content, read)'
    <3>1. read \in Nat /\ read <= now + 1 BY <2>2, <2>5, RowTypes DEF StillRead
    <3> QED BY <2>1, <2>5, <3>1 DEF StillRead
  <2>6. \A q \in Processes : Readings(q)' BY <1>2, <2>1, <2>5 DEF Readings
  <2> QED BY <2>3, <2>6 DEF StampInv
<1>16. ASSUME UNCHANGED vars PROVE StampInv'
  BY <1>16 DEF StampInv, RowSound, Skips, Readings, StillRead, In, vars, world, index
<1> QED BY <1>5, <1>6, <1>7, <1>8, <1>9, <1>10, <1>11, <1>12, <1>14, <1>15, <1>16 DEF Next

LEMMA ReadingsHold == Spec => []StampInv
<1>1. Init => StampInv
  <2>1. ASSUME Init PROVE StampInv
    <3>1. \A f \in Paths : Nowhere[f] = None BY DEF Nowhere
    <3>2. \A p \in Processes : run[p].batch = Nowhere /\ run[p].renames = Nowhere BY <2>1 DEF Init, Idle
    <3>3. \A f \in Paths : files[f] = None BY <2>1, <3>1 DEF Init
    <3> QED BY <3>1, <3>2, <3>3 DEF StampInv, RowSound, Readings
  <2> QED BY <2>1
<1>2. TypeOK /\ StampInv /\ [Next]_vars => StampInv' BY StampStep
<1> QED BY <1>1, <1>2, TypeCorrect, PTL DEF Spec

\* SkipSound: the mtime filter of createIndexPlan never passes over a change of a file, but
\* for the rows and files it names.
THEOREM FilterIsSound == Spec => []SkipSound
<1>1. StampInv => SkipSound BY DEF StampInv, RowSound, SkipSound, Skips, In
<1> QED BY <1>1, ReadingsHold, PTL

-----------------------------------------------------------------------------
(* The paths a run keeps apart *)

LEMMA InNowhere == In(Nowhere) = {}
BY DEF In, Nowhere

LEMMA InUpdated ==
  ASSUME NEW m, DOMAIN m = Paths, NEW f \in Paths, NEW x, x # None
  PROVE  In([m EXCEPT ![f] = x]) = In(m) \cup {f}
BY DEF In

\* Apart, without the phase.
AreApart(todo, batch, renames, stale, froms) ==
  /\ todo \cap batch = {} /\ todo \cap renames = {} /\ batch \cap renames = {}
  /\ (todo \cup batch \cup renames) \cap (stale \cup froms) = {}

LEMMA ApartOpen ==
  ASSUME NEW r
  PROVE  /\ Apart(r) => AreApart(r.todo, In(r.batch), In(r.renames), r.stale, Froms(r))
         /\ AreApart(r.todo, In(r.batch), In(r.renames), r.stale, Froms(r)) /\ r.phase \notin {"idle", "walk"} => Apart(r)
BY DEF Apart, AreApart

LEMMA IdleApart == Apart(Idle)
<1>1. Idle.todo = {} /\ Idle.batch = Nowhere /\ Idle.renames = Nowhere /\ Idle.stale = {} BY DEF Idle
<1> QED BY <1>1, InNowhere DEF Apart, Froms

LEMMA ApartStay ==
  ASSUME TypeOK, RunInv, NEW p \in Processes, GoesOn(p), Apart(run'[p])
  PROVE  RunInv'
<1>1. ASSUME NEW q \in Processes, q # p PROVE Apart(run'[q])
  <2>1. run[q] \in Run /\ run'[q] \in {run[q], Disturbed(run[q])} BY <1>1 DEF GoesOn, TypeOK
  <2>2. /\ run'[q].batch = run[q].batch /\ run'[q].renames = run[q].renames /\ run'[q].phase = run[q].phase
        /\ run'[q].todo = run[q].todo /\ run'[q].stale = run[q].stale
    BY <2>1, Bystander
  <2>3. Apart(run[q]) BY DEF RunInv
  <2> QED BY <2>2, <2>3 DEF Apart, Froms
<1> QED BY <1>1 DEF RunInv

LEMMA RunStep ==
  ASSUME TypeOK, RunInv, [Next]_vars
  PROVE  RunInv'
<1>1. \A p \in Processes : Apart(run[p]) /\ run[p] \in Run BY DEF RunInv, TypeOK
<1>2. ASSUME NEW p \in Processes, Sweep(p) \/ Call(p) PROVE RunInv'
  <2>1. PICK how \in BOOLEAN, scope \in SUBSET Paths : Begins(p, how, scope) BY <1>2, StartShape
  <2>2. /\ GoesOn(p) /\ run'[p].todo = {} /\ run'[p].stale = {}
        /\ run'[p].batch = Nowhere /\ run'[p].renames = Nowhere
    BY <2>1, BeginShape
  <2>3. Apart(run'[p]) BY <2>2, InNowhere DEF Apart, Froms
  <2> QED BY <2>2, <2>3, ApartStay
<1>3. ASSUME NEW p \in Processes, Plan(p) PROVE RunInv'
  <2>1. /\ GoesOn(p) /\ run'[p].phase = "parse" /\ At(p, "walk")
        /\ run'[p].batch = run[p].batch /\ run'[p].renames = run[p].renames
        /\ run'[p].todo \subseteq In(run[p].found) /\ run'[p].stale = In(files) \ In(run[p].found)
    BY <1>3, PlanShape
  <2>2. run'[p].batch = Nowhere /\ run'[p].renames = Nowhere BY <1>1, <2>1 DEF Apart, At
  <2>3. Apart(run'[p]) BY <2>1, <2>2, InNowhere DEF Apart, Froms
  <2> QED BY <2>1, <2>3, ApartStay
<1>4. ASSUME NEW p \in Processes, Read(p) PROVE RunInv'
  <2>1. GoesOn(p) /\ run'[p].phase = "parse" BY <1>4, ReadShape
  <2>2. PICK f \in run[p].todo : /\ run'[p].todo = run[p].todo \ {f}
                                 /\ Passed(p, f) \/ Matched(p, f) \/ Batched(p, f) \/ Unread(p)
    BY <1>4, ReadShape
  <2>3. /\ f \in Paths /\ run[p].batch \in [Paths -> Reading \cup {None}]
        /\ run[p].renames \in [Paths -> Rename \cup {None}] /\ run[p].stale \subseteq Paths
    BY <1>1, <2>2 DEF Run
  <2>4. AreApart(run[p].todo, In(run[p].batch), In(run[p].renames), run[p].stale, Froms(run[p]))
    BY <1>1, ApartOpen
  <2>5. CASE Passed(p, f) \/ Unread(p)
    <3>1. run'[p].batch = run[p].batch /\ run'[p].renames = run[p].renames /\ run'[p].stale = run[p].stale
      BY <2>5 DEF Passed, Unread
    <3>2. Froms(run'[p]) = Froms(run[p]) BY <3>1 DEF Froms
    <3>3. AreApart(run'[p].todo, In(run'[p].batch), In(run'[p].renames), run'[p].stale, Froms(run'[p]))
      BY <2>2, <2>4, <3>1, <3>2 DEF AreApart
    <3> QED BY <2>1, <3>3, ApartOpen, ApartStay
  <2>6. CASE Matched(p, f)
    <3>1. PICK old \in Sources(p, f) :
            /\ disk[f] # None
            /\ run'[p].renames = [run[p].renames EXCEPT ![f] = [from |-> old, sum |-> disk[f].content, read |-> now]]
            /\ run'[p].stale = run[p].stale \ {old} /\ run'[p].batch = run[p].batch
      BY <2>6 DEF Matched
    <3> DEFINE pair == [from |-> old, sum |-> disk[f].content, read |-> now]
    <3>2. old \in run[p].stale BY <3>1 DEF Sources
    <3>3. pair \in Rename BY <2>3, <3>1, <3>2, RowTypes DEF Rename
    <3>4. pair # None /\ pair.from = old BY <3>3, NoneAssumption
    <3>5. run'[p].renames = [run[p].renames EXCEPT ![f] = pair] BY <3>1
    <3> HIDE DEF pair
    <3>6. In(run'[p].renames) = In(run[p].renames) \cup {f} BY <2>3, <3>4, <3>5, InUpdated
    <3>7. Froms(run'[p]) \subseteq Froms(run[p]) \cup {old} BY <2>3, <3>4, <3>5, <3>6 DEF Froms
    <3>8. AreApart(run'[p].todo, In(run'[p].batch), In(run'[p].renames), run'[p].stale, Froms(run'[p]))
      BY <2>2, <2>4, <3>1, <3>2, <3>6, <3>7 DEF AreApart
    <3> QED BY <2>1, <3>8, ApartOpen, ApartStay
  <2>7. CASE Batched(p, f)
    <3>1. PICK ok \in BOOLEAN :
            /\ disk[f] # None
            /\ run'[p].batch = [run[p].batch EXCEPT ![f] = [content |-> disk[f].content, read |-> now, parsed |-> ok]]
            /\ run'[p].renames = run[p].renames /\ run'[p].stale = run[p].stale
      BY <2>7 DEF Batched
    <3> DEFINE entry == [content |-> disk[f].content, read |-> now, parsed |-> ok]
    <3>2. entry \in Reading BY <2>3, <3>1, RowTypes DEF Reading
    <3>3. entry # None BY <3>2, NoneAssumption
    <3>4. run'[p].batch = [run[p].batch EXCEPT ![f] = entry] BY <3>1
    <3> HIDE DEF entry
    <3>5. In(run'[p].batch) = In(run[p].batch) \cup {f} BY <2>3, <3>3, <3>4, InUpdated
    <3>6. Froms(run'[p]) = Froms(run[p]) BY <3>1 DEF Froms
    <3>7. AreApart(run'[p].todo, In(run'[p].batch), In(run'[p].renames), run'[p].stale, Froms(run'[p]))
      BY <2>2, <2>4, <3>1, <3>5, <3>6 DEF AreApart
    <3> QED BY <2>1, <3>7, ApartOpen, ApartStay
  <2> QED BY <2>2, <2>5, <2>6, <2>7
<1>5. ASSUME NEW p \in Processes, Upsert(p) PROVE RunInv'
  <2>1. /\ GoesOn(p) /\ run'[p].phase = "replace" /\ run'[p].batch = run[p].batch
        /\ run'[p].renames = run[p].renames /\ run'[p].todo = run[p].todo /\ run'[p].stale = run[p].stale
    BY <1>5, UpsertShape
  <2>2. Apart(run'[p]) BY <1>1, <2>1 DEF Apart, Froms
  <2> QED BY <2>1, <2>2, ApartStay
<1>6. ASSUME NEW p \in Processes, Replace(p) PROVE RunInv'
  <2>1. /\ GoesOn(p) /\ run'[p].phase = "parse" /\ run'[p].batch = Nowhere
        /\ run'[p].renames = run[p].renames /\ run'[p].todo = run[p].todo /\ run'[p].stale = run[p].stale
    BY <1>6, ReplaceShape
  <2>2. Apart(run[p]) BY <1>1
  <2>3. Apart(run'[p]) BY <2>1, <2>2, InNowhere DEF Apart, Froms
  <2> QED BY <2>1, <2>3, ApartStay
<1>7. ASSUME NEW p \in Processes, ApplyRenames(p) \/ RenameThrows(p) \/ RenameBreaks(p) PROVE RunInv'
  <2>1. GoesOn(p) BY <1>7, RenameShape
  <2>2. PICK done, broken : HasFailed(p) \/ GoesToClean(p, done, broken) BY <1>7, RenameShape
  <2>3. CASE GoesToClean(p, done, broken)
    <3>1. /\ run'[p].phase = "clean" /\ run'[p].batch = run[p].batch
          /\ run'[p].renames = run[p].renames /\ run'[p].todo = run[p].todo /\ run'[p].stale = run[p].stale
      BY <1>1, <2>3 DEF GoesToClean, Run
    <3>2. Froms(run'[p]) = Froms(run[p]) BY <3>1 DEF Froms
    <3>3. Apart(run'[p]) BY <1>1, <3>1, <3>2, ApartOpen
    <3> QED BY <2>1, <3>3, ApartStay
  <2>4. CASE run'[p] = Idle BY <2>1, <2>4, IdleApart, ApartStay
  <2>5. CASE run'[p] = Disturbed(run[p])
    <3>1. /\ run'[p].phase = run[p].phase /\ run'[p].batch = run[p].batch
          /\ run'[p].renames = run[p].renames /\ run'[p].todo = run[p].todo /\ run'[p].stale = run[p].stale
      BY <1>1, <2>5, Bystander
    <3>2. Apart(run[p]) BY <1>1
    <3>3. Apart(run'[p]) BY <3>1, <3>2 DEF Apart, Froms
    <3> QED BY <2>1, <3>3, ApartStay
  <2> QED BY <2>2, <2>3, <2>4, <2>5 DEF HasFailed
<1>8. ASSUME NEW p \in Processes, CleanStale(p) PROVE RunInv'
  <2>1. GoesOn(p) /\ run'[p] = Idle BY <1>8, CleanShape
  <2> QED BY <2>1, IdleApart, ApartStay
<1>9. ASSUME NEW p \in Processes, Crash(p) PROVE RunInv'
  <2>1. GoesOn(p) /\ run'[p] = Idle BY <1>9, CrashShape
  <2> QED BY <2>1, IdleApart, ApartStay
<1>10. ASSUME NEW next, Changes(next) PROVE RunInv'
  <2>1. ASSUME NEW q \in Processes PROVE Apart(run'[q])
    <3>1. run[q] \in Run /\ run'[q] = Disturbed(run[q]) BY <1>10, ChangeShape DEF TypeOK
    <3>2. /\ run'[q].batch = run[q].batch /\ run'[q].renames = run[q].renames /\ run'[q].phase = run[q].phase
          /\ run'[q].todo = run[q].todo /\ run'[q].stale = run[q].stale
      BY <3>1, Bystander
    <3> QED BY <1>1, <3>2 DEF Apart, Froms
  <2> QED BY <2>1 DEF RunInv
<1>11. ASSUME NEW f \in Paths, Edit(f) \/ Remove(f) \/ Move(f) PROVE RunInv'
  BY <1>10, <1>11 DEF Edit, Remove, Move
<1>12. ASSUME Tick \/ UNCHANGED vars PROVE RunInv'
  BY <1>12 DEF RunInv, Tick, vars
<1> QED BY <1>2, <1>3, <1>4, <1>5, <1>6, <1>7, <1>8, <1>9, <1>11, <1>12 DEF Next

-----------------------------------------------------------------------------
(* Rows and symbols *)

LEMMA OpenPaths ==
  ASSUME NEW p \in Processes, NEW f \in Paths
  PROVE  f \in Open(p) <=> \E q \in Processes \ {p} : Replacing(q, f)
BY DEF Open, Replacing

\* The others replace what they replaced.
LEMMA OthersReplace ==
  ASSUME TypeOK, NEW p \in Processes, GoesOn(p), NEW q \in Processes, q # p, NEW f
  PROVE  (Replacing(q, f)' <=> Replacing(q, f)) /\ run'[q].batch = run[q].batch
<1>1. run[q] \in Run /\ run'[q] \in {run[q], Disturbed(run[q])} BY DEF GoesOn, TypeOK
<1>2. run'[q].batch = run[q].batch /\ run'[q].phase = run[q].phase BY <1>1, Bystander
<1> QED BY <1>2 DEF Replacing, At

\* A path that nothing happens to is held as before.
LEMMA HeldStays ==
  ASSUME NEW f, Held(f), files'[f] = files[f], symbols'[f] = symbols[f],
         \A q \in Processes : Replacing(q, f)' <=> Replacing(q, f),
         \A q \in Processes : Replacing(q, f) => run'[q].batch = run[q].batch
  PROVE  Held(f)'
BY DEF Held, Owned, Agrees

\* Nobody is replacing it, and its symbols are its row's.
LEMMA HeldFree ==
  ASSUME NEW f, \A q \in Processes : ~Replacing(q, f)', Agrees(f)'
  PROVE  Held(f)'
BY DEF Held

LEMMA SymbolStep ==
  ASSUME TypeOK, RunInv, SymbolInv, [Next]_vars
  PROVE  SymbolInv'
<1>1. \A f \in Paths : f \notin torn => Held(f) BY DEF SymbolInv
<1>2. \A p \in Processes : run[p] \in Run BY DEF TypeOK
<1>3. DOMAIN files = Paths /\ DOMAIN symbols = Paths BY DEF TypeOK
\* Steps outside the write sections.
<1>4. ASSUME NEW p \in Processes, GoesOn(p), UNCHANGED index, ~At(p, "replace"), run'[p].phase # "replace"
      PROVE  SymbolInv'
  <2>1. ASSUME NEW f \in Paths, f \notin torn PROVE Held(f)'
    <3>1. \A q \in Processes : (Replacing(q, f)' <=> Replacing(q, f)) /\ (Replacing(q, f) => run'[q].batch = run[q].batch)
      BY <1>4, OthersReplace DEF Replacing, At
    <3> QED BY <1>1, <1>4, <2>1, <3>1, HeldStays DEF index
  <2> QED BY <1>4, <2>1 DEF SymbolInv, index
<1>5. ASSUME NEW p \in Processes, Sweep(p) \/ Call(p) PROVE SymbolInv'
  <2>1. PICK how \in BOOLEAN, scope \in SUBSET Paths : Begins(p, how, scope) BY <1>5, StartShape
  <2>2. UNCHANGED index BY <1>5, StartShape
  <2> QED BY <1>4, <2>1, <2>2, BeginShape DEF At
<1>6. ASSUME NEW p \in Processes, Plan(p) PROVE SymbolInv'
  BY <1>4, <1>6, PlanShape DEF At
<1>7. ASSUME NEW p \in Processes, Read(p) PROVE SymbolInv'
  <2>1. GoesOn(p) /\ At(p, "parse") /\ UNCHANGED index /\ run'[p].phase = "parse" BY <1>7, ReadShape
  <2> QED BY <1>4, <2>1 DEF At
<1>8. ASSUME NEW p \in Processes, Upsert(p) PROVE SymbolInv'
  <2> DEFINE batch == In(run[p].batch)
  <2>1. /\ GoesOn(p) /\ At(p, "parse") /\ run'[p].phase = "replace" /\ run'[p].batch = run[p].batch /\ symbols' = symbols
    BY <1>8, UpsertShape
  <2>2. PICK done \in SUBSET batch :
          /\ files' = Upserted(p, done)
          /\ \/ done = batch /\ torn' = (torn \ batch) \cup (batch \cap Open(p))
             \/ torn' = torn \cup batch
    BY <1>8, UpsertShape
  <2>3. ASSUME NEW f \in Paths, f \notin batch, f \notin torn' PROVE Held(f)'
    <3>1. f \notin torn BY <2>2, <2>3
    <3>2. files'[f] = files[f] BY <2>2, <2>3 DEF Upserted
    <3>3. ~Replacing(p, f) /\ ~Replacing(p, f)' BY <2>1, <2>3 DEF Replacing, At
    <3>4. \A q \in Processes : (Replacing(q, f)' <=> Replacing(q, f)) /\ (Replacing(q, f) => run'[q].batch = run[q].batch)
      BY <2>1, <3>3, OthersReplace
    <3> QED BY <1>1, <2>1, <3>1, <3>2, <3>4, HeldStays
  <2>4. ASSUME NEW f \in Paths, f \in batch, f \notin torn' PROVE Held(f)'
    <3>1. done = batch /\ f \notin Open(p) BY <2>2, <2>4
    <3>2. \A q \in Processes \ {p} : ~Replacing(q, f)' BY <2>1, <3>1, OpenPaths, OthersReplace
    <3>3. run[p].batch[f] # None /\ run[p].batch[f].content \in Contents BY <2>4, RowTypes DEF In
    <3>4. files'[f] # None /\ files'[f].sum = run[p].batch[f].content
      <4>1. files'[f] = Stamp(run[p].batch[f].content, run[p].batch[f].content, run[p].batch[f].read)
        BY <2>2, <2>4, <3>1 DEF Upserted
      <4> QED BY <3>3, <4>1, StampType
    <3>5. Replacing(p, f)' BY <2>1, <2>4 DEF Replacing, At
    <3> QED BY <2>1, <3>2, <3>4, <3>5 DEF Held, Owned
  <2> QED BY <2>3, <2>4 DEF SymbolInv
<1>9. ASSUME NEW p \in Processes, Replace(p) PROVE SymbolInv'
  <2> DEFINE batch == In(run[p].batch)
  <2>1. GoesOn(p) /\ At(p, "replace") /\ run'[p].phase = "parse" /\ files' = files BY <1>9, ReplaceShape
  <2>2. \/ symbols' = Replaced(p) /\ torn' = torn \cup {f \in batch : ~run[p].batch[f].parsed}
        \/ torn' = torn \cup batch /\ symbols' = symbols
    BY <1>9, ReplaceShape
  <2>3. ASSUME NEW f \in Paths, f \notin batch, f \notin torn' PROVE Held(f)'
    <3>1. f \notin torn BY <2>2, <2>3
    <3>2. symbols'[f] = symbols[f] BY <2>2, <2>3 DEF Replaced
    <3>3. ~Replacing(p, f) /\ ~Replacing(p, f)' BY <2>1, <2>3 DEF Replacing, At
    <3>4. \A q \in Processes : (Replacing(q, f)' <=> Replacing(q, f)) /\ (Replacing(q, f) => run'[q].batch = run[q].batch)
      BY <2>1, <3>3, OthersReplace
    <3> QED BY <1>1, <2>1, <3>1, <3>2, <3>4, HeldStays
  <2>4. ASSUME NEW f \in Paths, f \in batch, f \notin torn' PROVE Held(f)'
    <3>1. f \notin torn /\ symbols' = Replaced(p) /\ run[p].batch[f].parsed BY <2>2, <2>4
    <3>2. Owned(p, f) BY <1>1, <2>1, <2>4, <3>1 DEF Held, Replacing
    <3>3. symbols'[f] = {run[p].batch[f].content} BY <2>4, <3>1 DEF Replaced, Parsed
    <3>4. Agrees(f)' BY <2>1, <3>2, <3>3 DEF Owned, Agrees
    <3>5. \A q \in Processes : ~Replacing(q, f)'
      BY <2>1, <3>2, OthersReplace DEF Owned, Replacing, At
    <3> QED BY <3>4, <3>5, HeldFree
  <2> QED BY <2>3, <2>4 DEF SymbolInv
<1>10. ASSUME NEW p \in Processes, ApplyRenames(p) \/ RenameThrows(p) \/ RenameBreaks(p) PROVE SymbolInv'
  <2>1. GoesOn(p) /\ At(p, "parse") BY <1>10, RenameShape
  <2>2. PICK done, broken \in SUBSET In(run[p].renames) :
          /\ \A f \in done \cup broken : files[f] = None \/ files[From(p, f)] = None
          /\ files' = Transferred(p, done \cup broken) /\ symbols' = TransferredSymbols(p, done)
          /\ torn' = TornBy(p, done) \cup broken \cup {From(p, f) : f \in broken}
          /\ HasFailed(p) \/ GoesToClean(p, done, broken)
    BY <1>10, RenameShape
  <2>3. run'[p].phase # "replace" BY <1>2, <2>1, <2>2, Bystander DEF Idle, GoesToClean, HasFailed, At, Run
  <2>4. \A q \in Processes, f \in Paths :
          (Replacing(q, f)' <=> Replacing(q, f)) /\ (Replacing(q, f) => run'[q].batch = run[q].batch /\ q # p)
    BY <2>1, <2>3, OthersReplace DEF Replacing, At
  <2>5. \A f \in Paths : f \notin Open(p) => \A q \in Processes : ~Replacing(q, f) BY <2>4, OpenPaths
  <2> DEFINE pairs == done \cup broken
             left == {From(p, f) : f \in done}
             torn1 == {From(p, f) : f \in broken}
  <2>6. \A f \in pairs : f \in Paths /\ From(p, f) \in Paths /\ f \in In(run[p].renames)
    BY RowTypes DEF From, In
  <2>7. \A f, g \in pairs : f # From(p, g)
    <3>1. Apart(run[p]) BY DEF RunInv
    <3>2. \A g \in pairs : From(p, g) \in Froms(run[p]) BY <2>6 DEF From, Froms
    <3> QED BY <2>6, <3>1, <3>2 DEF Apart
  <2>8. ASSUME NEW f \in Paths, f \notin torn' PROVE Held(f)'
    <3>1. f \notin broken /\ f \notin torn1 BY <2>2, <2>8
    <3>2. CASE f \in done
      <4> DEFINE old == From(p, f)
      <4>1. f \notin torn /\ old \notin torn /\ f \notin Open(p) /\ old \notin Open(p) BY <2>2, <2>8, <3>2 DEF TornBy
      <4>2. old \in Paths /\ f # old /\ f \notin left /\ f \notin {From(p, g) : g \in pairs} BY <2>6, <2>7, <3>2
      <4>3. Agrees(f) /\ Agrees(old) /\ \A q \in Processes : ~Replacing(q, f)
        BY <1>1, <2>5, <4>1, <4>2 DEF Held
      <4>4. symbols'[f] = symbols[f] \cup symbols[old] BY <2>2, <3>2 DEF TransferredSymbols
      <4>5. files'[f] = IF files[old] # None THEN Stamp(files[old].sum, run[p].renames[f].sum, run[p].renames[f].read)
                        ELSE files[f]
        BY <2>2, <3>2, <4>2 DEF Transferred
      <4>6. files[f] = None \/ files[old] = None BY <2>2, <3>2
      <4>7. Agrees(f)' => Held(f)' BY <2>4, <4>3, HeldFree
      <4>8. Agrees(f)'
        <5>1. CASE files[old] = None BY <4>3, <4>4, <4>5, <5>1 DEF Agrees
        <5>2. CASE files[old] # None
          <6>1. files[old].sum \in Contents /\ files[f] = None BY <4>2, <4>6, <5>2, RowTypes
          <6>2. files'[f] # None /\ files'[f].sum = files[old].sum BY <4>5, <5>2, <6>1, StampType
          <6> QED BY <4>3, <4>4, <5>2, <6>1, <6>2 DEF Agrees
        <5> QED BY <5>1, <5>2
      <4> QED BY <4>7, <4>8
    <3>3. CASE f \in left
      <4>1. f \notin Open(p) BY <2>2, <2>8, <3>3 DEF TornBy
      <4>2. f \notin pairs BY <2>7, <3>3
      <4>3. files'[f] = None BY <2>2, <3>3, <4>2 DEF Transferred
      <4>4. symbols'[f] = {} BY <2>2, <3>3, <4>2 DEF TransferredSymbols
      <4>5. \A q \in Processes : ~Replacing(q, f)' BY <2>4, <2>5, <4>1
      <4> QED BY <4>3, <4>4, <4>5, HeldFree DEF Agrees
    <3>4. CASE f \notin done /\ f \notin left
      <4>1. f \notin torn BY <2>2, <2>8, <3>4 DEF TornBy
      <4>2. f \notin {From(p, g) : g \in pairs} /\ f \notin pairs BY <3>1, <3>4
      <4>3. files'[f] = files[f] BY <2>2, <4>2 DEF Transferred
      <4>4. symbols'[f] = symbols[f] BY <2>2, <3>4 DEF TransferredSymbols
      <4> QED BY <1>1, <2>4, <4>1, <4>3, <4>4, HeldStays
    <3> QED BY <3>2, <3>3, <3>4
  <2> QED BY <2>8 DEF SymbolInv
<1>11. ASSUME NEW p \in Processes, CleanStale(p) PROVE SymbolInv'
  <2>1. GoesOn(p) /\ ~At(p, "replace") /\ run'[p] = Idle BY <1>11, CleanShape DEF AllRead, At
  <2>2. PICK done \in SUBSET run[p].stale :
          /\ files' = [f \in Paths |-> IF f \in done THEN None ELSE files[f]]
          /\ symbols' = [f \in Paths |-> IF f \in done THEN {} ELSE symbols[f]]
          /\ torn' = (torn \ done) \cup (done \cap Open(p))
    BY <1>11, CleanShape
  <2>3. \A q \in Processes, f \in Paths :
          (Replacing(q, f)' <=> Replacing(q, f)) /\ (Replacing(q, f) => run'[q].batch = run[q].batch /\ q # p)
    BY <2>1, OthersReplace DEF Replacing, At, Idle
  <2>4. ASSUME NEW f \in Paths, f \notin torn' PROVE Held(f)'
    <3>1. CASE f \in done
      <4>1. f \notin Open(p) BY <2>2, <2>4, <3>1
      <4>2. \A q \in Processes : ~Replacing(q, f)' BY <2>3, <4>1, OpenPaths
      <4> QED BY <2>2, <3>1, <4>2, HeldFree DEF Agrees
    <3>2. CASE f \notin done
      <4>1. f \notin torn /\ files'[f] = files[f] /\ symbols'[f] = symbols[f] BY <2>2, <2>4, <3>2
      <4> QED BY <1>1, <2>3, <4>1, HeldStays
    <3> QED BY <3>1, <3>2
  <2> QED BY <2>4 DEF SymbolInv
<1>12. ASSUME NEW p \in Processes, Crash(p) PROVE SymbolInv'
  <2>1. /\ GoesOn(p) /\ run'[p] = Idle /\ files' = files /\ symbols' = symbols
        /\ torn' = torn \cup (IF At(p, "replace") THEN In(run[p].batch) ELSE {})
    BY <1>12, CrashShape
  <2>2. ASSUME NEW f \in Paths, f \notin torn' PROVE Held(f)'
    <3>1. f \notin torn /\ ~Replacing(p, f) BY <2>1, <2>2 DEF Replacing
    <3>2. \A q \in Processes : (Replacing(q, f)' <=> Replacing(q, f)) /\ (Replacing(q, f) => run'[q].batch = run[q].batch)
      BY <2>1, <3>1, OthersReplace DEF Replacing, At, Idle
    <3> QED BY <1>1, <2>1, <3>1, <3>2, HeldStays
  <2> QED BY <2>2 DEF SymbolInv
<1>13. ASSUME NEW next, Changes(next) PROVE SymbolInv'
  <2>1. \A q \in Processes : run'[q].batch = run[q].batch /\ run'[q].phase = run[q].phase
    BY <1>2, <1>13, ChangeShape, Bystander
  <2>2. files' = files /\ symbols' = symbols /\ torn' = torn BY <1>13, ChangeShape DEF index
  <2>3. \A q \in Processes, f \in Paths : Replacing(q, f)' <=> Replacing(q, f) BY <2>1 DEF Replacing, At
  <2>4. ASSUME NEW f \in Paths, f \notin torn PROVE Held(f)' BY <1>1, <2>1, <2>2, <2>3, <2>4, HeldStays
  <2> QED BY <2>2, <2>4 DEF SymbolInv
<1>14. ASSUME NEW f \in Paths, Edit(f) \/ Remove(f) \/ Move(f) PROVE SymbolInv'
  BY <1>13, <1>14 DEF Edit, Remove, Move
<1>15. ASSUME Tick \/ UNCHANGED vars PROVE SymbolInv'
  <2>1. files' = files /\ symbols' = symbols /\ torn' = torn /\ run' = run BY <1>15 DEF Tick, vars, index
  <2> QED BY <2>1 DEF SymbolInv, Held, Owned, Agrees, Replacing, At
<1> QED BY <1>5, <1>6, <1>7, <1>8, <1>9, <1>10, <1>11, <1>12, <1>14, <1>15 DEF Next

LEMMA RunsApart == Spec => []RunInv
<1>1. Init => RunInv BY IdleApart DEF Init, RunInv
<1>2. TypeOK /\ RunInv /\ [Next]_vars => RunInv' BY RunStep
<1> QED BY <1>1, <1>2, TypeCorrect, PTL DEF Spec

\* SymbolsAgree: a row and the symbols of its path are of one content, through the batches,
\* renames and clean-ups of any number of processes, but for torn paths.
THEOREM RowsAndSymbolsAgree == Spec => []SymbolsAgree
<1>1. Init => SymbolInv
  <2>1. ASSUME Init PROVE SymbolInv
    <3>1. \A f \in Paths : files[f] = None /\ symbols[f] = {} BY <2>1 DEF Init, Nowhere
    <3>2. \A p \in Processes, f \in Paths : ~Replacing(p, f) BY <2>1 DEF Init, Replacing, At, Idle
    <3> QED BY <3>1, <3>2 DEF SymbolInv, Held, Agrees
  <2> QED BY <2>1
<1>2. TypeOK /\ RunInv /\ SymbolInv /\ [Next]_vars => SymbolInv' BY SymbolStep
<1>3. SymbolInv => SymbolsAgree BY DEF SymbolInv, Held, Replacing, SymbolsAgree
<1> QED BY <1>1, <1>2, <1>3, TypeCorrect, RunsApart, PTL DEF Spec

-----------------------------------------------------------------------------
(* A run that was alone *)

LEMMA Sums ==
  ASSUME TypeOK, NEW f \in Paths
  PROVE  /\ Sum(f) = None <=> files[f] = None
         /\ files[f] # None => Sum(f) = files[f].sum
         /\ disk[f] # None => disk[f].content \in Contents /\ disk[f].content # None
BY RowTypes, NoneAssumption DEF Sum

\* The others: a run that is still calm is as it was, and nothing it knows of has changed.
LEMMA CalmStay ==
  ASSUME TypeOK, CalmInv, UNCHANGED disk, NEW p \in Processes, GoesOn(p),
         DisturbsAll(p) \/ UNCHANGED <<files, symbols>>, Calm(run[p])'
  PROVE  CalmInv'
<1>1. ASSUME NEW q \in Processes, q # p PROVE Calm(run[q])'
  <2>1. run[q] \in Run /\ run'[q] \in {run[q], Disturbed(run[q])} BY <1>1 DEF GoesOn, TypeOK
  <2>2. ~Disturbed(run[q]).calm BY <2>1 DEF Disturbed, Run
  <2>3. CASE ~run'[q].calm BY <2>3 DEF Calm
  <2>4. CASE run'[q].calm
    <3>1. run'[q] = run[q] /\ UNCHANGED <<disk, files, symbols>> BY <1>1, <2>1, <2>2, <2>4 DEF DisturbsAll
    <3>2. Calm(run[q]) BY DEF CalmInv
    <3> QED BY <3>1, <3>2 DEF Calm, Planned, Settled, Sum, In, Froms
  <2> QED BY <2>3, <2>4
<1> QED BY <1>1 DEF CalmInv

LEMMA PlanIsCalm ==
  ASSUME TypeOK, StampInv, RunInv, CalmInv, NEW p \in Processes, Plan(p)
  PROVE  Calm(run[p])'
<1>1. /\ At(p, "walk") /\ UNCHANGED <<disk, files, symbols>>
      /\ run'[p].phase = "parse" /\ run'[p].force = run[p].force /\ run'[p].calm = run[p].calm
      /\ run'[p].batch = run[p].batch /\ run'[p].renames = run[p].renames
      /\ run'[p].todo = {f \in In(run[p].found) : run[p].force \/ ~Skips(files[f], run[p].found[f])}
      /\ run'[p].stale = In(files) \ In(run[p].found)
      /\ run'[p].todo # {} => run'[p].known = Checksums(run'[p].todo \cup run'[p].stale)
  BY PlanShape DEF world, index
<1> SUFFICES ASSUME run[p].calm PROVE Planned(run[p])' BY <1>1 DEF Calm
<1>2. run[p].found = [f \in Paths |-> IF f \in In(disk) THEN disk[f].mtime ELSE None]
  BY <1>1 DEF CalmInv, Calm, At
<1>3. In(run[p].found) = In(disk) BY <1>2, RowTypes, NoneAssumption DEF In
<1>4. In(run'[p].batch) = {} /\ In(run'[p].renames) = {} /\ Froms(run'[p]) = {}
  <2>1. run'[p].batch = Nowhere /\ run'[p].renames = Nowhere BY <1>1 DEF RunInv, Apart, At
  <2> QED BY <2>1, InNowhere DEF Froms
<1>5. ASSUME run'[p].todo # {}, NEW f \in run'[p].todo \cup run'[p].stale PROVE run'[p].known[f] = Sum(f)
  BY <1>1, <1>5 DEF Checksums, In, Sum
<1>6. ASSUME NEW f \in In(disk) \ run'[p].todo PROVE Settled(run'[p], f)
  <2>1. ~run[p].force /\ Skips(files[f], disk[f].mtime) BY <1>1, <1>2, <1>3, <1>6 DEF In
  <2>2. f \in Paths /\ disk[f] # None /\ files[f] # None BY <1>6, <2>1 DEF In, Skips
  <2>3. RowSound(f, files[f]) BY <2>2 DEF StampInv
  <2> QED BY <1>1, <2>1, <2>2, <2>3 DEF Settled, Indexed, RowSound
<1>7. run'[p].todo \subseteq In(disk) /\ run'[p].stale = In(files) \ In(disk) BY <1>1, <1>3
<1> QED BY <1>1, <1>4, <1>5, <1>6, <1>7 DEF Planned, Settled, Sum, In

LEMMA ReadIsCalm ==
  ASSUME TypeOK, RunInv, CalmInv, NEW p \in Processes, Read(p)
  PROVE  Calm(run[p])'
<1>1. /\ At(p, "parse") /\ UNCHANGED <<disk, files, symbols>>
      /\ run'[p].phase = "parse" /\ run'[p].force = run[p].force /\ (run'[p].calm => run[p].calm)
  BY ReadShape DEF world, index
<1> SUFFICES ASSUME run'[p].calm PROVE Planned(run[p])' BY <1>1 DEF Calm
<1>2. Planned(run[p]) /\ run[p].phase = "parse" /\ Apart(run[p]) /\ run[p] \in Run
  BY <1>1 DEF CalmInv, Calm, At, RunInv, TypeOK
<1>3. PICK f \in run[p].todo :
        /\ run'[p].todo = run[p].todo \ {f}
        /\ run'[p].todo # {} => run'[p].known = [run[p].known EXCEPT ![f] = None]
        /\ Passed(p, f) \/ Matched(p, f) \/ Batched(p, f) \/ Unread(p)
  BY ReadShape
<1>4. /\ run[p].batch \in [Paths -> Reading \cup {None}] /\ run[p].renames \in [Paths -> Rename \cup {None}]
      /\ run[p].known \in [Paths -> Contents \cup {None}] /\ run[p].todo \subseteq Paths /\ run[p].stale \subseteq Paths
  BY <1>2 DEF Run
<1>5. f \in Paths /\ disk[f] # None /\ f \notin run[p].stale /\ run[p].known[f] = Sum(f)
  BY <1>2, <1>3, <1>4 DEF Planned, In, Apart
<1>6. AreApart(run[p].todo, In(run[p].batch), In(run[p].renames), run[p].stale, Froms(run[p])) BY <1>2, ApartOpen
<1>7. ASSUME run'[p].todo # {}, run'[p].stale \subseteq run[p].stale, NEW g \in run'[p].todo \cup run'[p].stale
      PROVE  run'[p].known[g] = Sum(g)
  <2>1. g \in run[p].todo \cup run[p].stale /\ g # f /\ run[p].todo # {} BY <1>3, <1>5, <1>7
  <2>2. run[p].known[g] = Sum(g) BY <1>2, <2>1 DEF Planned
  <2>3. run'[p].known[g] = run[p].known[g] BY <1>3, <1>4, <1>7, <2>1
  <2> QED BY <2>2, <2>3
\* What Planned says of files, batch and renames before, with the new phase.
<1>8. /\ run[p].todo \cup In(run[p].batch) \cup In(run[p].renames) \subseteq In(disk)
      /\ (run[p].stale \cup Froms(run[p])) \cap In(disk) = {}
      /\ \A g \in In(run[p].batch) : run[p].batch[g].parsed /\ run[p].batch[g].content = disk[g].content
      /\ \A g \in In(run[p].renames) : files[g] = None /\ Sum(run[p].renames[g].from) = disk[g].content
      /\ \A g \in In(disk) \ (run[p].todo \cup In(run[p].batch)) : Settled(run[p], g) \/ g \in In(run[p].renames)
      /\ \A g \in In(files) \ In(disk) : g \in run[p].stale \/ g \in Froms(run[p])
  BY <1>2 DEF Planned
<1>9. \A g \in Paths : /\ Sum(g)' = Sum(g)
                       /\ run'[p].renames[g] # None \/ run'[p].renames[g] = run[p].renames[g] =>
                            (Settled(run[p], g) => Settled(run[p], g)')
  BY <1>1 DEF Sum, Settled
<1>10. In(disk)' = In(disk) /\ In(files)' = In(files) BY <1>1 DEF In
<1>11. Froms(run[p])' = Froms(run'[p]) BY DEF Froms
<1>12. CASE Passed(p, f)
  <2>1. run'[p].batch = run[p].batch /\ run'[p].renames = run[p].renames /\ run'[p].stale = run[p].stale
    BY <1>12 DEF Passed
  <2>2. Settled(run[p], f)
    <3>1. ~run[p].force /\ Sum(f) = disk[f].content BY <1>5, <1>12 DEF Passed, Dropped, Unchanged
    <3>2. files[f] # None /\ files[f].sum = disk[f].content BY <1>5, <3>1, Sums
    <3> QED BY <1>5, <3>1, <3>2 DEF Settled, Indexed
  <2>3. Froms(run'[p]) = Froms(run[p]) BY <2>1 DEF Froms
  <2>4. ASSUME NEW g \in In(disk) \ (run'[p].todo \cup In(run'[p].batch))
        PROVE  Settled(run[p], g)' \/ g \in In(run'[p].renames)
    <3>1. g \in Paths /\ (Settled(run[p], g) \/ g \in In(run[p].renames)) BY <1>3, <1>8, <2>1, <2>2, <2>4 DEF In
    <3> QED BY <1>9, <2>1, <3>1
  <2>5. \A g \in In(run[p].renames) : g \in Paths /\ run[p].renames[g].from \in Paths BY RowTypes DEF In
  <2> QED BY <1>1, <1>3, <1>7, <1>8, <1>9, <1>10, <2>1, <2>3, <2>4, <2>5, <1>4, <1>5 DEF Planned
<1>13. CASE Matched(p, f)
  <2>1. PICK old \in Sources(p, f) :
          /\ run'[p].renames = [run[p].renames EXCEPT ![f] = [from |-> old, sum |-> disk[f].content, read |-> now]]
          /\ run'[p].stale = run[p].stale \ {old} /\ run'[p].batch = run[p].batch
    BY <1>13 DEF Matched
  <2> DEFINE pair == [from |-> old, sum |-> disk[f].content, read |-> now]
  <2>2. old \in run[p].stale /\ run[p].known[f] = None /\ run[p].known[old] = disk[f].content
    BY <2>1 DEF Sources
  <2>3. old \in Paths /\ Sum(f) = None /\ Sum(old) = disk[f].content BY <1>2, <1>3, <1>4, <1>5, <2>2 DEF Planned
  <2>4. pair \in Rename BY <1>5, <2>3, RowTypes DEF Rename
  <2>5. pair # None /\ pair.from = old BY <2>4, NoneAssumption
  <2>6. run'[p].renames = [run[p].renames EXCEPT ![f] = pair] BY <2>1
  <2> HIDE DEF pair
  <2>7. In(run'[p].renames) = In(run[p].renames) \cup {f}
    <3>1. DOMAIN run[p].renames = Paths /\ f \in Paths /\ pair # None BY <1>4, <1>5, <2>5
    <3> QED BY <2>6, <3>1, InUpdated
  <2>8. /\ run'[p].renames[f] = pair
        /\ \A g \in Paths : g # f => run'[p].renames[g] = run[p].renames[g]
    BY <1>4, <1>5, <2>6
  <2>9. f \notin In(run[p].renames) BY <1>3, <1>6 DEF AreApart
  <2>10. Froms(run'[p]) = Froms(run[p]) \cup {old}
    <3>1. \A g \in In(run[p].renames) : g \in Paths /\ g # f BY <2>9 DEF In
    <3> QED BY <2>5, <2>7, <2>8, <3>1 DEF Froms
  <2>11. files[f] = None BY <1>5, <2>3, Sums
  <2>12. ASSUME NEW g \in In(run'[p].renames) PROVE files'[g] = None /\ Sum(run[p].renames[g].from)' = disk'[g].content
    <3>1. CASE g = f BY <1>1, <1>9, <2>3, <2>5, <2>8, <2>11, <3>1
    <3>2. CASE g # f
      <4>1. g \in In(run[p].renames) BY <2>7, <2>12, <3>2
      <4>2. g \in Paths /\ run[p].renames[g].from \in Paths BY <4>1, RowTypes DEF In
      <4>3. run'[p].renames[g].from = run[p].renames[g].from BY <2>8, <3>2, <4>2
      <4> QED BY <1>1, <1>8, <1>9, <4>1, <4>2, <4>3
    <3> QED BY <3>1, <3>2
  <2>13. ASSUME NEW g \in In(disk) \ (run'[p].todo \cup In(run'[p].batch))
         PROVE  Settled(run[p], g)' \/ g \in In(run'[p].renames)
    <3>1. CASE g = f BY <2>7, <3>1
    <3>2. CASE g # f
      <4>1. g \in Paths /\ (Settled(run[p], g) \/ g \in In(run[p].renames)) BY <1>3, <1>8, <2>1, <2>13, <3>2 DEF In
      <4> QED BY <1>9, <2>7, <2>8, <3>2, <4>1
    <3> QED BY <3>1, <3>2
  <2>14. f \in In(disk) /\ old \notin In(disk) BY <1>3, <1>8, <2>2
  <2>15. /\ run'[p].todo \cup In(run'[p].batch) \cup In(run'[p].renames) \subseteq In(disk)
         /\ (run'[p].stale \cup Froms(run'[p])) \cap In(disk) = {}
         /\ \A g \in In(files) \ In(disk) : g \in run'[p].stale \/ g \in Froms(run'[p])
    BY <1>3, <1>8, <2>1, <2>7, <2>10, <2>14
  <2>16. run'[p].todo # {} => \A g \in run'[p].todo \cup run'[p].stale : run'[p].known[g] = Sum(g)'
    BY <1>3, <1>4, <1>7, <1>9, <2>1
  <2> QED BY <1>1, <1>8, <1>10, <1>11, <2>1, <2>12, <2>13, <2>15, <2>16 DEF Planned
<1>14. CASE Batched(p, f)
  <2>1. PICK ok \in BOOLEAN :
          /\ run'[p].batch = [run[p].batch EXCEPT ![f] = [content |-> disk[f].content, read |-> now, parsed |-> ok]]
          /\ run'[p].renames = run[p].renames /\ run'[p].stale = run[p].stale /\ ok
    BY <1>14 DEF Batched
  <2> DEFINE entry == [content |-> disk[f].content, read |-> now, parsed |-> ok]
  <2>2. entry \in Reading BY <1>5, RowTypes DEF Reading
  <2>3. entry # None /\ entry.content = disk[f].content /\ entry.parsed BY <2>1, <2>2, NoneAssumption
  <2>4. run'[p].batch = [run[p].batch EXCEPT ![f] = entry] BY <2>1
  <2> HIDE DEF entry
  <2>5. In(run'[p].batch) = In(run[p].batch) \cup {f} BY <1>4, <1>5, <2>3, <2>4, InUpdated
  <2>6. /\ run'[p].batch[f] = entry
        /\ \A g \in Paths : g # f => run'[p].batch[g] = run[p].batch[g]
    BY <1>4, <1>5, <2>4
  <2>7. Froms(run'[p]) = Froms(run[p]) BY <2>1 DEF Froms
  <2>8. \A g \in In(run'[p].batch) : run'[p].batch[g].parsed /\ run'[p].batch[g].content = disk'[g].content
    BY <1>1, <1>8, <2>3, <2>5, <2>6 DEF In
  <2>9. \A g \in In(run'[p].renames) : files'[g] = None /\ Sum(run[p].renames[g].from)' = disk'[g].content
    <3>1. \A g \in In(run[p].renames) : g \in Paths /\ run[p].renames[g].from \in Paths BY RowTypes DEF In
    <3> QED BY <1>1, <1>8, <1>9, <2>1, <3>1
  <2>10. ASSUME NEW g \in In(disk) \ (run'[p].todo \cup In(run'[p].batch))
         PROVE  Settled(run[p], g)' \/ g \in In(run'[p].renames)
    <3>1. g \in Paths /\ (Settled(run[p], g) \/ g \in In(run[p].renames)) BY <1>3, <1>8, <2>5, <2>10 DEF In
    <3> QED BY <1>9, <2>1, <3>1
  <2>11. f \in In(disk) BY <1>3, <1>8
  <2>12. /\ run'[p].todo \cup In(run'[p].batch) \cup In(run'[p].renames) \subseteq In(disk)
         /\ (run'[p].stale \cup Froms(run'[p])) \cap In(disk) = {}
         /\ \A g \in In(files) \ In(disk) : g \in run'[p].stale \/ g \in Froms(run'[p])
    BY <1>3, <1>8, <2>1, <2>5, <2>7, <2>11
  <2>13. run'[p].todo # {} => \A g \in run'[p].todo \cup run'[p].stale : run'[p].known[g] = Sum(g)'
    BY <1>3, <1>4, <1>7, <1>9, <2>1
  <2> QED BY <1>1, <1>10, <1>11, <2>8, <2>9, <2>10, <2>12, <2>13 DEF Planned
<1>15. CASE Unread(p) BY <1>15 DEF Unread
<1> QED BY <1>3, <1>12, <1>13, <1>14, <1>15

LEMMA UpsertIsCalm ==
  ASSUME TypeOK, RunInv, CalmInv, NEW p \in Processes, Upsert(p)
  PROVE  Calm(run[p])'
<1> DEFINE batch == In(run[p].batch)
<1>1. /\ At(p, "parse") /\ UNCHANGED <<disk, symbols>>
      /\ run'[p].phase = "replace" /\ run'[p].force = run[p].force /\ run'[p].batch = run[p].batch
      /\ run'[p].renames = run[p].renames /\ run'[p].todo = run[p].todo /\ run'[p].stale = run[p].stale
      /\ run'[p].known = run[p].known /\ (run'[p].calm => run[p].calm)
  BY UpsertShape DEF world
<1> SUFFICES ASSUME run'[p].calm PROVE Planned(run[p])' BY <1>1 DEF Calm
<1>2. Planned(run[p]) /\ run[p].phase = "parse" /\ Apart(run[p])
  BY <1>1 DEF CalmInv, Calm, At, RunInv
<1>3. files' = Upserted(p, batch) BY UpsertShape
<1>4. AreApart(run[p].todo, batch, In(run[p].renames), run[p].stale, Froms(run[p])) BY <1>2, ApartOpen
<1>5. /\ run[p].todo \cup batch \cup In(run[p].renames) \subseteq In(disk)
      /\ (run[p].stale \cup Froms(run[p])) \cap In(disk) = {}
      /\ run[p].todo # {} => \A f \in run[p].todo \cup run[p].stale : run[p].known[f] = Sum(f)
      /\ \A f \in batch : run[p].batch[f].parsed /\ run[p].batch[f].content = disk[f].content
      /\ \A f \in In(run[p].renames) : files[f] = None /\ Sum(run[p].renames[f].from) = disk[f].content
      /\ \A f \in In(disk) \ (run[p].todo \cup batch) : Settled(run[p], f) \/ f \in In(run[p].renames)
      /\ \A f \in In(files) \ In(disk) : f \in run[p].stale \/ f \in Froms(run[p])
  BY <1>2 DEF Planned
<1>6. In(disk)' = In(disk) BY <1>1 DEF In
<1>7. Froms(run[p])' = Froms(run'[p]) /\ Froms(run'[p]) = Froms(run[p]) BY <1>1 DEF Froms
<1>8. ASSUME NEW f \in batch PROVE Sum(f)' = disk'[f].content
  <2>1. f \in Paths /\ run[p].batch[f] # None /\ run[p].batch[f].content \in Contents BY <1>8, RowTypes DEF In
  <2>2. files'[f] = Stamp(run[p].batch[f].content, run[p].batch[f].content, run[p].batch[f].read)
    BY <1>3, <1>8, <2>1 DEF Upserted
  <2>3. files'[f] # None /\ files'[f].sum = run[p].batch[f].content BY <2>1, <2>2, StampType
  <2> QED BY <1>1, <1>5, <1>8, <2>3 DEF Sum
<1>9. ASSUME NEW f \in Paths, f \notin batch PROVE files'[f] = files[f] /\ Sum(f)' = Sum(f)
  <2>1. files'[f] = files[f] BY <1>3, <1>9 DEF Upserted
  <2> QED BY <2>1 DEF Sum
<1>10. run[p].todo \subseteq Paths /\ run[p].stale \subseteq Paths
  <2>1. run[p] \in Run BY DEF TypeOK
  <2> QED BY <2>1 DEF Run
<1>11. run'[p].todo # {} => \A f \in run'[p].todo \cup run'[p].stale : run'[p].known[f] = Sum(f)'
  <2>1. \A f \in run[p].todo \cup run[p].stale : f \in Paths /\ f \notin batch BY <1>4, <1>10 DEF AreApart
  <2> QED BY <1>1, <1>5, <1>9, <2>1
<1>12. \A f \in In(run'[p].renames) : files'[f] = None /\ Sum(run[p].renames[f].from)' = disk'[f].content
  <2>1. ASSUME NEW f \in In(run[p].renames) PROVE /\ f \in Paths /\ f \notin batch
                                                  /\ run[p].renames[f].from \in Paths /\ run[p].renames[f].from \notin batch
    <3>1. f \in Paths /\ f \notin batch /\ run[p].renames[f].from \in Paths
      BY <1>4, <2>1, RowTypes DEF AreApart, In
    <3>2. run[p].renames[f].from \in Froms(run[p]) BY DEF Froms
    <3> QED BY <1>4, <3>1, <3>2 DEF AreApart
  <2>2. \A f \in In(run[p].renames) : Sum(run[p].renames[f].from)' = Sum(run[p].renames[f].from)
    <3>1. ASSUME NEW f \in In(run[p].renames) PROVE files'[run[p].renames[f].from] = files[run[p].renames[f].from]
      BY <1>9, <2>1
    <3> QED BY <1>1, <3>1 DEF Sum
  <2> QED BY <1>1, <1>5, <1>9, <2>1, <2>2
<1>13. ASSUME NEW f \in In(disk) \ (run'[p].todo \cup In(run'[p].batch))
       PROVE  Settled(run[p], f)' \/ f \in In(run'[p].renames)
  <2>1. f \in Paths /\ f \notin batch /\ (Settled(run[p], f) \/ f \in In(run[p].renames)) BY <1>1, <1>5, <1>13 DEF In
  <2>2. files'[f] = files[f] BY <1>9, <2>1
  <2> QED BY <1>1, <2>1, <2>2 DEF Settled
<1>14. \A f \in In(files)' \ In(disk) : f \in run'[p].stale \/ f \in Froms(run'[p])
  <2>1. ASSUME NEW f \in In(files)', f \notin In(disk) PROVE f \in In(files)
    <3>1. f \in Paths /\ f \notin batch /\ files'[f] # None BY <1>5, <2>1 DEF In
    <3> QED BY <1>9, <3>1 DEF In
  <2> QED BY <1>1, <1>5, <1>7, <2>1
<1> QED BY <1>1, <1>5, <1>6, <1>7, <1>8, <1>11, <1>12, <1>13, <1>14 DEF Planned

LEMMA ReplaceIsCalm ==
  ASSUME TypeOK, RunInv, CalmInv, NEW p \in Processes, Replace(p)
  PROVE  Calm(run[p])'
<1> DEFINE batch == In(run[p].batch)
<1>1. /\ At(p, "replace") /\ UNCHANGED <<disk, files>>
      /\ run'[p].phase = "parse" /\ run'[p].force = run[p].force /\ run'[p].batch = Nowhere
      /\ run'[p].renames = run[p].renames /\ run'[p].todo = run[p].todo /\ run'[p].stale = run[p].stale
      /\ run'[p].known = run[p].known /\ (run'[p].calm => run[p].calm)
  BY ReplaceShape DEF world
<1> SUFFICES ASSUME run'[p].calm PROVE Planned(run[p])' BY <1>1 DEF Calm
<1>2. Planned(run[p]) /\ run[p].phase = "replace" BY <1>1 DEF CalmInv, Calm, At
<1>3. symbols' = Replaced(p) BY ReplaceShape
<1>4. /\ run[p].todo \cup batch \cup In(run[p].renames) \subseteq In(disk)
      /\ (run[p].stale \cup Froms(run[p])) \cap In(disk) = {}
      /\ run[p].todo # {} => \A f \in run[p].todo \cup run[p].stale : run[p].known[f] = Sum(f)
      /\ \A f \in batch : run[p].batch[f].parsed /\ run[p].batch[f].content = disk[f].content /\ Sum(f) = disk[f].content
      /\ \A f \in In(run[p].renames) : files[f] = None /\ Sum(run[p].renames[f].from) = disk[f].content
      /\ \A f \in In(disk) \ (run[p].todo \cup batch) : Settled(run[p], f) \/ f \in In(run[p].renames)
      /\ \A f \in In(files) \ In(disk) : f \in run[p].stale \/ f \in Froms(run[p])
  BY <1>2 DEF Planned
<1>5. In(disk)' = In(disk) /\ In(files)' = In(files) /\ In(run'[p].batch) = {} BY <1>1, InNowhere DEF In
<1>6. Froms(run[p])' = Froms(run'[p]) /\ Froms(run'[p]) = Froms(run[p]) BY <1>1 DEF Froms
<1>7. ASSUME NEW f \in In(disk) \ run'[p].todo PROVE Settled(run[p], f)' \/ f \in In(run'[p].renames)
  <2>1. f \in Paths /\ disk[f] # None BY <1>7 DEF In
  <2>2. CASE f \in batch
    <3>1. files[f] # None /\ files[f].sum = disk[f].content BY <1>4, <2>1, <2>2, Sums
    <3>2. symbols'[f] = {disk[f].content} BY <1>3, <1>4, <2>1, <2>2 DEF Replaced, Parsed
    <3> QED BY <1>1, <2>1, <3>1, <3>2 DEF Settled, Indexed
  <2>3. CASE f \notin batch
    <3>1. Settled(run[p], f) \/ f \in In(run[p].renames) BY <1>1, <1>4, <1>7, <2>3
    <3>2. symbols'[f] = symbols[f] BY <1>3, <2>1, <2>3 DEF Replaced
    <3> QED BY <1>1, <3>1, <3>2 DEF Settled
  <2> QED BY <2>2, <2>3
<1>8. ASSUME NEW f PROVE Sum(f)' = Sum(f) BY <1>1 DEF Sum
<1>9. /\ run'[p].todo # {} => \A f \in run'[p].todo \cup run'[p].stale : run'[p].known[f] = Sum(f)'
      /\ \A f \in In(run'[p].renames) : files'[f] = None /\ Sum(run[p].renames[f].from)' = disk'[f].content
  BY <1>1, <1>4 DEF Sum
<1> QED BY <1>1, <1>4, <1>5, <1>6, <1>7, <1>9 DEF Planned

LEMMA RenameIsCalm ==
  ASSUME TypeOK, RunInv, CalmInv, NEW p \in Processes, ApplyRenames(p) \/ RenameThrows(p) \/ RenameBreaks(p)
  PROVE  Calm(run[p])'
<1>1. At(p, "parse") /\ UNCHANGED disk /\ run[p].todo = {} /\ In(run[p].batch) = {} BY RenameShape DEF world
<1>2. PICK done, broken \in SUBSET In(run[p].renames) :
        /\ files' = Transferred(p, done \cup broken) /\ symbols' = TransferredSymbols(p, done)
        /\ HasFailed(p) \/ GoesToClean(p, done, broken)
  BY RenameShape
<1>3. CASE HasFailed(p)
  <2>0. run[p] \in Run BY DEF TypeOK
  <2>1. ~run'[p].calm \/ run'[p] = Idle BY <1>3, <2>0 DEF HasFailed, Disturbed, Run
  <2> QED BY <2>1 DEF Calm, Idle
<1>4. CASE GoesToClean(p, done, broken) /\ run'[p].calm
  <2> DEFINE pairs == In(run[p].renames)
  <2>0. run[p] \in Run BY DEF TypeOK
  <2>1. /\ done = pairs /\ done \cup broken = pairs
        /\ run'[p].phase = "clean" /\ run'[p].force = run[p].force /\ run'[p].batch = run[p].batch
        /\ run'[p].renames = run[p].renames /\ run'[p].todo = run[p].todo /\ run'[p].stale = run[p].stale
        /\ run'[p].calm = run[p].calm
    BY <1>4, <2>0 DEF GoesToClean, Run
  <2>2. Planned(run[p]) /\ run[p].phase = "parse" /\ Apart(run[p])
    BY <1>1, <1>4, <2>1 DEF CalmInv, Calm, At, RunInv
  <2>3. AreApart(run[p].todo, In(run[p].batch), pairs, run[p].stale, Froms(run[p])) BY <2>2, ApartOpen
  <2>4. /\ pairs \subseteq In(disk) /\ (run[p].stale \cup Froms(run[p])) \cap In(disk) = {}
        /\ \A f \in pairs : files[f] = None /\ Sum(run[p].renames[f].from) = disk[f].content
        /\ \A f \in In(disk) : Settled(run[p], f) \/ f \in pairs
        /\ \A f \in In(files) \ In(disk) : f \in run[p].stale \/ f \in Froms(run[p])
    BY <1>1, <2>2 DEF Planned
  <2>5. In(disk)' = In(disk) /\ Froms(run[p])' = Froms(run[p]) BY <1>1, <2>1 DEF In, Froms
  <2>6. Froms(run[p]) = {From(p, f) : f \in pairs} BY DEF Froms, From
  <2>7. ASSUME NEW f \in Paths, f \notin pairs, f \notin Froms(run[p])
        PROVE  files'[f] = files[f] /\ symbols'[f] = symbols[f]
    BY <1>2, <2>1, <2>6, <2>7 DEF Transferred, TransferredSymbols
  <2>8. ASSUME NEW f \in In(disk) PROVE Settled(run[p], f)'
    <3>1. f \in Paths /\ disk[f] # None BY <2>8 DEF In
    <3>2. CASE f \in pairs
      <4>1. run[p].renames[f] # None /\ From(p, f) \in Paths BY <3>1, <3>2, RowTypes DEF In, From
      <4>2. Sum(From(p, f)) = disk[f].content BY <2>4, <3>2 DEF From
      <4>3. files[From(p, f)] # None /\ files[From(p, f)].sum = disk[f].content /\ files[From(p, f)].sum \in Contents
        BY <3>1, <4>1, <4>2, Sums
      <4>4. files'[f] = Stamp(files[From(p, f)].sum, run[p].renames[f].sum, run[p].renames[f].read)
        BY <1>2, <2>1, <3>1, <3>2, <4>3 DEF Transferred
      <4>5. files'[f] # None /\ files'[f].sum = disk[f].content BY <4>3, <4>4, StampType
      <4> QED BY <1>1, <2>1, <3>1, <4>1, <4>5 DEF Settled, Indexed
    <3>3. CASE f \notin pairs
      <4>1. f \notin Froms(run[p]) BY <2>4, <2>8
      <4>2. Settled(run[p], f) BY <2>4, <2>8, <3>3
      <4> QED BY <1>1, <2>1, <2>7, <3>1, <3>3, <4>1, <4>2 DEF Settled
    <3> QED BY <3>2, <3>3
  <2>9. ASSUME NEW f \in In(files)', f \notin In(disk) PROVE f \in run[p].stale
    <3>1. f \in Paths /\ files'[f] # None /\ f \notin pairs BY <2>4, <2>9 DEF In
    <3>2. f \notin Froms(run[p])
      <4>1. f \in Froms(run[p]) => files'[f] = None BY <1>2, <2>1, <2>6, <3>1 DEF Transferred
      <4> QED BY <3>1, <4>1
    <3>3. f \in In(files) BY <2>7, <3>1, <3>2 DEF In
    <3> QED BY <2>4, <2>9, <3>2, <3>3
  <2>10. Planned(run[p])' BY <1>1, <2>1, <2>4, <2>5, <2>8, <2>9 DEF Planned
  <2> QED BY <2>1, <2>10 DEF Calm
<1>5. CASE ~run'[p].calm BY <1>5 DEF Calm
<1> QED BY <1>2, <1>3, <1>4, <1>5

LEMMA CalmStep ==
  ASSUME TypeOK, StampInv, RunInv, CalmInv, [Next]_vars
  PROVE  CalmInv'
<1>1. ASSUME NEW p \in Processes, Sweep(p) \/ Call(p) PROVE CalmInv'
  <2>1. PICK how \in BOOLEAN, scope \in SUBSET Paths : Begins(p, how, scope) BY <1>1, StartShape
  <2>2. UNCHANGED <<disk, files, symbols>> BY <1>1, StartShape DEF world, index
  <2>3. /\ GoesOn(p) /\ run'[p].phase = "walk"
        /\ run'[p].calm => run'[p].found = [f \in Paths |-> IF f \in In(disk) THEN disk[f].mtime ELSE None]
    BY <2>1, BeginShape
  <2>4. Calm(run[p])' BY <2>2, <2>3 DEF Calm, In
  <2> QED BY <2>2, <2>3, <2>4, CalmStay
<1>2. ASSUME NEW p \in Processes, Plan(p) PROVE CalmInv'
  BY <1>2, PlanShape, PlanIsCalm, CalmStay DEF world, index
<1>3. ASSUME NEW p \in Processes, Read(p) PROVE CalmInv'
  BY <1>3, ReadShape, ReadIsCalm, CalmStay DEF world, index
<1>4. ASSUME NEW p \in Processes, Upsert(p) PROVE CalmInv'
  BY <1>4, UpsertShape, UpsertIsCalm, CalmStay DEF world
<1>5. ASSUME NEW p \in Processes, Replace(p) PROVE CalmInv'
  BY <1>5, ReplaceShape, ReplaceIsCalm, CalmStay DEF world
<1>6. ASSUME NEW p \in Processes, ApplyRenames(p) \/ RenameThrows(p) \/ RenameBreaks(p) PROVE CalmInv'
  BY <1>6, RenameShape, RenameIsCalm, CalmStay DEF world
<1>7. ASSUME NEW p \in Processes, CleanStale(p) PROVE CalmInv'
  <2>1. GoesOn(p) /\ run'[p] = Idle /\ UNCHANGED disk /\ (DisturbsAll(p) \/ UNCHANGED <<files, symbols>>)
    BY <1>7, CleanShape DEF world
  <2>2. Calm(run[p])' BY <2>1 DEF Calm, Idle
  <2> QED BY <2>1, <2>2, CalmStay
<1>8. ASSUME NEW p \in Processes, Crash(p) PROVE CalmInv'
  <2>1. GoesOn(p) /\ run'[p] = Idle /\ UNCHANGED <<disk, files, symbols>> BY <1>8, CrashShape DEF world
  <2>2. Calm(run[p])' BY <2>1 DEF Calm, Idle
  <2> QED BY <2>1, <2>2, CalmStay
<1>9. ASSUME NEW next, Changes(next) PROVE CalmInv'
  <2>1. \A q \in Processes : run[q] \in Run /\ run'[q] = Disturbed(run[q]) BY <1>9, ChangeShape DEF TypeOK
  <2>2. \A q \in Processes : ~run'[q].calm BY <2>1 DEF Disturbed, Run
  <2> QED BY <2>2 DEF CalmInv, Calm
<1>10. ASSUME NEW f \in Paths, Edit(f) \/ Remove(f) \/ Move(f) PROVE CalmInv'
  BY <1>9, <1>10 DEF Edit, Remove, Move
<1>11. ASSUME Tick \/ UNCHANGED vars PROVE CalmInv'
  <2>1. UNCHANGED <<disk, files, symbols, run>> BY <1>11 DEF Tick, vars, world, index
  <2> QED BY <2>1 DEF CalmInv, Calm, Planned, Settled, Sum, In, Froms
<1> QED BY <1>1, <1>2, <1>3, <1>4, <1>5, <1>6, <1>7, <1>8, <1>10, <1>11 DEF Next

\* A run that had the tree and the index to itself finds no row at the new path of a rename.
LEMMA CalmRenames ==
  ASSUME CalmInv, NEW p \in Processes, run[p].calm
  PROVE  ~RenameThrows(p)
<1>1. SUFFICES ASSUME RenameThrows(p) PROVE FALSE OBVIOUS
<1>2. At(p, "parse") /\ Clashes(p) # {} BY <1>1 DEF RenameThrows, Transfers, AllRead
<1>3. Planned(run[p]) BY <1>2 DEF CalmInv, Calm, At
<1>4. \A f \in In(run[p].renames) : files[f] = None BY <1>2, <1>3 DEF Planned, At
<1> QED BY <1>2, <1>4 DEF Clashes

\* Only its clean-up, done to the end, makes such a run idle without a fault.
LEMMA CleanEnds ==
  ASSUME TypeOK, CalmInv, [Next]_vars, NEW p \in Processes,
         ~At(p, "idle"), At(p, "idle")', run[p].calm, faults' = faults
  PROVE  CleanStale(p)
<1>1. faults \in Nat BY IndexAssumption DEF TypeOK
<1>2. ASSUME NEW q \in Processes, q # p, GoesOn(q) PROVE FALSE
  <2>1. run[p] \in Run /\ run'[p] \in {run[p], Disturbed(run[p])} BY <1>2 DEF GoesOn, TypeOK
  <2>2. run'[p].phase = run[p].phase BY <2>1, Bystander
  <2> QED BY <2>2 DEF At
<1>3. ASSUME NEW q \in Processes,
             \/ Sweep(q) \/ Call(q) \/ Plan(q) \/ Read(q) \/ Upsert(q) \/ Replace(q)
             \/ ApplyRenames(q) \/ RenameThrows(q) \/ RenameBreaks(q) \/ CleanStale(q) \/ Crash(q)
      PROVE  CleanStale(p)
  <2>1. CASE Sweep(q) \/ Call(q)
    <3>1. PICK how \in BOOLEAN, scope \in SUBSET Paths : Begins(q, how, scope) BY <2>1, StartShape
    <3>2. GoesOn(q) /\ At(q, "idle") BY <3>1, BeginShape
    <3> QED BY <1>2, <3>2 DEF At
  <2>2. CASE Plan(q)
    <3>1. GoesOn(q) /\ run'[q].phase = "parse" BY <2>2, PlanShape
    <3> QED BY <1>2, <3>1 DEF At
  <2>3. CASE Read(q)
    <3>1. GoesOn(q) /\ run'[q].phase = "parse" BY <2>3, ReadShape
    <3> QED BY <1>2, <3>1 DEF At
  <2>4. CASE Upsert(q)
    <3>1. GoesOn(q) /\ run'[q].phase = "replace" BY <2>4, UpsertShape
    <3> QED BY <1>2, <3>1 DEF At
  <2>5. CASE Replace(q)
    <3>1. GoesOn(q) /\ run'[q].phase = "parse" BY <2>5, ReplaceShape
    <3> QED BY <1>2, <3>1 DEF At
  <2>6. CASE ApplyRenames(q)
    <3>1. GoesOn(q) BY <2>6, RenameShape
    <3>2. run[p] \in Run /\ run \in [Processes -> Run] BY DEF TypeOK
    <3>3. q = p => run'[p] = [run[p] EXCEPT !.phase = "clean"] BY <2>6 DEF ApplyRenames, Disturb
    <3>4. q = p => run'[p].phase = "clean" BY <3>2, <3>3 DEF Run
    <3> QED BY <1>2, <3>1, <3>4 DEF At
  <2>7. CASE RenameThrows(q)
    <3>1. GoesOn(q) BY <2>7, RenameShape
    <3> QED BY <1>2, <2>7, <3>1, CalmRenames
  <2>8. CASE RenameBreaks(q) BY <1>1, <2>8 DEF RenameBreaks, Fault
  <2>9. CASE CleanStale(q) BY <1>2, <2>9, CleanShape
  <2>10. CASE Crash(q) BY <1>1, <2>10, CrashShape
  <2> QED BY <1>3, <2>1, <2>2, <2>3, <2>4, <2>5, <2>6, <2>7, <2>8, <2>9, <2>10
<1>4. ASSUME NEW next, Changes(next) PROVE FALSE
  <2>1. run[p] \in Run /\ run'[p] = Disturbed(run[p]) BY <1>4, ChangeShape DEF TypeOK
  <2>2. run'[p].phase = run[p].phase BY <2>1, Bystander
  <2> QED BY <2>2 DEF At
<1>5. CASE \E f \in Paths : Edit(f) \/ Remove(f) \/ Move(f) BY <1>4, <1>5 DEF Edit, Remove, Move
<1>6. CASE Tick \/ UNCHANGED vars BY <1>6 DEF Tick, vars, At
<1> QED BY <1>3, <1>5, <1>6 DEF Next

\* LeavesTree: a run that had the tree and the index to itself ends with a row for each file
\* and no other, however earlier runs, faults and other processes had left them.
THEOREM RunLeavesTree == Spec => LeavesTree
<1>1. Init => CalmInv
  <2>1. ~Idle.calm BY DEF Idle
  <2> QED BY <2>1 DEF Init, CalmInv, Calm
<1>2. TypeOK /\ StampInv /\ RunInv /\ CalmInv /\ [Next]_vars => CalmInv' BY CalmStep
<1>3. TypeOK /\ CalmInv /\ [Next]_vars => [\A p \in Processes : LeavesIt(p)]_vars
  <2>1. ASSUME TypeOK, CalmInv, [Next]_vars, NEW p \in Processes,
               ~At(p, "idle"), At(p, "idle")', run[p].calm, faults' = faults, NEW f \in Paths
        PROVE  /\ Indexed(disk[f], files'[f], run[p].force)
               /\ Reparsed(p, f) => symbols'[f] = {disk[f].content}
    <3>1. CleanStale(p) BY <2>1, CleanEnds
    <3>2. /\ files' = [g \in Paths |-> IF g \in run[p].stale THEN None ELSE files[g]]
          /\ symbols' = [g \in Paths |-> IF g \in run[p].stale THEN {} ELSE symbols[g]]
      BY <2>1, <3>1, CleanShape
    <3>3. /\ Planned(run[p]) /\ run[p].todo = {} /\ In(run[p].batch) = {}
          /\ run[p].phase # "clean" => In(run[p].renames) = {} /\ Froms(run[p]) = {}
      <4>1. At(p, "clean") \/ (AllRead(p) /\ In(run[p].renames) = {}) BY <2>1, <3>1, CleanShape
      <4>2. Planned(run[p]) BY <2>1, <4>1 DEF CalmInv, Calm, AllRead, At
      <4> QED BY <4>1, <4>2 DEF Planned, AllRead, At, Froms
    <3>4. CASE f \in In(disk)
      <4>1. f \notin run[p].stale /\ Settled(run[p], f) BY <3>3, <3>4 DEF Planned
      <4> QED BY <3>2, <4>1 DEF Settled, Reparsed
    <3>5. CASE f \notin In(disk)
      <4>1. disk[f] = None BY <3>5 DEF In
      <4>2. files'[f] = None BY <3>2, <3>3, <3>5 DEF Planned, In
      <4> QED BY <4>1, <4>2 DEF Indexed, Reparsed
    <3> QED BY <3>4, <3>5
  <2>2. TypeOK /\ CalmInv /\ [Next]_vars => \A p \in Processes : LeavesIt(p) BY <2>1 DEF LeavesIt
  <2> QED BY <2>2
<1> QED BY <1>1, <1>2, <1>3, TypeCorrect, RunsApart, ReadingsHold, PTL DEF Spec, LeavesTree
=============================================================================
