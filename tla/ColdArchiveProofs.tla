-------------------------- MODULE ColdArchiveProofs --------------------------
(***************************************************************************)
(* Proofs about ColdArchive, for any processes, memories, retention and    *)
(* batch size.  PassInv and NeverLost are inductive together: a pass that  *)
(* is copying knows that a row with the updated_at it selected is the row  *)
(* it selected, because every writer stamps with a later time, but for the *)
(* acknowledgements, which wait for the sweep's lock; so what the guarded  *)
(* delete takes away is what the copy holds.                               *)
(***************************************************************************)
EXTENDS ColdArchive, TLAPS

Inv == PassInv /\ NeverLost

\* The types of the parts, and what the invariant says of one memory or process.
LEMMA Parts ==
  ASSUME Inv
  PROVE  /\ TypeOK /\ now \in Time /\ now \in Int
         /\ \A p \in Procs : PassOK(p) /\ began[p] \in Time /\ began[p] <= now
         /\ row \in [Memories -> Rows] /\ copy \in [Memories -> Rows \cup {None}]
         /\ seen \in [Procs -> [Memories -> Rows \cup {None}]]
         /\ \A m \in Memories : row[m].stamp \in Time /\ row[m].stamp \in Int /\ row[m].stamp <= now
         /\ \A p \in Procs : \A m \in Chosen(p) : seen[p][m] \in Rows /\ seen[p][m].stamp \in Int
         /\ \A p \in Procs : \A m \in Memories : m \in Chosen(p) <=> seen[p][m] # None
         /\ Retention \in Nat \ {0}
<1>1. TypeOK /\ now \in Time /\ now \in Int BY ColdAssumption DEF Inv, PassInv, TypeOK, Time
<1>2. \A p \in Procs : PassOK(p) /\ began[p] \in Time /\ began[p] <= now BY DEF Inv, PassInv, TypeOK
<1>3. row \in [Memories -> Rows] /\ copy \in [Memories -> Rows \cup {None}]
      /\ seen \in [Procs -> [Memories -> Rows \cup {None}]]
  BY <1>1 DEF TypeOK
<1>4. \A r \in Rows : r.stamp \in Time /\ r.stamp \in Int BY ColdAssumption DEF Rows, Time
<1>5. \A m \in Memories : row[m].stamp \in Time /\ row[m].stamp \in Int /\ row[m].stamp <= now
  BY <1>3, <1>4 DEF Inv, PassInv
<1>6. \A p \in Procs : \A m \in Chosen(p) : seen[p][m] \in Rows /\ seen[p][m].stamp \in Int
  BY <1>3, <1>4 DEF Chosen
<1>7. \A p \in Procs : \A m \in Memories : m \in Chosen(p) <=> seen[p][m] # None BY DEF Chosen
<1> QED BY <1>1, <1>2, <1>3, <1>5, <1>6, <1>7, ColdAssumption

\* Only the holder of the lock is in a sweep.
LEMMA OneSweeper ==
  ASSUME Inv, NEW p \in Procs, stage[p] \in Sweeping, NEW q \in Procs, q # p
  PROVE  stage[q] \notin Sweeping
BY Parts DEF PassOK

\* What a process is about to be in, and its locals given up, is well typed.
LEMMA GoesType ==
  ASSUME TypeOK, NEW p \in Procs, NEW to \in Sweeping \cup {"idle", "waiting"}, Goes(p, to)
  PROVE  /\ stage' \in [Procs -> Sweeping \cup {"idle", "waiting"}]
         /\ stage'[p] = to /\ \A q \in Procs \ {p} : stage'[q] = stage[q]
BY DEF TypeOK, Goes

\* The locals a process gives up stay well typed, those of the others stay.
LEMMA ForgetType ==
  ASSUME TypeOK, NEW p \in Procs, Forget(p)
  PROVE  /\ began' \in [Procs -> Time] /\ left' \in [Procs -> SUBSET Memories]
         /\ seen' \in [Procs -> [Memories -> Rows \cup {None}]]
         /\ began'[p] = 0
         /\ \A q \in Procs \ {p} : began'[q] = began[q] /\ left'[q] = left[q] /\ seen'[q] = seen[q]
<1>1. 0 \in Time BY ColdAssumption DEF Time
<1>2. began' \in [Procs -> Time] /\ began'[p] = 0 /\ \A q \in Procs \ {p} : began'[q] = began[q]
  BY <1>1 DEF TypeOK, Forget
<1>3. left' \in [Procs -> SUBSET Memories] /\ \A q \in Procs \ {p} : left'[q] = left[q]
  BY DEF TypeOK, Forget
<1>4. seen' \in [Procs -> [Memories -> Rows \cup {None}]] /\ \A q \in Procs \ {p} : seen'[q] = seen[q]
  <2> DEFINE nothing == [m \in Memories |-> None]
  <2>1. nothing \in [Memories -> Rows \cup {None}] OBVIOUS
  <2>2. seen' = [seen EXCEPT ![p] = nothing] BY DEF Forget
  <2> HIDE DEF nothing
  <2> QED BY <2>1, <2>2 DEF TypeOK
<1> QED BY <1>2, <1>3, <1>4

\* The first state, with every memory in the hot database.
LEMMA Initially == Init => Inv
<1> SUFFICES ASSUME Init PROVE Inv OBVIOUS
<1>1. 0 \in Time /\ \A r \in Rows : r.stamp \in Time BY ColdAssumption DEF Time, Rows
<1>2. row \in [Memories -> Rows] /\ \A m \in Memories : row[m].stamp = 0 BY DEF Init
<1>3. TypeOK BY <1>1, <1>2 DEF Init, TypeOK, Sweeping
<1>4. NeverLost BY DEF Init, NeverLost
<1>5. \A p \in Procs : began[p] <= now /\ PassOK(p) BY DEF Init, PassOK, Sweeping
<1> QED BY <1>2, <1>3, <1>4, <1>5 DEF Inv, PassInv, Init

\* A process changes its stage, and neither database nor clock: the invariant asks nothing
\* new of the others.
LEMMA MoveKeeps ==
  ASSUME Inv, NEW p \in Procs, UNCHANGED <<now, hotIds, row, copy>>,
         TypeOK', began'[p] <= now', PassOK(p)',
         \A q \in Procs \ {p} : /\ stage'[q] = stage[q] /\ began'[q] = began[q]
                                /\ left'[q] = left[q] /\ seen'[q] = seen[q]
                                /\ stage[q] \in Sweeping => sweeper' = q
  PROVE  Inv'
<1>1. ASSUME NEW q \in Procs PROVE PassOK(q)' /\ began'[q] <= now'
  <2>1. CASE q = p BY <2>1
  <2>2. CASE q # p BY <2>2, Parts DEF PassOK, Chosen
  <2> QED BY <2>1, <2>2
<1>2. NeverLost' BY DEF Inv, NeverLost
<1>3. \A m \in Memories : row'[m].stamp <= now' BY DEF Inv, PassInv
<1> QED BY <1>1, <1>2, <1>3 DEF Inv, PassInv

\* The steps of a sweep that write to no memory.
LEMMA SweepKeeps ==
  ASSUME Inv, NEW p \in Procs,
         Start(p) \/ Enter(p) \/ GiveUp(p) \/ DecayRead(p) \/ Decayed(p) \/ Select(p)
           \/ OffloadFails(p) \/ Record(p) \/ Crash(p)
  PROVE  Inv'
<1>a. TypeOK /\ Procs \cup {None} # {} /\ p \in Procs \cup {None} /\ None \in Procs \cup {None} BY Parts
<1>b. \A q \in Procs \ {p} : stage[p] \in Sweeping => stage[q] \notin Sweeping BY OneSweeper
<1>c. began \in [Procs -> Time] /\ left \in [Procs -> SUBSET Memories]
      /\ seen \in [Procs -> [Memories -> Rows \cup {None}]] /\ now \in Time /\ lastRun \in Time \cup {-1}
  BY Parts DEF TypeOK
<1>1. CASE Start(p)
  <2>1. Goes(p, "waiting") /\ UNCHANGED <<now, lastRun, sweeper, pass, hotIds, row, copy>> BY <1>1 DEF Start
  <2>2. TypeOK' BY <1>a, <2>1, GoesType DEF TypeOK, pass
  <2>3. stage'[p] = "waiting" /\ \A q \in Procs \ {p} : stage'[q] = stage[q] BY <1>a, <2>1, GoesType
  <2>4. PassOK(p)' BY <2>3 DEF PassOK, Sweeping
  <2> QED BY <2>1, <2>2, <2>3, <2>4, MoveKeeps, Parts DEF pass, PassOK
<1>2. CASE Enter(p)
  <2>1. Goes(p, "decay") /\ sweeper' = p /\ sweeper = None /\ UNCHANGED <<now, lastRun, pass, hotIds, row, copy>>
    BY <1>2 DEF Enter
  <2>2. "decay" \in Sweeping BY DEF Sweeping
  <2>3. TypeOK' BY <1>a, <2>1, <2>2, GoesType DEF TypeOK, pass
  <2>4. stage'[p] = "decay" /\ \A q \in Procs \ {p} : stage'[q] = stage[q] BY <1>a, <2>1, <2>2, GoesType
  <2>5. PassOK(p)' BY <2>1, <2>4 DEF PassOK
  <2>6. \A q \in Procs : stage[q] \notin Sweeping BY <2>1, Parts, ColdAssumption DEF PassOK
  <2> QED BY <2>1, <2>3, <2>4, <2>5, <2>6, MoveKeeps, Parts DEF pass
<1>3. CASE GiveUp(p)
  <2>1. Goes(p, "idle") /\ UNCHANGED <<now, lastRun, sweeper, pass, hotIds, row, copy>> BY <1>3 DEF GiveUp
  <2>2. TypeOK' BY <1>a, <2>1, GoesType DEF TypeOK, pass
  <2>3. stage'[p] = "idle" /\ \A q \in Procs \ {p} : stage'[q] = stage[q] BY <1>a, <2>1, GoesType
  <2>4. PassOK(p)' BY <2>3 DEF PassOK, Sweeping
  <2> QED BY <2>1, <2>2, <2>3, <2>4, MoveKeeps, Parts DEF pass, PassOK
<1>4. CASE DecayRead(p)
  <2>1. /\ stage[p] = "decay" /\ Goes(p, "decaying") /\ began' = [began EXCEPT ![p] = now]
        /\ UNCHANGED <<now, lastRun, sweeper, seen, hotIds, row, copy>>
    BY <1>4 DEF DecayRead
  <2>2. PICK unused \in SUBSET hotIds : left' = [left EXCEPT ![p] = unused] BY <1>4 DEF DecayRead
  <2>3. unused \in SUBSET Memories BY <1>a DEF TypeOK
  <2>4. "decay" \in Sweeping /\ "decaying" \in Sweeping BY DEF Sweeping
  <2>5. TypeOK' BY <1>a, <1>c, <2>1, <2>2, <2>3, <2>4, GoesType DEF TypeOK
  <2>6. stage'[p] = "decaying" /\ \A q \in Procs \ {p} : stage'[q] = stage[q] BY <1>a, <2>1, <2>4, GoesType
  <2>7. began'[p] <= now' /\ left'[p] = unused BY <1>c, <2>1, <2>2, Parts
  <2>8. PassOK(p)' BY <2>1, <2>2, <2>4, <2>6, <2>7, Parts DEF PassOK
  <2>9. \A q \in Procs \ {p} : began'[q] = began[q] /\ left'[q] = left[q] BY <1>c, <2>1, <2>2
  <2> QED BY <1>b, <2>1, <2>4, <2>5, <2>6, <2>7, <2>8, <2>9, MoveKeeps
<1>5. CASE Decayed(p)
  <2>1. /\ stage[p] = "decaying" /\ Goes(p, "expired") /\ Forget(p)
        /\ UNCHANGED <<now, lastRun, sweeper, hotIds, row, copy>>
    BY <1>5 DEF Decayed
  <2>2. "decaying" \in Sweeping /\ "expired" \in Sweeping BY DEF Sweeping
  <2>3. TypeOK' BY <1>a, <2>1, <2>2, GoesType, ForgetType DEF TypeOK
  <2>4. stage'[p] = "expired" /\ \A q \in Procs \ {p} : stage'[q] = stage[q] BY <1>a, <2>1, <2>2, GoesType
  <2>5. began'[p] <= now' BY <1>a, <1>c, <2>1, ForgetType, ColdAssumption DEF Time
  <2>6. PassOK(p)' BY <2>1, <2>2, <2>4, Parts DEF PassOK
  <2> QED BY <1>a, <1>b, <2>1, <2>2, <2>3, <2>4, <2>5, <2>6, ForgetType, MoveKeeps
<1>6. CASE Select(p)
  <2>1. stage[p] = "offload" /\ UNCHANGED <<now, lastRun, sweeper, began, hotIds, row, copy>> BY <1>6 DEF Select
  <2>2. PICK ids \in SUBSET Memories :
          /\ Oldest(ids)
          /\ seen' = [seen EXCEPT ![p] = [m \in Memories |-> IF m \in ids THEN row[m] ELSE None]]
          /\ left' = [left EXCEPT ![p] = ids]
          /\ Goes(p, IF ids = {} THEN "record" ELSE "copying")
    BY <1>6 DEF Select
  <2>3. PICK to \in {"record", "copying"} : Goes(p, to) BY <2>2
  <2>4. "offload" \in Sweeping /\ to \in Sweeping BY DEF Sweeping
  <2> DEFINE picked == [m \in Memories |-> IF m \in ids THEN row[m] ELSE None]
  <2>5. picked \in [Memories -> Rows \cup {None}] BY Parts
  <2>6. \A m \in Memories : picked[m] = IF m \in ids THEN row[m] ELSE None OBVIOUS
  <2>7. seen' = [seen EXCEPT ![p] = picked] BY <2>2
  <2> HIDE DEF picked
  <2>8. seen' \in [Procs -> [Memories -> Rows \cup {None}]] /\ seen'[p] = picked
        /\ \A q \in Procs \ {p} : seen'[q] = seen[q]
    BY <1>c, <2>5, <2>7
  <2>9. left' \in [Procs -> SUBSET Memories] /\ left'[p] = ids /\ \A q \in Procs \ {p} : left'[q] = left[q]
    BY <1>c, <2>2
  <2>10. TypeOK' BY <1>a, <2>1, <2>3, <2>4, <2>8, <2>9, GoesType DEF TypeOK
  <2>11. stage'[p] = to /\ \A q \in Procs \ {p} : stage'[q] = stage[q] BY <1>a, <2>3, <2>4, GoesType
  <2>12. \A m \in Memories : row[m] # None BY Parts, NoneAssumption
  <2>13. Chosen(p)' = ids BY <2>6, <2>8, <2>12 DEF Chosen
  <2>14. \A m \in ids : m \in hotIds /\ row[m].stamp <= now - Retention BY <2>2 DEF Oldest, Eligible
  <2>15. PassOK(p)'
    BY <2>1, <2>4, <2>6, <2>8, <2>9, <2>11, <2>13, <2>14, Parts DEF PassOK
  <2> QED BY <1>b, <2>1, <2>4, <2>8, <2>9, <2>10, <2>11, <2>15, MoveKeeps, Parts
<1>7. CASE OffloadFails(p)
  <2>1. /\ stage[p] = "copying" /\ Goes(p, "record") /\ Forget(p)
        /\ UNCHANGED <<now, lastRun, sweeper, hotIds, row, copy>>
    BY <1>7 DEF OffloadFails
  <2>2. "copying" \in Sweeping /\ "record" \in Sweeping BY DEF Sweeping
  <2>3. TypeOK' BY <1>a, <2>1, <2>2, GoesType, ForgetType DEF TypeOK
  <2>4. stage'[p] = "record" /\ \A q \in Procs \ {p} : stage'[q] = stage[q] BY <1>a, <2>1, <2>2, GoesType
  <2>5. began'[p] <= now' BY <1>a, <1>c, <2>1, ForgetType, ColdAssumption DEF Time
  <2>6. PassOK(p)' BY <2>1, <2>2, <2>4, Parts DEF PassOK
  <2> QED BY <1>a, <1>b, <2>1, <2>2, <2>3, <2>4, <2>5, <2>6, ForgetType, MoveKeeps
<1>8. CASE Record(p)
  <2>1. /\ stage[p] = "record" /\ Goes(p, "idle") /\ sweeper' = None /\ lastRun' \in {now, lastRun}
        /\ UNCHANGED <<now, pass, hotIds, row, copy>>
    BY <1>8 DEF Record
  <2>2. TypeOK' BY <1>a, <1>c, <2>1, GoesType DEF TypeOK, pass
  <2>3. stage'[p] = "idle" /\ \A q \in Procs \ {p} : stage'[q] = stage[q] BY <1>a, <2>1, GoesType
  <2>4. PassOK(p)' /\ stage[p] \in Sweeping BY <2>1, <2>3 DEF PassOK, Sweeping
  <2> QED BY <1>b, <2>1, <2>2, <2>3, <2>4, MoveKeeps, Parts DEF pass
<1>9. CASE Crash(p)
  <2>1. /\ stage[p] \in Sweeping /\ Goes(p, "idle") /\ Forget(p) /\ sweeper' = None
        /\ UNCHANGED <<now, lastRun, hotIds, row, copy>>
    BY <1>9 DEF Crash
  <2>2. TypeOK' BY <1>a, <2>1, GoesType, ForgetType DEF TypeOK
  <2>3. stage'[p] = "idle" /\ \A q \in Procs \ {p} : stage'[q] = stage[q] BY <1>a, <2>1, GoesType
  <2>4. began'[p] <= now' BY <1>a, <1>c, <2>1, ForgetType, ColdAssumption DEF Time
  <2>5. PassOK(p)' BY <2>3 DEF PassOK, Sweeping
  <2> QED BY <1>a, <1>b, <2>1, <2>2, <2>3, <2>4, <2>5, ForgetType, MoveKeeps
<1> QED BY <1>1, <1>2, <1>3, <1>4, <1>5, <1>6, <1>7, <1>8, <1>9

\* Rows of the hot database are written and stamped now: no pass that is copying takes the new
\* row for the one it selected.
LEMMA WriteKeeps ==
  ASSUME Inv, NEW ids \in SUBSET hotIds, row' \in [Memories -> Rows],
         \A m \in Memories \ ids : row'[m] = row[m], \A m \in ids : row'[m].stamp = now,
         UNCHANGED <<now, lastRun, sweeper, pass, hotIds, copy>>,
         stage' \in [Procs -> Sweeping \cup {"idle", "waiting"}],
         \A p \in Procs : \/ stage'[p] = stage[p]
                          \/ stage[p] \in Sweeping /\ stage'[p] \in Sweeping \ {"decaying", "copying"}
  PROVE  Inv'
<1>1. TypeOK' BY Parts DEF TypeOK, pass
<1>2. \A m \in Memories : row'[m].stamp <= now' BY Parts
<1>3. NeverLost' BY DEF Inv, NeverLost
<1>4. ASSUME NEW p \in Procs PROVE began'[p] <= now' /\ PassOK(p)'
  <2>1. PassOK(p) /\ began'[p] <= now' BY Parts DEF pass
  <2>2. Chosen(p)' = Chosen(p) BY DEF Chosen, pass
  <2>3. stage'[p] = "copying" => \A m \in Chosen(p) : row'[m].stamp = seen[p][m].stamp => row'[m] = seen[p][m]
    <3> SUFFICES ASSUME stage'[p] = "copying", NEW m \in Chosen(p), row'[m].stamp = seen[p][m].stamp
                 PROVE  row'[m] = seen[p][m]
      OBVIOUS
    <3>1. stage[p] = "copying" /\ m \in Memories BY DEF Chosen
    <3>2. seen[p][m].stamp <= now - Retention /\ seen[p][m].stamp \in Int BY <2>1, <3>1, Parts DEF PassOK
    <3>3. m \notin ids BY <3>2, Parts
    <3> QED BY <2>1, <3>1, <3>3 DEF PassOK
  <2> QED BY <2>1, <2>2, <2>3 DEF PassOK, pass
<1> QED BY <1>1, <1>2, <1>3, <1>4 DEF Inv, PassInv

\* Every kind of write is one of those.
LEMMA WritersKeep ==
  ASSUME Inv,
         (\E m \in Memories : Edit(m) \/ Delete(m) \/ Write(m)) \/ (\E p \in Procs : ArchiveRows(p))
  PROVE  Inv'
<1>a. row \in [Memories -> Rows] /\ now \in Time /\ hotIds \subseteq Memories
      /\ stage \in [Procs -> Sweeping \cup {"idle", "waiting"}]
  BY Parts DEF TypeOK
<1>b. \A ids \in SUBSET Memories : /\ Archived(ids) \in [Memories -> Rows]
                                   /\ \A m \in ids : Archived(ids)[m].stamp = now
                                   /\ \A m \in Memories \ ids : Archived(ids)[m] = row[m]
  <2> SUFFICES ASSUME NEW ids \in SUBSET Memories
               PROVE  /\ Archived(ids) \in [Memories -> Rows]
                      /\ \A m \in ids : Archived(ids)[m].stamp = now
                      /\ \A m \in Memories \ ids : Archived(ids)[m] = row[m]
    OBVIOUS
  <2>1. ASSUME NEW m \in Memories
        PROVE  /\ [row[m] EXCEPT !.status = "archived", !.stamp = now] \in Rows
               /\ [row[m] EXCEPT !.status = "archived", !.stamp = now].stamp = now
    BY <1>a DEF Rows
  <2> QED BY <1>a, <2>1 DEF Archived
<1>1. ASSUME NEW m \in Memories, Edit(m) PROVE Inv'
  <2>1. PICK text \in Texts : row' = [row EXCEPT ![m].text = text, ![m].stamp = now] BY <1>1 DEF Edit
  <2>2. /\ [row[m] EXCEPT !.text = text, !.stamp = now] \in Rows
        /\ [row[m] EXCEPT !.text = text, !.stamp = now].stamp = now
    BY <1>a DEF Rows
  <2>3. row' \in [Memories -> Rows] /\ row'[m].stamp = now /\ \A k \in Memories \ {m} : row'[k] = row[k]
    BY <1>a, <2>1, <2>2
  <2>4. {m} \in SUBSET hotIds /\ UNCHANGED <<now, lastRun, sweeper, stage, pass, hotIds, copy>> BY <1>1 DEF Edit
  <2> QED BY <1>a, <2>3, <2>4, WriteKeeps
<1>2. ASSUME NEW m \in Memories, Delete(m) PROVE Inv'
  <2>1. {m} \in SUBSET hotIds /\ row' = Archived({m}) /\ UNCHANGED <<now, lastRun, sweeper, stage, pass, hotIds, copy>>
    BY <1>2 DEF Delete
  <2> QED BY <1>a, <1>b, <2>1, WriteKeeps
<1>3. ASSUME NEW m \in Memories, Write(m) PROVE Inv'
  <2>1. PICK text \in Texts, status \in {"active", "archived"} :
          row' = [row EXCEPT ![m].status = status, ![m].stamp = now, ![m].text = text]
    BY <1>3 DEF Write
  <2>2. /\ [row[m] EXCEPT !.status = status, !.stamp = now, !.text = text] \in Rows
        /\ [row[m] EXCEPT !.status = status, !.stamp = now, !.text = text].stamp = now
    BY <1>a DEF Rows
  <2>3. row' \in [Memories -> Rows] /\ row'[m].stamp = now /\ \A k \in Memories \ {m} : row'[k] = row[k]
    BY <1>a, <2>1, <2>2
  <2>4. {m} \in SUBSET hotIds /\ UNCHANGED <<now, lastRun, sweeper, stage, pass, hotIds, copy>> BY <1>3 DEF Write
  <2> QED BY <1>a, <2>3, <2>4, WriteKeeps
<1>4. ASSUME NEW p \in Procs, ArchiveRows(p) PROVE Inv'
  <2>1. PICK ids \in SUBSET hotIds : row' = Archived(ids) BY <1>4 DEF ArchiveRows
  <2>2. PICK to \in {"lowScore", "offload"} : stage[p] \in {"expired", "lowScore"} /\ Goes(p, to) BY <1>4 DEF ArchiveRows
  <2>3. stage[p] \in Sweeping /\ to \in Sweeping \ {"decaying", "copying"} BY <2>2 DEF Sweeping
  <2>4. stage' \in [Procs -> Sweeping \cup {"idle", "waiting"}] /\ stage'[p] = to
        /\ \A q \in Procs \ {p} : stage'[q] = stage[q]
    BY <2>2, <2>3, Parts, GoesType
  <2>5. UNCHANGED <<now, lastRun, sweeper, pass, hotIds, copy>> BY <1>4 DEF ArchiveRows
  <2>6. \A q \in Procs : \/ stage'[q] = stage[q]
                         \/ stage[q] \in Sweeping /\ stage'[q] \in Sweeping \ {"decaying", "copying"}
    BY <2>3, <2>4
  <2> QED BY <1>a, <1>b, <2>1, <2>4, <2>5, <2>6, WriteKeeps
<1> QED BY <1>1, <1>2, <1>3, <1>4

\* An acknowledgement changes a row under its old stamp, but while no pass is under way.
LEMMA AcknowledgeKeeps ==
  ASSUME Inv, NEW m \in Memories, Acknowledge(m)
  PROVE  Inv'
<1>1. /\ m \in hotIds /\ sweeper = None /\ row[m].used < MaxUses
      /\ row' = [row EXCEPT ![m].used = @ + 1]
      /\ UNCHANGED <<now, lastRun, sweeper, stage, pass, hotIds, copy>>
  BY DEF Acknowledge
<1>2. \A p \in Procs : stage[p] \notin Sweeping BY <1>1, Parts, ColdAssumption DEF PassOK
<1>3. row \in [Memories -> Rows] /\ row[m] \in Rows BY Parts
<1>4. row[m].used + 1 \in 0..MaxUses BY <1>1, <1>3, ColdAssumption DEF Rows
<1>5. /\ [row[m] EXCEPT !.used = @ + 1] \in Rows
      /\ [row[m] EXCEPT !.used = @ + 1].stamp = row[m].stamp
  BY <1>3, <1>4 DEF Rows
<1>6. row' \in [Memories -> Rows] /\ row'[m].stamp = row[m].stamp /\ \A k \in Memories \ {m} : row'[k] = row[k]
  BY <1>1, <1>3, <1>5
<1>7. TypeOK' BY <1>1, <1>6, Parts DEF TypeOK, pass
<1>8. \A k \in Memories : row'[k].stamp <= now' BY <1>1, <1>6, Parts
<1>9. NeverLost' BY <1>1, <1>6 DEF Inv, NeverLost
<1>10. ASSUME NEW p \in Procs PROVE began'[p] <= now' /\ PassOK(p)'
  BY <1>1, <1>2, Parts DEF PassOK, pass, Sweeping
<1> QED BY <1>7, <1>8, <1>9, <1>10 DEF Inv, PassInv

\* The decay writes rows that are in the hot database, in no pass that is copying.
LEMMA DecayRowKeeps ==
  ASSUME Inv, NEW p \in Procs, DecayRow(p)
  PROVE  Inv'
<1>1. stage[p] = "decaying" /\ UNCHANGED <<now, lastRun, sweeper, stage, began, seen, hotIds, copy>> BY DEF DecayRow
<1>2. PICK m \in left[p] : row' = [row EXCEPT ![m].stamp = began[p]] /\ left' = [left EXCEPT ![p] = @ \ {m}]
  BY DEF DecayRow
<1>3. stage[p] \in Sweeping /\ left \in [Procs -> SUBSET Memories] /\ row \in [Memories -> Rows]
  BY <1>1, Parts DEF Sweeping, TypeOK
<1>4. m \in hotIds /\ m \in Memories BY <1>1, <1>2, <1>3, Parts DEF PassOK
<1>5. [row[m] EXCEPT !.stamp = began[p]] \in Rows /\ [row[m] EXCEPT !.stamp = began[p]].stamp = began[p]
  <2>1. row[m] \in Rows BY <1>3, <1>4
  <2>2. began[p] \in Time BY Parts
  <2> QED BY <2>1, <2>2 DEF Rows
<1>6. row' \in [Memories -> Rows] /\ row'[m].stamp = began[p] /\ \A k \in Memories \ {m} : row'[k] = row[k]
  BY <1>2, <1>3, <1>4, <1>5
<1>7. left' \in [Procs -> SUBSET Memories] /\ left'[p] \subseteq left[p] BY <1>2, <1>3
<1>8. TypeOK' BY <1>1, <1>6, <1>7, Parts DEF TypeOK
<1>9. \A k \in Memories : row'[k].stamp <= now' BY <1>1, <1>6, Parts
<1>10. NeverLost' BY <1>1, <1>4, <1>6 DEF Inv, NeverLost
<1>11. ASSUME NEW q \in Procs PROVE began'[q] <= now' /\ PassOK(q)'
  <2>1. CASE q = p BY <1>1, <1>7, <2>1, Parts DEF PassOK
  <2>2. CASE q # p
    <3>1. stage[q] \notin Sweeping BY <1>3, <2>2, OneSweeper
    <3> QED BY <1>1, <3>1, Parts DEF PassOK, Sweeping
  <2> QED BY <2>1, <2>2
<1> QED BY <1>8, <1>9, <1>10, <1>11 DEF Inv, PassInv

\* A batch replaces cold rows of memories that are still in the hot database.
LEMMA CopyKeeps ==
  ASSUME Inv, NEW p \in Procs, CopyBatch(p)
  PROVE  Inv'
<1>1. stage[p] = "copying" /\ UNCHANGED <<now, lastRun, sweeper, stage, began, seen, hotIds, row>> BY DEF CopyBatch
<1>2. PICK batch \in SUBSET left[p] :
        /\ copy' = [m \in Memories |-> IF m \in batch THEN seen[p][m] ELSE copy[m]]
        /\ left' = [left EXCEPT ![p] = @ \ batch]
  BY DEF CopyBatch
<1>3. stage[p] \in Sweeping /\ left \in [Procs -> SUBSET Memories]
      /\ batch \subseteq Chosen(p) /\ Chosen(p) \subseteq hotIds /\ Chosen(p) \subseteq Memories
  BY <1>1, <1>2, Parts DEF Sweeping, TypeOK, PassOK, Chosen
<1>4. left' \in [Procs -> SUBSET Memories] /\ left'[p] = left[p] \ batch BY <1>2, <1>3
<1>5. copy' \in [Memories -> Rows \cup {None}]
  <2>1. \A m \in Memories : seen[p][m] \in Rows \cup {None} BY Parts
  <2> QED BY <1>2, <2>1, Parts
<1>6. TypeOK' BY <1>1, <1>4, <1>5, Parts DEF TypeOK
<1>7. NeverLost' BY <1>1, <1>2, <1>3 DEF Inv, NeverLost
<1>8. ASSUME NEW q \in Procs PROVE began'[q] <= now' /\ PassOK(q)'
  <2>1. CASE q = p
    <3>1. Chosen(p)' = Chosen(p) BY <1>1 DEF Chosen
    <3>2. \A m \in Chosen(p) \ left'[p] : copy'[m] = seen[p][m] BY <1>1, <1>2, <1>3, <1>4, Parts DEF PassOK
    <3>3. left'[p] \subseteq Chosen(p) BY <1>1, <1>4, Parts DEF PassOK
    <3> QED BY <1>1, <2>1, <3>1, <3>2, <3>3, Parts DEF PassOK
  <2>2. CASE q # p
    <3>1. stage[q] \notin Sweeping BY <1>3, <2>2, OneSweeper
    <3> QED BY <1>1, <3>1, Parts DEF PassOK, Sweeping
  <2> QED BY <2>1, <2>2
<1>9. \A m \in Memories : row'[m].stamp <= now' BY <1>1, Parts
<1> QED BY <1>6, <1>7, <1>8, <1>9 DEF Inv, PassInv

\* What the guarded delete takes from the hot database is in the cold one, unchanged and old.
LEMMA DeleteTakes ==
  ASSUME Inv, NEW p \in Procs, DeleteUnchanged(p), NEW m \in hotIds \ hotIds'
  PROVE  copy[m] = row[m] /\ row[m].status = "archived" /\ row[m].stamp <= now - Retention
<1>1. stage[p] = "copying" /\ left[p] = {} /\ m \in Unchanged(p) BY DEF DeleteUnchanged
<1>2. m \in Chosen(p) /\ row[m].status = "archived" /\ row[m].stamp = seen[p][m].stamp BY <1>1 DEF Unchanged
<1>3. copy[m] = seen[p][m] /\ row[m] = seen[p][m] /\ seen[p][m].stamp <= now - Retention
  BY <1>1, <1>2, Parts DEF PassOK
<1> QED BY <1>2, <1>3

\* The guarded delete takes nothing the cold database does not hold.
LEMMA DeleteKeeps ==
  ASSUME Inv, NEW p \in Procs, DeleteUnchanged(p)
  PROVE  Inv'
<1>1. /\ stage[p] = "copying" /\ Goes(p, "record") /\ Forget(p)
      /\ UNCHANGED <<now, lastRun, sweeper, row, copy>> /\ hotIds' \subseteq hotIds
  BY DEF DeleteUnchanged
<1>2. "copying" \in Sweeping /\ "record" \in Sweeping BY DEF Sweeping
<1>3. TypeOK' BY <1>1, <1>2, Parts, GoesType, ForgetType DEF TypeOK
<1>4. stage'[p] = "record" /\ \A q \in Procs \ {p} : stage'[q] = stage[q] BY <1>1, <1>2, Parts, GoesType
<1>5. began'[p] = 0 /\ \A q \in Procs \ {p} : began'[q] = began[q] BY <1>1, Parts, ForgetType
<1>6. NeverLost'
  <2>1. \A m \in Memories \ hotIds' : m \in Memories \ hotIds \/ m \in hotIds \ hotIds' OBVIOUS
  <2>2. \A m \in hotIds \ hotIds' : copy[m] = row[m] BY DeleteTakes
  <2> QED BY <1>1, <2>1, <2>2 DEF Inv, NeverLost
<1>7. ASSUME NEW q \in Procs PROVE began'[q] <= now' /\ PassOK(q)'
  <2>1. CASE q = p
    <3>1. began'[q] <= now' BY <1>1, <1>5, <2>1, Parts, ColdAssumption DEF Time
    <3> QED BY <1>1, <1>2, <1>4, <2>1, <3>1, Parts DEF PassOK
  <2>2. CASE q # p
    <3>1. stage[q] \notin Sweeping BY <1>1, <1>2, <2>2, OneSweeper
    <3> QED BY <1>1, <1>4, <1>5, <2>2, <3>1, Parts DEF PassOK, Sweeping
  <2> QED BY <2>1, <2>2
<1>8. \A m \in Memories : row'[m].stamp <= now' BY <1>1, Parts
<1> QED BY <1>3, <1>6, <1>7, <1>8 DEF Inv, PassInv

\* Time only makes what was selected older.
LEMMA TickKeeps ==
  ASSUME Inv, Tick
  PROVE  Inv'
<1>1. now' = now + 1 /\ now' \in Time /\ UNCHANGED <<lastRun, sweeper, stage, pass, hotIds, row, copy>>
  BY Parts, ColdAssumption DEF Tick, Time
<1>2. TypeOK' BY <1>1, Parts DEF TypeOK, pass
<1>3. NeverLost' BY <1>1 DEF Inv, NeverLost
<1>4. ASSUME NEW p \in Procs PROVE began'[p] <= now' /\ PassOK(p)'
  <2>1. began[p] \in Int /\ began[p] <= now BY Parts, ColdAssumption DEF Time
  <2>2. Chosen(p)' = Chosen(p) BY <1>1 DEF Chosen, pass
  <2>3. stage[p] = "copying" => \A m \in Chosen(p) : seen[p][m].stamp <= now' - Retention
    BY <1>1, Parts DEF PassOK
  <2> QED BY <1>1, <2>1, <2>2, <2>3, Parts DEF PassOK, pass
<1>5. \A m \in Memories : row'[m].stamp <= now' BY <1>1, Parts
<1> QED BY <1>2, <1>3, <1>4, <1>5 DEF Inv, PassInv

\* Every step keeps the invariant.
LEMMA Inductive == Inv /\ [Next]_vars => Inv'
<1> SUFFICES ASSUME Inv, [Next]_vars PROVE Inv' OBVIOUS
<1>1. CASE UNCHANGED vars
  BY <1>1 DEF vars, Inv, PassInv, TypeOK, NeverLost, PassOK, Chosen
<1>2. CASE Next
  BY <1>2, SweepKeeps, WritersKeep, AcknowledgeKeeps, DecayRowKeeps, CopyKeeps, DeleteKeeps, TickKeeps DEF Next
<1> QED BY <1>1, <1>2

\* No memory is lost between the two databases, whatever fails, crashes, is tried again or
\* is edited during a pass.
THEOREM NothingIsLost == Spec => []NeverLost
<1>1. Inv => NeverLost BY DEF Inv
<1> QED BY <1>1, Initially, Inductive, PTL DEF Spec

\* Sweeps are alone, and what a pass knows of the rows it moves stays true.
THEOREM PassesAreSound == Spec => []PassInv
<1>1. Inv => PassInv BY DEF Inv
<1> QED BY <1>1, Initially, Inductive, PTL DEF Spec

\* Only the guarded delete takes a row away.
LEMMA StepLeaves == Inv /\ [Next]_vars => [LeavesWhenOld]_vars
<1> SUFFICES ASSUME Inv, Next PROVE LeavesWhenOld BY DEF LeavesWhenOld
<1>1. ASSUME NEW p \in Procs, DeleteUnchanged(p) PROVE LeavesWhenOld BY <1>1, DeleteTakes DEF LeavesWhenOld
<1>2. CASE hotIds' = hotIds BY <1>2 DEF LeavesWhenOld
<1>3. (\E p \in Procs : DeleteUnchanged(p)) \/ hotIds' = hotIds
  BY DEF Next, Start, Enter, GiveUp, DecayRead, DecayRow, Decayed, ArchiveRows, Select, CopyBatch, OffloadFails,
         Record, Crash, Edit, Delete, Write, Acknowledge, Tick
<1> QED BY <1>1, <1>2, <1>3

\* A memory leaves the hot database only while it is archived and unwritten for the retention.
THEOREM OnlyTheOldLeave == Spec => OnlyOldLeave
<1>1. Inv /\ [Next]_vars => Inv' /\ [LeavesWhenOld]_vars BY Inductive, StepLeaves
<1> QED BY <1>1, Initially, PTL DEF Spec, OnlyOldLeave
=============================================================================
