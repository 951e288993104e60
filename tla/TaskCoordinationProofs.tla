------------------------ MODULE TaskCoordinationProofs ------------------------
(***************************************************************************)
(* Proofs about TaskCoordination: the invariant of the bodies and their    *)
(* snapshots, and from it that no interleaving of processes skips a start, *)
(* completes a task twice, or gets past the children gate.                 *)
(***************************************************************************)
EXTENDS TaskCoordination, SequenceTheorems, TLAPS

\* What a step of call c leaves to the other calls, and the ways it moves the lock.
Moves(c) ==
  /\ OthersIdle(c)
  /\ \A d \in Calls \ {c} : /\ stage'[d] = stage[d] /\ req'[d] = req[d]
                            /\ todo'[d] = todo[d] /\ seen'[d] = seen[d]
LockMoves(c) == holder' = holder \/ Take(c) \/ Leave(c)

\* What no step but a commit of the writer does to a row.
Harmless ==
  \A t \in Tasks : status[t] # "absent" =>
     /\ status'[t] # "absent"
     /\ status[t] # "completed" => status'[t] # "completed"
     /\ status[t] \notin Startable => status'[t] \notin Startable

LEMMA CallFacts ==
  ASSUME NEW c \in Calls
  PROVE  Home(c) \in Processes /\ c # None /\ Home(c) # None
BY CoordAssumption DEF Home

\* Somebody else's step does not disturb a call.
LEMMA Undisturbed ==
  ASSUME CoordInv, NEW d \in Calls,
         stage'[d] = stage[d], req'[d] = req[d], todo'[d] = todo[d], seen'[d] = seen[d],
         Writer(d) => LockedBy' = LockedBy,
         Harmless \/ ~(Writer(d) /\ stage[d] = "read")
  PROVE  CallOK(d)'
<1>1. CallOK(d) /\ (Writer(d)' <=> Writer(d))
  BY DEF CoordInv, BodiesOK, Writer
<1>2. CASE ~(Writer(d) /\ stage[d] = "read")
  BY <1>1, <1>2 DEF CallOK, Writer
<1>3. CASE Harmless
  <2>1. SnapshotOK(d) => SnapshotOK(d)'
    BY <1>3 DEF SnapshotOK, Targets, Harmless
  <2>. QED
    BY <1>1, <2>1 DEF CallOK, Writer
<1>. QED
  BY <1>2, <1>3

\* A step of one call: only its own part of the invariant is left to show.
LEMMA CallStep ==
  ASSUME CoordInv, NEW c \in Calls, Moves(c), LockMoves(c), Harmless \/ Writer(c),
         TypeOK', CallOK(c)'
  PROVE  CoordInv'
<1>1. OneBody'
  <2>1. \A d \in Calls \ {c} : Running(d)' <=> Running(d)
    BY DEF Moves, Running
  <2>. QED
    BY <2>1 DEF OneBody, Moves, OthersIdle, CoordInv, BodiesOK
<1>2. \A d \in Calls : CallOK(d)'
  <2>. SUFFICES ASSUME NEW d \in Calls \ {c}
                PROVE  CallOK(d)'
    OBVIOUS
  <2>1. CASE Writer(d)
    <3>1. LockedBy = Home(d) /\ Running(d) /\ Home(d) # Home(c)
      BY <2>1 DEF CoordInv, BodiesOK, CallOK, Writer, Running, Moves, OthersIdle
    <3>2. holder # None /\ holder # c /\ Home(holder) = Home(d)
      BY <3>1, CallFacts DEF LockedBy
    <3>3. LockedBy' = LockedBy
      BY <3>2 DEF LockMoves, Take, Leave, LockedBy
    <3>4. Harmless
      BY <2>1, <3>1 DEF CoordInv, BodiesOK, CallOK
    <3>. QED
      BY <3>3, <3>4, Undisturbed DEF Moves
  <2>2. CASE ~Writer(d)
    BY <2>2, Undisturbed DEF Moves
  <2>. QED
    BY <2>1, <2>2
<1>. QED
  BY <1>1, <1>2 DEF CoordInv, BodiesOK

\* A step that only changes rows, and harmlessly.
LEMMA RowStep ==
  ASSUME CoordInv, TypeOK', Harmless, UNCHANGED <<holder, stage, local>>
  PROVE  CoordInv'
<1>1. OneBody'
  BY DEF CoordInv, BodiesOK, OneBody, Running
<1>2. \A d \in Calls : CallOK(d)'
  BY Undisturbed DEF LockedBy, local
<1>. QED
  BY <1>1, <1>2 DEF CoordInv, BodiesOK

LEMMA StageType ==
  ASSUME TypeOK, NEW c \in Calls, NEW from, NEW to \in Stages, Goes(c, from, to)
  PROVE  stage' \in [Calls -> Stages] /\ stage'[c] = to /\ OthersIdle(c)
         /\ \A d \in Calls \ {c} : stage'[d] = stage[d]
BY DEF TypeOK, Goes

LEMMA SettledCall ==
  ASSUME NEW c \in Calls, stage'[c] \in Ended
  PROVE  CallOK(c)'
BY DEF CallOK, Writer, Ended

LEMMA RowsMayStay == UNCHANGED status => Harmless
BY DEF Harmless

\* Forget is well-typed.
LEMMA ForgetType ==
  ASSUME TypeOK, NEW cs, Forget(cs)
  PROVE  /\ req' \in [Calls -> Request] /\ todo' \in [Calls -> Seq(Tasks)]
         /\ seen' \in [Calls -> [Tasks -> Statuses \cup {"absent"}]]
         /\ owed' \in [Calls -> SUBSET Tasks]
         /\ \A d \in Calls : d \notin cs => /\ req'[d] = req[d] /\ todo'[d] = todo[d]
                                            /\ seen'[d] = seen[d] /\ owed'[d] = owed[d]
         /\ \A d \in Calls : owed'[d] \subseteq owed[d]
<1>1. NoRequest \in Request
  BY EmptySeq DEF NoRequest, Request
<1>2. Unseen \in [Tasks -> Statuses \cup {"absent"}]
  BY DEF Unseen
<1>3. <<>> \in Seq(Tasks)
  BY EmptySeq
<1>. QED
  BY <1>1, <1>2, <1>3 DEF TypeOK, Forget

LEMMA ReturnStep ==
  ASSUME CoordInv, NEW c \in Calls, NEW from, NEW to \in Ended, Returns(c, from, to), LockMoves(c),
         Harmless, holder' \in Calls \cup {None},
         status' \in [Tasks -> Statuses \cup {"absent"}], parent' \in [Tasks -> Tasks \cup {None}],
         claims' \in [Tasks -> SUBSET Agents], offered' \subseteq Tasks
  PROVE  CoordInv'
<1>1. to \in Stages /\ TypeOK
  BY DEF Ended, Stages, CoordInv
<1>2. /\ stage' \in [Calls -> Stages] /\ stage'[c] = to /\ OthersIdle(c)
      /\ \A d \in Calls \ {c} : stage'[d] = stage[d]
  BY <1>1, StageType DEF Returns
<1>3. /\ req' \in [Calls -> Request] /\ todo' \in [Calls -> Seq(Tasks)]
      /\ seen' \in [Calls -> [Tasks -> Statuses \cup {"absent"}]]
      /\ owed' \in [Calls -> SUBSET Tasks]
      /\ \A d \in Calls : d \notin {c} => /\ req'[d] = req[d] /\ todo'[d] = todo[d]
                                          /\ seen'[d] = seen[d] /\ owed'[d] = owed[d]
  BY <1>1, ForgetType DEF Returns
<1>4. TypeOK'
  BY <1>2, <1>3 DEF TypeOK
<1>5. Moves(c)
  BY <1>2, <1>3 DEF Moves
<1>. QED
  BY <1>2, <1>4, <1>5, CallStep, SettledCall

\* A step of call c inside its body: local variables of others stay, req stays.
LEMMA BodyStep ==
  ASSUME CoordInv, NEW c \in Calls, NEW from \in Stages \ (Ended \cup {"idle"}), NEW to \in Stages,
         Goes(c, from, to), LockMoves(c), Harmless \/ Writer(c), UNCHANGED req,
         \A d \in Calls \ {c} : todo'[d] = todo[d] /\ seen'[d] = seen[d],
         holder' \in Calls \cup {None},
         todo' \in [Calls -> Seq(Tasks)], seen' \in [Calls -> [Tasks -> Statuses \cup {"absent"}]],
         owed' \in [Calls -> SUBSET Tasks],
         status' \in [Tasks -> Statuses \cup {"absent"}], parent' \in [Tasks -> Tasks \cup {None}],
         claims' \in [Tasks -> SUBSET Agents], offered' \subseteq Tasks,
         to = "asking" => req[c].kind = "interactive",
         Writer(c)' => LockedBy' = Home(c),
         Writer(c)' /\ to = "read" => SnapshotOK(c)'
  PROVE  CoordInv'
<1>. TypeOK
  BY DEF CoordInv
<1>1. /\ stage' \in [Calls -> Stages] /\ stage'[c] = to /\ OthersIdle(c)
      /\ \A d \in Calls \ {c} : stage'[d] = stage[d]
  BY StageType
<1>2. TypeOK'
  BY <1>1 DEF TypeOK
<1>3. Moves(c)
  BY <1>1 DEF Moves
<1>4. req[c] \in Asked[c]
  BY DEF CoordInv, BodiesOK, CallOK, Goes
<1>5. CallOK(c)'
  BY <1>1, <1>4 DEF CallOK
<1>. QED
  BY <1>2, <1>3, <1>5, CallStep

-----------------------------------------------------------------------------
(* The initial states *)

LEMMA InitInv == Init => CoordInv
<1>. SUFFICES ASSUME Init PROVE CoordInv
  OBVIOUS
<1>1. NoRequest \in Request
  BY EmptySeq DEF NoRequest, Request
<1>2. Unseen \in [Tasks -> Statuses \cup {"absent"}]
  BY DEF Unseen
<1>3. TypeOK
  BY <1>1, <1>2, EmptySeq, CoordAssumption DEF Init, TypeOK, Stages
<1>4. BodiesOK
  BY DEF Init, BodiesOK, OneBody, CallOK, Running, Writer
<1>. QED
  BY <1>3, <1>4 DEF CoordInv

-----------------------------------------------------------------------------
(* The lock, the user, the end of a call *)

LEMMA AskInv == ASSUME CoordInv, NEW c \in Calls, Ask(c) PROVE CoordInv'
<1>. TypeOK
  BY DEF CoordInv
<1>1. PICK r \in Asked[c] : req' = [req EXCEPT ![c] = r]
  BY DEF Ask
<1>2. r \in Request
  BY CoordAssumption
<1>3. Goes(c, "idle", "waiting") /\ UNCHANGED <<rows, holder, todo, seen, owed>>
  BY DEF Ask
<1>4. /\ stage' \in [Calls -> Stages] /\ stage'[c] = "waiting" /\ OthersIdle(c)
      /\ \A d \in Calls \ {c} : stage'[d] = stage[d]
  BY <1>3, StageType DEF Stages
<1>5. TypeOK'
  BY <1>1, <1>2, <1>3, <1>4 DEF TypeOK, rows
<1>6. Moves(c) /\ LockMoves(c) /\ Harmless
  BY <1>1, <1>3, <1>4, RowsMayStay DEF Moves, LockMoves, rows, TypeOK
<1>7. CallOK(c)'
  BY <1>1, <1>4 DEF CallOK, Writer, TypeOK
<1>. QED
  BY <1>5, <1>6, <1>7, CallStep

LEMMA GiveUpInv == ASSUME CoordInv, NEW c \in Calls, GiveUp(c) PROVE CoordInv'
BY ReturnStep, RowsMayStay DEF GiveUp, rows, Ended, LockMoves, CoordInv, TypeOK

LEMMA LeaveType == ASSUME CoordInv, NEW c \in Calls, Leave(c) PROVE LockMoves(c) /\ holder' \in Calls \cup {None}
BY DEF Leave, LockMoves, CoordInv, TypeOK

LEMMA DeclineInv == ASSUME CoordInv, NEW c \in Calls, Decline(c) PROVE CoordInv'
BY ReturnStep, RowsMayStay, LeaveType DEF Decline, rows, Ended, CoordInv, TypeOK

LEMMA FinishInv == ASSUME CoordInv, NEW c \in Calls, Finish(c) PROVE CoordInv'
BY ReturnStep, RowsMayStay, LeaveType DEF Finish, rows, Ended, CoordInv, TypeOK

LEMMA BeginInv == ASSUME CoordInv, NEW c \in Calls, Begin(c) PROVE CoordInv'
<1>. TypeOK
  BY DEF CoordInv
<1>. DEFINE to == IF req[c].kind = "interactive" THEN "asking" ELSE "open"
<1>1. /\ Goes(c, "waiting", to) /\ MayEnter(c) /\ Take(c)
      /\ todo' = [todo EXCEPT ![c] = req[c].ids] /\ UNCHANGED <<rows, req, seen, owed>>
  BY DEF Begin
<1>2. to \in Stages /\ to # "read" /\ (to = "asking" => req[c].kind = "interactive") /\ "waiting" \in Stages \ (Ended \cup {"idle"})
  BY DEF Stages, Ended
<1>3. req[c].ids \in Seq(Tasks)
  BY DEF TypeOK, Request
<1>4. LockedBy' = Home(c) /\ holder' \in Calls \cup {None} /\ LockMoves(c)
  BY <1>1, CallFacts DEF MayEnter, Take, LockedBy, LockMoves, TypeOK
<1>5. Harmless
  BY <1>1, RowsMayStay DEF rows
<1>. HIDE DEF to
<1>. QED
  BY <1>1, <1>2, <1>3, <1>4, <1>5, BodyStep DEF rows, TypeOK

LEMMA AnswerInv == ASSUME CoordInv, NEW c \in Calls, Answer(c) PROVE CoordInv'
<1>. TypeOK
  BY DEF CoordInv
<1>1. Goes(c, "asking", "open") /\ UNCHANGED <<rows, holder, local>>
  BY DEF Answer
<1>2. "asking" \in Stages \ (Ended \cup {"idle"}) /\ "open" \in Stages
  BY DEF Stages, Ended
<1>3. Harmless
  BY <1>1, RowsMayStay DEF rows
<1>4. req[c].kind = "interactive"
  BY <1>1 DEF CoordInv, BodiesOK, CallOK, Goes
<1>. QED
  BY <1>1, <1>2, <1>3, <1>4, BodyStep DEF rows, local, LockMoves, TypeOK, Writer

-----------------------------------------------------------------------------
(* task-write *)

LEMMA RowsType == ASSUME TypeOK, NEW ids PROVE Rows(ids) \in [Tasks -> Statuses \cup {"absent"}]
BY DEF Rows, TypeOK

\* A fresh snapshot is what the rows are.
LEMMA Fresh ==
  ASSUME NEW c \in Calls, NEW ids, seen'[c] = Rows(ids), status' = status,
         Targets(c)' \subseteq Range(ids) \cap Tasks,
         \A t \in Targets(c)' : Exists(t) /\ (req'[c].kind = "items" => MayBecome(status[t], req'[c].to))
  PROVE  SnapshotOK(c)'
BY DEF SnapshotOK, Rows, Exists

LEMMA BodyStages ==
  /\ {"open", "read", "claimed"} \subseteq Stages \ (Ended \cup {"idle"})
  /\ {"open", "read", "claimed", "archiving", "done"} \subseteq Stages
  /\ "done" \in Ended
BY DEF Stages, Ended

\* The process of a writer has the lock, and keeps it while holder stays.
LEMMA KeepsLock == ASSUME CoordInv, NEW c \in Calls, Writer(c), UNCHANGED holder PROVE LockedBy' = Home(c)
BY DEF CoordInv, BodiesOK, CallOK, LockedBy

LEMMA TargetsOfRequest ==
  ASSUME TypeOK, NEW c \in Calls
  PROVE  /\ req[c].ids \in Seq(Tasks) /\ Range(req[c].ids) \subseteq Tasks
         /\ todo[c] # <<>> => Head(todo[c]) \in Tasks /\ Tail(todo[c]) \in Seq(Tasks)
         /\ req[c].parent \in Tasks \cup {None, Keep} /\ req[c].to \in Statuses \cup {Keep}
BY HeadTailProperties, ElementOfSeq DEF TypeOK, Request, Range

LEMMA ReadRowsInv == ASSUME CoordInv, NEW c \in Calls, ReadRows(c) PROVE CoordInv'
<1>. TypeOK
  BY DEF CoordInv
<1>0. req[c].kind = "update" /\ UNCHANGED <<rows, holder, req, todo, owed>> /\ stage[c] = "open"
  BY DEF ReadRows, Goes
<1>1. Writer(c) /\ Harmless /\ LockMoves(c) /\ LockedBy' = Home(c)
  BY <1>0, RowsMayStay, KeepsLock DEF Writer, rows, LockMoves
<1>2. CASE /\ Goes(c, "open", "read") /\ \A t \in Range(req[c].ids) : Exists(t)
           /\ seen' = [seen EXCEPT ![c] = Rows(req[c].ids)]
  <2>1. seen' \in [Calls -> [Tasks -> Statuses \cup {"absent"}]] /\ seen'[c] = Rows(req[c].ids)
        /\ \A d \in Calls \ {c} : seen'[d] = seen[d]
    BY <1>2, RowsType DEF TypeOK
  <2>2. Targets(c)' = Range(req[c].ids)
    BY <1>0 DEF Targets
  <2>3. SnapshotOK(c)'
    BY <1>0, <1>2, <2>1, <2>2, Fresh, TargetsOfRequest DEF rows
  <2>. QED
    BY <1>0, <1>1, <1>2, <2>1, <2>3, BodyStep, BodyStages DEF rows, TypeOK
<1>3. CASE Goes(c, "open", "archiving") /\ UNCHANGED seen
  BY <1>0, <1>1, <1>3, BodyStep, BodyStages DEF rows, TypeOK
<1>. QED
  BY <1>2, <1>3 DEF ReadRows

LEMMA WriteType ==
  ASSUME TypeOK, NEW ts, NEW to \in Statuses \cup {Keep}, NEW under \in Tasks \cup {None, Keep},
         Write(ts, to, under)
  PROVE  status' \in [Tasks -> Statuses \cup {"absent"}] /\ parent' \in [Tasks -> Tasks \cup {None}]
BY DEF Write, TypeOK

LEMMA CloseType ==
  ASSUME TypeOK, NEW ts, Close(ts)
  PROVE  claims' \in [Tasks -> SUBSET Agents] /\ offered' \subseteq Tasks
BY DEF Close, TypeOK

LEMMA CommitInv == ASSUME CoordInv, NEW c \in Calls, Commit(c) PROVE CoordInv'
<1>. TypeOK
  BY DEF CoordInv
<1>. DEFINE ts == Range(req[c].ids)
<1>1. /\ req[c].kind = "update" /\ Goes(c, "read", "archiving") /\ UNCHANGED <<holder, req, todo, seen>>
      /\ Write(ts, req[c].to, req[c].parent)
      /\ Close({t \in ts : Changes(c, t) /\ req[c].to \in Finished})
      /\ owed' = [owed EXCEPT ![c] = {t \in ts : Changes(c, t) /\ req[c].to = "completed"}]
  BY DEF Commit
<1>2. Writer(c) /\ LockMoves(c) /\ LockedBy' = Home(c)
  BY <1>1, KeepsLock DEF Writer, LockMoves, Goes
<1>3. ts \subseteq Tasks /\ req[c].parent \in Tasks \cup {None, Keep} /\ req[c].to \in Statuses \cup {Keep}
  BY TargetsOfRequest
<1>4. owed' \in [Calls -> SUBSET Tasks]
  BY <1>1, <1>3 DEF TypeOK
<1>5. /\ status' \in [Tasks -> Statuses \cup {"absent"}] /\ parent' \in [Tasks -> Tasks \cup {None}]
      /\ claims' \in [Tasks -> SUBSET Agents] /\ offered' \subseteq Tasks
  BY <1>1, <1>3, WriteType, CloseType
<1>. QED
  BY <1>1, <1>2, <1>4, <1>5, BodyStep, BodyStages DEF TypeOK

LEMMA RollbackInv == ASSUME CoordInv, NEW c \in Calls, Rollback(c) PROVE CoordInv'
<1>1. /\ Goes(c, "read", "archiving") /\ UNCHANGED <<rows, holder, local>> /\ req[c].kind = "update"
  BY DEF Rollback
<1>2. Writer(c) /\ LockedBy' = Home(c) /\ Harmless /\ LockMoves(c)
  BY <1>1, KeepsLock, RowsMayStay DEF Writer, Goes, rows, LockMoves
<1>. QED
  BY <1>1, <1>2, BodyStep, BodyStages DEF rows, local, TypeOK, CoordInv

LEMMA ReadItemInv == ASSUME CoordInv, NEW c \in Calls, ReadItem(c) PROVE CoordInv'
<1>. TypeOK
  BY DEF CoordInv
<1>0. req[c].kind = "items" /\ todo[c] # <<>> /\ UNCHANGED <<rows, holder, req, owed>> /\ stage[c] = "open"
  BY DEF ReadItem, Goes
<1>1. Writer(c) /\ Harmless /\ LockMoves(c) /\ LockedBy' = Home(c)
  BY <1>0, RowsMayStay, KeepsLock DEF Writer, rows, LockMoves
<1>. DEFINE h == Head(todo[c])
<1>2. CASE /\ Goes(c, "open", "read") /\ ItemAccepted(c, h)
           /\ seen' = [seen EXCEPT ![c] = Rows(<<h>>)] /\ UNCHANGED todo
  <2>1. seen' \in [Calls -> [Tasks -> Statuses \cup {"absent"}]] /\ seen'[c] = Rows(<<h>>)
        /\ \A d \in Calls \ {c} : seen'[d] = seen[d]
    BY <1>2, RowsType DEF TypeOK
  <2>2. Targets(c)' = {h}
    BY <1>0, <1>2 DEF Targets
  <2>3. h \in Range(<<h>>) \cap Tasks /\ Exists(h)
    BY <1>0, <1>2, TargetsOfRequest DEF Range, ItemAccepted
  <2>5. MayBecome(status[h], req[c].to)
    <3>1. CASE req[c].to \in {Keep, status[h]}
      BY <3>1, CoordAssumption DEF MayBecome, Statuses, Startable, Finished
    <3>2. CASE req[c].to \notin {Keep, status[h]}
      BY <1>2, <3>2 DEF ItemAccepted
    <3>. QED
      BY <3>1, <3>2
  <2>4. SnapshotOK(c)'
    BY <1>0, <2>1, <2>2, <2>3, <2>5, Fresh DEF rows
  <2>. QED
    BY <1>0, <1>1, <1>2, <2>1, <2>4, BodyStep, BodyStages DEF rows, TypeOK
<1>3. CASE /\ Goes(c, "open", "open") /\ todo' = [todo EXCEPT ![c] = Tail(@)] /\ UNCHANGED seen
  <2>1. todo' \in [Calls -> Seq(Tasks)] /\ \A d \in Calls \ {c} : todo'[d] = todo[d]
    BY <1>0, <1>3, TargetsOfRequest DEF TypeOK
  <2>. QED
    BY <1>0, <1>1, <1>3, <2>1, BodyStep, BodyStages DEF rows, TypeOK
<1>. QED
  BY <1>2, <1>3 DEF ReadItem

LEMMA CommitItemInv == ASSUME CoordInv, NEW c \in Calls, CommitItem(c) PROVE CoordInv'
<1>. TypeOK
  BY DEF CoordInv
<1>. DEFINE h == Head(todo[c])
<1>1. /\ req[c].kind = "items" /\ todo[c] # <<>> /\ Goes(c, "read", "open") /\ UNCHANGED <<holder, req, seen>>
      /\ Write({h}, req[c].to, req[c].parent)
      /\ Close({u \in {h} : req[c].to \in Finished})
      /\ owed' = [owed EXCEPT ![c] = @ \cup {u \in {h} : Changes(c, h) /\ req[c].to = "completed"}]
      /\ todo' = [todo EXCEPT ![c] = Tail(@)]
  BY DEF CommitItem
<1>2. Writer(c) /\ LockMoves(c) /\ LockedBy' = Home(c)
  BY <1>1, KeepsLock DEF Writer, LockMoves, Goes
<1>3. h \in Tasks /\ req[c].parent \in Tasks \cup {None, Keep} /\ req[c].to \in Statuses \cup {Keep}
  BY <1>1, TargetsOfRequest
<1>4. owed' \in [Calls -> SUBSET Tasks] /\ todo' \in [Calls -> Seq(Tasks)]
      /\ \A d \in Calls \ {c} : todo'[d] = todo[d]
  BY <1>1, <1>3, TargetsOfRequest DEF TypeOK
<1>5. /\ status' \in [Tasks -> Statuses \cup {"absent"}] /\ parent' \in [Tasks -> Tasks \cup {None}]
      /\ claims' \in [Tasks -> SUBSET Agents] /\ offered' \subseteq Tasks
  BY <1>1, <1>3, WriteType, CloseType
<1>. QED
  BY <1>1, <1>2, <1>4, <1>5, BodyStep, BodyStages DEF TypeOK

LEMMA FlushItemsInv == ASSUME CoordInv, NEW c \in Calls, FlushItems(c) PROVE CoordInv'
<1>1. /\ Goes(c, "open", "archiving") /\ UNCHANGED <<rows, holder, local>> /\ req[c].kind = "items"
  BY DEF FlushItems
<1>2. Writer(c) /\ LockedBy' = Home(c) /\ Harmless /\ LockMoves(c)
  BY <1>1, KeepsLock, RowsMayStay DEF Writer, Goes, rows, LockMoves
<1>. QED
  BY <1>1, <1>2, BodyStep, BodyStages DEF rows, local, TypeOK, CoordInv

-----------------------------------------------------------------------------
(* Creation, claims *)

LEMMA InsertRows ==
  ASSUME TypeOK, NEW t \in Tasks, NEW first \in Statuses, NEW under \in Tasks \cup {None}, Insert(t, first, under)
  PROVE  /\ Harmless
         /\ status' \in [Tasks -> Statuses \cup {"absent"}] /\ parent' \in [Tasks -> Tasks \cup {None}]
         /\ claims' \in [Tasks -> SUBSET Agents] /\ offered' \subseteq Tasks
BY DEF Insert, TypeOK, Harmless, Exists

LEMMA CreateInv == ASSUME CoordInv, NEW c \in Calls, Create(c) PROVE CoordInv'
<1>. TypeOK
  BY DEF CoordInv
<1>1. /\ req[c].kind \in {"create", "interactive"} /\ Goes(c, "open", "archiving") /\ UNCHANGED <<holder, local>>
  BY DEF Create
<1>2. req[c].to \in Statuses /\ req[c].parent \in Tasks \cup {None, Keep}
  <2>1. req[c] \in Asked[c]
    BY <1>1 DEF CoordInv, BodiesOK, CallOK, Goes, Ended
  <2>. QED
    BY <1>1, <2>1, CoordAssumption, TargetsOfRequest DEF Statuses, Startable
<1>3. /\ Harmless
      /\ status' \in [Tasks -> Statuses \cup {"absent"}] /\ parent' \in [Tasks -> Tasks \cup {None}]
      /\ claims' \in [Tasks -> SUBSET Agents] /\ offered' \subseteq Tasks
  <2>1. CASE UNCHANGED rows
    BY <2>1, RowsMayStay DEF rows, TypeOK
  <2>2. CASE \E t \in Tasks : Insert(t, req[c].to, IF req[c].parent = Keep THEN None ELSE req[c].parent)
    BY <1>2, <2>2, InsertRows
  <2>. QED
    BY <2>1, <2>2 DEF Create
<1>4. LockMoves(c) /\ ~Writer(c)'
  BY <1>1 DEF LockMoves, Writer, local
<1>. QED
  BY <1>1, <1>3, <1>4, BodyStep, BodyStages DEF local, TypeOK

LEMMA ClaimedTask ==
  ASSUME CoordInv, NEW c \in Calls, req[c].kind = "claim", stage[c] \notin Ended \cup {"idle"}
  PROVE  Head(req[c].ids) \in Tasks /\ req[c].agent \in Agents
<1>1. req[c] \in Asked[c] /\ req[c].ids \in Seq(Tasks)
  BY DEF CoordInv, BodiesOK, CallOK, TypeOK, Request
<1>2. req[c].ids # <<>> /\ req[c].agent \in Agents
  BY <1>1, CoordAssumption
<1>. QED
  BY <1>1, <1>2, HeadTailProperties

LEMMA ReadForClaimInv == ASSUME CoordInv, NEW c \in Calls, ReadForClaim(c) PROVE CoordInv'
<1>. TypeOK
  BY DEF CoordInv
<1>1. req[c].kind = "claim" /\ UNCHANGED <<rows, holder>> /\ Harmless /\ LockMoves(c)
  BY RowsMayStay DEF ReadForClaim, rows, LockMoves
<1>2. CASE /\ Goes(c, "waiting", "read") /\ seen' = [seen EXCEPT ![c] = Rows(req[c].ids)]
           /\ UNCHANGED <<req, todo, owed>>
  <2>1. seen' \in [Calls -> [Tasks -> Statuses \cup {"absent"}]] /\ \A d \in Calls \ {c} : seen'[d] = seen[d]
    BY <1>2, RowsType DEF TypeOK
  <2>2. "waiting" \in Stages \ (Ended \cup {"idle"}) /\ ~Writer(c)'
    BY <1>1, <1>2 DEF Stages, Ended, Writer
  <2>. QED
    BY <1>1, <1>2, <2>1, <2>2, BodyStep, BodyStages DEF rows, TypeOK
<1>3. CASE Returns(c, "waiting", "done")
  BY <1>1, <1>3, ReturnStep, BodyStages DEF rows, TypeOK
<1>. QED
  BY <1>2, <1>3 DEF ReadForClaim

LEMMA ClaimInv == ASSUME CoordInv, NEW c \in Calls, Claim(c) PROVE CoordInv'
<1>. TypeOK
  BY DEF CoordInv
<1>. DEFINE h == Head(req[c].ids)
<1>1. /\ req[c].kind = "claim" /\ NextOfClaim(c) /\ claims' = [claims EXCEPT ![h] = {req[c].agent}]
      /\ UNCHANGED <<status, parent, offered, holder>> /\ Harmless /\ LockMoves(c)
  BY RowsMayStay DEF Claim, LockMoves
<1>2. stage[c] = "read"
  BY <1>1 DEF NextOfClaim, Returns, Goes
<1>3. claims' \in [Tasks -> SUBSET Agents]
  BY <1>1, <1>2, ClaimedTask, BodyStages DEF TypeOK
<1>4. CASE Returns(c, "read", "done")
  BY <1>1, <1>3, <1>4, ReturnStep, BodyStages DEF TypeOK
<1>5. CASE Goes(c, "read", "claimed") /\ UNCHANGED local
  <2>1. ~Writer(c)'
    BY <1>1, <1>5 DEF Writer, local
  <2>. QED
    BY <1>1, <1>3, <1>5, <2>1, BodyStep, BodyStages DEF local, TypeOK
<1>. QED
  BY <1>1, <1>4, <1>5 DEF NextOfClaim

LEMMA PromoteInv == ASSUME CoordInv, NEW c \in Calls, Promote(c) PROVE CoordInv'
<1>. TypeOK
  BY DEF CoordInv
<1>1. /\ req[c].kind = "claim" /\ Returns(c, "claimed", "done") /\ stage[c] = "claimed"
      /\ status' = [status EXCEPT ![Head(req[c].ids)] = "in_progress"]
      /\ UNCHANGED <<parent, claims, offered, holder>> /\ LockMoves(c)
  BY DEF Promote, LockMoves, Returns, Goes
<1>2. status' \in [Tasks -> Statuses \cup {"absent"}] /\ Harmless
  BY <1>1, ClaimedTask, BodyStages DEF TypeOK, Statuses, Startable, Harmless
<1>. QED
  BY <1>1, <1>2, ReturnStep, BodyStages DEF TypeOK

-----------------------------------------------------------------------------
(* What takes no lock *)

LEMMA UnlockedInv == ASSUME CoordInv, Unlocked PROVE CoordInv'
<1>. TypeOK
  BY DEF CoordInv
<1>. PICK t \in Tasks : DashboardCreate(t) \/ ReleaseClaim(t) \/ Delete(t) \/ CreateHandoff(t) \/ UpdateHandoff(t)
  BY DEF Unlocked
<1>1. CASE DashboardCreate(t)
  <2>1. PICK first \in Statuses, under \in Tasks \cup {None} : Insert(t, first, under)
    BY <1>1, CoordAssumption DEF DashboardCreate
  <2>2. UNCHANGED <<holder, stage, local>>
    BY <1>1 DEF DashboardCreate
  <2>3. TypeOK' /\ Harmless
    BY <2>1, <2>2, InsertRows DEF TypeOK, local
  <2>. QED
    BY <2>2, <2>3, RowStep
<1>2. CASE ReleaseClaim(t)
  <2>1. TypeOK' /\ Harmless /\ UNCHANGED <<holder, stage, local>>
    BY <1>2, RowsMayStay DEF ReleaseClaim, TypeOK, local
  <2>. QED
    BY <2>1, RowStep
<1>3. CASE Delete(t)
  <2>1. UNCHANGED <<holder, stage, local>> /\ Harmless /\ status' \in [Tasks -> Statuses \cup {"absent"}]
    BY <1>3 DEF Delete, TypeOK, Harmless, Statuses, Startable, Finished
  <2>2. parent' \in [Tasks -> Tasks \cup {None}] /\ claims' \in [Tasks -> SUBSET Agents] /\ offered' \subseteq Tasks
    BY <1>3, CloseType DEF Delete, TypeOK
  <2>3. TypeOK'
    BY <2>1, <2>2 DEF TypeOK, local
  <2>. QED
    BY <2>1, <2>3, RowStep
<1>4. CASE CreateHandoff(t)
  <2>1. TypeOK' /\ Harmless /\ UNCHANGED <<holder, stage, local>>
    BY <1>4, RowsMayStay DEF CreateHandoff, TypeOK, local
  <2>. QED
    BY <2>1, RowStep
<1>5. CASE UpdateHandoff(t)
  <2>1. TypeOK' /\ Harmless /\ UNCHANGED <<holder, stage, local>>
    BY <1>5, RowsMayStay DEF UpdateHandoff, TypeOK, local
  <2>. QED
    BY <2>1, RowStep
<1>. QED
  BY <1>1, <1>2, <1>3, <1>4, <1>5

LEMMA CrashInv == ASSUME CoordInv, NEW p \in Processes, Crash(p) PROVE CoordInv'
<1>. TypeOK
  BY DEF CoordInv
<1>. DEFINE lost == {c \in Calls : Home(c) = p /\ stage[c] \notin Ended \cup {"idle"}}
<1>1. /\ stage' = [c \in Calls |-> IF c \in lost THEN "lost" ELSE stage[c]] /\ Forget(lost)
      /\ holder' = (IF LockedBy = p THEN None ELSE holder)
      /\ UNCHANGED rows
  BY DEF Crash
<1>2. TypeOK'
  <2>1. stage' \in [Calls -> Stages] /\ holder' \in Calls \cup {None}
    BY <1>1 DEF TypeOK, Stages
  <2>. HIDE DEF lost
  <2>. QED
    BY <1>1, <2>1, ForgetType DEF TypeOK, rows
<1>3. OneBody'
  BY <1>1 DEF CoordInv, BodiesOK, OneBody, Running
<1>4. \A d \in Calls : CallOK(d)'
  <2>. SUFFICES ASSUME NEW d \in Calls
                PROVE  CallOK(d)'
    OBVIOUS
  <2>1. CASE d \in lost
    BY <1>1, <2>1, SettledCall DEF Ended
  <2>2. CASE d \notin lost
    <3>. HIDE DEF lost
    <3>1. stage'[d] = stage[d] /\ req'[d] = req[d] /\ todo'[d] = todo[d] /\ seen'[d] = seen[d]
      BY <1>1, <2>2, ForgetType
    <3>. USE DEF lost
    <3>2. Writer(d) => Home(d) # p
      BY <2>2 DEF Writer, Ended
    <3>3. Writer(d) => LockedBy' = LockedBy
      BY <1>1, <3>2 DEF CoordInv, BodiesOK, CallOK, LockedBy
    <3>. QED
      BY <1>1, <3>1, <3>3, Undisturbed, RowsMayStay DEF rows
  <2>. QED
    BY <2>1, <2>2
<1>. QED
  BY <1>2, <1>3, <1>4 DEF CoordInv, BodiesOK

LEMMA ProceedInv == ASSUME CoordInv, NEW c \in Calls, Proceed(c) \/ User(c) PROVE CoordInv'
BY AskInv, AnswerInv, DeclineInv, BeginInv, GiveUpInv, ReadRowsInv, CommitInv, RollbackInv, ReadItemInv,
   CommitItemInv, FlushItemsInv, CreateInv, ReadForClaimInv, ClaimInv, PromoteInv, FinishInv
   DEF Proceed, User, Update, BulkItems, ClaimTask

LEMMA StutterInv == ASSUME CoordInv, UNCHANGED vars PROVE CoordInv'
<1>1. TypeOK' /\ Harmless
  BY RowsMayStay DEF vars, CoordInv, TypeOK
<1>. QED
  BY <1>1, RowStep DEF vars, local

\* The snapshots of the bodies can be trusted, for any number of tasks, processes and calls,
\* whatever the claims, deletions, handoffs and the dashboard do meanwhile, crashes included.
THEOREM BodiesAreSound == Spec => []CoordInv
<1>1. CoordInv /\ [Next]_vars => CoordInv'
  BY ProceedInv, UnlockedInv, CrashInv, StutterInv DEF Next
<1>. QED
  BY <1>1, InitInv, PTL DEF Spec

-----------------------------------------------------------------------------
(* What the invariant is for *)

\* Which steps touch statuses, and how.
LEMMA StatusSteps ==
  ASSUME CoordInv, [Next]_vars
  PROVE  \/ \E c \in Calls : Commit(c) \/ CommitItem(c)
         \/ Harmless
<1>1. CASE UNCHANGED vars
  BY <1>1, RowsMayStay DEF vars
<1>2. CASE Unlocked
  <2>. PICK t \in Tasks : DashboardCreate(t) \/ ReleaseClaim(t) \/ Delete(t) \/ CreateHandoff(t) \/ UpdateHandoff(t)
    BY <1>2 DEF Unlocked
  <2>1. CASE DashboardCreate(t)
    BY <2>1, InsertRows, CoordAssumption DEF DashboardCreate, CoordInv
  <2>2. CASE Delete(t)
    BY <2>2 DEF Delete, CoordInv, TypeOK, Harmless, Startable
  <2>. QED
    BY <2>1, <2>2, RowsMayStay DEF ReleaseClaim, CreateHandoff, UpdateHandoff
<1>3. CASE \E p \in Processes : Crash(p)
  BY <1>3, RowsMayStay DEF Crash, rows
<1>4. ASSUME NEW c \in Calls, Proceed(c) \/ User(c)
      PROVE  Commit(c) \/ CommitItem(c) \/ Harmless
  <2>1. CASE Promote(c)
    <3>1. req[c].kind = "claim" /\ stage[c] = "claimed" /\ status' = [status EXCEPT ![Head(req[c].ids)] = "in_progress"]
      BY <2>1 DEF Promote, Returns, Goes
    <3>. QED
      BY <3>1 DEF CoordInv, TypeOK, Harmless, Startable
  <2>2. CASE Create(c)
    <3>1. CASE UNCHANGED rows
      BY <3>1, RowsMayStay DEF rows
    <3>3. req[c].to \in {"backlog", "pending"}
      <4>1. req[c].kind \in {"create", "interactive"} /\ req[c] \in Asked[c]
        BY <2>2 DEF Create, CoordInv, BodiesOK, CallOK, Goes, Ended
      <4>. QED
        BY <4>1, CoordAssumption
    <3>4. CASE \E t \in Tasks : Insert(t, req[c].to, IF req[c].parent = Keep THEN None ELSE req[c].parent)
      BY <3>3, <3>4 DEF Insert, Exists, CoordInv, TypeOK, Harmless
    <3>. QED
      BY <2>2, <3>1, <3>4 DEF Create
  <2>3. CASE Begin(c) \/ GiveUp(c) \/ ReadRows(c) \/ Rollback(c) \/ ReadItem(c) \/ FlushItems(c)
             \/ ReadForClaim(c) \/ Claim(c) \/ Finish(c) \/ User(c)
    <3>1. UNCHANGED status
      BY <2>3 DEF Begin, GiveUp, ReadRows, Rollback, ReadItem, FlushItems, ReadForClaim, Claim, Finish,
                  User, Ask, Answer, Decline, rows
    <3>. QED
      BY <3>1, RowsMayStay
  <2>. QED
    BY <1>4, <2>1, <2>2, <2>3 DEF Proceed, Update, BulkItems, ClaimTask
<1>. QED
  BY <1>1, <1>2, <1>3, <1>4 DEF Next

\* The writer's own snapshot, at its commit.
LEMMA AtCommit ==
  ASSUME CoordInv, NEW c \in Calls, Commit(c) \/ CommitItem(c), NEW t \in Targets(c)
  PROVE  /\ t \in Tasks
         /\ seen[c][t] # "completed" => status[t] # "completed"
         /\ req[c].to = "completed" => status[t] \notin Startable
<1>1. stage[c] = "read" /\ Writer(c) /\ (req[c].kind = "items" => todo[c] # <<>>)
  BY DEF Commit, CommitItem, Goes, Writer
<1>2. SnapshotOK(c)
  BY <1>1 DEF CoordInv, BodiesOK, CallOK
<1>3. t \in Tasks
  BY <1>1, TargetsOfRequest DEF Targets, CoordInv
<1>4. seen[c][t] # "absent" /\ (seen[c][t] # "completed" => status[t] # "completed")
      /\ (seen[c][t] \notin Startable => status[t] \notin Startable)
  BY <1>2, <1>3 DEF SnapshotOK
<1>5. ASSUME req[c].to = "completed" PROVE seen[c][t] \notin Startable
  <2>1. CASE req[c].kind = "items"
    BY <1>2, <1>5, <2>1 DEF SnapshotOK, MayBecome
  <2>2. CASE req[c].kind # "items"
    <3>1. PICK i \in DOMAIN req[c].ids : t = req[c].ids[i]
      BY <2>2 DEF Targets, Range
    <3>2. Accepted(c)
      BY <2>2 DEF Commit, CommitItem
    <3>. QED
      BY <1>5, <3>1, <3>2, CoordAssumption DEF Accepted, Changes, MayBecome, Startable, Statuses, Finished
  <2>. QED
    BY <2>1, <2>2
<1>. QED
  BY <1>3, <1>4, <1>5

\* Rows outside the targets keep their status.
LEMMA OnlyTargets ==
  ASSUME CoordInv, NEW c \in Calls, Commit(c) \/ CommitItem(c), NEW t \in Tasks
  PROVE  status'[t] = IF t \in Targets(c) /\ req[c].to # Keep THEN req[c].to ELSE status[t]
<1>1. CASE Commit(c)
  BY <1>1 DEF Commit, Write, Targets
<1>2. CASE CommitItem(c)
  BY <1>2 DEF CommitItem, Write, Targets
<1>. QED
  BY <1>1, <1>2

LEMMA StartStep == ASSUME CoordInv, [Next]_vars, NEW t \in Tasks, status[t] \in Startable PROVE status'[t] # "completed"
<1>1. CASE Harmless
  BY <1>1 DEF Harmless, Startable
<1>2. ASSUME NEW c \in Calls, Commit(c) \/ CommitItem(c)
      PROVE  status'[t] # "completed"
  BY <1>2, AtCommit, OnlyTargets DEF Startable
<1>. QED
  BY <1>1, <1>2, StatusSteps

\* No interleaving of any number of processes skips the start of a task.
THEOREM StartsAreNotSkipped == Spec => NoSkippedStart
<1>1. CoordInv /\ [Next]_vars => [StartIsKept]_vars
  BY StartStep DEF StartIsKept
<1>. QED
  BY <1>1, BodiesAreSound, PTL DEF Spec, NoSkippedStart

\* Only a commit adds to what a call owes the archive.
LEMMA OwedSteps ==
  ASSUME CoordInv, [Next]_vars, NEW c \in Calls, NEW t \in Tasks, Completes(c, t)
  PROVE  /\ Commit(c) \/ CommitItem(c)
         /\ t \in Targets(c) /\ Changes(c, t) /\ req[c].to = "completed"
<1>. TypeOK
  BY DEF CoordInv
<1>1. ~UNCHANGED owed /\ ~\E cs : Forget(cs)
  BY ForgetType DEF Completes
<1>2. PICK d \in Calls : Commit(d) \/ CommitItem(d)
  BY <1>1 DEF Next, vars, local, Proceed, User, Unlocked, Update, BulkItems, ClaimTask, Begin, GiveUp, ReadRows,
     Rollback, ReadItem, FlushItems, Create, ReadForClaim, Claim, NextOfClaim, Promote, Finish, Ask, Answer, Decline,
     Returns, DashboardCreate, ReleaseClaim, Delete, CreateHandoff, UpdateHandoff, Crash
<1>3. d = c
  BY <1>2 DEF Commit, CommitItem, TypeOK, Completes
<1>4. CASE Commit(c)
  BY <1>4 DEF Commit, TypeOK, Targets, Completes
<1>5. CASE CommitItem(c)
  BY <1>5 DEF CommitItem, TypeOK, Targets, Completes
<1>. QED
  BY <1>2, <1>3, <1>4, <1>5

LEMMA OnceStep == CoordInv /\ [Next]_vars => [OwesItsOwn]_vars
<1>. SUFFICES ASSUME CoordInv, [Next]_vars, NEW c \in Calls, NEW t \in Tasks, Completes(c, t)
              PROVE  status[t] # "completed" /\ status'[t] = "completed"
  BY DEF OwesItsOwn
<1>1. (Commit(c) \/ CommitItem(c)) /\ t \in Targets(c) /\ Changes(c, t) /\ req[c].to = "completed"
  BY OwedSteps
<1>. QED
  BY <1>1, AtCommit, OnlyTargets, CoordAssumption DEF Changes, Statuses, Finished

\* Nobody completes a task a second time, so no completion is archived twice.
THEOREM CompletionsAreOnce == Spec => CompletedOnce
BY OnceStep, BodiesAreSound, PTL DEF Spec, CompletedOnce

LEMMA GateStep == CoordInv /\ [Next]_vars => [ChildrenFirst]_vars
<1>. SUFFICES ASSUME CoordInv, [Next]_vars, NEW c \in Calls, NEW t \in Tasks, req[c].kind = "update",
                     Completes(c, t), NEW k \in Children(t, parent)
              PROVE  status'[k] = "completed"
  BY DEF ChildrenFirst
<1>1. Commit(c) /\ t \in Targets(c) /\ Changes(c, t) /\ req[c].to = "completed" /\ k \in Tasks
  BY OwedSteps DEF CommitItem, Children
<1>2. PICK i \in DOMAIN req[c].ids : req[c].ids[i] = t
  BY <1>1 DEF Targets, Range
<1>3. Written(c, i - 1)[k] = "completed"
  BY <1>1, <1>2 DEF Commit, Accepted
<1>4. i \in Nat /\ 1..(i - 1) \subseteq DOMAIN req[c].ids
  BY <1>2, TargetsOfRequest, LenProperties DEF CoordInv
<1>5. CASE status[k] = "completed"
  BY <1>1, <1>5, OnlyTargets
<1>6. CASE \E j \in 1..(i - 1) : req[c].ids[j] = k
  <2>1. k \in Targets(c)
    BY <1>1, <1>4, <1>6 DEF Targets, Range
  <2>. QED
    BY <1>1, <2>1, OnlyTargets, CoordAssumption DEF Statuses, Finished
<1>. QED
  BY <1>1, <1>3, <1>5, <1>6 DEF Written

\* The children gate of an update holds in the state it commits, whatever ran since it began.
THEOREM ParentsComeLast == Spec => GateHolds
BY GateStep, BodiesAreSound, PTL DEF Spec, GateHolds

LEMMA CloseStep == CoordInv /\ [Next]_vars => [NothingLeftOpen]_vars
<1>. SUFFICES ASSUME CoordInv, [Next]_vars, NEW c \in Calls, NEW t \in Tasks, Completes(c, t)
              PROVE  claims'[t] = {} /\ t \notin offered'
  BY DEF NothingLeftOpen
<1>1. (Commit(c) \/ CommitItem(c)) /\ t \in Targets(c) /\ Changes(c, t) /\ req[c].to = "completed"
  BY OwedSteps
<1>. QED
  BY <1>1 DEF Commit, CommitItem, Close, Targets, Finished

\* Completing a task leaves it no claim and no pending handoff.
THEOREM CompletionsClose == Spec => CompletionCloses
BY CloseStep, BodiesAreSound, PTL DEF Spec, CompletionCloses

-----------------------------------------------------------------------------
(* Claims *)

LEMMA ClaimStep == CoordInv /\ OneActiveClaim /\ [Next]_vars => OneActiveClaim'
<1>. SUFFICES ASSUME CoordInv, OneActiveClaim, [Next]_vars
              PROVE  \A t \in Tasks : \A a, b \in claims'[t] : a = b
  BY DEF OneActiveClaim
<1>. TypeOK
  BY DEF CoordInv
<1>1. CASE \A t \in Tasks : claims'[t] \subseteq claims[t]
  BY <1>1 DEF OneActiveClaim
<1>2. ASSUME NEW c \in Calls, Claim(c)
      PROVE  \A t \in Tasks : \A a, b \in claims'[t] : a = b
  BY <1>2 DEF Claim, OneActiveClaim, TypeOK
<1>3. CASE UNCHANGED claims
  BY <1>1, <1>3
<1>4. CASE \E ts : Close(ts)
  BY <1>1, <1>4 DEF Close
<1>5. CASE \E t \in Tasks : ReleaseClaim(t)
  BY <1>1, <1>5 DEF ReleaseClaim, TypeOK
<1>6. CASE UNCHANGED vars
  BY <1>3, <1>6 DEF vars
<1>7. CASE Unlocked
  BY <1>3, <1>4, <1>5, <1>7 DEF Unlocked, DashboardCreate, Insert, Delete, CreateHandoff, UpdateHandoff
<1>8. CASE \E p \in Processes : Crash(p)
  BY <1>3, <1>8 DEF Crash, rows
<1>9. CASE \E c \in Calls : Proceed(c) \/ User(c)
  BY <1>2, <1>3, <1>4, <1>9 DEF Proceed, User, Update, BulkItems, ClaimTask, Begin, GiveUp, ReadRows, Rollback,
     ReadItem, FlushItems, Create, Insert, ReadForClaim, Promote, Finish, Ask, Answer, Decline, Commit, CommitItem, rows
<1>. QED
  BY <1>6, <1>7, <1>8, <1>9 DEF Next

\* However claims, releases, completions and deletions interleave, one agent at most has a task.
THEOREM ClaimsAreExclusive == Spec => []OneActiveClaim
<1>1. Init => OneActiveClaim
  BY DEF Init, OneActiveClaim
<1>. QED
  BY <1>1, ClaimStep, BodiesAreSound, PTL DEF Spec
=============================================================================
