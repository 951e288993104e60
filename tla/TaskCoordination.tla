--------------------------- MODULE TaskCoordination ---------------------------
(***************************************************************************)
(* Tasks, claims and handoffs as agents of several processes share them    *)
(* (tools/task-write, task.delete, claim.manage, handoff.write, and the    *)
(* dashboard's task and coordination services).                            *)
(*                                                                         *)
(* Every body of task-write runs under the exclusive write lock, which is  *)
(* taken here as what module WriteLock shows it to be when no event loop   *)
(* stalls: one process at a time, calls of the holding process inline.     *)
(* Claims, deletions, handoffs and the dashboard take no lock at all.      *)
(*                                                                         *)
(* A body is synchronous from its first read to its last commit, so within *)
(* a process bodies do not interleave, but a body is not one step: rows    *)
(* are read before the transaction that writes them, and other processes   *)
(* commit in between.                                                      *)
(***************************************************************************)
EXTENDS Integers, Sequences, Functions

CONSTANTS
  Tasks,        \* bound: the rows of the tasks table
  Processes,    \* MCP server and daemon processes on one database
  Calls,        \* bound: the calls of a behaviour, each of a process: <<process, number>>
  Agents,       \* who claims
  None,         \* no parent, no holder, no agent
  Keep,         \* an update that leaves the field alone
  FirstStatuses,\* bound: the statuses rows start with
  Handed,       \* bound: the tasks handoffs are about
  Asked         \* the requests each call may be, in this instance

Home(c) == c[1]

Startable == {"backlog", "pending", "blocked"}
Finished == {"completed", "canceled"}
Statuses == Startable \cup Finished \cup {"in_progress"}

\* update: one id, or ids; items: a bulk of update items; create and interactive: one row;
\* claim: claim-manage.
Request ==
  [kind: {"update", "items", "create", "interactive", "claim"}, ids: Seq(Tasks),
   to: Statuses \cup {Keep}, parent: Tasks \cup {None, Keep}, agent: Agents \cup {None}]
NoRequest == [kind |-> "create", ids |-> <<>>, to |-> Keep, parent |-> Keep, agent |-> None]

ASSUME CoordAssumption ==
  /\ None \notin Tasks \cup Agents \cup Calls \cup Processes /\ Keep \notin Tasks \cup Statuses \cup {None}
  /\ Calls \subseteq Processes \X Nat
  /\ FirstStatuses \subseteq Statuses /\ Handed \subseteq Tasks
  /\ Asked \in [Calls -> SUBSET Request]
  /\ \A c \in Calls : \A r \in Asked[c] :
        /\ r.kind \in {"create", "interactive"} => r.to \in {"backlog", "pending"}
        /\ r.kind = "claim" => r.ids # <<>> /\ r.agent \in Agents

VARIABLES
  status,     \* tasks.status; a row not inserted yet is absent
  parent,     \* tasks.parent_id
  claims,     \* the agents with an unreleased claim row on the task
  offered,    \* the tasks with a pending handoff
  holder,     \* the call whose section holds the exclusive lock
  stage,      \* where each call is
  req,        \* what each call was asked
  todo,       \* the ids a bulk has not come to
  seen,       \* the statuses a body read before it wrote
  owed        \* completedTaskIds: what the call will archive

rows == <<status, parent, claims, offered>>
local == <<req, todo, seen, owed>>
vars == <<status, parent, claims, offered, holder, stage, req, todo, seen, owed>>

Stages == {"idle", "waiting", "asking", "open", "read", "claimed", "archiving", "done", "refused", "lost"}
Ended == {"done", "refused", "lost"}

TypeOK ==
  /\ status \in [Tasks -> Statuses \cup {"absent"}]
  /\ parent \in [Tasks -> Tasks \cup {None}]
  /\ claims \in [Tasks -> SUBSET Agents]
  /\ offered \subseteq Tasks
  /\ holder \in Calls \cup {None}
  /\ stage \in [Calls -> Stages]
  /\ req \in [Calls -> Request]
  /\ todo \in [Calls -> Seq(Tasks)]
  /\ seen \in [Calls -> [Tasks -> Statuses \cup {"absent"}]]
  /\ owed \in [Calls -> SUBSET Tasks]

Exists(t) == status[t] # "absent"
Rows(ids) == [t \in Tasks |-> IF t \in Range(ids) THEN status[t] ELSE "absent"]
Unseen == [t \in Tasks |-> "absent"]

\* Whatever earlier sessions left behind; no call is open.
Init ==
  /\ status \in [Tasks -> FirstStatuses \cup {"absent"}]
  /\ parent \in [Tasks -> Tasks \cup {None}]
  /\ \A t \in Tasks : parent[t] # None => Exists(t) /\ Exists(parent[t]) /\ parent[t] # t
  /\ claims = [t \in Tasks |-> {}]
  /\ offered = {}
  /\ holder = None
  /\ stage = [c \in Calls |-> "idle"]
  /\ req = [c \in Calls |-> NoRequest]
  /\ todo = [c \in Calls |-> <<>>]
  /\ seen = [c \in Calls |-> Unseen]
  /\ owed = [c \in Calls |-> {}]

-----------------------------------------------------------------------------
(* The lock and the event loop, as the calls see them *)

\* A body in the synchronous stretch between its first read and its last commit.
Running(c) == stage[c] \in {"open", "read", "claimed"}
OthersIdle(c) == \A d \in Calls \ {c} : Home(d) = Home(c) => ~Running(d)

Goes(c, from, to) ==
  /\ stage[c] = from /\ OthersIdle(c)
  /\ stage' = [stage EXCEPT ![c] = to]

\* withExclusiveLock: free, or held by this very process (inline).
LockedBy == IF holder = None THEN None ELSE Home(holder)
MayEnter(c) == LockedBy \in {None, Home(c)}
Take(c) == holder' = IF holder = None THEN c ELSE holder
Leave(c) == holder' = IF holder = c THEN None ELSE holder

\* A call returns, or dies: its variables are gone.
Forget(cs) ==
  /\ req' = [c \in Calls |-> IF c \in cs THEN NoRequest ELSE req[c]]
  /\ todo' = [c \in Calls |-> IF c \in cs THEN <<>> ELSE todo[c]]
  /\ seen' = [c \in Calls |-> IF c \in cs THEN Unseen ELSE seen[c]]
  /\ owed' = [c \in Calls |-> IF c \in cs THEN {} ELSE owed[c]]
Returns(c, from, to) == Goes(c, from, to) /\ Forget({c})

Ask(c) ==
  /\ Goes(c, "idle", "waiting")
  /\ \E r \in Asked[c] : req' = [req EXCEPT ![c] = r]
  /\ UNCHANGED <<rows, holder, todo, seen, owed>>

\* Retries used up while another process kept the lock.
\* Mutant: it retries for ever.
WaitOn(c) ==
  /\ stage[c] = "waiting" /\ req[c].kind # "claim" /\ ~MayEnter(c)
  /\ UNCHANGED vars
GiveUp(c) ==
  /\ req[c].kind # "claim" /\ ~MayEnter(c) /\ Returns(c, "waiting", "refused")
  /\ UNCHANGED <<rows, holder>>

\* handleTaskWrite: the body starts with the lock; interactive asks the user first.
Begin(c) ==
  /\ Goes(c, "waiting", IF req[c].kind = "interactive" THEN "asking" ELSE "open")
  /\ req[c].kind # "claim" /\ MayEnter(c) /\ Take(c)
  /\ todo' = [todo EXCEPT ![c] = req[c].ids]
  /\ UNCHANGED <<rows, req, seen, owed>>

\* The user answers, with the lock still held; or declines, and the body throws.
Answer(c) ==
  /\ Goes(c, "asking", "open")
  /\ UNCHANGED <<rows, holder, local>>
Decline(c) ==
  /\ Returns(c, "asking", "done") /\ Leave(c)
  /\ UNCHANGED rows

\* The archive of what the call completed, best effort, then the end of the section.
Finish(c) ==
  /\ Returns(c, "archiving", "done") /\ Leave(c)
  /\ UNCHANGED rows

-----------------------------------------------------------------------------
(* task-write: one update, or the same update of several ids *)

Children(t, tree) == {k \in Tasks : tree[k] = t}

\* validateStatusTransition
MayBecome(from, to) == ~(from \in Startable /\ to = "completed")

\* getTasksByIds, outside the transaction.
ReadRows(c) ==
  /\ req[c].kind = "update"
  /\ \/ /\ Goes(c, "open", "read") /\ \A t \in Range(req[c].ids) : Exists(t)
        /\ seen' = [seen EXCEPT ![c] = Rows(req[c].ids)]
     \/ /\ Goes(c, "open", "archiving") /\ \E t \in Range(req[c].ids) : ~Exists(t)
        /\ UNCHANGED seen
  /\ UNCHANGED <<rows, holder, req, todo, owed>>

\* The statuses once the first n ids have been written.
Written(c, n) ==
  [t \in Tasks |-> IF req[c].to # Keep /\ \E i \in 1..n : req[c].ids[i] = t THEN req[c].to ELSE status[t]]

Changes(c, t) == req[c].to \notin {Keep, seen[c][t]}

\* Against the rows read before; the children are read here, id after id.
\* Mutant: the gate counts ids that are yet to be written.
AcceptedAhead(c) ==
  \A t \in Range(req[c].ids) : Changes(c, t) =>
     /\ MayBecome(seen[c][t], req[c].to)
     /\ req[c].to = "completed" =>
          \A k \in Children(t, parent) : Written(c, Len(req[c].ids))[k] \in Finished
Accepted(c) ==
  \A i \in DOMAIN req[c].ids : LET t == req[c].ids[i] IN
     Changes(c, t) =>
       /\ MayBecome(seen[c][t], req[c].to)
       /\ req[c].to = "completed" =>
            \A k \in Children(t, parent) : Written(c, i - 1)[k] = "completed"

\* updateTask and handleCoordinationCleanup for a set of ids: claims released, pending
\* handoffs expired.
Write(ts, to, under) ==
  /\ status' = [t \in Tasks |-> IF t \in ts /\ to # Keep THEN to ELSE status[t]]
  /\ parent' = [t \in Tasks |-> IF t \in ts /\ under # Keep THEN under ELSE parent[t]]
\* Mutant: the handoffs are left pending.
CloseClaims(ts) ==
  /\ claims' = [t \in Tasks |-> IF t \in ts THEN {} ELSE claims[t]]
  /\ UNCHANGED offered
Close(ts) ==
  /\ claims' = [t \in Tasks |-> IF t \in ts THEN {} ELSE claims[t]]
  /\ offered' = offered \ ts
KnownParent(p) == p \in Tasks => Exists(p)

\* Mutant: whatever is completed is archived, whether or not it was completed already.
CommitArchivingAll(c) ==
  LET ts == Range(req[c].ids) IN
  /\ req[c].kind = "update" /\ Goes(c, "read", "archiving")
  /\ Accepted(c) /\ KnownParent(req[c].parent)
  /\ Write(ts, req[c].to, req[c].parent)
  /\ Close({t \in ts : Changes(c, t) /\ req[c].to \in Finished})
  /\ owed' = [owed EXCEPT ![c] = {t \in ts : req[c].to = "completed"}]
  /\ UNCHANGED <<holder, req, todo, seen>>
Commit(c) ==
  LET ts == Range(req[c].ids) IN
  /\ req[c].kind = "update" /\ Goes(c, "read", "archiving")
  /\ Accepted(c) /\ KnownParent(req[c].parent)
  /\ Write(ts, req[c].to, req[c].parent)
  /\ Close({t \in ts : Changes(c, t) /\ req[c].to \in Finished})
  /\ owed' = [owed EXCEPT ![c] = {t \in ts : Changes(c, t) /\ req[c].to = "completed"}]
  /\ UNCHANGED <<holder, req, todo, seen>>
Rollback(c) ==
  /\ req[c].kind = "update" /\ Goes(c, "read", "archiving")
  /\ ~(Accepted(c) /\ KnownParent(req[c].parent))
  /\ UNCHANGED <<rows, holder, local>>

-----------------------------------------------------------------------------
(* task-write: a bulk of update items, each with a transaction of its own *)

\* Row, parent, transition and gate, all before the item's transaction.
ItemAccepted(c, t) ==
  /\ Exists(t) /\ KnownParent(req[c].parent)
  /\ req[c].to \notin {Keep, status[t]} =>
       /\ MayBecome(status[t], req[c].to)
       /\ req[c].to = "completed" => \A k \in Children(t, parent) : status[k] = "completed"

ReadItem(c) ==
  /\ req[c].kind = "items" /\ todo[c] # <<>>
  /\ \/ /\ Goes(c, "open", "read") /\ ItemAccepted(c, Head(todo[c]))
        /\ seen' = [seen EXCEPT ![c] = Rows(<<Head(todo[c])>>)]
        /\ UNCHANGED todo
     \/ /\ Goes(c, "open", "open") /\ ~ItemAccepted(c, Head(todo[c]))
        /\ todo' = [todo EXCEPT ![c] = Tail(@)]
        /\ UNCHANGED seen
  /\ UNCHANGED <<rows, holder, req, owed>>

\* Unlike an update, it closes what already had the status it is given.
CommitItem(c) ==
  LET t == Head(todo[c]) IN
  /\ req[c].kind = "items" /\ todo[c] # <<>> /\ Goes(c, "read", "open")
  /\ Write({t}, req[c].to, req[c].parent)
  /\ Close({u \in {t} : req[c].to \in Finished})
  /\ owed' = [owed EXCEPT ![c] = @ \cup {u \in {t} : Changes(c, t) /\ req[c].to = "completed"}]
  /\ todo' = [todo EXCEPT ![c] = Tail(@)]
  /\ UNCHANGED <<holder, req, seen>>

FlushItems(c) ==
  /\ req[c].kind = "items" /\ todo[c] = <<>> /\ Goes(c, "open", "archiving")
  /\ UNCHANGED <<rows, holder, local>>

-----------------------------------------------------------------------------
(* Creation, by task-write and by the dashboard *)

Insert(t, first, under) ==
  /\ ~Exists(t) /\ KnownParent(under)
  /\ status' = [status EXCEPT ![t] = first]
  /\ parent' = [parent EXCEPT ![t] = under]
  /\ UNCHANGED <<claims, offered>>

Create(c) ==
  /\ req[c].kind \in {"create", "interactive"} /\ Goes(c, "open", "archiving")
  /\ \/ \E t \in Tasks : Insert(t, req[c].to, IF req[c].parent = Keep THEN None ELSE req[c].parent)
     \/ UNCHANGED rows                      \* a missing field, a duplicate code
  /\ UNCHANGED <<holder, local>>

\* Whatever status and parent the request names.
DashboardCreate(t) ==
  /\ \E first \in FirstStatuses, under \in Tasks \cup {None} : Insert(t, first, under)
  /\ UNCHANGED <<holder, stage, local>>

-----------------------------------------------------------------------------
(* Claims *)

\* The task is read first ...
ReadForClaim(c) ==
  /\ req[c].kind = "claim"
  /\ \/ /\ Goes(c, "waiting", "read") /\ Exists(Head(req[c].ids))
        /\ seen' = [seen EXCEPT ![c] = Rows(req[c].ids)]
        /\ UNCHANGED <<req, todo, owed>>
     \/ Returns(c, "waiting", "done") /\ ~Exists(Head(req[c].ids))
  /\ UNCHANGED <<rows, holder>>

\* ... claimTask releases whatever claim is active and inserts its own, in one transaction ...
\* Mutant: the active claim is not released first.
NextOfClaim(c) ==
  IF seen[c][Head(req[c].ids)] = "completed" THEN Returns(c, "read", "done")
  ELSE Goes(c, "read", "claimed") /\ UNCHANGED local
ClaimBeside(c) ==
  /\ req[c].kind = "claim" /\ NextOfClaim(c)
  /\ claims' = [claims EXCEPT ![Head(req[c].ids)] = @ \cup {req[c].agent}]
  /\ UNCHANGED <<status, parent, offered, holder>>
Claim(c) ==
  /\ req[c].kind = "claim" /\ NextOfClaim(c)
  /\ claims' = [claims EXCEPT ![Head(req[c].ids)] = {req[c].agent}]
  /\ UNCHANGED <<status, parent, offered, holder>>

\* ... and the task is promoted by the status read, in a transaction of its own.
Promote(c) ==
  /\ req[c].kind = "claim" /\ Returns(c, "claimed", "done")
  /\ status' = [status EXCEPT ![Head(req[c].ids)] = "in_progress"]
  /\ UNCHANGED <<parent, claims, offered, holder>>

\* releaseClaim of claim-manage and of the dashboard: one agent's, or whoever's.
ReleaseClaim(t) ==
  /\ claims[t] # {}
  /\ \E gone \in {claims[t]} \cup {{a} : a \in claims[t]} :
        claims' = [claims EXCEPT ![t] = @ \ gone]
  /\ UNCHANGED <<status, parent, offered, holder, stage, local>>

-----------------------------------------------------------------------------
(* Deletion and handoffs: one transaction, no lock *)

\* purgeEntityAndCleanup: canceled whatever it was, its children detached.
\* Mutant: it puts the task back to the backlog instead.
DeleteToBacklog(t) ==
  /\ Exists(t)
  /\ status' = [status EXCEPT ![t] = "backlog"]
  /\ parent' = [k \in Tasks |-> IF parent[k] = t THEN None ELSE parent[k]]
  /\ Close({t})
  /\ UNCHANGED <<holder, stage, local>>
Delete(t) ==
  /\ Exists(t)
  /\ status' = [status EXCEPT ![t] = "canceled"]
  /\ parent' = [k \in Tasks |-> IF parent[k] = t THEN None ELSE parent[k]]
  /\ Close({t})
  /\ UNCHANGED <<holder, stage, local>>

\* For any task, finished or not ...
CreateHandoff(t) ==
  /\ t \in Handed /\ Exists(t) /\ offered' = offered \cup {t}
  /\ UNCHANGED <<status, parent, claims, holder, stage, local>>

\* ... and any status whatever the present one: the last pending handoff goes, or an
\* accepted, rejected or expired one is pending again.
UpdateHandoff(t) ==
  /\ t \in Handed /\ Exists(t) /\ \E rest \in {offered \cup {t}, offered \ {t}} : offered' = rest
  /\ UNCHANGED <<status, parent, claims, holder, stage, local>>

\* A process dies: its calls are lost, what they had committed is not, the lock goes stale.
Crash(p) ==
  LET lost == {c \in Calls : Home(c) = p /\ stage[c] \notin Ended \cup {"idle"}} IN
  /\ lost # {}
  /\ stage' = [c \in Calls |-> IF c \in lost THEN "lost" ELSE stage[c]]
  /\ holder' = IF LockedBy = p THEN None ELSE holder
  /\ Forget(lost)
  /\ UNCHANGED rows

-----------------------------------------------------------------------------
Update(c) == ReadRows(c) \/ Commit(c) \/ Rollback(c)
BulkItems(c) == ReadItem(c) \/ CommitItem(c) \/ FlushItems(c)
ClaimTask(c) == ReadForClaim(c) \/ Claim(c) \/ Promote(c)
Proceed(c) == Begin(c) \/ GiveUp(c) \/ Update(c) \/ BulkItems(c) \/ Create(c) \/ ClaimTask(c) \/ Finish(c)
User(c) == Ask(c) \/ Answer(c) \/ Decline(c)
Unlocked ==
  \E t \in Tasks : 
       DashboardCreate(t) \/ ReleaseClaim(t) \/ Delete(t) \/ CreateHandoff(t) \/ UpdateHandoff(t)

Next ==
  \/ \E c \in Calls : Proceed(c) \/ User(c)
  \/ Unlocked
  \/ \E p \in Processes : Crash(p)

Spec == Init /\ [][Next]_vars

\* A body runs to its end and the wait for the lock is bounded; the user owes no answer.
Fairness == \A c \in Calls : WF_vars(Proceed(c))
FairSpec == Spec /\ Fairness

-----------------------------------------------------------------------------
(* Properties *)

\* The lock and the snapshots: bodies of one process do not interleave, a body between
\* its read and its commit has the lock, and since it read its rows nobody has completed
\* one it saw open or put back one it saw started (handleTaskWrite).
Writer(c) == req[c].kind \in {"update", "items"} /\ stage[c] \in {"open", "read"}
Targets(c) == IF req[c].kind = "items" THEN {Head(todo[c])} ELSE Range(req[c].ids)
SnapshotOK(c) ==
  /\ \A t \in Targets(c) : /\ seen[c][t] # "absent"
                           /\ req[c].kind = "items" => MayBecome(seen[c][t], req[c].to)
  /\ \A t \in Tasks : seen[c][t] # "absent" =>
        /\ status[t] # "absent"
        /\ seen[c][t] # "completed" => status[t] # "completed"
        /\ seen[c][t] \notin Startable => status[t] \notin Startable
CallOK(c) ==
  /\ stage[c] \notin Ended \cup {"idle"} => req[c] \in Asked[c]
  /\ stage[c] = "asking" => req[c].kind = "interactive"
  /\ Writer(c) => LockedBy = Home(c)
  /\ Writer(c) /\ stage[c] = "read" => SnapshotOK(c)
OneBody == \A c, d \in Calls : Running(c) /\ Running(d) /\ Home(c) = Home(d) => c = d
BodiesOK == OneBody /\ \A c \in Calls : CallOK(c)
CoordInv == TypeOK /\ BodiesOK

\* However the claims of two processes and the completions of a third interleave, at most
\* one agent holds a task (claimTask: release any existing active claim, then insert).
OneActiveClaim == \A t \in Tasks : \A a, b \in claims[t] : a = b

\* No interleaving takes a task that was never started to completed
\* (validateStatusTransition: must go through in_progress first).
StartIsKept == \A t \in Tasks : status[t] \in Startable => status'[t] # "completed"
NoSkippedStart == [][StartIsKept]_vars

\* Two processes never both complete a task and archive it twice: whoever will archive a
\* task is the one whose commit completed it (handleTaskWrite: double-complete a task).
Completes(c, t) == t \in owed'[c] \ owed[c]
OwesItsOwn ==
  \A c \in Calls, t \in Tasks : Completes(c, t) => status[t] # "completed" /\ status'[t] = "completed"
CompletedOnce == [][OwesItsOwn]_vars

\* When an update completes a task it saw open, every child is completed in the very state
\* it commits, whatever other processes did since the body began (the children gate).
ChildrenFirst ==
  \A c \in Calls, t \in Tasks :
     req[c].kind = "update" /\ Completes(c, t) => \A k \in Children(t, parent) : status'[k] = "completed"
GateHolds == [][ChildrenFirst]_vars

\* And the task it completes has no claim and no pending handoff left (auto-release claims
\* and expire linked handoffs), nor has anybody slipped one in.
NothingLeftOpen ==
  \A c \in Calls, t \in Tasks : Completes(c, t) => claims'[t] = {} /\ t \notin offered'
CompletionCloses == [][NothingLeftOpen]_vars

\* A user who never answers an interactive call does not hold up the others: again and again
\* no call is under way but those that await their user.  A call is made once, so each one
\* returns, refused at worst (handleInteractive awaits under the lock).
EveryCallReturns == []<>(\A c \in Calls : stage[c] \in Ended \cup {"idle", "asking"})

\* Claiming promotes a task that is not completed, and no other (claimWithAudit: CLAIM
\* auto-promotes a non-completed task to in_progress).
ClaimLeavesCompleted ==
  [][\A c \in Calls, t \in Tasks :
        stage[c] = "claimed" /\ stage'[c] = "done" /\ status[t] = "completed" => status'[t] = "completed"]_vars
=============================================================================
