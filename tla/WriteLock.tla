------------------------------ MODULE WriteLock ------------------------------
(***************************************************************************)
(* WriteLock.withExclusiveLock (storage/write-lock.ts): the lock under     *)
(* which the write tools, the maintenance sweep and the indexing writer    *)
(* run sequences of transactions.  Each process has one WriteLock; all of  *)
(* them share the lockfile next to the database, which proper-lockfile     *)
(* keeps fresh by a heartbeat and which anyone may take once it is stale.  *)
(*                                                                         *)
(* A call is one withExclusiveLock(fn); its section is the run of fn.  A   *)
(* nested call of a section (task-write archiving a completed task) comes  *)
(* before the section first yields to the event loop, finds the lock held  *)
(* and runs inline, so it is part of the section.  One step is what runs   *)
(* between two awaits; the takeover of a stale lockfile is one step.       *)
(***************************************************************************)
EXTENDS Integers, Sequences

CONSTANTS
  Processes,        \* processes that share the database
  Slots,            \* bound: calls a process may have in a behaviour
  None,             \* no lockfile
  FaultKinds,       \* the faults this instance explores
  MaxFaults         \* bound: faults in a behaviour

Calls == Processes \X Slots
Home(c) == c[1]
CallsOf(p) == {c \in Calls : Home(c) = p}

Faults == {"crash", "stall"}

ASSUME LockAssumption ==
  /\ None \notin Processes
  /\ FaultKinds \subseteq Faults /\ MaxFaults \in Nat

VARIABLES
  lockfile,     \* the lockfile: whose it is, and whether its mtime is fresh
  locked,       \* WriteLock.locked of each process
  compromised,  \* WriteLock.compromised of each process
  tail,         \* WriteLock.tail: calls chained behind each other, the running one first
  stage,        \* where each call is
  loop,         \* the event loop of each process
  faults        \* how often each fault has struck

vars == <<lockfile, locked, compromised, tail, stage, loop, faults>>

Stages == {"idle", "queued", "holding", "inline", "unlocking", "done", "failed", "lost"}
Absent == [owner |-> None, fresh |-> FALSE]

TypeOK ==
  /\ lockfile \in [owner: Processes \cup {None}, fresh: BOOLEAN]
  /\ locked \in [Processes -> BOOLEAN]
  /\ compromised \in [Processes -> BOOLEAN]
  /\ tail \in [Processes -> Seq(Calls)]
  /\ stage \in [Calls -> Stages]
  /\ loop \in [Processes -> {"running", "blocked", "dead"}]
  /\ faults \in [Faults -> Nat]

Init ==
  /\ lockfile = Absent
  /\ locked = [p \in Processes |-> FALSE]
  /\ compromised = [p \in Processes |-> FALSE]
  /\ tail = [p \in Processes |-> <<>>]
  /\ stage = [c \in Calls |-> "idle"]
  /\ loop = [p \in Processes |-> "running"]
  /\ faults = [kind \in Faults |-> 0]

-----------------------------------------------------------------------------
(* A call moves on in the event loop of its process *)
Step(c, from, to) ==
  /\ loop[Home(c)] = "running" /\ stage[c] = from
  /\ stage' = [stage EXCEPT ![c] = to]
  /\ UNCHANGED <<loop, faults>>

IsHead(c) == tail[Home(c)] # <<>> /\ Head(tail[Home(c)]) = c
Settle(p) == tail' = [tail EXCEPT ![p] = Tail(@)]

\* Re-entrance: whoever calls while this process holds the lock runs inline.
EnterInline(c) ==
  /\ Step(c, "idle", "inline") /\ locked[Home(c)]
  /\ UNCHANGED <<lockfile, locked, compromised, tail>>

Enqueue(c) ==
  /\ Step(c, "idle", "queued") /\ ~locked[Home(c)]
  /\ tail' = [tail EXCEPT ![Home(c)] = Append(@, c)]
  /\ UNCHANGED <<lockfile, locked, compromised>>

\* proper-lockfile: the lockfile is free, or stale (its holder stalled or died).
Takeable == lockfile.owner = None \/ ~lockfile.fresh

Acquire(c) ==
  /\ Step(c, "queued", "holding") /\ IsHead(c) /\ Takeable
  /\ lockfile' = [owner |-> Home(c), fresh |-> TRUE]
  /\ locked' = [locked EXCEPT ![Home(c)] = TRUE]
  /\ compromised' = [compromised EXCEPT ![Home(c)] = FALSE]
  /\ UNCHANGED tail

\* Retries and the one clean-up retry are used up while somebody kept the lock fresh.
\* That clean-up unlocks nothing: proper-lockfile refuses a lock this process has not.
\* Mutants: the rejection is not swallowed before it is chained; the clean-up removes
\* the lockfile.
GiveUpWedging(c) ==
  /\ Step(c, "queued", "failed") /\ IsHead(c) /\ ~Takeable
  /\ locked' = [locked EXCEPT ![Home(c)] = FALSE]
  /\ compromised' = [compromised EXCEPT ![Home(c)] = FALSE]
  /\ UNCHANGED <<lockfile, tail>>
GiveUpRemoving(c) ==
  /\ Step(c, "queued", "failed") /\ IsHead(c) /\ ~Takeable
  /\ Settle(Home(c)) /\ lockfile' = Absent
  /\ locked' = [locked EXCEPT ![Home(c)] = FALSE]
  /\ compromised' = [compromised EXCEPT ![Home(c)] = FALSE]
GiveUp(c) ==
  /\ Step(c, "queued", "failed") /\ IsHead(c) /\ ~Takeable
  /\ Settle(Home(c))
  /\ locked' = [locked EXCEPT ![Home(c)] = FALSE]
  /\ compromised' = [compromised EXCEPT ![Home(c)] = FALSE]
  /\ UNCHANGED lockfile

LeaveInline(c) ==
  /\ Step(c, "inline", "done")
  /\ UNCHANGED <<lockfile, locked, compromised, tail>>

\* release() of a lock this process still believes in, up to the await of unlock ...
\* Mutant: the flag is not reset before the await.
ReleaseLate(c) ==
  /\ Step(c, "holding", "unlocking") /\ locked[Home(c)]
  /\ UNCHANGED <<lockfile, locked, compromised, tail>>
Release(c) ==
  /\ Step(c, "holding", "unlocking") /\ locked[Home(c)]
  /\ locked' = [locked EXCEPT ![Home(c)] = FALSE]
  /\ compromised' = [compromised EXCEPT ![Home(c)] = FALSE]
  /\ UNCHANGED <<lockfile, tail>>

\* ... of one it lost: nothing to do ...
ReleaseLost(c) ==
  /\ Step(c, "holding", "done") /\ ~locked[Home(c)]
  /\ Settle(Home(c))
  /\ UNCHANGED <<lockfile, locked, compromised>>

\* ... and unlock, which removes the lockfile, whoever has it by now.
Unlock(c) ==
  /\ Step(c, "unlocking", "done")
  /\ lockfile' = Absent
  /\ Settle(Home(c))
  /\ UNCHANGED <<locked, compromised>>

-----------------------------------------------------------------------------
(* The heartbeat, stalled event loops, dead processes *)
Refresh(p) ==
  /\ loop[p] = "running" /\ locked[p] /\ lockfile.owner = p /\ ~lockfile.fresh
  /\ lockfile' = [lockfile EXCEPT !.fresh = TRUE]
  /\ UNCHANGED <<locked, compromised, tail, stage, loop, faults>>

\* onCompromised: the heartbeat finds the lockfile gone or another's.
Compromised(p) ==
  /\ loop[p] = "running" /\ locked[p] /\ lockfile.owner # p
  /\ compromised' = [compromised EXCEPT ![p] = TRUE]
  /\ locked' = [locked EXCEPT ![p] = FALSE]
  /\ UNCHANGED <<lockfile, tail, stage, loop, faults>>

Fault(kind) ==
  /\ kind \in FaultKinds /\ faults["crash"] + faults["stall"] < MaxFaults
  /\ faults' = [faults EXCEPT ![kind] = @ + 1]

\* A synchronous statement keeps the holder's event loop past the stale threshold.
Stall(p) ==
  /\ Fault("stall") /\ loop[p] = "running" /\ locked[p] /\ lockfile.owner = p
  /\ loop' = [loop EXCEPT ![p] = "blocked"]
  /\ lockfile' = [lockfile EXCEPT !.fresh = FALSE]
  /\ UNCHANGED <<locked, compromised, tail, stage>>

Wake(p) ==
  /\ loop[p] = "blocked"
  /\ loop' = [loop EXCEPT ![p] = "running"]
  /\ UNCHANGED <<lockfile, locked, compromised, tail, stage, faults>>

\* The lockfile of a dead process outlives it and grows stale.
Crash(p) ==
  /\ Fault("crash") /\ loop[p] # "dead"
  /\ loop' = [loop EXCEPT ![p] = "dead"]
  /\ stage' = [c \in Calls |-> IF Home(c) = p /\ stage[c] \in {"queued", "holding", "inline", "unlocking"}
                               THEN "lost" ELSE stage[c]]
  /\ locked' = [locked EXCEPT ![p] = FALSE]
  /\ compromised' = [compromised EXCEPT ![p] = FALSE]
  /\ tail' = [tail EXCEPT ![p] = <<>>]
  /\ lockfile' = IF lockfile.owner = p THEN [lockfile EXCEPT !.fresh = FALSE] ELSE lockfile

Restart(p) ==
  /\ loop[p] = "dead"
  /\ loop' = [loop EXCEPT ![p] = "running"]
  /\ UNCHANGED <<lockfile, locked, compromised, tail, stage, faults>>

-----------------------------------------------------------------------------
Enter(c) == EnterInline(c) \/ Enqueue(c)
Proceed(c) ==
  \/ Acquire(c) \/ GiveUp(c) \/ LeaveInline(c)
  \/ Release(c) \/ ReleaseLost(c) \/ Unlock(c)

Next ==
  \/ \E c \in Calls : Enter(c) \/ Proceed(c)
  \/ \E p \in Processes : \/ Refresh(p) \/ Compromised(p)
                          \/ Stall(p) \/ Wake(p) \/ Crash(p) \/ Restart(p)

Spec == Init /\ [][Next]_vars

\* Sections end, acquisition is bounded by its retries, long statements end.
Fairness ==
  /\ \A c \in Calls : WF_vars(Proceed(c))
  /\ \A p \in Processes : WF_vars(Wake(p))
FairSpec == Spec /\ Fairness

-----------------------------------------------------------------------------
(* Properties *)
InSection(c) == stage[c] \in {"holding", "inline"}

\* The flag, the promise chain and the calls agree: a call is in the chain exactly while
\* it waits, holds or unlocks, only the first of the chain has got further than waiting,
\* and `locked` is only ever set on behalf of that one (withExclusiveLock, acquire, release).
ChainOK ==
  \A p \in Processes :
     /\ \A i, k \in DOMAIN tail[p] : tail[p][i] = tail[p][k] => i = k
     /\ \A i \in DOMAIN tail[p] :
           /\ Home(tail[p][i]) = p
           /\ stage[tail[p][i]] \in (IF i = 1 THEN {"queued", "holding", "unlocking"} ELSE {"queued"})
     /\ \A c \in CallsOf(p) : stage[c] \in {"queued", "holding", "unlocking"} =>
                                 \E i \in DOMAIN tail[p] : tail[p][i] = c
     /\ locked[p] => /\ tail[p] # <<>> /\ stage[Head(tail[p])] = "holding"
                     /\ ~compromised[p] /\ loop[p] # "dead"
LockInv == TypeOK /\ ChainOK

\* Unless an event loop has stalled, sections that acquired the lock exclude each other,
\* within a process (the chain) and between processes (the lockfile), crashes included.
NoStall == faults["stall"] = 0
OneHolder ==
  NoStall => \A c, d \in Calls : stage[c] = "holding" /\ stage[d] = "holding" => c = d

\* A lockfile that is kept fresh only goes when the process it belongs to unlocks it.
KeepsFreshLock ==
  \A p \in Processes :
     lockfile.owner = p /\ lockfile.fresh /\ lockfile'.owner # p =>
       \E c \in CallsOf(p) : stage[c] = "unlocking"

\* acquire takes over nothing but stale lockfiles.  After a stall a holder that has not yet
\* heard of the takeover unlocks the lockfile of another, hence the restriction.
FreshLockKept == [][NoStall => KeepsFreshLock]_vars

\* A failed or lost section never wedges the ones behind it: every call returns
\* (withExclusiveLock: the chain is kept alive on errors).
EveryCallReturns ==
  \A c \in Calls : stage[c] = "queued" ~> stage[c] \in {"done", "failed", "lost"}

\* Sections of two processes never interleave (write-lock.ts: compound mutations that
\* must not interleave with another process's sequence).
SectionsExclusive ==
  \A c, d \in Calls : InSection(c) /\ InSection(d) => Home(c) = Home(d)
=============================================================================
