--------------------------- MODULE DaemonLockProofs ---------------------------
(***************************************************************************)
(* Proofs about DaemonLock, for any commands and workers.  The three       *)
(* invariants are inductive together: that the daemons are those the pid   *)
(* file names when no command runs (StatusIsTrue) is what a command starts *)
(* from, what it has read and cleaned since (DaemonInv) is what makes its  *)
(* refusals and its fork right.  One lemma per action, each with one step  *)
(* per part of the invariant.                                              *)
(***************************************************************************)
EXTENDS DaemonLock, TLAPS

\* The inductive invariant.
IInv == DaemonInv /\ NeverWedged /\ StatusIsTrue

\* Before the first command there is no file, no daemon and nobody who knows anything.
LEMMA InitInv == Init => IInv
<1> SUFFICES ASSUME Init PROVE IInv OBVIOUS
<1> USE DaemonAssumption DEF Init, Commands, Pids, StartStages, StopStages, Ended, NoLock
<1>1. TypeOK BY DEF TypeOK
<1>2. \A c \in Commands : AloneOK(c) /\ OrderedOK(c) /\ OwnOK(c)
  BY DEF AloneOK, OrderedOK, OwnOK, Alone, Active
<1>3. NeverWedged BY DEF NeverWedged
<1>4. StatusIsTrue BY DEF StatusIsTrue, OneDaemon, Daemons, WorkerAlive
<1> QED BY <1>1, <1>2, <1>3, <1>4 DEF IInv, DaemonInv

\* `daemon start` reads the pid file: if nobody else runs, the daemons are those it names.
LEMMA BeginStartKeeps ==
  ASSUME IInv, NEW c \in Commands, BeginStart(c)
  PROVE  IInv'
<1> USE DaemonAssumption DEF Commands, Pids, StartStages, StopStages, Ended, NoLock
<1> USE DEF IInv, DaemonInv, BeginStart, Begin, Goes, files, running, history
<1>1. TypeOK' BY DEF TypeOK
<1>2. \A d \in Commands : AloneOK(d)' BY DEF TypeOK, AloneOK, OwnOK, Alone, Active, WorkerAlive, Alive
<1>3. ASSUME NEW d \in Commands PROVE OrderedOK(d)'
  <2>1. Daemons' = Daemons BY DEF Daemons, WorkerAlive
  <2>2. d # c => ~Active(d) \/ disturbed' BY DEF TypeOK, Active
  <2>3. d # c => Active(d)' = Active(d) BY DEF TypeOK, Active
  <2>4. CASE d # c BY <2>2, <2>3, <2>4 DEF OrderedOK
  <2>5. CASE d = c /\ ~disturbed'
    <3>1. \A e \in Commands \ {c} : ~Active(e) BY <2>5 DEF TypeOK
    <3>2. ~Active(c) /\ ~disturbed BY <2>5 DEF TypeOK, Active
    <3>3. Daemons \subseteq {pidFile} BY <3>1, <3>2 DEF StatusIsTrue
    <3>4. pidFile = None => Daemons = {} BY <3>3 DEF Daemons
    <3>5. \A e \in Commands \ {c} : ~Active(e)' BY <3>1 DEF TypeOK, Active
    <3> QED BY <2>1, <2>5, <3>3, <3>4, <3>5 DEF TypeOK, OrderedOK
  <2> QED BY <2>4, <2>5 DEF OrderedOK
<1>4. \A d \in Commands : OwnOK(d)' BY DEF TypeOK, OwnOK
<1>5. NeverWedged' BY DEF TypeOK, NeverWedged, AloneOK, OwnOK, Alone, Active, WorkerAlive, Alive
<1>6. StatusIsTrue' BY DEF TypeOK, StatusIsTrue, OneDaemon, OrderedOK, Active, Daemons, WorkerAlive, Alive
<1> QED BY <1>1, <1>2, <1>3, <1>4, <1>5, <1>6

\* A start that finds its pid alive is not alone.
LEMMA AlreadyRunningKeeps ==
  ASSUME IInv, NEW c \in Commands, AlreadyRunning(c)
  PROVE  IInv'
<1> USE DaemonAssumption DEF Commands, Pids, StartStages, StopStages, Ended, NoLock
<1> USE DEF IInv, DaemonInv, AlreadyRunning, Step, Goes, files, running, history
<1>1. TypeOK' BY DEF TypeOK
<1>2. \A d \in Commands : AloneOK(d)' BY DEF TypeOK, AloneOK, OwnOK, Alone, Active, WorkerAlive, Alive
<1>3. \A d \in Commands : OrderedOK(d)'
  BY DEF TypeOK, OrderedOK, OwnOK, StatusIsTrue, Active, WorkerAlive, Alive, Daemons
<1>4. \A d \in Commands : OwnOK(d)' BY DEF TypeOK, OwnOK
<1>5. NeverWedged' BY DEF TypeOK, NeverWedged, AloneOK, OwnOK, Alone, Active, WorkerAlive, Alive
<1>6. StatusIsTrue' BY DEF TypeOK, StatusIsTrue, OneDaemon, OrderedOK, Active, Daemons, WorkerAlive, Alive
<1> QED BY <1>1, <1>2, <1>3, <1>4, <1>5, <1>6

\* The recorded process is dead, so there is no daemon.
LEMMA CleanPidKeeps ==
  ASSUME IInv, NEW c \in Commands, CleanPid(c)
  PROVE  IInv'
<1> USE DaemonAssumption DEF Commands, Pids, StartStages, StopStages, Ended, NoLock
<1> USE DEF IInv, DaemonInv, CleanPid, Step, Goes, files, running, history
<1>1. TypeOK' BY DEF TypeOK
<1>2. \A d \in Commands : AloneOK(d)' BY DEF TypeOK, AloneOK, OwnOK, Alone, Active, WorkerAlive, Alive
<1>3. \A d \in Commands : OrderedOK(d)'
  BY DEF TypeOK, OrderedOK, OwnOK, StatusIsTrue, Active, WorkerAlive, Alive, Daemons
<1>4. \A d \in Commands : OwnOK(d)' BY DEF TypeOK, OwnOK
<1>5. NeverWedged' BY DEF TypeOK, NeverWedged, AloneOK, OwnOK, Alone, Active, WorkerAlive, Alive
<1>6. StatusIsTrue' BY DEF TypeOK, StatusIsTrue, OneDaemon, OrderedOK, Active, Daemons, WorkerAlive, Alive
<1> QED BY <1>1, <1>2, <1>3, <1>4, <1>5, <1>6

\* The exclusive create, first or second attempt.
LEMMA CreateLockKeeps ==
  ASSUME IInv, NEW c \in Commands, NEW from \in {"open", "retry"}, CreateLock(c, from)
  PROVE  IInv'
<1> USE DaemonAssumption DEF Commands, Pids, StartStages, StopStages, Ended, NoLock
<1> USE DEF IInv, DaemonInv, CreateLock, Step, Goes, Exists, files, running, history
<1>1. TypeOK' BY DEF TypeOK
<1>2. \A d \in Commands : AloneOK(d)' BY DEF TypeOK, AloneOK, OwnOK, Alone, Active, WorkerAlive, Alive
<1>3. \A d \in Commands : OrderedOK(d)'
  BY DEF TypeOK, OrderedOK, OwnOK, StatusIsTrue, Active, WorkerAlive, Alive, Daemons
<1>4. \A d \in Commands : OwnOK(d)' BY DEF TypeOK, OwnOK
<1>5. NeverWedged' BY DEF TypeOK, NeverWedged, AloneOK, OwnOK, Alone, Active, WorkerAlive, Alive
<1>6. StatusIsTrue' BY DEF TypeOK, StatusIsTrue, OneDaemon, OrderedOK, Active, Daemons, WorkerAlive, Alive
<1> QED BY <1>1, <1>2, <1>3, <1>4, <1>5, <1>6

\* The create fails with EEXIST.
LEMMA LockExistsKeeps ==
  ASSUME IInv, NEW c \in Commands, LockExists(c)
  PROVE  IInv'
<1> USE DaemonAssumption DEF Commands, Pids, StartStages, StopStages, Ended, NoLock
<1> USE DEF IInv, DaemonInv, LockExists, Step, Goes, files, running, history
<1>1. TypeOK' BY DEF TypeOK
<1>2. \A d \in Commands : AloneOK(d)' BY DEF TypeOK, AloneOK, OwnOK, Alone, Active, WorkerAlive, Alive
<1>3. \A d \in Commands : OrderedOK(d)'
  BY DEF TypeOK, OrderedOK, OwnOK, StatusIsTrue, Active, WorkerAlive, Alive, Daemons
<1>4. \A d \in Commands : OwnOK(d)' BY DEF TypeOK, OwnOK
<1>5. NeverWedged' BY DEF TypeOK, NeverWedged, AloneOK, OwnOK, Alone, Active, WorkerAlive, Alive
<1>6. StatusIsTrue' BY DEF TypeOK, StatusIsTrue, OneDaemon, OrderedOK, Active, Daemons, WorkerAlive, Alive
<1> QED BY <1>1, <1>2, <1>3, <1>4, <1>5, <1>6

\* The owner read is never the reader.
LEMMA ReadLockKeeps ==
  ASSUME IInv, NEW c \in Commands, ReadLock(c)
  PROVE  IInv'
<1> USE DaemonAssumption DEF Commands, Pids, StartStages, StopStages, Ended, NoLock
<1> USE DEF IInv, DaemonInv, ReadLock, Step, Goes, files, running, history
<1>1. TypeOK' BY DEF TypeOK
<1>2. \A d \in Commands : AloneOK(d)' BY DEF TypeOK, AloneOK, OwnOK, Alone, Active, WorkerAlive, Alive
<1>3. \A d \in Commands : OrderedOK(d)'
  BY DEF TypeOK, OrderedOK, OwnOK, StatusIsTrue, Active, WorkerAlive, Alive, Daemons
<1>4. \A d \in Commands : OwnOK(d)' BY DEF TypeOK, OwnOK
<1>5. NeverWedged' BY DEF TypeOK, NeverWedged, AloneOK, OwnOK, Alone, Active, WorkerAlive, Alive
<1>6. StatusIsTrue' BY DEF TypeOK, StatusIsTrue, OneDaemon, OrderedOK, Active, Daemons, WorkerAlive, Alive
<1> QED BY <1>1, <1>2, <1>3, <1>4, <1>5, <1>6

\* A start that finds the owner alive is not alone.
LEMMA OwnerAliveKeeps ==
  ASSUME IInv, NEW c \in Commands, OwnerAlive(c)
  PROVE  IInv'
<1> USE DaemonAssumption DEF Commands, Pids, StartStages, StopStages, Ended, NoLock
<1> USE DEF IInv, DaemonInv, OwnerAlive, Step, Goes, files, running, history
<1>1. TypeOK' BY DEF TypeOK
<1>2. \A d \in Commands : AloneOK(d)' BY DEF TypeOK, AloneOK, OwnOK, Alone, Active, WorkerAlive, Alive
<1>3. \A d \in Commands : OrderedOK(d)'
  BY DEF TypeOK, OrderedOK, OwnOK, StatusIsTrue, Active, WorkerAlive, Alive, Daemons
<1>4. \A d \in Commands : OwnOK(d)' BY DEF TypeOK, OwnOK
<1>5. NeverWedged' BY DEF TypeOK, NeverWedged, AloneOK, OwnOK, Alone, Active, WorkerAlive, Alive
<1>6. StatusIsTrue' BY DEF TypeOK, StatusIsTrue, OneDaemon, OrderedOK, Active, Daemons, WorkerAlive, Alive
<1> QED BY <1>1, <1>2, <1>3, <1>4, <1>5, <1>6

\* The stale lock goes.
LEMMA ReclaimKeeps ==
  ASSUME IInv, NEW c \in Commands, Reclaim(c)
  PROVE  IInv'
<1> USE DaemonAssumption DEF Commands, Pids, StartStages, StopStages, Ended, NoLock
<1> USE DEF IInv, DaemonInv, Reclaim, Step, Goes, files, running, history
<1>1. TypeOK' BY DEF TypeOK
<1>2. \A d \in Commands : AloneOK(d)' BY DEF TypeOK, AloneOK, OwnOK, Alone, Active, WorkerAlive, Alive
<1>3. \A d \in Commands : OrderedOK(d)'
  BY DEF TypeOK, OrderedOK, OwnOK, StatusIsTrue, Active, WorkerAlive, Alive, Daemons
<1>4. \A d \in Commands : OwnOK(d)' BY DEF TypeOK, OwnOK
<1>5. NeverWedged' BY DEF TypeOK, NeverWedged, AloneOK, OwnOK, Alone, Active, WorkerAlive, Alive
<1>6. StatusIsTrue' BY DEF TypeOK, StatusIsTrue, OneDaemon, OrderedOK, Active, Daemons, WorkerAlive, Alive
<1> QED BY <1>1, <1>2, <1>3, <1>4, <1>5, <1>6

\* A second attempt only loses against another command.
LEMMA LostRetryKeeps ==
  ASSUME IInv, NEW c \in Commands, LostRetry(c)
  PROVE  IInv'
<1> USE DaemonAssumption DEF Commands, Pids, StartStages, StopStages, Ended, NoLock
<1> USE DEF IInv, DaemonInv, LostRetry, Step, Goes, Exists, files, running, history
<1>1. TypeOK' BY DEF TypeOK
<1>2. \A d \in Commands : AloneOK(d)' BY DEF TypeOK, AloneOK, OwnOK, Alone, Active, WorkerAlive, Alive
<1>3. \A d \in Commands : OrderedOK(d)'
  BY DEF TypeOK, OrderedOK, OwnOK, StatusIsTrue, Active, WorkerAlive, Alive, Daemons
<1>4. \A d \in Commands : OwnOK(d)' BY DEF TypeOK, OwnOK
<1>5. NeverWedged' BY DEF TypeOK, NeverWedged, AloneOK, OwnOK, Alone, Active, WorkerAlive, Alive
<1>6. StatusIsTrue' BY DEF TypeOK, StatusIsTrue, OneDaemon, OrderedOK, Active, Daemons, WorkerAlive, Alive
<1> QED BY <1>1, <1>2, <1>3, <1>4, <1>5, <1>6

\* The start's own pid enters a lock only after its last look at the owner.
LEMMA WriteOwnPidKeeps ==
  ASSUME IInv, NEW c \in Commands, WriteOwnPid(c)
  PROVE  IInv'
<1> USE DaemonAssumption DEF Commands, Pids, StartStages, StopStages, Ended, NoLock
<1> USE DEF IInv, DaemonInv, WriteOwnPid, Step, Goes, files, running, history
<1>1. TypeOK' BY DEF TypeOK
<1>2. \A d \in Commands : AloneOK(d)' BY DEF TypeOK, AloneOK, OwnOK, Alone, Active, WorkerAlive, Alive
<1>3. \A d \in Commands : OrderedOK(d)'
  BY DEF TypeOK, OrderedOK, OwnOK, StatusIsTrue, Active, WorkerAlive, Alive, Daemons
<1>4. \A d \in Commands : OwnOK(d)' BY DEF TypeOK, OwnOK
<1>5. NeverWedged' BY DEF TypeOK, NeverWedged, AloneOK, OwnOK, Alone, Active, WorkerAlive, Alive
<1>6. StatusIsTrue' BY DEF TypeOK, StatusIsTrue, OneDaemon, OrderedOK, Active, Daemons, WorkerAlive, Alive
<1> QED BY <1>1, <1>2, <1>3, <1>4, <1>5, <1>6

\* The one daemon is the child.
LEMMA ForkKeeps ==
  ASSUME IInv, NEW c \in Commands, Fork(c)
  PROVE  IInv'
<1> USE DaemonAssumption DEF Commands, Pids, StartStages, StopStages, Ended, NoLock
<1> USE DEF IInv, DaemonInv, Fork, Goes, files, running, history
<1>1. TypeOK' BY DEF TypeOK
<1>2. \A d \in Commands : AloneOK(d)' BY DEF TypeOK, AloneOK, OwnOK, Alone, Active, WorkerAlive, Alive
<1>3. \A d \in Commands : OrderedOK(d)'
  BY DEF TypeOK, OrderedOK, OwnOK, StatusIsTrue, Active, WorkerAlive, Alive, Daemons
<1>4. \A d \in Commands : OwnOK(d)' BY DEF TypeOK, OwnOK
<1>5. NeverWedged' BY DEF TypeOK, NeverWedged, AloneOK, OwnOK, Alone, Active, WorkerAlive, Alive
<1>6. StatusIsTrue' BY DEF TypeOK, StatusIsTrue, OneDaemon, OrderedOK, Active, Daemons, WorkerAlive, Alive
<1> QED BY <1>1, <1>2, <1>3, <1>4, <1>5, <1>6

\* A failed fork leaves no daemon and no lock.
LEMMA ForkFailsKeeps ==
  ASSUME IInv, NEW c \in Commands, ForkFails(c)
  PROVE  IInv'
<1> USE DaemonAssumption DEF Commands, Pids, StartStages, StopStages, Ended, NoLock
<1> USE DEF IInv, DaemonInv, ForkFails, Step, Goes, files, running, history
<1>1. TypeOK' BY DEF TypeOK
<1>2. \A d \in Commands : AloneOK(d)' BY DEF TypeOK, AloneOK, OwnOK, Alone, Active, WorkerAlive, Alive
<1>3. \A d \in Commands : OrderedOK(d)'
  BY DEF TypeOK, OrderedOK, OwnOK, StatusIsTrue, Active, WorkerAlive, Alive, Daemons
<1>4. \A d \in Commands : OwnOK(d)' BY DEF TypeOK, OwnOK
<1>5. NeverWedged' BY DEF TypeOK, NeverWedged, AloneOK, OwnOK, Alone, Active, WorkerAlive, Alive
<1>6. StatusIsTrue' BY DEF TypeOK, StatusIsTrue, OneDaemon, OrderedOK, Active, Daemons, WorkerAlive, Alive
<1> QED BY <1>1, <1>2, <1>3, <1>4, <1>5, <1>6

\* Nor does a spawn that gives no pid leave a daemon.
LEMMA ForkGivesNoPidKeeps ==
  ASSUME IInv, NEW c \in Commands, ForkGivesNoPid(c)
  PROVE  IInv'
<1> USE DaemonAssumption DEF Commands, Pids, StartStages, StopStages, Ended, NoLock
<1> USE DEF IInv, DaemonInv, ForkGivesNoPid, Step, Goes, files, running, history
<1>1. TypeOK' BY DEF TypeOK
<1>2. \A d \in Commands : AloneOK(d)' BY DEF TypeOK, AloneOK, OwnOK, Alone, Active, WorkerAlive, Alive
<1>3. \A d \in Commands : OrderedOK(d)'
  BY DEF TypeOK, OrderedOK, OwnOK, StatusIsTrue, Active, WorkerAlive, Alive, Daemons
<1>4. \A d \in Commands : OwnOK(d)' BY DEF TypeOK, OwnOK
<1>5. NeverWedged' BY DEF TypeOK, NeverWedged, AloneOK, OwnOK, Alone, Active, WorkerAlive, Alive
<1>6. StatusIsTrue' BY DEF TypeOK, StatusIsTrue, OneDaemon, OrderedOK, Active, Daemons, WorkerAlive, Alive
<1> QED BY <1>1, <1>2, <1>3, <1>4, <1>5, <1>6

\* The child becomes the recorded daemon.
LEMMA WritePidKeeps ==
  ASSUME IInv, NEW c \in Commands, WritePid(c)
  PROVE  IInv'
<1> USE DaemonAssumption DEF Commands, Pids, StartStages, StopStages, Ended, NoLock
<1> USE DEF IInv, DaemonInv, WritePid, Step, Goes, files, running, history
<1>1. TypeOK' BY DEF TypeOK
<1>2. \A d \in Commands : AloneOK(d)' BY DEF TypeOK, AloneOK, OwnOK, Alone, Active, WorkerAlive, Alive
<1>3. \A d \in Commands : OrderedOK(d)'
  BY DEF TypeOK, OrderedOK, OwnOK, StatusIsTrue, Active, WorkerAlive, Alive, Daemons
<1>4. \A d \in Commands : OwnOK(d)' BY DEF TypeOK, OwnOK
<1>5. NeverWedged' BY DEF TypeOK, NeverWedged, AloneOK, OwnOK, Alone, Active, WorkerAlive, Alive
<1>6. StatusIsTrue' BY DEF TypeOK, StatusIsTrue, OneDaemon, OrderedOK, Active, Daemons, WorkerAlive, Alive
<1> QED BY <1>1, <1>2, <1>3, <1>4, <1>5, <1>6

\* The lock gets the child's pid.
LEMMA WriteLockPidKeeps ==
  ASSUME IInv, NEW c \in Commands, WriteLockPid(c)
  PROVE  IInv'
<1> USE DaemonAssumption DEF Commands, Pids, StartStages, StopStages, Ended, NoLock
<1> USE DEF IInv, DaemonInv, WriteLockPid, Step, Goes, Exists, files, running, history
<1>1. TypeOK' BY DEF TypeOK
<1>2. \A d \in Commands : AloneOK(d)' BY DEF TypeOK, AloneOK, OwnOK, Alone, Active, WorkerAlive, Alive
<1>3. \A d \in Commands : OrderedOK(d)'
  BY DEF TypeOK, OrderedOK, OwnOK, StatusIsTrue, Active, WorkerAlive, Alive, Daemons
<1>4. \A d \in Commands : OwnOK(d)' BY DEF TypeOK, OwnOK
<1>5. NeverWedged' BY DEF TypeOK, NeverWedged, AloneOK, OwnOK, Alone, Active, WorkerAlive, Alive
<1>6. StatusIsTrue' BY DEF TypeOK, StatusIsTrue, OneDaemon, OrderedOK, Active, Daemons, WorkerAlive, Alive
<1> QED BY <1>1, <1>2, <1>3, <1>4, <1>5, <1>6

\* `daemon stop` reads the pid file: if nobody else runs, the daemons are those it names.
LEMMA BeginStopKeeps ==
  ASSUME IInv, NEW c \in Commands, BeginStop(c)
  PROVE  IInv'
<1> USE DaemonAssumption DEF Commands, Pids, StartStages, StopStages, Ended, NoLock
<1> USE DEF IInv, DaemonInv, BeginStop, Begin, Goes, files, running, history
<1>1. TypeOK' BY DEF TypeOK
<1>2. \A d \in Commands : AloneOK(d)' BY DEF TypeOK, AloneOK, OwnOK, Alone, Active, WorkerAlive, Alive
<1>3. \A d \in Commands : OrderedOK(d)'
  BY DEF TypeOK, OrderedOK, OwnOK, StatusIsTrue, Active, WorkerAlive, Alive, Daemons
<1>4. \A d \in Commands : OwnOK(d)' BY DEF TypeOK, OwnOK
<1>5. NeverWedged' BY DEF TypeOK, NeverWedged, AloneOK, OwnOK, Alone, Active, WorkerAlive, Alive
<1>6. StatusIsTrue' BY DEF TypeOK, StatusIsTrue, OneDaemon, OrderedOK, Active, Daemons, WorkerAlive, Alive
<1> QED BY <1>1, <1>2, <1>3, <1>4, <1>5, <1>6

\* Nothing recorded, nothing running.
LEMMA NotRunningKeeps ==
  ASSUME IInv, NEW c \in Commands, NotRunning(c)
  PROVE  IInv'
<1> USE DaemonAssumption DEF Commands, Pids, StartStages, StopStages, Ended, NoLock
<1> USE DEF IInv, DaemonInv, NotRunning, Step, Goes, files, running, history
<1>1. TypeOK' BY DEF TypeOK
<1>2. \A d \in Commands : AloneOK(d)' BY DEF TypeOK, AloneOK, OwnOK, Alone, Active, WorkerAlive, Alive
<1>3. \A d \in Commands : OrderedOK(d)'
  BY DEF TypeOK, OrderedOK, OwnOK, StatusIsTrue, Active, WorkerAlive, Alive, Daemons
<1>4. \A d \in Commands : OwnOK(d)' BY DEF TypeOK, OwnOK
<1>5. NeverWedged' BY DEF TypeOK, NeverWedged, AloneOK, OwnOK, Alone, Active, WorkerAlive, Alive
<1>6. StatusIsTrue' BY DEF TypeOK, StatusIsTrue, OneDaemon, OrderedOK, Active, Daemons, WorkerAlive, Alive
<1> QED BY <1>1, <1>2, <1>3, <1>4, <1>5, <1>6

\* The recorded daemon is told to go: none is left.
LEMMA SignalKeeps ==
  ASSUME IInv, NEW c \in Commands, Signal(c)
  PROVE  IInv'
<1> USE DaemonAssumption DEF Commands, Pids, StartStages, StopStages, Ended, NoLock
<1> USE DEF IInv, DaemonInv, Signal, Terminate, Goes, files, running, history
<1>0. saw[c] \in Workers BY DEF TypeOK, OwnOK
<1>1. TypeOK' BY <1>0 DEF TypeOK
<1>2. \A d \in Commands : AloneOK(d)' BY DEF TypeOK, AloneOK, OwnOK, Alone, Active, WorkerAlive, Alive
<1>3. \A d \in Commands : OrderedOK(d)'
  BY DEF TypeOK, OrderedOK, OwnOK, StatusIsTrue, Active, WorkerAlive, Alive, Daemons
<1>4. \A d \in Commands : OwnOK(d)' BY DEF TypeOK, OwnOK
<1>5. NeverWedged' BY DEF TypeOK, NeverWedged, AloneOK, OwnOK, Alone, Active, WorkerAlive, Alive
<1>6. StatusIsTrue' BY DEF TypeOK, StatusIsTrue, OneDaemon, OrderedOK, Active, Daemons, WorkerAlive, Alive
<1> QED BY <1>1, <1>2, <1>3, <1>4, <1>5, <1>6

\* The recorded daemon is dead: none is left.
LEMMA StalePidKeeps ==
  ASSUME IInv, NEW c \in Commands, StalePid(c)
  PROVE  IInv'
<1> USE DaemonAssumption DEF Commands, Pids, StartStages, StopStages, Ended, NoLock
<1> USE DEF IInv, DaemonInv, StalePid, Step, Goes, files, running, history
<1>1. TypeOK' BY DEF TypeOK
<1>2. \A d \in Commands : AloneOK(d)' BY DEF TypeOK, AloneOK, OwnOK, Alone, Active, WorkerAlive, Alive
<1>3. \A d \in Commands : OrderedOK(d)'
  BY DEF TypeOK, OrderedOK, OwnOK, StatusIsTrue, Active, WorkerAlive, Alive, Daemons
<1>4. \A d \in Commands : OwnOK(d)' BY DEF TypeOK, OwnOK
<1>5. NeverWedged' BY DEF TypeOK, NeverWedged, AloneOK, OwnOK, Alone, Active, WorkerAlive, Alive
<1>6. StatusIsTrue' BY DEF TypeOK, StatusIsTrue, OneDaemon, OrderedOK, Active, Daemons, WorkerAlive, Alive
<1> QED BY <1>1, <1>2, <1>3, <1>4, <1>5, <1>6

\* The pid file goes after its daemon.
LEMMA RemovePidKeeps ==
  ASSUME IInv, NEW c \in Commands, RemovePid(c)
  PROVE  IInv'
<1> USE DaemonAssumption DEF Commands, Pids, StartStages, StopStages, Ended, NoLock
<1> USE DEF IInv, DaemonInv, RemovePid, Step, Goes, files, running, history
<1>1. TypeOK' BY DEF TypeOK
<1>2. \A d \in Commands : AloneOK(d)' BY DEF TypeOK, AloneOK, OwnOK, Alone, Active, WorkerAlive, Alive
<1>3. \A d \in Commands : OrderedOK(d)'
  BY DEF TypeOK, OrderedOK, OwnOK, StatusIsTrue, Active, WorkerAlive, Alive, Daemons
<1>4. \A d \in Commands : OwnOK(d)' BY DEF TypeOK, OwnOK
<1>5. NeverWedged' BY DEF TypeOK, NeverWedged, AloneOK, OwnOK, Alone, Active, WorkerAlive, Alive
<1>6. StatusIsTrue' BY DEF TypeOK, StatusIsTrue, OneDaemon, OrderedOK, Active, Daemons, WorkerAlive, Alive
<1> QED BY <1>1, <1>2, <1>3, <1>4, <1>5, <1>6

\* The lock goes last.
LEMMA RemoveLockKeeps ==
  ASSUME IInv, NEW c \in Commands, RemoveLock(c)
  PROVE  IInv'
<1> USE DaemonAssumption DEF Commands, Pids, StartStages, StopStages, Ended, NoLock
<1> USE DEF IInv, DaemonInv, RemoveLock, Step, Goes, files, running, history
<1>1. TypeOK' BY DEF TypeOK
<1>2. \A d \in Commands : AloneOK(d)' BY DEF TypeOK, AloneOK, OwnOK, Alone, Active, WorkerAlive, Alive
<1>3. \A d \in Commands : OrderedOK(d)'
  BY DEF TypeOK, OrderedOK, OwnOK, StatusIsTrue, Active, WorkerAlive, Alive, Daemons
<1>4. \A d \in Commands : OwnOK(d)' BY DEF TypeOK, OwnOK
<1>5. NeverWedged' BY DEF TypeOK, NeverWedged, AloneOK, OwnOK, Alone, Active, WorkerAlive, Alive
<1>6. StatusIsTrue' BY DEF TypeOK, StatusIsTrue, OneDaemon, OrderedOK, Active, Daemons, WorkerAlive, Alive
<1> QED BY <1>1, <1>2, <1>3, <1>4, <1>5, <1>6

\* From here on nothing is promised but that lone starts succeed.
LEMMA KillCommandKeeps ==
  ASSUME IInv, NEW c \in Commands, KillCommand(c)
  PROVE  IInv'
<1> USE DaemonAssumption DEF Commands, Pids, StartStages, StopStages, Ended, NoLock
<1> USE DEF IInv, DaemonInv, KillCommand, files, running, history
<1>1. TypeOK' BY DEF TypeOK
<1>2. \A d \in Commands : AloneOK(d)' BY DEF TypeOK, AloneOK, OwnOK, Alone, Active, WorkerAlive, Alive
<1>3. \A d \in Commands : OrderedOK(d)'
  BY DEF TypeOK, OrderedOK, OwnOK, StatusIsTrue, Active, WorkerAlive, Alive, Daemons
<1>4. \A d \in Commands : OwnOK(d)' BY DEF TypeOK, OwnOK
<1>5. NeverWedged' BY DEF TypeOK, NeverWedged, AloneOK, OwnOK, Alone, Active, WorkerAlive, Alive
<1>6. StatusIsTrue' BY DEF TypeOK, StatusIsTrue, OneDaemon, OrderedOK, Active, Daemons, WorkerAlive, Alive
<1> QED BY <1>1, <1>2, <1>3, <1>4, <1>5, <1>6

\* Only the state of the worker changes, from alive to alive.
LEMMA BindKeeps ==
  ASSUME IInv, NEW w \in Workers, Bind(w)
  PROVE  IInv'
<1> USE DaemonAssumption DEF Commands, Pids, StartStages, StopStages, Ended, NoLock
<1> USE DEF IInv, DaemonInv, Bind, Becomes, files, running, history
<1>1. TypeOK' BY DEF TypeOK
<1>2. \A d \in Commands : AloneOK(d)' BY DEF TypeOK, AloneOK, OwnOK, Alone, Active, WorkerAlive, Alive
<1>3. \A d \in Commands : OrderedOK(d)'
  BY DEF TypeOK, OrderedOK, OwnOK, StatusIsTrue, Active, WorkerAlive, Alive, Daemons
<1>4. \A d \in Commands : OwnOK(d)' BY DEF TypeOK, OwnOK
<1>5. NeverWedged' BY DEF TypeOK, NeverWedged, AloneOK, OwnOK, Alone, Active, WorkerAlive, Alive
<1>6. StatusIsTrue' BY DEF TypeOK, StatusIsTrue, OneDaemon, OrderedOK, Active, Daemons, WorkerAlive, Alive
<1> QED BY <1>1, <1>2, <1>3, <1>4, <1>5, <1>6

\* A worker dies, a lock may go.
LEMMA PortInUseKeeps ==
  ASSUME IInv, NEW w \in Workers, PortInUse(w)
  PROVE  IInv'
<1> USE DaemonAssumption DEF Commands, Pids, StartStages, StopStages, Ended, NoLock
<1> USE DEF IInv, DaemonInv, PortInUse, Becomes, files, running, history
<1>1. TypeOK' BY DEF TypeOK
<1>2. \A d \in Commands : AloneOK(d)' BY DEF TypeOK, AloneOK, OwnOK, Alone, Active, WorkerAlive, Alive
<1>3. \A d \in Commands : OrderedOK(d)'
  BY DEF TypeOK, OrderedOK, OwnOK, StatusIsTrue, Active, WorkerAlive, Alive, Daemons
<1>4. \A d \in Commands : OwnOK(d)' BY DEF TypeOK, OwnOK
<1>5. NeverWedged' BY DEF TypeOK, NeverWedged, AloneOK, OwnOK, Alone, Active, WorkerAlive, Alive
<1>6. StatusIsTrue' BY DEF TypeOK, StatusIsTrue, OneDaemon, OrderedOK, Active, Daemons, WorkerAlive, Alive
<1> QED BY <1>1, <1>2, <1>3, <1>4, <1>5, <1>6

\* A worker dies.
LEMMA BootFailsKeeps ==
  ASSUME IInv, NEW w \in Workers, BootFails(w)
  PROVE  IInv'
<1> USE DaemonAssumption DEF Commands, Pids, StartStages, StopStages, Ended, NoLock
<1> USE DEF IInv, DaemonInv, BootFails, Becomes, files, running, history
<1>1. TypeOK' BY DEF TypeOK
<1>2. \A d \in Commands : AloneOK(d)' BY DEF TypeOK, AloneOK, OwnOK, Alone, Active, WorkerAlive, Alive
<1>3. \A d \in Commands : OrderedOK(d)'
  BY DEF TypeOK, OrderedOK, OwnOK, StatusIsTrue, Active, WorkerAlive, Alive, Daemons
<1>4. \A d \in Commands : OwnOK(d)' BY DEF TypeOK, OwnOK
<1>5. NeverWedged' BY DEF TypeOK, NeverWedged, AloneOK, OwnOK, Alone, Active, WorkerAlive, Alive
<1>6. StatusIsTrue' BY DEF TypeOK, StatusIsTrue, OneDaemon, OrderedOK, Active, Daemons, WorkerAlive, Alive
<1> QED BY <1>1, <1>2, <1>3, <1>4, <1>5, <1>6

\* Only the state of the worker changes, from alive to alive.
LEMMA CloseKeeps ==
  ASSUME IInv, NEW w \in Workers, Close(w)
  PROVE  IInv'
<1> USE DaemonAssumption DEF Commands, Pids, StartStages, StopStages, Ended, NoLock
<1> USE DEF IInv, DaemonInv, Close, Becomes, files, running, history
<1>1. TypeOK' BY DEF TypeOK
<1>2. \A d \in Commands : AloneOK(d)' BY DEF TypeOK, AloneOK, OwnOK, Alone, Active, WorkerAlive, Alive
<1>3. \A d \in Commands : OrderedOK(d)'
  BY DEF TypeOK, OrderedOK, OwnOK, StatusIsTrue, Active, WorkerAlive, Alive, Daemons
<1>4. \A d \in Commands : OwnOK(d)' BY DEF TypeOK, OwnOK
<1>5. NeverWedged' BY DEF TypeOK, NeverWedged, AloneOK, OwnOK, Alone, Active, WorkerAlive, Alive
<1>6. StatusIsTrue' BY DEF TypeOK, StatusIsTrue, OneDaemon, OrderedOK, Active, Daemons, WorkerAlive, Alive
<1> QED BY <1>1, <1>2, <1>3, <1>4, <1>5, <1>6

\* A worker dies, a lock may go.
LEMMA ExitKeeps ==
  ASSUME IInv, NEW w \in Workers, Exit(w)
  PROVE  IInv'
<1> USE DaemonAssumption DEF Commands, Pids, StartStages, StopStages, Ended, NoLock
<1> USE DEF IInv, DaemonInv, Exit, Becomes, files, running, history
<1>1. TypeOK' BY DEF TypeOK
<1>2. \A d \in Commands : AloneOK(d)' BY DEF TypeOK, AloneOK, OwnOK, Alone, Active, WorkerAlive, Alive
<1>3. \A d \in Commands : OrderedOK(d)'
  BY DEF TypeOK, OrderedOK, OwnOK, StatusIsTrue, Active, WorkerAlive, Alive, Daemons
<1>4. \A d \in Commands : OwnOK(d)' BY DEF TypeOK, OwnOK
<1>5. NeverWedged' BY DEF TypeOK, NeverWedged, AloneOK, OwnOK, Alone, Active, WorkerAlive, Alive
<1>6. StatusIsTrue' BY DEF TypeOK, StatusIsTrue, OneDaemon, OrderedOK, Active, Daemons, WorkerAlive, Alive
<1> QED BY <1>1, <1>2, <1>3, <1>4, <1>5, <1>6

\* A worker dies.
LEMMA CrashKeeps ==
  ASSUME IInv, NEW w \in Workers, Crash(w)
  PROVE  IInv'
<1> USE DaemonAssumption DEF Commands, Pids, StartStages, StopStages, Ended, NoLock
<1> USE DEF IInv, DaemonInv, Crash, Becomes, files, running, history
<1>1. TypeOK' BY DEF TypeOK
<1>2. \A d \in Commands : AloneOK(d)' BY DEF TypeOK, AloneOK, OwnOK, Alone, Active, WorkerAlive, Alive
<1>3. \A d \in Commands : OrderedOK(d)'
  BY DEF TypeOK, OrderedOK, OwnOK, StatusIsTrue, Active, WorkerAlive, Alive, Daemons
<1>4. \A d \in Commands : OwnOK(d)' BY DEF TypeOK, OwnOK
<1>5. NeverWedged' BY DEF TypeOK, NeverWedged, AloneOK, OwnOK, Alone, Active, WorkerAlive, Alive
<1>6. StatusIsTrue' BY DEF TypeOK, StatusIsTrue, OneDaemon, OrderedOK, Active, Daemons, WorkerAlive, Alive
<1> QED BY <1>1, <1>2, <1>3, <1>4, <1>5, <1>6

\* Every step keeps the invariant.
LEMMA StepKeeps == IInv /\ [Next]_vars => IInv'
<1> SUFFICES ASSUME IInv, [Next]_vars PROVE IInv' OBVIOUS
<1>1. ASSUME NEW c \in Commands, Start(c) PROVE IInv'
  BY <1>1, AlreadyRunningKeeps, CleanPidKeeps, CreateLockKeeps, LockExistsKeeps, ReadLockKeeps, OwnerAliveKeeps, ReclaimKeeps,
     LostRetryKeeps, WriteOwnPidKeeps, ForkKeeps, ForkFailsKeeps, ForkGivesNoPidKeeps,
     WritePidKeeps, WriteLockPidKeeps DEF Start
<1>2. ASSUME NEW c \in Commands, Stop(c) PROVE IInv'
  BY <1>2, NotRunningKeeps, SignalKeeps, StalePidKeeps, RemovePidKeeps, RemoveLockKeeps DEF Stop
<1>3. ASSUME NEW w \in Workers, Worker(w) PROVE IInv'
  BY <1>3, BindKeeps, PortInUseKeeps, BootFailsKeeps, CloseKeeps, ExitKeeps DEF Worker
<1>4. CASE UNCHANGED vars
  BY <1>4 DEF vars, IInv, DaemonInv, TypeOK, AloneOK, OrderedOK, OwnOK, NeverWedged, StatusIsTrue, OneDaemon,
     Daemons, Alone, Active, WorkerAlive
<1> QED BY <1>1, <1>2, <1>3, <1>4, BeginStartKeeps, BeginStopKeeps, KillCommandKeeps, CrashKeeps DEF Next

\* The invariant holds in every behaviour.
LEMMA Invariant == Spec => []IInv
BY InitInv, StepKeeps, PTL DEF Spec

\* What commands have read and cleaned stays true of the files and the workers for as long
\* as they act on it, for any commands, workers, crashes and kills.
THEOREM KnowledgeHolds == Spec => []DaemonInv
BY Invariant, PTL DEF IInv

\* No stale file ever makes a lone `daemon start` refuse (acquireLock: STALE).
THEOREM LoneStartsSucceed == Spec => []NeverWedged
BY Invariant, PTL DEF IInv

\* Commands that do not overlap leave one daemon at most, and the pid file names it.
THEOREM StatusIsHonest == Spec => []StatusIsTrue
BY Invariant, PTL DEF IInv
=============================================================================
