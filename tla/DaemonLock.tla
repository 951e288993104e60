------------------------------ MODULE DaemonLock ------------------------------
(***************************************************************************)
(* `daemon start` and `daemon stop` (cli/daemon.ts) and the worker they    *)
(* manage (runDaemonWorker in cli/combined-server.ts).  A command is a     *)
(* short process that reads and writes two files, the pid file and the     *)
(* lock file, and forks or signals a worker; the worker outlives it, owns  *)
(* the port, and removes the lock file when it goes.                       *)
(*                                                                         *)
(* One step is one system call that another process can see; a dead        *)
(* process stays dead (pids are not reused), so finding one dead and       *)
(* acting on it is one step.                                               *)
(***************************************************************************)
EXTENDS FiniteSets

CONSTANTS
  Starts,       \* bound: the `daemon start` commands of a behaviour
  Stops,        \* bound: the `daemon stop` commands
  Workers,      \* bound: the workers that are forked
  None          \* no pid: no file, or an empty one

Commands == Starts \cup Stops
Pids == Commands \cup Workers

ASSUME DaemonAssumption ==
  /\ Starts \cap Stops = {} /\ Commands \cap Workers = {} /\ None \notin Pids

VARIABLES
  pidFile,      \* the pid recorded in daemon.pid
  lockFile,     \* daemon.lock: whether it exists, who created it, the pid in it
  stage,        \* where each command is
  saw,          \* the pid a command read last
  child,        \* the worker a start has forked
  worker,       \* the state of each worker
  port,         \* the worker that listens on the port
  signalled,    \* workers that were sent SIGTERM
  overlap,      \* history: commands that were not alone at some time
  disturbed     \* history: two commands have overlapped, or one was killed

files == <<pidFile, lockFile>>
running == <<worker, port, signalled>>
history == <<overlap, disturbed>>
vars == <<pidFile, lockFile, stage, saw, child, worker, port, signalled, overlap, disturbed>>

StartStages == {"pid", "open", "inspect", "judge", "retry", "write", "fork", "record", "relabel"}
StopStages == {"aim", "unpid", "unlock"}
Ended == {"started", "refused", "failed", "stopped", "notRunning", "killed"}
NoLock == [by |-> None, pid |-> None]

TypeOK ==
  /\ pidFile \in Workers \cup {None}
  /\ lockFile \in [by: Commands \cup {None}, pid: Pids \cup {None}]
  /\ stage \in [Commands -> {"idle"} \cup StartStages \cup StopStages \cup Ended]
  /\ saw \in [Commands -> Pids \cup {None}]
  /\ child \in [Commands -> Workers \cup {None}]
  /\ worker \in [Workers -> {"unborn", "booting", "serving", "closing", "closed", "dead"}]
  /\ port \in Workers \cup {None}
  /\ signalled \subseteq Workers
  /\ overlap \subseteq Commands
  /\ disturbed \in BOOLEAN

Active(c) == stage[c] \in StartStages \cup StopStages
WorkerAlive(w) == worker[w] \in {"booting", "serving", "closing", "closed"}
Alive(pid) == \/ pid \in Commands /\ Active(pid)
              \/ pid \in Workers /\ WorkerAlive(pid)

\* Neither file is there yet; what crashes and kills leave in them, the behaviours produce.
Init ==
  /\ pidFile = None
  /\ lockFile = NoLock
  /\ stage = [c \in Commands |-> "idle"]
  /\ saw = [c \in Commands |-> None]
  /\ child = [c \in Commands |-> None]
  /\ worker = [w \in Workers |-> "unborn"]
  /\ port = None
  /\ signalled = {}
  /\ overlap = {}
  /\ disturbed = FALSE

-----------------------------------------------------------------------------
Goes(c, from, to) == stage[c] = from /\ stage' = [stage EXCEPT ![c] = to]
Exists(lock) == lock.by # None

\* A command starts and reads the pid file (startDaemon, stopDaemon).
Begin(c, to) ==
  /\ Goes(c, "idle", to)
  /\ saw' = [saw EXCEPT ![c] = pidFile]
  /\ overlap' = LET others == {d \in Commands \ {c} : Active(d)} IN
                IF others # {} THEN overlap \cup others \cup {c}
                ELSE IF \E w \in Workers : WorkerAlive(w) THEN overlap \cup {c} ELSE overlap
  /\ disturbed' = (disturbed \/ \E d \in Commands \ {c} : Active(d))
  /\ UNCHANGED <<files, child, running>>

Step(c, from, to) == Goes(c, from, to) /\ UNCHANGED <<child, running, history>>

BeginStart(c) == c \in Starts /\ Begin(c, IF pidFile = None THEN "open" ELSE "pid")

AlreadyRunning(c) == Step(c, "pid", "refused") /\ Alive(saw[c]) /\ UNCHANGED <<files, saw>>

\* Mutant: the pid file goes whether or not its process is alive.
CleanAnyPid(c) ==
  /\ Step(c, "pid", "open")
  /\ pidFile' = None
  /\ UNCHANGED <<lockFile, saw>>
CleanPid(c) ==
  /\ Step(c, "pid", "open") /\ ~Alive(saw[c])
  /\ pidFile' = None
  /\ UNCHANGED <<lockFile, saw>>

\* acquireLock: the exclusive create; its body is still empty.
CreateLock(c, from) ==
  /\ Step(c, from, "write") /\ ~Exists(lockFile)
  /\ lockFile' = [by |-> c, pid |-> None]
  /\ UNCHANGED <<pidFile, saw>>
LockExists(c) == Step(c, "open", "inspect") /\ Exists(lockFile) /\ UNCHANGED <<files, saw>>

ReadLock(c) ==
  /\ Step(c, "inspect", "judge")
  /\ saw' = [saw EXCEPT ![c] = lockFile.pid]
  /\ UNCHANGED files

\* Mutant: a lock with a pid in it is taken for held.
OwnerRecorded(c) == Step(c, "judge", "refused") /\ saw[c] # None /\ UNCHANGED <<files, saw>>
OwnerAlive(c) == Step(c, "judge", "refused") /\ Alive(saw[c]) /\ UNCHANGED <<files, saw>>

\* The owner is dead, or the body was empty: remove whatever lock is there by now.
Reclaim(c) ==
  /\ Step(c, "judge", "retry") /\ ~Alive(saw[c])
  /\ lockFile' = NoLock
  /\ UNCHANGED <<pidFile, saw>>

LostRetry(c) == Step(c, "retry", "refused") /\ Exists(lockFile) /\ UNCHANGED <<files, saw>>

\* The pid goes into the file this command created, if that is still the one in place.
WriteOwnPid(c) ==
  /\ Step(c, "write", "fork")
  /\ lockFile' = IF lockFile.by = c THEN [lockFile EXCEPT !.pid = c] ELSE lockFile
  /\ UNCHANGED <<pidFile, saw>>

Fork(c) ==
  /\ Goes(c, "fork", "record")
  /\ \E w \in Workers : /\ worker[w] = "unborn"
                        /\ worker' = [worker EXCEPT ![w] = "booting"]
                        /\ child' = [child EXCEPT ![c] = w]
  /\ UNCHANGED <<files, saw, port, signalled, history>>
ForkFails(c) ==
  /\ Step(c, "fork", "failed")
  /\ lockFile' = NoLock
  /\ UNCHANGED <<pidFile, saw>>
\* The spawn failed without throwing: neither file is written, the lock keeps its pid.
ForkGivesNoPid(c) == Step(c, "fork", "started") /\ UNCHANGED <<files, saw>>

WritePid(c) ==
  /\ Step(c, "record", "relabel")
  /\ pidFile' = child[c]
  /\ UNCHANGED <<lockFile, saw>>
WriteLockPid(c) ==
  /\ Step(c, "relabel", "started")
  /\ lockFile' = [by |-> IF Exists(lockFile) THEN lockFile.by ELSE c, pid |-> child[c]]
  /\ UNCHANGED <<pidFile, saw>>

-----------------------------------------------------------------------------
(* daemon stop *)
BeginStop(c) == c \in Stops /\ Begin(c, "aim")

NotRunning(c) ==
  /\ Step(c, "aim", "notRunning") /\ saw[c] = None
  /\ lockFile' = NoLock
  /\ UNCHANGED <<pidFile, saw>>

\* The handlers are only in place once the worker serves; until then SIGTERM kills.
\* Mutant: they are in place from the first, with nothing to close yet.
TerminateLate(w) == worker' = [worker EXCEPT ![w] = IF @ = "serving" THEN "closing" ELSE @]
Terminate(w) ==
  worker' = [worker EXCEPT ![w] = CASE @ = "booting" -> "dead" [] @ = "serving" -> "closing" [] OTHER -> @]
Signal(c) ==
  /\ Goes(c, "aim", "unpid") /\ saw[c] # None /\ Alive(saw[c])
  /\ Terminate(saw[c])
  /\ signalled' = signalled \cup {saw[c]}
  /\ UNCHANGED <<files, saw, child, port, history>>
StalePid(c) == Step(c, "aim", "unpid") /\ saw[c] # None /\ ~Alive(saw[c]) /\ UNCHANGED <<files, saw>>

RemovePid(c) ==
  /\ Step(c, "unpid", "unlock")
  /\ pidFile' = None
  /\ UNCHANGED <<lockFile, saw>>
RemoveLock(c) ==
  /\ Step(c, "unlock", "stopped")
  /\ lockFile' = NoLock
  /\ UNCHANGED <<pidFile, saw>>

\* A command dies where it is.
KillCommand(c) ==
  /\ Active(c) /\ stage' = [stage EXCEPT ![c] = "killed"]
  /\ disturbed' = TRUE
  /\ UNCHANGED <<files, saw, child, running, overlap>>

-----------------------------------------------------------------------------
(* The worker *)
Becomes(w, from, to) ==
  /\ worker[w] = from /\ worker' = [worker EXCEPT ![w] = to]
  /\ UNCHANGED <<pidFile, stage, saw, child, signalled, history>>

Bind(w) == Becomes(w, "booting", "serving") /\ port = None /\ port' = w /\ UNCHANGED lockFile

\* EADDRINUSE: the lock file goes, whoever has it.
PortInUse(w) == Becomes(w, "booting", "dead") /\ port # None /\ lockFile' = NoLock /\ UNCHANGED port

BootFails(w) == Becomes(w, "booting", "dead") /\ UNCHANGED <<lockFile, port>>

\* shutdown: the server is closed, then the lock file goes, whoever has it.
Close(w) == Becomes(w, "closing", "closed") /\ port' = None /\ UNCHANGED lockFile
Exit(w) == Becomes(w, "closed", "dead") /\ lockFile' = NoLock /\ UNCHANGED port

Crash(w) ==
  /\ worker[w] \in {"serving", "closing", "closed"} /\ Becomes(w, worker[w], "dead")
  /\ port' = IF port = w THEN None ELSE port
  /\ UNCHANGED lockFile

-----------------------------------------------------------------------------
Start(c) ==
  \/ AlreadyRunning(c) \/ CleanPid(c) \/ CreateLock(c, "open") \/ LockExists(c) \/ ReadLock(c)
  \/ OwnerAlive(c) \/ Reclaim(c) \/ CreateLock(c, "retry") \/ LostRetry(c) \/ WriteOwnPid(c)
  \/ Fork(c) \/ ForkFails(c) \/ ForkGivesNoPid(c) \/ WritePid(c) \/ WriteLockPid(c)
Stop(c) == NotRunning(c) \/ Signal(c) \/ StalePid(c) \/ RemovePid(c) \/ RemoveLock(c)
Worker(w) == Bind(w) \/ PortInUse(w) \/ BootFails(w) \/ Close(w) \/ Exit(w)

Next ==
  \/ \E c \in Commands : BeginStart(c) \/ Start(c) \/ BeginStop(c) \/ Stop(c) \/ KillCommand(c)
  \/ \E w \in Workers : Worker(w) \/ Crash(w)

Spec == Init /\ [][Next]_vars

\* A worker that has begun to boot or to close gets on with it; so does a stop.
Fairness ==
  /\ \A w \in Workers : WF_vars(Worker(w))
  /\ \A c \in Commands : WF_vars(Stop(c)) /\ WF_vars(Start(c))
FairSpec == Spec /\ Fairness

-----------------------------------------------------------------------------
(* Properties *)

\* Workers nobody has told to go.
Daemons == {w \in Workers : WorkerAlive(w) /\ w \notin signalled}
Alone(c) == Active(c) /\ c \notin overlap

\* What a command knows.  A start that has run alone finds nobody alive but its own child,
\* and the lock it has reclaimed stays free; while commands neither overlap nor are killed,
\* the daemons are those the pid file names, or the child about to be recorded; no command
\* takes itself for the owner of what it reads.
AloneOK(c) ==
  Alone(c) => /\ \A d \in Commands \ {c} : ~Active(d)
              /\ \A w \in Workers : WorkerAlive(w) => w = child[c]
              /\ stage[c] = "retry" => lockFile = NoLock
OrderedOK(c) ==
  ~disturbed /\ Active(c) =>
    /\ \A d \in Commands \ {c} : ~Active(d)
    /\ stage[c] \in {"pid", "aim"} => saw[c] = pidFile
    /\ stage[c] \in {"open", "inspect", "judge", "retry", "write", "fork", "unpid", "unlock"} => Daemons = {}
    /\ stage[c] = "record" => Daemons \subseteq {child[c]}
    /\ stage[c] \in {"pid", "aim", "relabel"} => Daemons \subseteq {pidFile}
OwnOK(c) ==
  /\ stage[c] \in {"idle", "pid", "open", "inspect", "judge", "retry", "write", "fork"} => child[c] = None
  /\ stage[c] \in {"idle", "pid", "open", "inspect"} => lockFile.pid # c
  /\ stage[c] = "judge" => saw[c] # c
  /\ stage[c] \in {"pid", "aim"} => saw[c] \notin Commands
DaemonInv == TypeOK /\ \A c \in Commands : AloneOK(c) /\ OrderedOK(c) /\ OwnOK(c)

\* A lone `daemon start` is never refused: whatever files crashed workers and killed
\* commands have left, they do not pass for a running daemon (acquireLock: STALE).
NeverWedged == \A c \in Commands : stage[c] = "refused" => c \in overlap

\* While commands neither overlap nor are killed there is one daemon at most, and between
\* commands it is the one the pid file names, so that status and stop find it: whatever the
\* crashes, failed forks, failed boots, and slow shutdowns of daemons that were stopped.
OneDaemon == \A v, w \in Daemons : v = w
StatusIsTrue ==
  ~disturbed => /\ OneDaemon
                /\ (\A c \in Commands : ~Active(c)) => Daemons \subseteq {pidFile}

\* What `daemon stop` has signalled goes, however early or late in its life it was hit.
StopStops == \A w \in Workers : w \in signalled ~> worker[w] = "dead"
=============================================================================
