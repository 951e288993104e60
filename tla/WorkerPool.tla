----------------------------- MODULE WorkerPool -----------------------------
(***************************************************************************)
(* The bounded pool of worker threads (workers/pool.ts) that runs the code *)
(* parser and the embedding model off the main thread.                     *)
(*                                                                         *)
(* One step is one call of run() or close(), or one event of the main      *)
(* thread's event loop (a message, a timer, an exit), each with all that   *)
(* its handler does; between two of them the worker threads answer and die *)
(* on their own.  A worker is an element of Workers, free again once its   *)
(* thread is gone.  Requests are plain data, so postMessage never throws.  *)
(***************************************************************************)
EXTENDS Integers, Sequences, FiniteSets

CONSTANTS
  Tasks,       \* the tasks callers will submit
  Timed,       \* those with a timeout (timeoutMs > 0)
  None,        \* no task
  Workers,     \* bound: worker threads in existence, terminated ones included
  FirstWorkers,\* those the constructor starts: as many as the pool's size
  CrashLimit   \* CRASH_STORM_MAX_CONSECUTIVE

ASSUME TasksAssumption == Timed \subseteq Tasks /\ None \notin Tasks
ASSUME SizesAssumption ==
  /\ FirstWorkers \subseteq Workers /\ FirstWorkers # {} /\ IsFiniteSet(FirstWorkers)
  /\ CrashLimit \in Nat \ {0}
Size == Cardinality(FirstWorkers)

VARIABLES
  queue,     \* tasks waiting for a worker, first come first served
  busy,      \* the task each worker is busy with, or None
  idle,      \* idle workers
  workers,   \* workers of the pool
  outcome,   \* what became of each task's promise
  crashes,   \* unexpected exits within CRASH_STORM_WINDOW_MS
  disabled,  \* the crash-storm guard has tripped
  closing,   \* "open", "closing", "closed" (and then the promise of close) "resolved"
  stopping,  \* the workers whose termination close() awaits
  thread,    \* "none", "live", "ending" (terminate() called) or "exited" (died by itself)
  given,     \* the request a thread has received and not answered, or None
  reply      \* what a thread has posted and the main thread not received: at most one

pool == <<queue, busy, idle, workers, closing, stopping>>
guard == <<crashes, disabled>>
threads == <<thread, given, reply>>
vars == <<pool, outcome, guard, threads>>

Settled == {"result", "error", "timeout", "crash", "closed", "disabled"}
Reply == [task: Tasks, ok: BOOLEAN]

TypeOK ==
  /\ queue \in Seq(Tasks)
  /\ busy \in [Workers -> Tasks \cup {None}]
  /\ idle \subseteq Workers /\ workers \subseteq Workers /\ stopping \subseteq Workers
  /\ outcome \in [Tasks -> {"new", "pending"} \cup Settled]
  /\ crashes \in Nat /\ disabled \in BOOLEAN
  /\ closing \in {"open", "closing", "closed", "resolved"}
  /\ thread \in [Workers -> {"none", "live", "ending", "exited"}]
  /\ given \in [Workers -> Tasks \cup {None}]
  /\ reply \in [Workers -> SUBSET Reply]

Init ==
  /\ workers = FirstWorkers /\ idle = FirstWorkers /\ queue = <<>>
  /\ busy = [w \in Workers |-> None]
  /\ outcome = [t \in Tasks |-> "new"]
  /\ crashes = 0 /\ disabled = FALSE /\ closing = "open" /\ stopping = {}
  /\ thread = [w \in Workers |-> IF w \in workers THEN "live" ELSE "none"]
  /\ given = [w \in Workers |-> None] /\ reply = [w \in Workers |-> {}]

-----------------------------------------------------------------------------
Queued == {queue[i] : i \in DOMAIN queue}

\* The tasks T leave the pool with an outcome.  failTask leaves a settled one alone.
Fail(T, why) ==
  outcome' = [t \in Tasks |-> IF t \in T /\ outcome[t] = "pending" THEN why ELSE outcome[t]]

\* detachWorker.
Without(b, w) == [b EXCEPT ![w] = None]

\* dispatch: the first n tasks of the queue q go to n of the idle workers I, until there
\* is no task or no worker left; b says what the others are busy with.
Dispatch(q, I, b) ==
  \E n \in 0..Len(q) : \E f \in [1..n -> I] :
     /\ \A i, j \in 1..n : f[i] = f[j] => i = j
     /\ n = Len(q) \/ I = {f[i] : i \in 1..n}
     /\ queue' = SubSeq(q, n + 1, Len(q))
     /\ idle' = I \ {f[i] : i \in 1..n}
     /\ busy' = [w \in Workers |-> IF \E i \in 1..n : f[i] = w
                                    THEN q[CHOOSE i \in 1..n : f[i] = w] ELSE b[w]]

\* maybeFinishClose: close() was called and nothing is left to do.
\* Mutant: it returns early in a disabled pool.
FinishedUnlessDisabled(state) ==
  ~disabled /\ state = "closing" /\ queue' = <<>> /\ \A w \in Workers : busy'[w] = None
Finished(state) == state = "closing" /\ queue' = <<>> /\ \A w \in Workers : busy'[w] = None

\* The end of every handler: dispatch, then maybeFinishClose.  Queue, idle and busy
\* workers, workers, threads and requests are given as the handler leaves them.
Conclude(state, q, I, b, W, th, g) ==
  \/ /\ Dispatch(q, I, b) /\ ~Finished(state)
     /\ closing' = state /\ workers' = W /\ thread' = th /\ UNCHANGED stopping
     /\ given' = [w \in Workers |-> IF w \in I \ idle' THEN busy'[w] ELSE g[w]]
  \/ /\ queue' = q /\ busy' = b /\ q = <<>> /\ idle' = {} /\ Finished(state)
     /\ closing' = "closed" /\ workers' = {} /\ stopping' = W /\ given' = g
     /\ thread' = [w \in Workers |-> IF w \in W /\ th[w] = "live" THEN "ending" ELSE th[w]]

-----------------------------------------------------------------------------
(* The callers *)
Run(t) ==
  /\ outcome[t] = "new"
  /\ IF closing # "open" \/ disabled
     THEN /\ outcome' = [outcome EXCEPT ![t] = IF closing # "open" THEN "closed" ELSE "disabled"]
          /\ UNCHANGED <<pool, threads>>
     ELSE /\ outcome' = [outcome EXCEPT ![t] = "pending"]
          /\ Conclude(closing, Append(queue, t), idle, busy, workers, thread, given)
          /\ UNCHANGED reply
  /\ UNCHANGED guard

\* close() lets the tasks in flight finish; "cancel" rejects the queued ones.
\* Mutant: "cancel" empties the queue without rejecting its tasks.
CloseForgets(mode) ==
  /\ closing = "open" /\ UNCHANGED outcome
  /\ Conclude("closing", IF mode = "cancel" THEN <<>> ELSE queue, idle, busy, workers, thread, given)
  /\ UNCHANGED <<guard, reply>>
Close(mode) ==
  /\ closing = "open"
  /\ Fail(IF mode = "cancel" THEN Queued ELSE {}, "closed")
  /\ Conclude("closing", IF mode = "cancel" THEN <<>> ELSE queue, idle, busy, workers, thread, given)
  /\ UNCHANGED <<guard, reply>>

\* worker.terminate() has settled for every worker the pool had.
ResolveClose ==
  /\ closing = "closed" /\ \A w \in stopping : thread[w] = "none"
  /\ closing' = "resolved"
  /\ UNCHANGED <<queue, busy, idle, workers, stopping, outcome, guard, threads>>

(* The threads: an answer, or a death nobody asked for *)
Respond(w, ok) ==
  /\ thread[w] \in {"live", "ending"} /\ given[w] # None
  /\ reply' = [reply EXCEPT ![w] = {[task |-> given[w], ok |-> ok]}]
  /\ given' = [given EXCEPT ![w] = None]
  /\ UNCHANGED <<pool, outcome, guard, thread>>

Crash(w) ==
  /\ thread[w] = "live"
  /\ thread' = [thread EXCEPT ![w] = "exited"]
  /\ given' = [given EXCEPT ![w] = None]
  /\ UNCHANGED <<pool, outcome, guard, reply>>

-----------------------------------------------------------------------------
(* The handlers of the main thread *)

\* handleMessage: the answer goes to the task the worker is busy with; that of a worker
\* that is busy with nothing any more is ignored.
Message(w, r) ==
  /\ r \in reply[w]
  /\ reply' = [reply EXCEPT ![w] = {}]
  /\ IF busy[w] = None
     THEN UNCHANGED <<pool, outcome, guard, thread, given>>
     ELSE /\ outcome' = [outcome EXCEPT ![busy[w]] = IF r.ok THEN "result" ELSE "error"]
          /\ crashes' = IF r.ok THEN 0 ELSE crashes
          /\ Conclude(closing, queue, idle \cup {w}, Without(busy, w), workers, thread, given)
          /\ UNCHANGED disabled

\* handleTimeout: the worker is terminated and replaced, whatever the guard says.
\* Mutants: the worker is not detached; it is kept and put back; it is not replaced.
TimeoutStillBusy(w, v) ==
  /\ busy[w] \in Timed /\ thread[v] = "none"
  /\ Fail({busy[w]}, "timeout")
  /\ Conclude(closing, queue, (idle \ {w}) \cup {v}, busy, workers \cup {v},
              [thread EXCEPT ![w] = IF @ = "live" THEN "ending" ELSE @, ![v] = "live"], given)
  /\ UNCHANGED <<guard, reply>>
TimeoutReuses(w, v) ==
  /\ busy[w] \in Timed /\ v = w
  /\ Fail({busy[w]}, "timeout")
  /\ Conclude(closing, queue, idle \cup {w}, Without(busy, w), workers, thread, given)
  /\ UNCHANGED <<guard, reply>>
TimeoutShrinks(w, v) ==
  /\ busy[w] \in Timed /\ v = w
  /\ Fail({busy[w]}, "timeout")
  /\ Conclude(closing, queue, idle \ {w}, Without(busy, w), workers \ {w},
              [thread EXCEPT ![w] = IF @ = "live" THEN "ending" ELSE @], given)
  /\ UNCHANGED <<guard, reply>>
Timeout(w, v) ==
  /\ busy[w] \in Timed /\ thread[v] = "none"
  /\ Fail({busy[w]}, "timeout")
  /\ Conclude(closing, queue, (idle \ {w}) \cup {v}, Without(busy, w), (workers \ {w}) \cup {v},
              [thread EXCEPT ![w] = IF @ = "live" THEN "ending" ELSE @, ![v] = "live"], given)
  /\ UNCHANGED <<guard, reply>>

\* A crash leaves the window of the guard.
CrashAges ==
  /\ crashes > 0 /\ crashes' = crashes - 1
  /\ UNCHANGED <<pool, outcome, disabled, threads>>

\* handleExit, once the messages of the thread are delivered; an exit the pool asked
\* for changes nothing.
Gone(w) == [thread EXCEPT ![w] = "none"]
ExitExpected(w) ==
  /\ thread[w] \in {"ending", "exited"} /\ reply[w] = {} /\ w \notin workers
  /\ thread' = Gone(w) /\ given' = Without(given, w)
  /\ UNCHANGED <<pool, outcome, guard, reply>>

\* The task in flight fails.  A replacement is started (here, under the same name)
\* unless the crashes in the window reach the limit: then the pool is disabled and the
\* queue rejected.  A worker less, the pool is below its size, as the code asks.
ExitRespawn(w) ==
  /\ thread[w] = "exited" /\ reply[w] = {} /\ w \in workers
  /\ crashes + 1 < CrashLimit
  /\ crashes' = crashes + 1
  /\ Fail({busy[w]}, "crash")
  /\ Conclude(closing, queue, idle \cup {w}, Without(busy, w), workers,
              [thread EXCEPT ![w] = "live"], Without(given, w))
  /\ UNCHANGED <<disabled, reply>>

ExitDisable(w) ==
  /\ thread[w] = "exited" /\ reply[w] = {} /\ w \in workers
  /\ crashes + 1 >= CrashLimit
  /\ crashes' = crashes + 1 /\ disabled' = TRUE
  /\ outcome' = [t \in Tasks |-> IF outcome[t] # "pending" THEN outcome[t]
                                 ELSE IF t = busy[w] THEN "crash"
                                 ELSE IF ~disabled /\ t \in Queued THEN "disabled"
                                 ELSE outcome[t]]
  /\ Conclude(closing, IF disabled THEN queue ELSE <<>>, idle \ {w}, Without(busy, w),
              workers \ {w}, Gone(w), Without(given, w))
  /\ UNCHANGED reply

-----------------------------------------------------------------------------
Handle(w) ==
  \/ \E r \in reply[w] : Message(w, r)
  \/ ExitExpected(w) \/ ExitRespawn(w) \/ ExitDisable(w)
Expire(w) == \E v \in Workers : Timeout(w, v)
Answer(w) == \E ok \in BOOLEAN : Respond(w, ok)

Next ==
  \/ \E t \in Tasks : Run(t)
  \/ \E mode \in {"drain", "cancel"} : Close(mode)
  \/ ResolveClose \/ CrashAges
  \/ \E w \in Workers : Handle(w) \/ Expire(w) \/ Answer(w) \/ Crash(w)

Spec == Init /\ [][Next]_vars

\* Events are delivered and timers fire, for each worker.  A caller that gives a task no
\* timeout counts on its worker to answer or die.
Serve(w) == Handle(w) \/ Expire(w) \/ (given[w] \notin Timed /\ Answer(w))
Fairness == WF_vars(ResolveClose) /\ \A w \in Workers : WF_vars(Serve(w))
FairSpec == Spec /\ Fairness

-----------------------------------------------------------------------------
(* Properties *)

\* An accepted task that has not settled is in exactly one place, the queue or the hands
\* of one worker, and a settled one in none (the maps queue and busy of WorkerPool).
Placed ==
  /\ \A t \in Tasks : (outcome[t] = "pending") <=> (t \in Queued \/ \E w \in Workers : busy[w] = t)
  /\ \A i, j \in DOMAIN queue : queue[i] = queue[j] => i = j
  /\ \A w \in Workers : busy[w] # None =>
        /\ busy[w] \notin Queued
        /\ \A v \in Workers : busy[v] = busy[w] => v = w

\* The pool's workers are the idle and the busy ones, and nobody is idle while a task
\* waits; a disabled or closed pool holds no task, a closed one no worker (dispatch,
\* disable, maybeFinishClose).
Staffed ==
  /\ \A w \in Workers : w \in workers <=> (w \in idle \/ busy[w] # None)
  /\ \A w \in idle : busy[w] = None
  /\ queue # <<>> => idle = {} /\ ~disabled
  /\ closing \in {"closed", "resolved"} => queue = <<>> /\ workers = {}

\* No thread outlives its place in the pool without having been told to end, and what a
\* pooled worker computes or has answered is the task it is busy with: a late answer
\* never meets another task (detachWorker before terminate, in handleTimeout).
Matched ==
  /\ \A w \in workers : /\ thread[w] \in {"live", "exited"}
                        /\ given[w] # None => given[w] = busy[w]
                        /\ \A r \in reply[w] : r.task = busy[w]
  /\ \A w \in Workers \ workers : thread[w] # "live"
  /\ \A w \in Workers : /\ reply[w] # {} => given[w] = None
                        /\ thread[w] = "none" => (given[w] = None /\ reply[w] = {})
PoolInv == TypeOK /\ Placed /\ Staffed /\ Matched

\* The pool keeps its size until it closes or the guard trips, and never exceeds it
\* (constructor, handleTimeout, handleExit).
SizeKept ==
  /\ Cardinality(workers) <= Size
  /\ closing \in {"open", "closing"} /\ ~disabled => Cardinality(workers) = Size

\* Every accepted task settles at most once: no later answer, exit, timeout or close
\* touches it again (pool.ts: "every accepted task settles exactly once").
KeepsSettled == \A t \in Tasks : outcome[t] \in Settled => outcome'[t] = outcome[t]
SettledOnce == [][KeepsSettled]_vars

\* A task is resolved or rejected by an answer only if a worker gave it for that very
\* task (handleMessage does not compare the id of the message).
AnsweredByOwn ==
  \A t \in Tasks : outcome[t] = "pending" /\ outcome'[t] \in {"result", "error"} =>
     \E w \in Workers : [task |-> t, ok |-> outcome'[t] = "result"] \in reply[w]
OwnReply == [][AnsweredByOwn]_vars

\* Every accepted task settles at last, whatever dies, hangs or closes in the meantime: again
\* and again none is left pending, and a task is accepted once (pool.ts: "never wedge the
\* caller").
EveryTaskSettles == []<>(\A t \in Tasks : outcome[t] # "pending")

\* close() resolves at last, in a healthy pool as in a disabled one (close, maybeFinishClose).
CloseResolves == closing = "closing" ~> closing = "resolved"
=============================================================================
