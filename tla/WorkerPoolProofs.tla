-------------------------- MODULE WorkerPoolProofs --------------------------
(***************************************************************************)
(* Proofs about WorkerPool: no accepted task is lost or doubled, it        *)
(* settles once and by its own answer, and the pool keeps its size; for    *)
(* any tasks, workers, timeouts and limits.                                *)
(***************************************************************************)
EXTENDS WorkerPool, SequenceTheorems, FiniteSetTheorems, TLAPS

\* Queue, idle workers, bookings and workers as a handler leaves them to dispatch.
Tidy(q, I, b, W) ==
  /\ q \in Seq(Tasks) /\ I \subseteq Workers /\ W \subseteq Workers
  /\ b \in [Workers -> Tasks \cup {None}]
  /\ \A i, j \in 1..Len(q) : q[i] = q[j] => i = j
  /\ \A w \in Workers : b[w] # None => /\ \A i \in 1..Len(q) : q[i] # b[w]
                                       /\ \A v \in Workers : b[v] = b[w] => v = w
  /\ \A w \in Workers : w \in W <=> (w \in I \/ b[w] # None)
  /\ \A w \in I : b[w] = None
Holding(q, b, t) == (\E i \in 1..Len(q) : q[i] = t) \/ \E w \in Workers : b[w] = t

\* Matched, of workers, bookings, threads, requests and answers.
Match(W, b, th, g, rp) ==
  /\ \A w \in W : /\ th[w] \in {"live", "exited"}
                  /\ g[w] # None => g[w] = b[w]
                  /\ \A r \in rp[w] : r.task = b[w]
  /\ \A w \in Workers \ W : th[w] # "live"
  /\ \A w \in Workers : /\ rp[w] # {} => g[w] = None
                        /\ th[w] = "none" => (g[w] = None /\ rp[w] = {})
ThreadsOK(th, g) ==
  /\ th \in [Workers -> {"none", "live", "ending", "exited"}]
  /\ g \in [Workers -> Tasks \cup {None}]
BooksOK ==
  /\ outcome \in [Tasks -> {"new", "pending"} \cup Settled]
  /\ crashes \in Nat /\ disabled \in BOOLEAN
  /\ reply \in [Workers -> SUBSET Reply]

\* What the invariant says, in these terms.
LEMMA Parts ==
  ASSUME TypeOK
  PROVE  /\ DOMAIN queue = 1..Len(queue) /\ Len(queue) \in Nat
         /\ Queued = {queue[i] : i \in 1..Len(queue)}
         /\ Placed <=> /\ \A t \in Tasks : (outcome[t] = "pending") <=> Holding(queue, busy, t)
                       /\ \A i, j \in 1..Len(queue) : queue[i] = queue[j] => i = j
                       /\ \A w \in Workers : busy[w] # None =>
                            /\ \A i \in 1..Len(queue) : queue[i] # busy[w]
                            /\ \A v \in Workers : busy[v] = busy[w] => v = w
         /\ Matched <=> Match(workers, busy, thread, given, reply)
<1>1. DOMAIN queue = 1..Len(queue) /\ Len(queue) \in Nat
  BY LenProperties DEF TypeOK
<1>2. Queued = {queue[i] : i \in 1..Len(queue)}
  BY <1>1 DEF Queued
<1>3. Matched <=> Match(workers, busy, thread, given, reply)
  BY DEF Matched, Match
<1>. QED
  BY <1>1, <1>2, <1>3 DEF Placed, Holding

LEMMA PoolTidy ==
  ASSUME PoolInv
  PROVE  /\ Tidy(queue, idle, busy, workers)
         /\ \A t \in Tasks : (outcome[t] = "pending") <=> Holding(queue, busy, t)
         /\ Match(workers, busy, thread, given, reply)
<1>1. TypeOK /\ Placed /\ Staffed /\ Matched
  BY DEF PoolInv
<1>. QED
  BY <1>1, Parts DEF Tidy, Staffed, TypeOK

-----------------------------------------------------------------------------
(* The end of every handler *)

\* dispatch moves tasks from the queue to idle workers, and does nothing else.
LEMMA Dispatches ==
  ASSUME NEW q, NEW I, NEW b, NEW W, Tidy(q, I, b, W), Dispatch(q, I, b)
  PROVE  /\ Tidy(queue', idle', busy', W)
         /\ \A t \in Tasks : Holding(queue', busy', t) <=> Holding(q, b, t)
         /\ queue' # <<>> => idle' = {} /\ q # <<>>
         /\ \A w \in Workers : IF w \in I \ idle' THEN busy'[w] \in Tasks /\ b[w] = None
                                                  ELSE busy'[w] = b[w]
<1>0. PICK n \in 0..Len(q) : \E f \in [1..n -> I] :
        /\ \A i, j \in 1..n : f[i] = f[j] => i = j
        /\ n = Len(q) \/ I = {f[i] : i \in 1..n}
        /\ queue' = SubSeq(q, n + 1, Len(q))
        /\ idle' = I \ {f[i] : i \in 1..n}
        /\ busy' = [w \in Workers |-> IF \E i \in 1..n : f[i] = w
                                       THEN q[CHOOSE i \in 1..n : f[i] = w] ELSE b[w]]
  BY DEF Dispatch
<1>1. PICK f \in [1..n -> I] :
        /\ \A i, j \in 1..n : f[i] = f[j] => i = j
        /\ n = Len(q) \/ I = {f[i] : i \in 1..n}
        /\ queue' = SubSeq(q, n + 1, Len(q))
        /\ idle' = I \ {f[i] : i \in 1..n}
        /\ busy' = [w \in Workers |-> IF \E i \in 1..n : f[i] = w
                                       THEN q[CHOOSE i \in 1..n : f[i] = w] ELSE b[w]]
  BY <1>0
<1>2. Len(q) \in Nat /\ n \in Nat /\ n <= Len(q) /\ \A i \in 1..Len(q) : q[i] \in Tasks
  BY ElementOfSeq, LenProperties DEF Tidy
<1>3. /\ queue' \in Seq(Tasks) /\ Len(queue') = Len(q) - n
      /\ \A i \in 1..Len(queue') : queue'[i] = q[n + i] /\ n + i \in 1..Len(q)
  <2>1. \A i \in (n + 1)..Len(q) : q[i] \in Tasks
    BY <1>2
  <2>. QED
    BY <1>1, <1>2, <2>1, SubSeqProperties, Z3
<1>4. \A i \in 1..n : f[i] \in I /\ f[i] \in Workers /\ busy'[f[i]] = q[i] /\ i \in 1..Len(q)
  <2>. SUFFICES ASSUME NEW i \in 1..n
                PROVE  f[i] \in I /\ f[i] \in Workers /\ busy'[f[i]] = q[i] /\ i \in 1..Len(q)
    OBVIOUS
  <2>1. f[i] \in I /\ f[i] \in Workers /\ i \in 1..Len(q)
    BY <1>1, <1>2 DEF Tidy
  <2>2. (CHOOSE k \in 1..n : f[k] = f[i]) = i
    BY <1>1
  <2>. QED
    BY <1>1, <2>1, <2>2
<1>5. \A w \in Workers : (~\E i \in 1..n : f[i] = w) => busy'[w] = b[w]
  BY <1>1
<1>6. \A w \in Workers : (w \in I \ idle') <=> \E i \in 1..n : f[i] = w
  BY <1>1, <1>4
<1>7. \A k \in 1..Len(q) : k \in 1..n \/ (k - n \in 1..Len(queue') /\ queue'[k - n] = q[k])
  <2>. SUFFICES ASSUME NEW k \in 1..Len(q), k \notin 1..n
                PROVE  k - n \in 1..Len(queue') /\ queue'[k - n] = q[k]
    OBVIOUS
  <2>1. k - n \in 1..Len(queue') /\ n + (k - n) = k
    BY <1>2, <1>3
  <2>. QED
    BY <1>3, <2>1
<1>8. \A w \in Workers : IF w \in I \ idle' THEN busy'[w] \in Tasks /\ b[w] = None
                                            ELSE busy'[w] = b[w]
  BY <1>2, <1>4, <1>5, <1>6 DEF Tidy
<1>9. queue' # <<>> => idle' = {} /\ q # <<>>
  <2>. SUFFICES ASSUME queue' # <<>> PROVE idle' = {} /\ q # <<>>
    OBVIOUS
  <2>1. Len(queue') # 0
    BY <1>3, EmptySeq
  <2>2. n # Len(q) /\ Len(q) # 0
    BY <1>2, <1>3, <2>1
  <2>. QED
    BY <1>1, <2>2, EmptySeq
<1>10. Tidy(queue', idle', busy', W)
  <2>1. idle' \subseteq I /\ busy' \in [Workers -> Tasks \cup {None}]
    <3>1. idle' \subseteq I /\ DOMAIN busy' = Workers /\ busy' = [w \in Workers |-> busy'[w]]
      BY <1>1
    <3>. QED
      BY <1>8, <3>1 DEF Tidy
  <2>2. \A i, j \in 1..Len(queue') : queue'[i] = queue'[j] => i = j
    <3>. SUFFICES ASSUME NEW i \in 1..Len(queue'), NEW j \in 1..Len(queue'),
                         queue'[i] = queue'[j]
                  PROVE  i = j
      OBVIOUS
    <3>1. n + i \in 1..Len(q) /\ n + j \in 1..Len(q) /\ q[n + i] = q[n + j]
      BY <1>3
    <3>2. n + i = n + j
      BY <3>1 DEF Tidy
    <3>. QED
      BY <1>2, <3>2
  <2>3. \A w \in Workers : busy'[w] # None => \A i \in 1..Len(queue') : queue'[i] # busy'[w]
    <3>. SUFFICES ASSUME NEW w \in Workers, busy'[w] # None, NEW i \in 1..Len(queue'),
                         queue'[i] = busy'[w]
                  PROVE  FALSE
      OBVIOUS
    <3>1. n + i \in 1..Len(q) /\ q[n + i] = busy'[w]
      BY <1>3
    <3>2. CASE \E k \in 1..n : f[k] = w
      <4>1. PICK k \in 1..n : f[k] = w
        BY <3>2
      <4>2. q[k] = q[n + i] /\ k \in 1..Len(q)
        BY <1>4, <3>1, <4>1
      <4>3. k = n + i
        BY <3>1, <4>2 DEF Tidy
      <4>. QED
        BY <1>2, <1>3, <4>3
    <3>3. CASE ~\E k \in 1..n : f[k] = w
      BY <1>5, <3>1, <3>3 DEF Tidy
    <3>. QED
      BY <3>2, <3>3
  <2>4. \A w \in Workers : busy'[w] # None => \A v \in Workers : busy'[v] = busy'[w] => v = w
    <3>. SUFFICES ASSUME NEW w \in Workers, NEW v \in Workers, busy'[w] # None,
                         busy'[v] = busy'[w]
                  PROVE  v = w
      OBVIOUS
    <3>1. CASE (\E k \in 1..n : f[k] = w) /\ (\E k \in 1..n : f[k] = v)
      <4>1. PICK k \in 1..n, m \in 1..n : f[k] = w /\ f[m] = v
        BY <3>1
      <4>2. q[k] = q[m] /\ k \in 1..Len(q) /\ m \in 1..Len(q)
        BY <1>4, <4>1
      <4>. QED
        BY <4>1, <4>2 DEF Tidy
    <3>2. CASE (\E k \in 1..n : f[k] = w) /\ ~(\E k \in 1..n : f[k] = v)
      BY <1>4, <1>5, <3>2 DEF Tidy
    <3>3. CASE ~(\E k \in 1..n : f[k] = w) /\ (\E k \in 1..n : f[k] = v)
      BY <1>4, <1>5, <3>3 DEF Tidy
    <3>4. CASE ~(\E k \in 1..n : f[k] = w) /\ ~(\E k \in 1..n : f[k] = v)
      BY <1>5, <3>4 DEF Tidy
    <3>. QED
      BY <3>1, <3>2, <3>3, <3>4
  <2>5. \A w \in Workers : w \in W <=> (w \in idle' \/ busy'[w] # None)
    BY <1>8, <2>1, TasksAssumption DEF Tidy
  <2>6. \A w \in idle' : busy'[w] = None
    BY <1>8, <2>1 DEF Tidy
  <2>. QED
    BY <1>3, <2>1, <2>2, <2>3, <2>4, <2>5, <2>6 DEF Tidy
<1>11. \A t \in Tasks : Holding(queue', busy', t) <=> Holding(q, b, t)
  <2>. SUFFICES ASSUME NEW t \in Tasks PROVE Holding(queue', busy', t) <=> Holding(q, b, t)
    OBVIOUS
  <2>1. ASSUME Holding(queue', busy', t) PROVE Holding(q, b, t)
    <3>1. CASE \E i \in 1..Len(queue') : queue'[i] = t
      BY <1>3, <3>1 DEF Holding
    <3>2. CASE \E w \in Workers : busy'[w] = t
      <4>1. PICK w \in Workers : busy'[w] = t
        BY <3>2
      <4>. QED
        BY <1>4, <1>5, <4>1 DEF Holding
    <3>. QED
      BY <2>1, <3>1, <3>2 DEF Holding
  <2>2. ASSUME Holding(q, b, t) PROVE Holding(queue', busy', t)
    <3>1. CASE \E i \in 1..Len(q) : q[i] = t
      BY <1>4, <1>7, <3>1 DEF Holding
    <3>2. CASE \E w \in Workers : b[w] = t
      <4>1. PICK w \in Workers : b[w] = t
        BY <3>2
      <4>2. w \notin I
        BY <4>1, TasksAssumption DEF Tidy
      <4>. QED
        BY <1>8, <4>1, <4>2 DEF Holding
    <3>. QED
      BY <2>2, <3>1, <3>2 DEF Holding
  <2>. QED
    BY <2>1, <2>2
<1>. QED
  BY <1>8, <1>9, <1>10, <1>11

\* dispatch and maybeFinishClose turn what a tidy handler leaves into a good state.
LEMMA Concludes ==
  ASSUME NEW state \in {"open", "closing"}, NEW q, NEW I, NEW b, NEW W, NEW th, NEW g,
         Tidy(q, I, b, W), Match(W, b, th, g, reply'), ThreadsOK(th, g), BooksOK',
         \A t \in Tasks : (outcome'[t] = "pending") <=> Holding(q, b, t),
         q # <<>> => ~disabled',
         stopping \subseteq Workers,
         Conclude(state, q, I, b, W, th, g)
  PROVE  PoolInv'
<1>1. \A w \in I : w \in W /\ b[w] = None /\ g[w] = None /\ reply'[w] = {}
  <2>. SUFFICES ASSUME NEW w \in I PROVE w \in W /\ b[w] = None /\ g[w] = None /\ reply'[w] = {}
    OBVIOUS
  <2>1. w \in W /\ w \in Workers /\ b[w] = None
    BY DEF Tidy
  <2>2. g[w] = None
    BY <2>1 DEF Match
  <2>3. \A r \in reply'[w] : r.task = None /\ r.task \in Tasks
    BY <2>1 DEF Match, BooksOK, Reply
  <2>. QED
    BY <2>1, <2>2, <2>3, TasksAssumption
<1>2. SUFFICES TypeOK' /\ Staffed' /\ Match(workers, busy, thread, given, reply)'
               /\ \E J : Tidy(queue', J, busy', W)
               /\ \A t \in Tasks : Holding(queue', busy', t) <=> Holding(q, b, t)
  <2>1. TypeOK'
    BY <1>2
  <2>2. Placed' /\ Matched'
    <3>1. /\ DOMAIN queue' = 1..Len(queue')
          /\ queue' \in Seq(Tasks)
      BY <1>2, LenProperties DEF Tidy
    <3>2. \A t : t \in Queued' <=> \E i \in 1..Len(queue') : queue'[i] = t
      BY <3>1 DEF Queued
    <3>. QED
      BY <1>2, <3>1, <3>2 DEF Placed, Matched, Match, Tidy, Holding
  <2>. QED
    BY <1>2, <2>1, <2>2 DEF PoolInv
<1>3. CASE Dispatch(q, I, b) /\ ~Finished(state)
           /\ closing' = state /\ workers' = W /\ thread' = th /\ UNCHANGED stopping
           /\ given' = [w \in Workers |-> IF w \in I \ idle' THEN busy'[w] ELSE g[w]]
  <2>1. /\ Tidy(queue', idle', busy', W)
        /\ \A t \in Tasks : Holding(queue', busy', t) <=> Holding(q, b, t)
        /\ queue' # <<>> => idle' = {} /\ q # <<>>
        /\ \A w \in Workers : IF w \in I \ idle' THEN busy'[w] \in Tasks /\ b[w] = None
                                                  ELSE busy'[w] = b[w]
    BY <1>3, Dispatches
  <2>2. given' \in [Workers -> Tasks \cup {None}]
    BY <1>3, <2>1 DEF ThreadsOK
  <2>3. TypeOK'
    BY <1>3, <2>1, <2>2 DEF TypeOK, Tidy, ThreadsOK, BooksOK
  <2>4. Staffed'
    BY <1>3, <2>1 DEF Staffed, Tidy
  <2>5. Match(workers', busy', thread', given', reply')
    <3>1. \A w \in Workers : IF w \in I \ idle'
                             THEN given'[w] = busy'[w] /\ reply'[w] = {} /\ w \in W
                             ELSE given'[w] = g[w] /\ busy'[w] = b[w]
      BY <1>1, <1>3, <2>1
    <3>2. \A w \in W : w \in Workers
      BY <2>1 DEF Tidy
    <3>3. \A w \in W : /\ thread'[w] \in {"live", "exited"}
                       /\ given'[w] # None => given'[w] = busy'[w]
                       /\ \A r \in reply'[w] : r.task = busy'[w]
      BY <1>3, <3>1, <3>2 DEF Match
    <3>4. \A w \in Workers : /\ reply'[w] # {} => given'[w] = None
                             /\ thread'[w] = "none" => (given'[w] = None /\ reply'[w] = {})
      BY <1>3, <3>1, <3>3 DEF Match
    <3>. QED
      BY <1>3, <3>3, <3>4 DEF Match
  <2>. QED
    BY <2>1, <2>3, <2>4, <2>5
<1>4. CASE /\ queue' = q /\ busy' = b /\ q = <<>> /\ idle' = {} /\ Finished(state)
           /\ closing' = "closed" /\ workers' = {} /\ stopping' = W /\ given' = g
           /\ thread' = [w \in Workers |-> IF w \in W /\ th[w] = "live" THEN "ending" ELSE th[w]]
  <2>1. \A w \in Workers : busy'[w] = None
    BY <1>4 DEF Finished
  <2>2. thread' \in [Workers -> {"none", "live", "ending", "exited"}]
    BY <1>4 DEF ThreadsOK
  <2>3. TypeOK'
    BY <1>4, <2>2 DEF TypeOK, Tidy, ThreadsOK, BooksOK
  <2>4. Staffed'
    BY <1>4, <2>1 DEF Staffed
  <2>5. Match(workers', busy', thread', given', reply')
    BY <1>4 DEF Match
  <2>. QED
    BY <1>4, <2>3, <2>4, <2>5
<1>. QED
  BY <1>3, <1>4 DEF Conclude

-----------------------------------------------------------------------------
(* The handlers, one by one *)

\* Worker w lets go of its task: what is left is tidy for the idle workers J and workers W.
LEMMA LetsGo ==
  ASSUME PoolInv, NEW w \in Workers, NEW J \in SUBSET Workers, NEW W \in SUBSET Workers,
         \A v \in Workers : v \in W <=> (v \in J \/ Without(busy, w)[v] # None),
         \A v \in J : Without(busy, w)[v] = None
  PROVE  /\ Tidy(queue, J, Without(busy, w), W)
         /\ Without(busy, w) \in [Workers -> Tasks \cup {None}]
         /\ \A v \in Workers : Without(busy, w)[v] = IF v = w THEN None ELSE busy[v]
         /\ \A t \in Tasks : Holding(queue, Without(busy, w), t)
                                <=> (outcome[t] = "pending" /\ t # busy[w])
<1>1. Tidy(queue, idle, busy, workers)
  BY PoolTidy
<1>2. /\ Without(busy, w) \in [Workers -> Tasks \cup {None}]
      /\ \A v \in Workers : Without(busy, w)[v] = IF v = w THEN None ELSE busy[v]
  BY <1>1 DEF Tidy, Without
<1>3. Tidy(queue, J, Without(busy, w), W)
  BY <1>1, <1>2 DEF Tidy
<1>4. ASSUME NEW t \in Tasks
      PROVE  Holding(queue, Without(busy, w), t) <=> (Holding(queue, busy, t) /\ t # busy[w])
  <2>1. t # None
    BY TasksAssumption
  <2>. QED
    BY <1>1, <1>2, <2>1 DEF Holding, Tidy
<1>. QED
  BY <1>2, <1>3, <1>4, PoolTidy

\* failTask fails the pending tasks of T and touches no other.
LEMMA Fails ==
  ASSUME TypeOK, NEW T, NEW why \in Settled, Fail(T, why)
  PROVE  /\ outcome' \in [Tasks -> {"new", "pending"} \cup Settled]
         /\ \A t \in Tasks : (outcome'[t] = "pending") <=> (outcome[t] = "pending" /\ t \notin T)
         /\ \A t \in Tasks : outcome[t] # "pending" => outcome'[t] = outcome[t]
         /\ \A t \in Tasks : outcome'[t] \in {outcome[t], why}
BY DEF Fail, TypeOK, Settled

LEMMA RunStep ==
  ASSUME PoolInv, NEW t \in Tasks, Run(t) PROVE PoolInv'
<1>0. TypeOK /\ Staffed
  BY DEF PoolInv
<1>1. /\ outcome' \in [Tasks -> {"new", "pending"} \cup Settled]
      /\ \A u \in Tasks \ {t} : outcome'[u] = outcome[u]
  BY <1>0 DEF Run, TypeOK, Settled
<1>2. CASE closing # "open" \/ disabled
  <2>1. UNCHANGED <<pool, threads, guard>> /\ outcome'[t] # "pending" /\ outcome[t] # "pending"
    BY <1>0, <1>2 DEF Run, TypeOK
  <2>2. TypeOK' /\ Staffed' /\ Matched'
    BY <1>1, <2>1 DEF pool, threads, guard, PoolInv, TypeOK, Staffed, Matched
  <2>3. Placed'
    BY <1>1, <2>1 DEF pool, threads, guard, PoolInv, Placed, Queued
  <2>. QED
    BY <2>2, <2>3 DEF PoolInv
<1>3. CASE closing = "open" /\ ~disabled
  <2>. DEFINE q == Append(queue, t)
  <2>1. /\ outcome'[t] = "pending" /\ UNCHANGED <<guard, reply>>
        /\ Conclude(closing, q, idle, busy, workers, thread, given)
    BY <1>0, <1>3 DEF Run, TypeOK
  <2>2. Tidy(queue, idle, busy, workers) /\ Match(workers, busy, thread, given, reply) /\ ~Holding(queue, busy, t)
    BY PoolTidy DEF Run
  <2>3. /\ q \in Seq(Tasks) /\ Len(q) = Len(queue) + 1 /\ Len(queue) \in Nat
        /\ \A i \in 1..Len(queue) : q[i] = queue[i]
        /\ q[Len(queue) + 1] = t
    BY <1>0, AppendProperties, LenProperties DEF TypeOK
  <2>. HIDE DEF q
  <2>4. \A i \in 1..Len(q) : i \in 1..Len(queue) \/ i = Len(queue) + 1
    BY <2>3
  <2>5. Len(queue) + 1 \in 1..Len(q) /\ \A i \in 1..Len(queue) : i \in 1..Len(q)
    BY <2>3
  <2>6. Tidy(q, idle, busy, workers)
    BY <2>2, <2>3, <2>4 DEF Tidy, Holding
  <2>7. \A u \in Tasks : Holding(q, busy, u) <=> (Holding(queue, busy, u) \/ u = t)
    BY <2>3, <2>4, <2>5 DEF Holding
  <2>8. \A u \in Tasks : (outcome'[u] = "pending") <=> Holding(q, busy, u)
    BY <1>1, <2>1, <2>7, PoolTidy
  <2>9. BooksOK' /\ ThreadsOK(thread, given) /\ closing \in {"open", "closing"}
        /\ Match(workers, busy, thread, given, reply') /\ ~disabled' /\ stopping \subseteq Workers
    BY <1>0, <1>1, <1>3, <2>1, <2>2 DEF BooksOK, ThreadsOK, TypeOK, guard
  <2>. QED
    BY <2>1, <2>6, <2>8, <2>9, Concludes
<1>. QED
  BY <1>2, <1>3

LEMMA CloseStep ==
  ASSUME PoolInv, NEW mode, Close(mode) PROVE PoolInv'
<1>0. TypeOK /\ Staffed
  BY DEF PoolInv
<1>. DEFINE q == IF mode = "cancel" THEN <<>> ELSE queue
            T == IF mode = "cancel" THEN Queued ELSE {}
<1>1. /\ Fail(T, "closed") /\ UNCHANGED <<guard, reply>>
      /\ Conclude("closing", q, idle, busy, workers, thread, given)
  BY DEF Close
<1>2. Tidy(queue, idle, busy, workers) /\ Match(workers, busy, thread, given, reply)
  BY PoolTidy
<1>3. q \in Seq(Tasks) /\ (q = queue \/ (q = <<>> /\ Len(q) = 0))
  BY <1>0, EmptySeq DEF TypeOK
<1>4. Tidy(q, idle, busy, workers)
  BY <1>2, <1>3 DEF Tidy
<1>5. \A t \in Tasks : Holding(q, busy, t) <=> (Holding(queue, busy, t) /\ t \notin T)
  <2>1. CASE mode = "cancel"
    <3>1. \A t \in Tasks : t \in T <=> \E i \in 1..Len(queue) : queue[i] = t
      BY <1>0, <2>1, Parts
    <3>2. \A t \in Tasks : Holding(q, busy, t) <=> \E w \in Workers : busy[w] = t
      BY <1>3, <2>1, EmptySeq DEF Holding
    <3>. QED
      BY <1>2, <3>1, <3>2, TasksAssumption DEF Holding, Tidy
  <2>2. CASE mode # "cancel"
    BY <2>2
  <2>. QED
    BY <2>1, <2>2
<1>. HIDE DEF q, T
<1>6. BooksOK' /\ \A t \in Tasks : (outcome'[t] = "pending") <=> Holding(q, busy, t)
  BY <1>0, <1>1, <1>5, Fails, PoolTidy DEF BooksOK, TypeOK, guard, Settled
<1>7. ThreadsOK(thread, given) /\ stopping \subseteq Workers /\ (q # <<>> => ~disabled')
      /\ Match(workers, busy, thread, given, reply')
  BY <1>0, <1>1, <1>2, <1>3 DEF ThreadsOK, TypeOK, Staffed, guard
<1>. QED
  BY <1>1, <1>4, <1>6, <1>7, Concludes

\* While a worker is busy with a task the pool is open or closing and the task pending.
LEMMA AtWork ==
  ASSUME PoolInv, NEW w \in workers
  PROVE  /\ w \in Workers /\ closing \in {"open", "closing"} /\ stopping \subseteq Workers
         /\ busy[w] # None => busy[w] \in Tasks /\ outcome[busy[w]] = "pending"
         /\ ThreadsOK(thread, given) /\ BooksOK
         /\ \A v \in Workers : v \in workers <=> (v \in idle \/ busy[v] # None)
         /\ \A v \in idle : busy[v] = None
         /\ idle \subseteq Workers /\ workers \subseteq Workers
         /\ queue # <<>> => ~disabled
<1>1. TypeOK /\ Staffed /\ Placed
  BY DEF PoolInv
<1>. QED
  BY <1>1 DEF TypeOK, Staffed, Placed, ThreadsOK, BooksOK

LEMMA MessageStep ==
  ASSUME PoolInv, NEW w \in Workers, NEW r \in reply[w], Message(w, r) PROVE PoolInv'
<1>0. TypeOK /\ Staffed /\ Placed /\ Matched
  BY DEF PoolInv
<1>1. /\ reply' \in [Workers -> SUBSET Reply]
      /\ \A v \in Workers : reply'[v] = IF v = w THEN {} ELSE reply[v]
  BY <1>0 DEF Message, TypeOK
<1>2. CASE busy[w] = None
  <2>1. UNCHANGED <<pool, outcome, guard, thread, given>>
    BY <1>2 DEF Message
  <2>2. TypeOK'
    BY <1>0, <1>1, <2>1 DEF TypeOK, pool, guard
  <2>3. Staffed' /\ Placed'
    BY <1>0, <2>1 DEF Staffed, Placed, Queued, pool, guard
  <2>4. Matched'
    BY <1>0, <1>1, <2>1 DEF Matched, pool, guard, TypeOK
  <2>. QED
    BY <2>2, <2>3, <2>4 DEF PoolInv
<1>3. CASE busy[w] # None
  <2>. DEFINE b == Without(busy, w)
  <2>1. /\ outcome' = [outcome EXCEPT ![busy[w]] = IF r.ok THEN "result" ELSE "error"]
        /\ crashes' = IF r.ok THEN 0 ELSE crashes
        /\ Conclude(closing, queue, idle \cup {w}, b, workers, thread, given)
        /\ disabled' = disabled
    BY <1>3 DEF Message
  <2>2. w \in workers
    BY <1>0, <1>3 DEF Staffed
  <2>3. \A v \in Workers : b[v] = IF v = w THEN None ELSE busy[v]
    BY <1>0 DEF Without, TypeOK
  <2>4. /\ Tidy(queue, idle \cup {w}, b, workers)
        /\ \A t \in Tasks : Holding(queue, b, t) <=> (outcome[t] = "pending" /\ t # busy[w])
    <3>. HIDE DEF b
    <3>1. /\ idle \cup {w} \in SUBSET Workers /\ workers \in SUBSET Workers
          /\ \A v \in Workers : v \in workers <=> (v \in idle \cup {w} \/ b[v] # None)
          /\ \A v \in idle \cup {w} : b[v] = None
      BY <1>0, <2>2, <2>3, AtWork
    <3>. QED
      BY <3>1, LetsGo DEF b
  <2>5. BooksOK' /\ \A t \in Tasks : (outcome'[t] = "pending") <=> (outcome[t] = "pending" /\ t # busy[w])
    BY <1>0, <1>1, <2>1, <2>2, AtWork DEF BooksOK, TypeOK, Settled
  <2>6. Match(workers, b, thread, given, reply')
    <3>1. given[w] = None
      BY <1>0 DEF Matched
    <3>. QED
      BY <1>0, <1>1, <2>3, <3>1, AtWork DEF Matched, Match
  <2>. HIDE DEF b
  <2>7. ThreadsOK(thread, given) /\ (queue # <<>> => ~disabled')
    BY <2>1, <2>2, AtWork
  <2>. QED
    BY <2>1, <2>2, <2>4, <2>5, <2>6, <2>7, AtWork, Concludes
<1>. QED
  BY <1>2, <1>3

LEMMA TimeoutStep ==
  ASSUME PoolInv, NEW w \in Workers, NEW v \in Workers, Timeout(w, v) PROVE PoolInv'
<1>0. TypeOK /\ Staffed /\ Placed /\ Matched
  BY DEF PoolInv
<1>. DEFINE b == Without(busy, w)
            I == (idle \ {w}) \cup {v}
            W == (workers \ {w}) \cup {v}
            th == [thread EXCEPT ![w] = IF @ = "live" THEN "ending" ELSE @, ![v] = "live"]
<1>1. /\ busy[w] \in Tasks /\ busy[w] # None /\ thread[v] = "none"
      /\ Fail({busy[w]}, "timeout") /\ UNCHANGED <<guard, reply>>
      /\ Conclude(closing, queue, I, b, W, th, given)
  BY TasksAssumption DEF Timeout
<1>2. w \in workers /\ thread[w] # "none" /\ v \notin workers /\ v # w
  BY <1>0, <1>1 DEF Staffed, Matched
<1>3. \A u \in Workers : b[u] = IF u = w THEN None ELSE busy[u]
  BY <1>0 DEF Without, TypeOK
<1>4. /\ Tidy(queue, I, b, W)
      /\ \A t \in Tasks : Holding(queue, b, t) <=> (outcome[t] = "pending" /\ t # busy[w])
  <2>. HIDE DEF b
  <2>1. /\ I \in SUBSET Workers /\ W \in SUBSET Workers
        /\ \A u \in Workers : u \in W <=> (u \in I \/ b[u] # None)
        /\ \A u \in I : b[u] = None
    BY <1>2, <1>3, AtWork
  <2>. QED
    BY <2>1, LetsGo DEF b
<1>5. BooksOK' /\ \A t \in Tasks : (outcome'[t] = "pending") <=> (outcome[t] = "pending" /\ t # busy[w])
  BY <1>0, <1>1, Fails DEF BooksOK, TypeOK, guard, Settled
<1>6. /\ th \in [Workers -> {"none", "live", "ending", "exited"}]
      /\ th[v] = "live" /\ th[w] \in {"ending", "exited"}
      /\ \A u \in Workers \ {v, w} : th[u] = thread[u]
  BY <1>0, <1>2 DEF TypeOK, Matched
<1>7. Match(W, b, th, given, reply')
  <2>. HIDE DEF th, b
  <2>1. given[v] = None /\ reply[v] = {}
    BY <1>0, <1>1 DEF Matched
  <2>0. UNCHANGED reply
    BY <1>1 DEF guard
  <2>2. \A u \in W : /\ th[u] \in {"live", "exited"}
                     /\ given[u] # None => given[u] = b[u]
                     /\ \A r \in reply[u] : r.task = b[u]
    <3>1. \A u \in W : u = v \/ (u \in workers /\ u # w /\ u # v /\ u \in Workers)
      BY <1>2, AtWork
    <3>. QED
      BY <1>0, <1>3, <1>6, <2>1, <3>1 DEF Matched
  <2>3. \A u \in Workers \ W : th[u] # "live"
    BY <1>0, <1>6 DEF Matched
  <2>4. \A u \in Workers : /\ reply[u] # {} => given[u] = None
                           /\ th[u] = "none" => (given[u] = None /\ reply[u] = {})
    BY <1>0, <1>6 DEF Matched
  <2>. QED
    BY <2>0, <2>2, <2>3, <2>4 DEF Match
<1>. HIDE DEF b, I, W, th
<1>8. ThreadsOK(th, given) /\ (queue # <<>> => ~disabled')
  BY <1>1, <1>2, <1>6, AtWork DEF guard, ThreadsOK
<1>. QED
  BY <1>1, <1>2, <1>4, <1>5, <1>7, <1>8, AtWork, Concludes

LEMMA ExitRespawnStep ==
  ASSUME PoolInv, NEW w \in Workers, ExitRespawn(w) PROVE PoolInv'
<1>0. TypeOK /\ Staffed /\ Placed /\ Matched
  BY DEF PoolInv
<1>. DEFINE b == Without(busy, w)
            I == idle \cup {w}
            th == [thread EXCEPT ![w] = "live"]
            g == Without(given, w)
<1>1. /\ w \in workers /\ reply[w] = {} /\ crashes' = crashes + 1
      /\ Fail({busy[w]}, "crash") /\ UNCHANGED <<disabled, reply>>
      /\ Conclude(closing, queue, I, b, workers, th, g)
  BY DEF ExitRespawn
<1>3. /\ \A u \in Workers : b[u] = IF u = w THEN None ELSE busy[u]
      /\ \A u \in Workers : g[u] = IF u = w THEN None ELSE given[u]
      /\ \A u \in Workers : th[u] = IF u = w THEN "live" ELSE thread[u]
      /\ ThreadsOK(th, g)
  BY <1>0 DEF Without, TypeOK, ThreadsOK
<1>4. /\ Tidy(queue, I, b, workers)
      /\ \A t \in Tasks : Holding(queue, b, t) <=> (outcome[t] = "pending" /\ t # busy[w])
  <2>. HIDE DEF b
  <2>1. /\ I \in SUBSET Workers /\ workers \in SUBSET Workers
        /\ \A u \in Workers : u \in workers <=> (u \in I \/ b[u] # None)
        /\ \A u \in I : b[u] = None
    BY <1>1, <1>3, AtWork
  <2>. QED
    BY <2>1, LetsGo DEF b
<1>5. BooksOK' /\ \A t \in Tasks : (outcome'[t] = "pending") <=> (outcome[t] = "pending" /\ t # busy[w])
  BY <1>0, <1>1, Fails DEF BooksOK, TypeOK, Settled
<1>7. Match(workers, b, th, g, reply')
  <2>. HIDE DEF th, b, g
  <2>0. UNCHANGED reply
    BY <1>1
  <2>1. \A u \in workers : /\ th[u] \in {"live", "exited"}
                           /\ g[u] # None => g[u] = b[u]
                           /\ \A r \in reply[u] : r.task = b[u]
    BY <1>0, <1>1, <1>3, AtWork DEF Matched
  <2>2. \A u \in Workers \ workers : th[u] # "live"
    BY <1>0, <1>1, <1>3 DEF Matched
  <2>3. \A u \in Workers : /\ reply[u] # {} => g[u] = None
                           /\ th[u] = "none" => (g[u] = None /\ reply[u] = {})
    BY <1>0, <1>1, <1>3 DEF Matched
  <2>. QED
    BY <2>0, <2>1, <2>2, <2>3 DEF Match
<1>. HIDE DEF b, I, th, g
<1>. QED
  BY <1>1, <1>3, <1>4, <1>5, <1>7, AtWork, Concludes

LEMMA ExitDisableStep ==
  ASSUME PoolInv, NEW w \in Workers, ExitDisable(w) PROVE PoolInv'
<1>0. TypeOK /\ Staffed /\ Placed /\ Matched
  BY DEF PoolInv
<1>. DEFINE b == Without(busy, w)
            I == idle \ {w}
            W == workers \ {w}
            q == IF disabled THEN queue ELSE <<>>
            th == Gone(w)
            g == Without(given, w)
<1>1. /\ w \in workers /\ thread[w] = "exited" /\ reply[w] = {} /\ crashes' = crashes + 1
      /\ disabled' = TRUE /\ UNCHANGED reply
      /\ outcome' = [t \in Tasks |-> IF outcome[t] # "pending" THEN outcome[t]
                                     ELSE IF t = busy[w] THEN "crash"
                                     ELSE IF ~disabled /\ t \in Queued THEN "disabled"
                                     ELSE outcome[t]]
      /\ Conclude(closing, q, I, b, W, th, g)
  BY DEF ExitDisable
<1>2. q = <<>> /\ q \in Seq(Tasks) /\ Len(q) = 0
  BY <1>0, EmptySeq DEF Staffed
<1>3. /\ \A u \in Workers : b[u] = IF u = w THEN None ELSE busy[u]
      /\ b \in [Workers -> Tasks \cup {None}]
      /\ \A u \in Workers : g[u] = IF u = w THEN None ELSE given[u]
      /\ \A u \in Workers : th[u] = IF u = w THEN "none" ELSE thread[u]
      /\ ThreadsOK(th, g)
  BY <1>0 DEF Without, Gone, TypeOK, ThreadsOK
<1>4. /\ Tidy(queue, I, b, W)
      /\ \A t \in Tasks : Holding(queue, b, t) <=> (outcome[t] = "pending" /\ t # busy[w])
  <2>. HIDE DEF b
  <2>1. /\ I \in SUBSET Workers /\ W \in SUBSET Workers
        /\ \A u \in Workers : u \in W <=> (u \in I \/ b[u] # None)
        /\ \A u \in I : b[u] = None
    BY <1>1, <1>3, AtWork
  <2>. QED
    BY <2>1, LetsGo DEF b
<1>5. Tidy(q, I, b, W)
  <2>. HIDE DEF b, q, I, W
  <2>. QED
    BY <1>2, <1>4 DEF Tidy
<1>6. ASSUME NEW t \in Tasks PROVE (outcome'[t] = "pending") <=> Holding(q, b, t)
  <2>. HIDE DEF b, q
  <2>1. t \in Queued <=> \E i \in 1..Len(queue) : queue[i] = t
    BY <1>0, Parts
  <2>2. Holding(q, b, t) <=> \E u \in Workers : b[u] = t
    BY <1>2 DEF Holding
  <2>3. disabled => queue = <<>> /\ Len(queue) = 0
    BY <1>0, EmptySeq DEF Staffed
  <2>4. t \in Queued => ~\E u \in Workers : b[u] = t
    BY <1>4, <2>1, TasksAssumption DEF Tidy
  <2>5. (outcome[t] = "pending" /\ t # busy[w]) <=> (t \in Queued \/ \E u \in Workers : b[u] = t)
    BY <1>4, <2>1 DEF Holding
  <2>6. disabled => t \notin Queued
    BY <2>1, <2>3
  <2>7. outcome'[t] = "pending" <=> (outcome[t] = "pending" /\ t # busy[w] /\ t \notin Queued)
    BY <1>1, <2>6
  <2>. QED
    BY <2>2, <2>4, <2>5, <2>7
<1>7. BooksOK'
  BY <1>0, <1>1 DEF BooksOK, TypeOK, Settled
<1>8. Match(W, b, th, g, reply')
  <2>. HIDE DEF th, b, g
  <2>0. UNCHANGED reply
    BY <1>1
  <2>1. \A u \in W : /\ th[u] \in {"live", "exited"}
                     /\ g[u] # None => g[u] = b[u]
                     /\ \A r \in reply[u] : r.task = b[u]
    BY <1>0, <1>1, <1>3, AtWork DEF Matched
  <2>2. \A u \in Workers \ W : th[u] # "live"
    BY <1>0, <1>1, <1>3 DEF Matched
  <2>3. \A u \in Workers : /\ reply[u] # {} => g[u] = None
                           /\ th[u] = "none" => (g[u] = None /\ reply[u] = {})
    BY <1>0, <1>1, <1>3 DEF Matched
  <2>. QED
    BY <2>0, <2>1, <2>2, <2>3 DEF Match
<1>. HIDE DEF b, I, W, q, th, g
<1>. QED
  BY <1>1, <1>2, <1>3, <1>5, <1>6, <1>7, <1>8, AtWork, Concludes

LEMMA ExitExpectedStep ==
  ASSUME PoolInv, NEW w \in Workers, ExitExpected(w) PROVE PoolInv'
<1>0. TypeOK /\ Staffed /\ Placed /\ Matched
  BY DEF PoolInv
<1>1. /\ reply[w] = {} /\ w \notin workers /\ UNCHANGED <<pool, outcome, guard, reply>>
      /\ thread' = Gone(w) /\ given' = Without(given, w)
  BY DEF ExitExpected
<1>2. /\ \A u \in Workers : given'[u] = IF u = w THEN None ELSE given[u]
      /\ \A u \in Workers : thread'[u] = IF u = w THEN "none" ELSE thread[u]
      /\ ThreadsOK(thread', given')
  BY <1>0, <1>1 DEF Without, Gone, TypeOK, ThreadsOK
<1>3. TypeOK' /\ Staffed' /\ Placed'
  BY <1>0, <1>1, <1>2 DEF TypeOK, ThreadsOK, Staffed, Placed, Queued, pool, guard
<1>4. Matched'
  BY <1>0, <1>1, <1>2, AtWork DEF Matched, pool
<1>. QED
  BY <1>3, <1>4 DEF PoolInv

LEMMA RespondStep ==
  ASSUME PoolInv, NEW w \in Workers, NEW ok \in BOOLEAN, Respond(w, ok) PROVE PoolInv'
<1>0. TypeOK /\ Staffed /\ Placed /\ Matched
  BY DEF PoolInv
<1>. DEFINE r == [task |-> given[w], ok |-> ok]
<1>1. /\ given[w] # None /\ thread[w] # "none" /\ UNCHANGED <<pool, outcome, guard, thread>>
      /\ reply' = [reply EXCEPT ![w] = {r}] /\ given' = [given EXCEPT ![w] = None]
  BY DEF Respond
<1>2. r \in Reply /\ r.task = given[w]
  BY <1>0, <1>1 DEF TypeOK, Reply
<1>. HIDE DEF r
<1>3. /\ \A u \in Workers : given'[u] = IF u = w THEN None ELSE given[u]
      /\ \A u \in Workers : reply'[u] = IF u = w THEN {r} ELSE reply[u]
      /\ given' \in [Workers -> Tasks \cup {None}]
      /\ reply' \in [Workers -> SUBSET Reply]
  BY <1>0, <1>1, <1>2 DEF TypeOK
<1>4. TypeOK' /\ Staffed' /\ Placed'
  BY <1>0, <1>1, <1>3 DEF TypeOK, Staffed, Placed, Queued, pool, guard
<1>5. Matched'
  <2>1. \A u \in workers' : /\ thread'[u] \in {"live", "exited"}
                            /\ given'[u] # None => given'[u] = busy'[u]
                            /\ \A a \in reply'[u] : a.task = busy'[u]
    BY <1>0, <1>1, <1>2, <1>3, AtWork DEF Matched, pool
  <2>2. \A u \in Workers \ workers' : thread'[u] # "live"
    BY <1>0, <1>1 DEF Matched, pool
  <2>3. \A u \in Workers : /\ reply'[u] # {} => given'[u] = None
                           /\ thread'[u] = "none" => (given'[u] = None /\ reply'[u] = {})
    BY <1>0, <1>1, <1>3 DEF Matched, pool
  <2>. QED
    BY <2>1, <2>2, <2>3 DEF Matched
<1>. QED
  BY <1>4, <1>5 DEF PoolInv

LEMMA CrashStep ==
  ASSUME PoolInv, NEW w \in Workers, Crash(w) PROVE PoolInv'
<1>0. TypeOK /\ Staffed /\ Placed /\ Matched
  BY DEF PoolInv
<1>1. /\ thread[w] = "live" /\ UNCHANGED <<pool, outcome, guard, reply>>
      /\ thread' = [thread EXCEPT ![w] = "exited"] /\ given' = [given EXCEPT ![w] = None]
  BY DEF Crash
<1>2. /\ \A u \in Workers : given'[u] = IF u = w THEN None ELSE given[u]
      /\ \A u \in Workers : thread'[u] = IF u = w THEN "exited" ELSE thread[u]
      /\ ThreadsOK(thread', given')
  BY <1>0, <1>1 DEF TypeOK, ThreadsOK
<1>3. TypeOK' /\ Staffed' /\ Placed'
  BY <1>0, <1>1, <1>2 DEF TypeOK, ThreadsOK, Staffed, Placed, Queued, pool, guard
<1>4. Matched'
  BY <1>0, <1>1, <1>2, AtWork DEF Matched, pool
<1>. QED
  BY <1>3, <1>4 DEF PoolInv

\* The steps that touch neither tasks nor threads.
LEMMA QuietStep ==
  ASSUME PoolInv, ResolveClose \/ CrashAges \/ UNCHANGED vars PROVE PoolInv'
<1>0. TypeOK /\ Staffed /\ Placed /\ Matched
  BY DEF PoolInv
<1>1. /\ UNCHANGED <<queue, busy, idle, workers, stopping, outcome, disabled, threads>>
      /\ crashes' \in Nat
      /\ closing' = closing \/ (closing = "closed" /\ closing' = "resolved")
  BY <1>0 DEF ResolveClose, CrashAges, vars, pool, guard, TypeOK
<1>2. TypeOK'
  BY <1>0, <1>1 DEF TypeOK, threads
<1>3. Staffed'
  BY <1>0, <1>1 DEF Staffed
<1>4. Placed' /\ Matched'
  BY <1>0, <1>1 DEF Placed, Queued, Matched, threads
<1>. QED
  BY <1>2, <1>3, <1>4 DEF PoolInv

-----------------------------------------------------------------------------
(* The theorems *)

LEMMA PoolInit ==
  ASSUME Init PROVE PoolInv
<1>1. /\ queue \in Seq(Tasks) /\ Len(queue) = 0 /\ DOMAIN queue = {}
      /\ \A w \in Workers : busy[w] = None /\ given[w] = None /\ reply[w] = {}
  BY EmptySeq DEF Init
<1>2. TypeOK
  BY <1>1, SizesAssumption DEF Init, TypeOK
<1>3. Placed
  BY <1>1, TasksAssumption DEF Init, Placed, Queued
<1>4. Staffed /\ Matched
  BY <1>1, SizesAssumption DEF Init, Staffed, Matched
<1>. QED
  BY <1>2, <1>3, <1>4 DEF PoolInv

LEMMA PoolNext ==
  ASSUME PoolInv, [Next]_vars PROVE PoolInv'
<1>1. CASE \E t \in Tasks : Run(t)
  BY <1>1, RunStep
<1>2. CASE \E mode \in {"drain", "cancel"} : Close(mode)
  BY <1>2, CloseStep
<1>3. CASE ResolveClose \/ CrashAges \/ UNCHANGED vars
  BY <1>3, QuietStep
<1>4. ASSUME NEW w \in Workers, Handle(w) PROVE PoolInv'
  BY <1>4, MessageStep, ExitExpectedStep, ExitRespawnStep, ExitDisableStep DEF Handle
<1>5. ASSUME NEW w \in Workers, Expire(w) PROVE PoolInv'
  BY <1>5, TimeoutStep DEF Expire
<1>6. ASSUME NEW w \in Workers, Answer(w) \/ Crash(w) PROVE PoolInv'
  BY <1>6, RespondStep, CrashStep DEF Answer
<1>. QED
  BY <1>1, <1>2, <1>3, <1>4, <1>5, <1>6 DEF Next

\* No accepted task is lost, doubled or held by a settled caller, nobody is idle while a
\* task waits, and no answer of a worker is about a task it is not busy with (the maps
\* queue, busy, idle and workers of WorkerPool, kept in step by every handler).
THEOREM PoolInvariant == Spec => []PoolInv
<1>1. Init => PoolInv
  BY PoolInit
<1>2. PoolInv /\ [Next]_vars => PoolInv'
  BY PoolNext
<1>. QED
  BY <1>1, <1>2, PTL DEF Spec

\* What an answer, a failure or a call does to a task: it settles a pending one at most.
LEMMA SettlesOnly ==
  ASSUME PoolInv, [Next]_vars PROVE KeepsSettled
<1>. SUFFICES ASSUME NEW t \in Tasks, outcome[t] \in Settled PROVE outcome'[t] = outcome[t]
  BY DEF KeepsSettled
<1>0. /\ TypeOK /\ Placed /\ outcome \in [Tasks -> {"new", "pending"} \cup Settled]
      /\ outcome[t] \notin {"new", "pending"}
  BY DEF PoolInv, TypeOK, Settled
<1>1. CASE \E u \in Tasks : Run(u)
  BY <1>0, <1>1 DEF Run
<1>2. CASE \E mode \in {"drain", "cancel"} : Close(mode)
  BY <1>0, <1>2 DEF Close, Fail
<1>3. CASE ResolveClose \/ CrashAges \/ UNCHANGED vars
  BY <1>3 DEF ResolveClose, CrashAges, vars
<1>4. ASSUME NEW w \in Workers, NEW r \in reply[w], Message(w, r) PROVE outcome'[t] = outcome[t]
  <2>1. CASE busy[w] = None
    BY <1>4, <2>1 DEF Message
  <2>2. CASE busy[w] # None
    <3>1. busy[w] \in Tasks /\ outcome[busy[w]] = "pending"
      BY <1>0, <2>2 DEF TypeOK, Placed
    <3>. QED
      BY <1>0, <1>4, <2>2, <3>1 DEF Message
  <2>. QED
    BY <2>1, <2>2
<1>5. ASSUME NEW w \in Workers, ExitExpected(w) \/ ExitRespawn(w) \/ ExitDisable(w)
      PROVE  outcome'[t] = outcome[t]
  BY <1>0, <1>5 DEF ExitExpected, ExitRespawn, ExitDisable, Fail
<1>6. ASSUME NEW w \in Workers, Expire(w) \/ Answer(w) \/ Crash(w) PROVE outcome'[t] = outcome[t]
  BY <1>0, <1>6 DEF Expire, Timeout, Fail, Answer, Respond, Crash
<1>. QED
  BY <1>1, <1>2, <1>3, <1>4, <1>5, <1>6 DEF Next, Handle

\* Every accepted task settles at most once, whatever answers, exits, timers and calls
\* come later (pool.ts: the settled flag and the maps agree).
THEOREM SettlesOnce == Spec => SettledOnce
<1>1. PoolInv /\ [Next]_vars => [KeepsSettled]_vars
  BY SettlesOnly
<1>. QED
  BY <1>1, PoolInvariant, PTL DEF Spec, SettledOnce

\* A result or an error reaches a caller only if a worker gave it for that caller's task:
\* the busy map identifies the task as well as the id of the message would.
LEMMA AnswersOwn ==
  ASSUME PoolInv, [Next]_vars PROVE AnsweredByOwn
<1>. SUFFICES ASSUME NEW t \in Tasks, outcome[t] = "pending", outcome'[t] \in {"result", "error"}
              PROVE  \E w \in Workers : [task |-> t, ok |-> outcome'[t] = "result"] \in reply[w]
  BY DEF AnsweredByOwn
<1>0. TypeOK /\ Staffed /\ Matched
  BY DEF PoolInv
<1>1. CASE \E u \in Tasks : Run(u)
  BY <1>0, <1>1 DEF Run, TypeOK
<1>2. CASE \E mode \in {"drain", "cancel"} : Close(mode)
  BY <1>0, <1>2 DEF Close, Fail
<1>3. CASE ResolveClose \/ CrashAges \/ UNCHANGED vars
  BY <1>3 DEF ResolveClose, CrashAges, vars
<1>4. ASSUME NEW w \in Workers, NEW r \in reply[w], Message(w, r)
      PROVE  [task |-> t, ok |-> outcome'[t] = "result"] \in reply[w]
  <2>1. CASE busy[w] = None
    BY <1>4, <2>1 DEF Message
  <2>2. CASE busy[w] # None
    <3>1. w \in workers /\ r.task = busy[w] /\ r \in Reply
      BY <1>0, <2>2 DEF Staffed, Matched, TypeOK
    <3>2. outcome' = [outcome EXCEPT ![busy[w]] = IF r.ok THEN "result" ELSE "error"]
      BY <1>4, <2>2 DEF Message
    <3>3. t = busy[w] /\ (outcome'[t] = "result") = r.ok
      BY <1>0, <3>1, <3>2 DEF TypeOK, Reply
    <3>4. r = [task |-> t, ok |-> outcome'[t] = "result"]
      BY <3>1, <3>3 DEF Reply
    <3>. QED
      BY <3>4
  <2>. QED
    BY <2>1, <2>2
<1>5. ASSUME NEW w \in Workers, ExitExpected(w) \/ ExitRespawn(w) \/ ExitDisable(w) PROVE FALSE
  BY <1>0, <1>5 DEF ExitExpected, ExitRespawn, ExitDisable, Fail
<1>6. ASSUME NEW w \in Workers, Expire(w) \/ Answer(w) \/ Crash(w) PROVE FALSE
  BY <1>0, <1>6 DEF Expire, Timeout, Fail, Answer, Respond, Crash
<1>. QED
  BY <1>1, <1>2, <1>3, <1>4, <1>5, <1>6 DEF Next, Handle

\* A caller is answered only by a worker that served its very task, late answers of
\* terminated workers notwithstanding (handleMessage, handleTimeout).
THEOREM AnsweredByItsOwn == Spec => OwnReply
<1>1. PoolInv /\ [Next]_vars => [AnsweredByOwn]_vars
  BY AnswersOwn
<1>. QED
  BY <1>1, PoolInvariant, PTL DEF Spec, OwnReply

-----------------------------------------------------------------------------
(* The size of the pool *)
SizeInv == IsFiniteSet(workers) /\ SizeKept
Sized(W) == IsFiniteSet(W) /\ Cardinality(W) <= Size /\ (~disabled' => Cardinality(W) = Size)

LEMMA SizeIsNat == Size \in Nat
BY SizesAssumption, FS_CardinalityType DEF Size

\* dispatch moves no worker, and maybeFinishClose leaves none.
LEMMA ConcludesSized ==
  ASSUME NEW state, NEW q, NEW I, NEW b, NEW W, NEW th, NEW g,
         Sized(W), Conclude(state, q, I, b, W, th, g)
  PROVE  SizeInv'
<1>1. CASE workers' = W
  BY <1>1 DEF Sized, SizeInv, SizeKept
<1>2. CASE workers' = {} /\ closing' = "closed"
  BY <1>2, FS_EmptySet, SizeIsNat DEF SizeInv, SizeKept
<1>. QED
  BY <1>1, <1>2 DEF Conclude

LEMMA SizeNext ==
  ASSUME PoolInv, SizeInv, [Next]_vars PROVE SizeInv'
<1>0. /\ TypeOK /\ Staffed /\ Matched /\ IsFiniteSet(workers) /\ Cardinality(workers) \in Nat
      /\ Size \in Nat /\ Cardinality(workers) <= Size
      /\ closing \in {"open", "closing"} /\ ~disabled => Cardinality(workers) = Size
  BY SizeIsNat, FS_CardinalityType DEF PoolInv, SizeInv, SizeKept
<1>q. ASSUME UNCHANGED <<workers, disabled>>,
             closing' = closing \/ (closing = "closed" /\ closing' = "resolved")
      PROVE  SizeInv'
  BY <1>0, <1>q DEF SizeInv, SizeKept
<1>s. ASSUME closing \in {"open", "closing"}, UNCHANGED disabled PROVE Sized(workers)
  BY <1>0, <1>s DEF Sized
<1>1. ASSUME NEW t \in Tasks, Run(t) PROVE SizeInv'
  <2>1. CASE closing # "open" \/ disabled
    BY <1>1, <1>q, <2>1 DEF Run, pool, guard
  <2>2. CASE closing = "open" /\ ~disabled
    BY <1>1, <1>s, <2>2, ConcludesSized DEF Run, guard
  <2>. QED
    BY <2>1, <2>2, <1>0 DEF TypeOK
<1>2. ASSUME NEW mode, Close(mode) PROVE SizeInv'
  BY <1>2, <1>s, ConcludesSized DEF Close, guard
<1>3. CASE ResolveClose \/ CrashAges \/ UNCHANGED vars
  BY <1>3, <1>q DEF ResolveClose, CrashAges, vars, pool, guard
<1>4. ASSUME NEW w \in Workers, NEW r \in reply[w], Message(w, r) PROVE SizeInv'
  <2>1. CASE busy[w] = None
    BY <1>4, <1>q, <2>1 DEF Message, pool, guard
  <2>2. CASE busy[w] # None
    <3>1. closing \in {"open", "closing"}
      BY <1>0, <2>2, AtWork DEF Staffed
    <3>. QED
      BY <1>4, <1>s, <2>2, <3>1, ConcludesSized DEF Message
  <2>. QED
    BY <2>1, <2>2
<1>5. ASSUME NEW w \in Workers, ExitExpected(w) PROVE SizeInv'
  BY <1>5, <1>q DEF ExitExpected, pool, guard
<1>6. ASSUME NEW w \in Workers, ExitRespawn(w) PROVE SizeInv'
  <2>1. closing \in {"open", "closing"} /\ UNCHANGED disabled
    BY <1>6, AtWork DEF ExitRespawn
  <2>. QED
    BY <1>6, <1>s, <2>1, ConcludesSized DEF ExitRespawn
<1>7. ASSUME NEW w \in Workers, ExitDisable(w) PROVE SizeInv'
  <2>1. w \in workers /\ disabled'
    BY <1>7 DEF ExitDisable
  <2>2. IsFiniteSet(workers \ {w}) /\ Cardinality(workers \ {w}) = Cardinality(workers) - 1
    BY <1>0, <2>1, FS_RemoveElement
  <2>3. Sized(workers \ {w})
    BY <1>0, <2>1, <2>2 DEF Sized
  <2>. QED
    BY <1>7, <2>3, ConcludesSized DEF ExitDisable
<1>8. ASSUME NEW w \in Workers, Expire(w) PROVE SizeInv'
  <2>1. PICK v \in Workers : Timeout(w, v)
    BY <1>8 DEF Expire
  <2>2. /\ busy[w] # None /\ thread[v] = "none" /\ UNCHANGED disabled
    BY <2>1, TasksAssumption DEF Timeout, guard
  <2>3. w \in workers /\ v \notin workers /\ closing \in {"open", "closing"}
    BY <1>0, <2>2, AtWork DEF Staffed, Matched
  <2>4. IsFiniteSet(workers \ {w}) /\ Cardinality(workers \ {w}) = Cardinality(workers) - 1
    BY <1>0, <2>3, FS_RemoveElement
  <2>5. /\ IsFiniteSet((workers \ {w}) \cup {v})
        /\ Cardinality((workers \ {w}) \cup {v}) = Cardinality(workers \ {w}) + 1
    BY <2>3, <2>4, FS_AddElement
  <2>6. Sized((workers \ {w}) \cup {v})
    BY <1>0, <2>2, <2>3, <2>4, <2>5 DEF Sized
  <2>. QED
    BY <2>1, <2>6, ConcludesSized DEF Timeout
<1>9. ASSUME NEW w \in Workers, Answer(w) \/ Crash(w) PROVE SizeInv'
  BY <1>9, <1>q DEF Answer, Respond, Crash, pool, guard
<1>. QED
  BY <1>1, <1>2, <1>3, <1>4, <1>5, <1>6, <1>7, <1>8, <1>9 DEF Next, Handle

\* The pool never exceeds its size, and keeps it until it closes or the crash-storm guard
\* trips, however many workers die or are replaced (handleTimeout, handleExit).
THEOREM KeepsSize == Spec => []SizeKept
<1>1. Init => SizeInv
  BY SizesAssumption, SizeIsNat DEF Init, SizeInv, SizeKept, Size
<1>2. PoolInv /\ SizeInv /\ [Next]_vars => SizeInv'
  BY SizeNext
<1>3. SizeInv => SizeKept
  BY DEF SizeInv
<1>. QED
  BY <1>1, <1>2, <1>3, PoolInvariant, PTL DEF Spec

=============================================================================
