--------------------------- MODULE WriteLockProofs ---------------------------
(***************************************************************************)
(* Proofs about WriteLock: the invariant of the promise chain, for any     *)
(* faults; and the exclusion of the sections that acquired the lock, as    *)
(* long as no event loop has stalled past the stale threshold.             *)
(***************************************************************************)
EXTENDS WriteLock, SequenceTheorems, TLAPS

InChain == {"queued", "holding", "unlocking"}

\* ChainOK of one process, as a predicate of its chain and of the stages of its calls.
Chained(p, t, st) ==
  /\ t \in Seq(Calls)
  /\ \A i, k \in 1..Len(t) : t[i] = t[k] => i = k
  /\ \A i \in 1..Len(t) : /\ Home(t[i]) = p
                          /\ st[t[i]] \in InChain
                          /\ i # 1 => st[t[i]] = "queued"
  /\ \A c \in CallsOf(p) : st[c] \in InChain => \E i \in 1..Len(t) : t[i] = c
Believes(p) ==
  locked[p] => /\ tail[p] # <<>> /\ stage[Head(tail[p])] = "holding"
               /\ ~compromised[p] /\ loop[p] # "dead"

LEMMA ChainParts ==
  ASSUME TypeOK
  PROVE  ChainOK <=> \A p \in Processes : Chained(p, tail[p], stage) /\ Believes(p)
<1>1. \A p \in Processes : tail[p] \in Seq(Calls) /\ DOMAIN tail[p] = 1..Len(tail[p])
  BY LenProperties DEF TypeOK
<1>. QED
  BY <1>1 DEF ChainOK, Chained, Believes, InChain

-----------------------------------------------------------------------------
(* What happens to a chain *)

\* A chain only depends on the stages of its own process.
LEMMA Elsewhere ==
  ASSUME NEW p, NEW t, NEW st, NEW st2, Chained(p, t, st),
         \A c \in CallsOf(p) : st2[c] = st[c]
  PROVE  Chained(p, t, st2)
<1>1. \A i \in 1..Len(t) : t[i] \in CallsOf(p)
  BY ElementOfSeq DEF Chained, CallsOf
<1>. QED
  BY <1>1 DEF Chained

\* The one call that is past waiting is the first of the chain.
LEMMA FirstIsHead ==
  ASSUME NEW p, NEW t, NEW st, Chained(p, t, st), NEW c \in CallsOf(p),
         st[c] \in {"holding", "unlocking"}
  PROVE  t # <<>> /\ Head(t) = c
<1>1. PICK i \in 1..Len(t) : t[i] = c
  BY DEF Chained, InChain
<1>2. i = 1
  BY <1>1 DEF Chained
<1>. QED
  BY <1>1, <1>2 DEF Chained

\* A call that has nothing to do with the chain moves.
LEMMA Aside ==
  ASSUME NEW p, NEW t, NEW st \in [Calls -> Stages], Chained(p, t, st), NEW c \in Calls, NEW to,
         st[c] \notin InChain, to \notin InChain
  PROVE  Chained(p, t, [st EXCEPT ![c] = to])
<1>1. \A i \in 1..Len(t) : t[i] \in Calls /\ t[i] # c
  BY ElementOfSeq DEF Chained
<1>. QED
  BY <1>1 DEF Chained, CallsOf

\* A call joins at the end.
LEMMA Joins ==
  ASSUME NEW p, NEW t, NEW st \in [Calls -> Stages], Chained(p, t, st), NEW c \in CallsOf(p),
         st[c] \notin InChain
  PROVE  Chained(p, Append(t, c), [st EXCEPT ![c] = "queued"])
<1>. DEFINE u == Append(t, c)
            su == [st EXCEPT ![c] = "queued"]
<1>1. c \in Calls /\ Home(c) = p /\ t \in Seq(Calls)
  BY DEF CallsOf, Chained
<1>2. /\ u \in Seq(Calls) /\ Len(u) = Len(t) + 1 /\ Len(t) \in Nat
      /\ \A i \in 1..Len(t) : u[i] = t[i]
      /\ u[Len(t) + 1] = c
  BY <1>1, AppendProperties, LenProperties
<1>3. \A i \in 1..Len(t) : t[i] \in Calls /\ t[i] # c
  BY <1>1, ElementOfSeq DEF Chained
<1>4. \A i \in 1..Len(u) : i \in 1..Len(t) \/ i = Len(t) + 1
  BY <1>2
<1>. HIDE DEF u
<1>5. \A i, k \in 1..Len(u) : u[i] = u[k] => i = k
  BY <1>2, <1>3, <1>4 DEF Chained
<1>6. \A i \in 1..Len(u) : Home(u[i]) = p /\ su[u[i]] \in InChain /\ (i # 1 => su[u[i]] = "queued")
  BY <1>1, <1>2, <1>3, <1>4 DEF Chained, InChain
<1>7. \A d \in CallsOf(p) : su[d] \in InChain => \E i \in 1..Len(u) : u[i] = d
  <2>. SUFFICES ASSUME NEW d \in CallsOf(p), su[d] \in InChain PROVE \E i \in 1..Len(u) : u[i] = d
    OBVIOUS
  <2>1. CASE d = c
    <3>1. Len(t) + 1 \in 1..Len(u)
      BY <1>2
    <3>. QED
      BY <1>2, <2>1, <3>1
  <2>2. CASE d # c
    <3>1. PICK i \in 1..Len(t) : t[i] = d
      BY <2>2 DEF Chained, CallsOf
    <3>2. i \in 1..Len(u)
      BY <1>2
    <3>. QED
      BY <1>2, <3>1, <3>2
  <2>. QED
    BY <2>1, <2>2
<1>. QED
  BY <1>2, <1>5, <1>6, <1>7 DEF Chained, u

\* The first call moves on and stays the first.
LEMMA HeadMoves ==
  ASSUME NEW p, NEW t, NEW st \in [Calls -> Stages], Chained(p, t, st), NEW c \in Calls,
         t # <<>>, Head(t) = c, NEW to \in InChain
  PROVE  Chained(p, t, [st EXCEPT ![c] = to])
<1>1. t \in Seq(Calls) /\ \A i \in 1..Len(t) : t[i] \in Calls
  BY ElementOfSeq DEF Chained
<1>2. 1 \in 1..Len(t) /\ t[1] = c
  BY <1>1, EmptySeq
<1>3. \A i \in 1..Len(t) : i # 1 => t[i] # c
  BY <1>2 DEF Chained
<1>. QED
  BY <1>1, <1>2, <1>3 DEF Chained, CallsOf

\* The first call leaves, and the next one becomes the first.
LEMMA HeadLeaves ==
  ASSUME NEW p, NEW t, NEW st \in [Calls -> Stages], Chained(p, t, st), NEW c \in Calls,
         t # <<>>, Head(t) = c, NEW to, to \notin InChain
  PROVE  Chained(p, Tail(t), [st EXCEPT ![c] = to])
<1>. DEFINE u == Tail(t)
            su == [st EXCEPT ![c] = to]
<1>1. /\ t \in Seq(Calls) /\ Len(t) \in Nat \ {0}
      /\ \A i \in 1..Len(t) : t[i] \in Calls
      /\ 1 \in 1..Len(t) /\ t[1] = c
  BY ElementOfSeq, EmptySeq DEF Chained
<1>2. u \in Seq(Calls) /\ Len(u) = Len(t) - 1 /\ \A i \in 1..Len(u) : u[i] = t[i + 1]
  BY <1>1, HeadTailProperties
<1>. HIDE DEF u
<1>3. \A i \in 1..Len(u) : i + 1 \in 1..Len(t) /\ i + 1 # 1
  BY <1>1, <1>2
<1>4. \A i \in 1..Len(u) : u[i] \in Calls /\ u[i] # c
  BY <1>1, <1>2, <1>3 DEF Chained
<1>5. \A i, k \in 1..Len(u) : u[i] = u[k] => i = k
  <2>. SUFFICES ASSUME NEW i \in 1..Len(u), NEW k \in 1..Len(u), u[i] = u[k] PROVE i = k
    OBVIOUS
  <2>1. t[i + 1] = t[k + 1] /\ i + 1 \in 1..Len(t) /\ k + 1 \in 1..Len(t)
    BY <1>2, <1>3
  <2>2. i + 1 = k + 1
    BY <2>1 DEF Chained
  <2>. QED
    BY <2>2
<1>6. \A i \in 1..Len(u) : Home(u[i]) = p /\ su[u[i]] = "queued"
  BY <1>2, <1>3, <1>4 DEF Chained
<1>7. \A d \in CallsOf(p) : su[d] \in InChain => \E i \in 1..Len(u) : u[i] = d
  <2>. SUFFICES ASSUME NEW d \in CallsOf(p), su[d] \in InChain PROVE \E i \in 1..Len(u) : u[i] = d
    OBVIOUS
  <2>1. d # c /\ st[d] \in InChain
    BY DEF CallsOf
  <2>2. PICK i \in 1..Len(t) : t[i] = d
    BY <2>1 DEF Chained
  <2>3. i - 1 \in 1..Len(u) /\ (i - 1) + 1 = i
    BY <1>1, <1>2, <2>1, <2>2
  <2>. QED
    BY <1>2, <2>2, <2>3
<1>. QED
  BY <1>2, <1>5, <1>6, <1>7 DEF Chained, InChain, u

-----------------------------------------------------------------------------
(* The invariant of the chain *)

LEMMA ChainPartsNext ==
  ASSUME TypeOK'
  PROVE  ChainOK' <=> \A p \in Processes : Chained(p, tail'[p], stage') /\ Believes(p)'
<1>1. \A p \in Processes : tail'[p] \in Seq(Calls) /\ DOMAIN tail'[p] = 1..Len(tail'[p])
  BY LenProperties DEF TypeOK
<1>. QED
  BY <1>1 DEF ChainOK, Chained, Believes, InChain

\* It is enough to look at the process whose call moved.
LEMMA OneProcess ==
  ASSUME LockInv, TypeOK', NEW c \in Calls,
         \A d \in Calls : d # c => stage'[d] = stage[d],
         \A q \in Processes \ {Home(c)} : /\ tail'[q] = tail[q]
                                          /\ locked'[q] = locked[q]
                                          /\ compromised'[q] = compromised[q]
                                          /\ loop'[q] = loop[q],
         Chained(Home(c), tail'[Home(c)], stage'),
         Believes(Home(c))'
  PROVE  LockInv'
<1>1. \A q \in Processes : Chained(q, tail[q], stage) /\ Believes(q)
  BY ChainParts DEF LockInv
<1>2. ASSUME NEW q \in Processes, q # Home(c)
      PROVE  Chained(q, tail'[q], stage') /\ Believes(q)'
  <2>1. \A d \in CallsOf(q) : stage'[d] = stage[d]
    BY <1>2 DEF CallsOf
  <2>2. Chained(q, tail[q], stage')
    BY <1>1, <2>1, Elsewhere
  <2>3. tail[q] # <<>> => Head(tail[q]) \in CallsOf(q)
    <3>. SUFFICES ASSUME tail[q] # <<>> PROVE Head(tail[q]) \in CallsOf(q)
      OBVIOUS
    <3>1. tail[q] \in Seq(Calls) /\ 1 \in 1..Len(tail[q]) /\ tail[q][1] = Head(tail[q])
      BY <1>1, EmptySeq DEF Chained
    <3>. QED
      BY <1>1, <3>1, ElementOfSeq DEF Chained, CallsOf
  <2>. QED
    BY <1>1, <1>2, <2>1, <2>2, <2>3 DEF Believes
<1>3. \A q \in Processes : Chained(q, tail'[q], stage') /\ Believes(q)'
  BY <1>2
<1>. QED
  BY <1>3, ChainPartsNext DEF LockInv

\* Nobody's call moves.
LEMMA NoCall ==
  ASSUME LockInv, TypeOK', tail' = tail, stage' = stage,
         \A q \in Processes : Believes(q)'
  PROVE  LockInv'
<1>1. \A q \in Processes : Chained(q, tail[q], stage)
  BY ChainParts DEF LockInv
<1>. QED
  BY <1>1, ChainPartsNext DEF LockInv

LEMMA ChainInit == Init => LockInv
<1>. SUFFICES ASSUME Init PROVE LockInv
  OBVIOUS
<1>1. TypeOK
  BY LockAssumption DEF Init, TypeOK, Absent, Stages
<1>2. \A p \in Processes : Chained(p, tail[p], stage) /\ Believes(p)
  <2>1. \A c \in Calls : stage[c] \notin InChain
    BY DEF Init, InChain
  <2>2. Len(<<>>) = 0 /\ <<>> \in Seq(Calls)
    BY EmptySeq
  <2>3. \A p \in Processes : tail[p] = <<>> /\ ~locked[p]
    BY DEF Init
  <2>4. \A p \in Processes : Believes(p)
    BY <2>3 DEF Believes
  <2>5. \A p \in Processes : Chained(p, <<>>, stage)
    BY <2>1, <2>2 DEF Chained, CallsOf
  <2>. QED
    BY <2>3, <2>4, <2>5
<1>. QED
  BY <1>1, <1>2, ChainParts DEF LockInv

LEMMA TypeNext == LockInv /\ [Next]_vars => TypeOK'
<1>. SUFFICES ASSUME LockInv, [Next]_vars PROVE TypeOK'
  OBVIOUS
<1>. USE DEF LockInv, TypeOK
<1>0. \A c \in Calls : Home(c) \in Processes /\ \A s \in Seq(Calls) : Append(s, c) \in Seq(Calls)
  BY AppendProperties DEF Calls, Home
<1>1. \A p \in Processes : tail[p] # <<>> => Tail(tail[p]) \in Seq(Calls)
  BY HeadTailProperties
<1>2. CASE \E c \in Calls : Enter(c) \/ Proceed(c)
  <2>. PICK c \in Calls : Enter(c) \/ Proceed(c)
    BY <1>2
  <2>1. CASE EnterInline(c)
    BY <2>1 DEF EnterInline, Step, Stages
  <2>2. CASE Enqueue(c)
    BY <1>0, <2>2 DEF Enqueue, Step, Stages
  <2>3. CASE Acquire(c)
    BY <1>0, <2>3 DEF Acquire, Step, Stages
  <2>4. CASE GiveUp(c)
    BY <1>0, <1>1, <2>4 DEF GiveUp, Step, Stages, IsHead, Settle
  <2>5. CASE LeaveInline(c)
    BY <2>5 DEF LeaveInline, Step, Stages
  <2>6. CASE Release(c)
    BY <2>6 DEF Release, Step, Stages
  <2>7. CASE ReleaseLost(c) \/ Unlock(c)
    <3>1. tail[Home(c)] # <<>>
      <4>1. stage[c] \in {"holding", "unlocking"} /\ c \in CallsOf(Home(c))
        BY <2>7 DEF ReleaseLost, Unlock, Step, CallsOf
      <4>. QED
        BY <1>0, <4>1, ChainParts, FirstIsHead
    <3>2. tail' \in [Processes -> Seq(Calls)]
      <4>1. tail' = [tail EXCEPT ![Home(c)] = Tail(tail[Home(c)])]
        BY <2>7 DEF ReleaseLost, Unlock, Settle
      <4>2. Tail(tail[Home(c)]) \in Seq(Calls)
        BY <1>0, <1>1, <3>1
      <4>. QED
        BY <4>1, <4>2
    <3>3. lockfile' \in [owner: Processes \cup {None}, fresh: BOOLEAN]
      <4>1. lockfile' = lockfile \/ lockfile' = [owner |-> None, fresh |-> FALSE]
        BY <2>7 DEF ReleaseLost, Unlock, Absent
      <4>2. [owner |-> None, fresh |-> FALSE] \in [owner: Processes \cup {None}, fresh: BOOLEAN]
        OBVIOUS
      <4>3. lockfile \in [owner: Processes \cup {None}, fresh: BOOLEAN]
        OBVIOUS
      <4>. QED
        BY ONLY <4>1, <4>2, <4>3
    <3>. QED
      BY <2>7, <3>2, <3>3 DEF ReleaseLost, Unlock, Step, Stages
  <2>. QED
    BY <2>1, <2>2, <2>3, <2>4, <2>5, <2>6, <2>7 DEF Enter, Proceed
<1>3. CASE \E p \in Processes : Refresh(p) \/ Compromised(p) \/ Wake(p) \/ Restart(p)
  BY <1>3 DEF Refresh, Compromised, Wake, Restart
<1>4. CASE \E p \in Processes : Stall(p)
  <2>. PICK p \in Processes : Stall(p)
    BY <1>4
  <2>1. lockfile' \in [owner: Processes \cup {None}, fresh: BOOLEAN]
    BY DEF Stall
  <2>2. faults' \in [Faults -> Nat] /\ loop' \in [Processes -> {"running", "blocked", "dead"}]
    BY DEF Stall, Fault, Faults
  <2>. QED
    BY <2>1, <2>2 DEF Stall
<1>5. CASE \E p \in Processes : Crash(p)
  <2>. PICK p \in Processes : Crash(p)
    BY <1>5
  <2>1. <<>> \in Seq(Calls)
    BY EmptySeq
  <2>2. lockfile' \in [owner: Processes \cup {None}, fresh: BOOLEAN]
    BY DEF Crash
  <2>3. faults' \in [Faults -> Nat] /\ loop' \in [Processes -> {"running", "blocked", "dead"}]
    BY DEF Crash, Fault, Faults
  <2>4. stage' \in [Calls -> Stages]
    BY DEF Crash, Stages
  <2>5. /\ tail' \in [Processes -> Seq(Calls)]
        /\ locked' \in [Processes -> BOOLEAN] /\ compromised' \in [Processes -> BOOLEAN]
    BY <2>1 DEF Crash
  <2>. QED
    BY <2>2, <2>3, <2>4, <2>5
<1>6. CASE UNCHANGED vars
  BY <1>6 DEF vars
<1>. QED
  BY <1>2, <1>3, <1>4, <1>5, <1>6 DEF Next

LEMMA HeadOfChain ==
  ASSUME NEW p, NEW t, NEW st, Chained(p, t, st), t # <<>>
  PROVE  Head(t) \in CallsOf(p) /\ st[Head(t)] \in InChain
<1>1. t \in Seq(Calls) /\ 1 \in 1..Len(t) /\ t[1] = Head(t)
  BY EmptySeq DEF Chained
<1>. QED
  BY <1>1, ElementOfSeq DEF Chained, CallsOf

\* The steps of a call preserve the chain.
LEMMA CallStep ==
  ASSUME LockInv, TypeOK', NEW c \in Calls, Enter(c) \/ Proceed(c)
  PROVE  LockInv'
<1>. DEFINE p == Home(c)
<1>1. p \in Processes /\ c \in CallsOf(p)
  BY DEF Calls, Home, CallsOf
<1>2. \A q \in Processes : Chained(q, tail[q], stage) /\ Believes(q)
  BY ChainParts DEF LockInv
<1>3. /\ stage \in [Calls -> Stages]
      /\ tail \in [Processes -> Seq(Calls)]
      /\ locked \in [Processes -> BOOLEAN]
  BY DEF LockInv, TypeOK
<1>4. PICK to : /\ stage' = [stage EXCEPT ![c] = to]
                /\ loop' = loop /\ loop[p] = "running"
  BY DEF Enter, Proceed, EnterInline, Enqueue, Acquire, GiveUp, LeaveInline,
         Release, ReleaseLost, Unlock, Step
<1>5. \A d \in Calls : d # c => stage'[d] = stage[d]
  BY <1>3, <1>4
<1>6. \A q \in Processes \ {p} : /\ tail'[q] = tail[q]
                                /\ locked'[q] = locked[q]
                                /\ compromised'[q] = compromised[q]
                                /\ loop'[q] = loop[q]
  BY <1>4 DEF Enter, Proceed, EnterInline, Enqueue, Acquire, GiveUp, LeaveInline,
              Release, ReleaseLost, Unlock, Settle, LockInv, TypeOK
<1>7. stage[c] \in {"holding", "unlocking"} => tail[p] # <<>> /\ Head(tail[p]) = c
  BY <1>1, <1>2, FirstIsHead
<1>8. Chained(p, tail'[p], stage') /\ Believes(p)'
  <2>1. CASE EnterInline(c) \/ LeaveInline(c)
    <3>1. /\ stage[c] \notin InChain
          /\ stage'[c] \notin InChain /\ stage' = [stage EXCEPT ![c] = stage'[c]]
          /\ UNCHANGED <<tail, locked, compromised, loop>>
      BY <1>3, <1>4, <2>1 DEF EnterInline, LeaveInline, Step, InChain
    <3>2. Chained(p, tail[p], [stage EXCEPT ![c] = stage'[c]])
      BY <1>1, <1>2, <1>3, <3>1, Aside
    <3>3. tail[p] # <<>> => stage'[Head(tail[p])] = stage[Head(tail[p])]
      BY <1>1, <1>2, <1>5, <3>1, HeadOfChain DEF CallsOf
    <3>. QED
      BY <1>1, <1>2, <3>1, <3>2, <3>3 DEF Believes
  <2>2. CASE Enqueue(c)
    <3>1. /\ stage[c] \notin InChain /\ stage' = [stage EXCEPT ![c] = "queued"]
          /\ ~locked[p] /\ locked' = locked /\ tail'[p] = Append(tail[p], c)
      BY <1>1, <1>3, <2>2 DEF Enqueue, Step, InChain
    <3>2. Chained(p, Append(tail[p], c), [stage EXCEPT ![c] = "queued"])
      BY <1>1, <1>2, <1>3, <3>1, Joins
    <3>3. Chained(p, tail'[p], stage')
      BY <3>1, <3>2
    <3>. QED
      BY <3>1, <3>3 DEF Believes
  <2>3. CASE Acquire(c)
    <3>1. /\ tail[p] # <<>> /\ Head(tail[p]) = c /\ tail' = tail
          /\ stage' = [stage EXCEPT ![c] = "holding"] /\ stage'[c] = "holding"
          /\ compromised'[p] = FALSE /\ loop'[p] = "running"
      BY <1>1, <1>3, <1>4, <2>3 DEF Acquire, Step, IsHead, LockInv, TypeOK
    <3>2. Chained(p, tail[p], stage')
      BY <1>1, <1>2, <1>3, <3>1, HeadMoves DEF InChain
    <3>. QED
      BY <3>1, <3>2 DEF Believes
  <2>4. CASE Release(c)
    <3>1. /\ stage[c] = "holding" /\ stage' = [stage EXCEPT ![c] = "unlocking"]
          /\ tail' = tail /\ ~locked'[p]
      BY <1>1, <1>3, <2>4 DEF Release, Step
    <3>2. Chained(p, tail[p], stage')
      BY <1>1, <1>2, <1>3, <1>7, <3>1, HeadMoves DEF InChain
    <3>. QED
      BY <3>1, <3>2 DEF Believes
  <2>5. CASE GiveUp(c) \/ ReleaseLost(c) \/ Unlock(c)
    <3>1. /\ tail[p] # <<>> /\ Head(tail[p]) = c /\ tail'[p] = Tail(tail[p])
          /\ stage'[c] \notin InChain /\ stage' = [stage EXCEPT ![c] = stage'[c]]
      BY <1>1, <1>3, <1>7, <2>5 DEF GiveUp, ReleaseLost, Unlock, Step, IsHead, Settle, InChain
    <3>2. Chained(p, Tail(tail[p]), [stage EXCEPT ![c] = stage'[c]])
      BY <1>1, <1>2, <1>3, <3>1, HeadLeaves
    <3>3. ~locked'[p]
      <4>1. CASE GiveUp(c)
        BY <1>1, <1>3, <4>1 DEF GiveUp
      <4>2. CASE ReleaseLost(c)
        BY <4>2 DEF ReleaseLost
      <4>3. CASE Unlock(c)
        BY <1>1, <1>2, <1>7, <4>3 DEF Unlock, Step, Believes
      <4>. QED
        BY <2>5, <4>1, <4>2, <4>3
    <3>. QED
      BY <3>1, <3>2, <3>3 DEF Believes
  <2>. QED
    BY <2>1, <2>2, <2>3, <2>4, <2>5 DEF Enter, Proceed
<1>. QED
  BY <1>1, <1>5, <1>6, <1>8, OneProcess

LEMMA CrashStep ==
  ASSUME LockInv, TypeOK', NEW p \in Processes, Crash(p)
  PROVE  LockInv'
<1>1. \A q \in Processes : Chained(q, tail[q], stage) /\ Believes(q)
  BY ChainParts DEF LockInv
<1>2. /\ stage \in [Calls -> Stages]
      /\ tail \in [Processes -> Seq(Calls)] /\ locked \in [Processes -> BOOLEAN]
      /\ compromised \in [Processes -> BOOLEAN]
      /\ loop \in [Processes -> {"running", "blocked", "dead"}]
  BY DEF LockInv, TypeOK
<1>3. ASSUME NEW q \in Processes, q # p
      PROVE  Chained(q, tail'[q], stage') /\ Believes(q)'
  <2>1. \A d \in CallsOf(q) : stage'[d] = stage[d]
    BY <1>3 DEF Crash, CallsOf
  <2>2. /\ tail'[q] = tail[q] /\ locked'[q] = locked[q]
        /\ compromised'[q] = compromised[q] /\ loop'[q] = loop[q]
    BY <1>2, <1>3 DEF Crash
  <2>3. Chained(q, tail[q], stage')
    BY <1>1, <2>1, Elsewhere
  <2>4. tail[q] # <<>> => Head(tail[q]) \in CallsOf(q)
    BY <1>1, HeadOfChain
  <2>. QED
    BY <1>1, <2>1, <2>2, <2>3, <2>4 DEF Believes
<1>4. Chained(p, tail'[p], stage') /\ Believes(p)'
  <2>1. tail'[p] = <<>> /\ ~locked'[p]
    BY <1>2 DEF Crash
  <2>2. \A c \in CallsOf(p) : stage'[c] \notin InChain
    BY DEF Crash, CallsOf, InChain
  <2>3. <<>> \in Seq(Calls) /\ Len(<<>>) = 0
    BY EmptySeq
  <2>4. Chained(p, <<>>, stage')
    BY <2>2, <2>3 DEF Chained
  <2>. QED
    BY <2>1, <2>4 DEF Believes
<1>5. \A q \in Processes : Chained(q, tail'[q], stage') /\ Believes(q)'
  BY <1>3, <1>4
<1>. QED
  BY <1>5, ChainPartsNext DEF LockInv

LEMMA ChainNext == LockInv /\ [Next]_vars => LockInv'
<1>. SUFFICES ASSUME LockInv, [Next]_vars PROVE LockInv'
  OBVIOUS
<1>1. TypeOK'
  BY TypeNext
<1>2. \A q \in Processes : Believes(q)
  BY ChainParts DEF LockInv
<1>3. CASE \E c \in Calls : Enter(c) \/ Proceed(c)
  BY <1>1, <1>3, CallStep
<1>4. CASE \E p \in Processes : Crash(p)
  BY <1>1, <1>4, CrashStep
<1>5. CASE \E p \in Processes : Refresh(p) \/ Compromised(p) \/ Stall(p) \/ Wake(p) \/ Restart(p)
  <2>. PICK p \in Processes : Refresh(p) \/ Compromised(p) \/ Stall(p) \/ Wake(p) \/ Restart(p)
    BY <1>5
  <2>1. tail' = tail /\ stage' = stage
    BY DEF Refresh, Compromised, Stall, Wake, Restart
  <2>2. \A q \in Processes :
           /\ locked'[q] => locked[q] /\ compromised'[q] = compromised[q]
           /\ loop'[q] = "dead" => loop[q] = "dead"
    BY DEF Refresh, Compromised, Stall, Wake, Restart, LockInv, TypeOK
  <2>3. \A q \in Processes : Believes(q)'
    BY <1>2, <2>1, <2>2 DEF Believes
  <2>. QED
    BY <1>1, <2>1, <2>3, NoCall
<1>6. CASE UNCHANGED vars
  <2>1. \A q \in Processes : Believes(q)'
    BY <1>2, <1>6 DEF Believes, vars
  <2>. QED
    BY <1>1, <1>6, <2>1, NoCall DEF vars
<1>. QED
  BY <1>3, <1>4, <1>5, <1>6 DEF Next

\* Whatever faults occur, the flag, the promise chain and the stages of the calls agree
\* (withExclusiveLock, acquire, release): LockInv of every run, for every instance.
THEOREM ChainInvariant == Spec => []LockInv
<1>1. Init => LockInv
  BY ChainInit
<1>2. LockInv /\ [Next]_vars => LockInv'
  BY ChainNext
<1>. QED
  BY <1>1, <1>2, PTL DEF Spec

-----------------------------------------------------------------------------
(* Exclusion, when no event loop stalls past the stale threshold *)

Past == {"holding", "unlocking"}

\* The lockfile is what `locked` says it is, and the holder's own until it has unlocked.
Owned ==
  /\ \A p \in Processes : loop[p] # "blocked"
  /\ \A p \in Processes : locked[p] => lockfile.owner = p /\ lockfile.fresh
  /\ \A c \in Calls : stage[c] = "holding" => locked[Home(c)]
  /\ \A c \in Calls : stage[c] = "unlocking" => lockfile.owner = Home(c) /\ lockfile.fresh

\* At most one call of a process has got past waiting, and it is the first of the chain.
LEMMA Sole ==
  ASSUME LockInv, NEW c \in Calls, NEW d \in Calls, Home(c) = Home(d), stage[c] \in Past
  PROVE  /\ tail[Home(c)] # <<>> /\ Head(tail[Home(c)]) = c
         /\ stage[d] \in Past => c = d
         /\ locked[Home(c)] => stage[c] = "holding"
<1>1. Home(c) \in Processes /\ c \in CallsOf(Home(c)) /\ d \in CallsOf(Home(c))
  BY DEF Calls, Home, CallsOf
<1>2. Chained(Home(c), tail[Home(c)], stage) /\ Believes(Home(c))
  BY <1>1, ChainParts DEF LockInv
<1>3. tail[Home(c)] # <<>> /\ Head(tail[Home(c)]) = c
  BY <1>1, <1>2, FirstIsHead DEF Past
<1>4. stage[d] \in Past => Head(tail[Home(c)]) = d
  BY <1>1, <1>2, FirstIsHead DEF Past
<1>. QED
  BY <1>2, <1>3, <1>4 DEF Believes

\* While anything is past waiting or `locked`, the lockfile cannot be taken.
LEMMA NotTakeable ==
  ASSUME LockInv, Owned, Takeable
  PROVE  /\ \A p \in Processes : ~locked[p]
         /\ \A c \in Calls : stage[c] \notin Past
<1>1. None \notin Processes /\ \A c \in Calls : Home(c) \in Processes
  BY LockAssumption DEF Calls, Home
<1>. QED
  BY <1>1 DEF Takeable, Owned, Past, LockInv, TypeOK

LEMMA OwnedNext ==
  ASSUME LockInv, Owned, [Next]_vars, NoStall'
  PROVE  Owned'
<1>0. /\ \A c \in Calls : Home(c) \in Processes
      /\ stage \in [Calls -> Stages] /\ locked \in [Processes -> BOOLEAN]
      /\ loop \in [Processes -> {"running", "blocked", "dead"}]
      /\ lockfile \in [owner: Processes \cup {None}, fresh: BOOLEAN]
      /\ faults \in [Faults -> Nat]
  BY DEF Calls, Home, LockInv, TypeOK
<1>1. CASE \E c \in Calls : EnterInline(c) \/ Enqueue(c) \/ LeaveInline(c)
  BY <1>0, <1>1 DEF EnterInline, Enqueue, LeaveInline, Step, Owned
<1>2. ASSUME NEW c \in Calls, Acquire(c)
      PROVE  Owned'
  <2>1. /\ \A p \in Processes : ~locked[p]
        /\ \A d \in Calls : stage[d] \notin Past
    BY <1>2, NotTakeable DEF Acquire
  <2>. QED
    BY <1>0, <1>2, <2>1 DEF Acquire, Step, Owned, Past
<1>3. ASSUME NEW c \in Calls, GiveUp(c)
      PROVE  Owned'
  <2>1. \A d \in Calls : Home(d) = Home(c) => stage[d] \notin Past
    BY <1>3, Sole DEF GiveUp, IsHead, Step, Past
  <2>. QED
    BY <1>0, <1>3, <2>1 DEF GiveUp, Step, Owned, Past
<1>4. ASSUME NEW c \in Calls, Release(c)
      PROVE  Owned'
  <2>1. \A d \in Calls : Home(d) = Home(c) /\ stage[d] \in Past => d = c
    BY <1>4, Sole DEF Release, Step, Past
  <2>. QED
    BY <1>0, <1>4, <2>1 DEF Release, Step, Owned, Past
<1>5. ASSUME NEW c \in Calls, ReleaseLost(c)
      PROVE  Owned'
  BY <1>5 DEF ReleaseLost, Step, Owned
<1>6. ASSUME NEW c \in Calls, Unlock(c)
      PROVE  Owned'
  <2>1. lockfile.owner = Home(c) /\ stage[c] \in Past /\ stage[c] # "holding"
    BY <1>6 DEF Unlock, Step, Owned, Past
  <2>2. \A d \in Calls : Home(d) = Home(c) /\ stage[d] \in Past => d = c
    BY <2>1, Sole
  <2>3. ~locked[Home(c)]
    BY <2>1, Sole
  <2>4. \A p \in Processes : ~locked[p]
    BY <2>1, <2>3 DEF Owned
  <2>5. \A d \in Calls : stage[d] \in Past => d = c
    BY <1>0, <2>1, <2>2 DEF Owned, Past
  <2>. QED
    BY <1>0, <1>6, <2>4, <2>5 DEF Unlock, Step, Owned, Past
<1>7. ASSUME NEW p \in Processes, Refresh(p) \/ Compromised(p) \/ Wake(p)
      PROVE  Owned'
  BY <1>7 DEF Refresh, Compromised, Wake, Owned
<1>11. \A p \in Processes : ~Stall(p)
  BY <1>0 DEF Stall, Fault, Faults, NoStall
<1>8. ASSUME NEW p \in Processes, Crash(p)
      PROVE  Owned'
  <2>1. \A q \in Processes : loop'[q] # "blocked"
    BY <1>0, <1>8 DEF Crash, Owned
  <2>2. /\ \A q \in Processes : locked'[q] => q # p /\ locked[q]
        /\ \A c \in Calls : stage'[c] \in Past => Home(c) # p /\ stage'[c] = stage[c]
        /\ \A q \in Processes : q # p => locked'[q] = locked[q]
    BY <1>0, <1>8 DEF Crash, Past
  <2>3. lockfile.owner # p => lockfile' = lockfile
    BY <1>8 DEF Crash
  <2>. QED
    BY <1>0, <2>1, <2>2, <2>3 DEF Owned, Past
<1>9. ASSUME NEW p \in Processes, Restart(p)
      PROVE  Owned'
  BY <1>0, <1>9 DEF Restart, Owned
<1>10. CASE UNCHANGED vars
  BY <1>10 DEF Owned, vars
<1>. QED
  BY <1>1, <1>2, <1>3, <1>4, <1>5, <1>6, <1>7, <1>8, <1>9, <1>10, <1>11 DEF Next, Enter, Proceed

\* Stalls are counted and never forgotten.
LEMMA StallsStay == LockInv /\ [Next]_vars /\ NoStall' => NoStall
<1>. SUFFICES ASSUME LockInv, [Next]_vars, NoStall' PROVE NoStall
  OBVIOUS
<1>1. faults' = faults \/ \E kind \in Faults : faults' = [faults EXCEPT ![kind] = @ + 1]
  BY DEF Next, vars, Enter, Proceed, EnterInline, Enqueue, Acquire, GiveUp, LeaveInline, Release,
         ReleaseLost, Unlock, Step, Refresh, Compromised, Stall, Wake, Crash, Restart, Fault, Faults
<1>2. faults \in [Faults -> Nat]
  BY DEF LockInv, TypeOK
<1>. QED
  BY <1>1, <1>2 DEF NoStall, Faults

LEMMA OwnedAlways == Spec => [](LockInv /\ (NoStall => Owned))
<1>1. Init => Owned
  BY DEF Init, Owned, Calls, Home
<1>2. LockInv /\ (NoStall => Owned) /\ [Next]_vars => (NoStall => Owned)'
  BY OwnedNext, StallsStay
<1>. QED
  BY <1>1, <1>2, ChainInvariant, PTL DEF Spec

\* Crashes or not, sections that acquired the lock exclude each other until an event loop
\* stalls past the stale threshold (LOCK_STALE_MS).
THEOREM Exclusion == Spec => []OneHolder
<1>1. LockInv /\ (NoStall => Owned) => OneHolder
  <2>. SUFFICES ASSUME LockInv, Owned, NEW c \in Calls, NEW d \in Calls,
                       stage[c] = "holding", stage[d] = "holding"
                PROVE  c = d
    BY DEF OneHolder
  <2>1. Home(c) \in Processes /\ Home(d) \in Processes
    BY DEF Calls, Home
  <2>2. Home(c) = Home(d)
    BY <2>1 DEF Owned
  <2>. QED
    BY <2>2, Sole DEF Past
<1>. QED
  BY <1>1, OwnedAlways, PTL

\* Until then a fresh lockfile only goes when its own process unlocks it
\* (release, and the takeover of stale lockfiles only).
THEOREM FreshLockKeptAlways == Spec => FreshLockKept
<1>1. LockInv /\ (NoStall => Owned) /\ [Next]_vars => [NoStall => KeepsFreshLock]_vars
  <2>. SUFFICES ASSUME LockInv, Owned, [Next]_vars, NEW p \in Processes,
                       lockfile.owner = p, lockfile.fresh, lockfile'.owner # p
                PROVE  \E c \in CallsOf(p) : stage[c] = "unlocking"
    BY DEF KeepsFreshLock
  <2>1. PICK c \in Calls : Unlock(c)
    <3>1. \A c \in Calls : ~Acquire(c)
      BY LockAssumption DEF Acquire, Takeable
    <3>2. \A q \in Processes : ~(Refresh(q) \/ Stall(q) \/ Crash(q))
      <4>. SUFFICES ASSUME NEW q \in Processes, Refresh(q) \/ Stall(q) \/ Crash(q) PROVE FALSE
        OBVIOUS
      <4>1. lockfile \in [owner: Processes \cup {None}, fresh: BOOLEAN]
        BY DEF LockInv, TypeOK
      <4>2. \/ lockfile' = lockfile
            \/ \E b \in BOOLEAN : lockfile' = [lockfile EXCEPT !.fresh = b]
        BY DEF Refresh, Stall, Crash
      <4>. QED
        BY <4>1, <4>2
    <3>. QED
      BY <3>1, <3>2 DEF Next, Enter, Proceed, EnterInline, Enqueue, GiveUp, LeaveInline,
              Release, ReleaseLost, Compromised, Wake, Restart, vars
  <2>2. stage[c] = "unlocking" /\ Home(c) = p
    BY <2>1 DEF Unlock, Step, Owned
  <2>. QED
    BY <2>2 DEF CallsOf
<1>. QED
  BY <1>1, OwnedAlways, PTL DEF Spec, FreshLockKept

=============================================================================
