-------------------------- MODULE HttpSessionsProofs --------------------------
(***************************************************************************)
(* Proofs about HttpSessions, for any sessions, bounds and timeouts.       *)
(* HttpInv is inductive as it stands: the table, the transports, the       *)
(* sweep's counts, the buffer's flags and the SDK's slots change together. *)
(* From it follows that the sweep ends nothing in use: an expired session  *)
(* has no stream, and a call it still serves is older than its idle time.  *)
(* The order of messages (OrderInv) is an induction of its own over them.  *)
(***************************************************************************)
EXTENDS HttpSessions, SequenceTheorems, TLAPS

\* What cutting exchanges off does to the requests.
LEMMA CutOffShape ==
  ASSUME TypeOK, NEW S
  PROVE  /\ CutOff(S) \in Seq(Exchanges)
         /\ Len(CutOff(S)) = Len(request)
         /\ DOMAIN CutOff(S) = 1..Len(request) /\ Requests = 1..Len(request)
         /\ \A r \in Requests :
              CutOff(S)[r] = IF request[r].session \in S /\ request[r].stage \in {"serving", "streaming"}
                             THEN [request[r] EXCEPT !.stage = "cut"] ELSE request[r]
<1>1. Requests = 1..Len(request) /\ Len(request) \in Nat BY DEF TypeOK, Requests
<1>2. \A r \in Requests : request[r] \in Exchanges BY DEF TypeOK, Requests
<1>3. CutOff(S) = [r \in 1..Len(request) |-> CutOff(S)[r]] BY <1>1 DEF CutOff
<1>4. \A r \in 1..Len(request) : CutOff(S)[r] \in Exchanges BY <1>1, <1>2 DEF CutOff, Exchanges, Ended
<1>5. CutOff(S) \in Seq(Exchanges) BY <1>1, <1>3, <1>4
<1>6. Len(CutOff(S)) = Len(request) BY <1>1, <1>3, <1>5
<1> QED BY <1>1, <1>5, <1>6 DEF CutOff

\* What the arrival of a request does to them.
LEMMA ArriveStep ==
  ASSUME TypeOK, NEW s \in Sessions, NEW stage \in Live \cup Ended, NEW S, Arrives(s, stage, S)
  PROVE  /\ request' \in Seq(Exchanges) /\ Len(request') = Len(request) + 1
         /\ Requests = 1..Len(request) /\ Requests' = 1..(Len(request) + 1)
         /\ \A r \in Requests :
              request'[r] = IF request[r].session \in S /\ request[r].stage \in {"serving", "streaming"}
                            THEN [request[r] EXCEPT !.stage = "cut"] ELSE request[r]
         /\ request'[Len(request) + 1] = [stage |-> stage, session |-> s, age |-> 0]
<1> DEFINE new == [stage |-> stage, session |-> s, age |-> 0]
<1>1. new \in Exchanges BY HttpAssumption DEF Exchanges
<1>2. request' = Append(CutOff(S), new) BY DEF Arrives
<1> HIDE DEF new
<1>3. request' \in Seq(Exchanges) /\ Len(request') = Len(request) + 1
  BY <1>1, <1>2, CutOffShape
<1>4. \A r \in 1..Len(request) : request'[r] = CutOff(S)[r] BY <1>1, <1>2, CutOffShape
<1>5. request'[Len(request) + 1] = new BY <1>1, <1>2, CutOffShape
<1> QED BY <1>3, <1>4, <1>5, CutOffShape DEF Requests, new

\* TypeOK, part by part.
LEMMA Types ==
  ASSUME TypeOK
  PROVE  /\ openStreams \in [Sessions -> Nat] /\ sdkStream \in [Sessions -> 0..Len(request)]
         /\ sseOpen \in [Sessions -> BOOLEAN] /\ pipe \in [Sessions -> Seq(1..MaxMessages)]
         /\ quiet \in [Sessions -> 0..SseIdle] /\ idle \in [Sessions -> 0..(Ttl + 1)]
         /\ Len(request) \in Nat /\ Requests = 1..Len(request)
         /\ \A r \in Requests : request[r] \in Exchanges
         /\ transport \in [Sessions -> {"none", "opening", "open", "closed"}]
<1>1. request \in Seq(Exchanges) BY DEF TypeOK
<1>2. Len(request) \in Nat /\ Requests = 1..Len(request) BY <1>1 DEF Requests
<1>3. \A r \in Requests : request[r] \in Exchanges BY <1>1, <1>2
<1> QED BY <1>2, <1>3 DEF TypeOK

\* A sequence of exchanges, changed place by place, is one.
LEMMA MapShape ==
  ASSUME TypeOK, NEW f \in [Requests -> Exchanges]
  PROVE  f \in Seq(Exchanges) /\ Len(f) = Len(request) /\ DOMAIN f = Requests
<1>1. Requests = 1..Len(request) /\ Len(request) \in Nat BY DEF TypeOK, Requests
<1>2. f \in Seq(Exchanges) BY <1>1
<1> QED BY <1>1, <1>2

\* The first state: no session, no request.
LEMMA InitInv == Init => HttpInv
<1> SUFFICES ASSUME Init PROVE HttpInv OBVIOUS
<1> USE HttpAssumption DEF Init, Requests
<1>1. TypeOK BY DEF TypeOK, Exchanges
<1>2. \A s \in Sessions : SessionOK(s) BY DEF SessionOK
<1>3. \A r \in Requests : ExchangeOK(r) BY DEF ExchangeOK
<1> QED BY <1>1, <1>2, <1>3 DEF HttpInv

\* Closing the sessions of S keeps the parts of the invariant about sessions and older requests.
LEMMA CutKeeps ==
  ASSUME HttpInv, NEW S \in SUBSET table, Shut(S), EndStreams(S), buffer' = buffer,
         \A u \in Sessions : idle'[u] \in {idle[u], 0},
         Len(request') \in Nat, Len(request') >= Len(request), Requests' = 1..Len(request'),
         \A r \in Requests :
           request'[r] = IF request[r].session \in S /\ request[r].stage \in {"serving", "streaming"}
                         THEN [request[r] EXCEPT !.stage = "cut"] ELSE request[r],
         \A q \in Requests' \ Requests : request'[q].stage # "opening"
  PROVE  /\ sdkStream' \in [Sessions -> 0..Len(request')] /\ openStreams' \in [Sessions -> Nat]
         /\ pipe' \in [Sessions -> Seq(1..MaxMessages)] /\ sseOpen' \in [Sessions -> BOOLEAN]
         /\ quiet' \in [Sessions -> 0..SseIdle]
         /\ transport' \in [Sessions -> {"none", "opening", "open", "closed"}] /\ table' \subseteq Sessions
         /\ \A u \in Sessions : SessionOK(u)'
         /\ \A r \in Requests : ExchangeOK(r)'
<1> USE HttpAssumption
<1>a. (\A u \in Sessions : SessionOK(u)) /\ (\A r \in Requests : ExchangeOK(r)) /\ table \subseteq Sessions
  BY DEF HttpInv, TypeOK
<1>b. /\ openStreams \in [Sessions -> Nat] /\ sdkStream \in [Sessions -> 0..Len(request)]
      /\ sseOpen \in [Sessions -> BOOLEAN] /\ pipe \in [Sessions -> Seq(1..MaxMessages)]
      /\ quiet \in [Sessions -> 0..SseIdle] /\ idle \in [Sessions -> 0..(Ttl + 1)]
      /\ Len(request) \in Nat /\ Requests = 1..Len(request) /\ \A r \in Requests : request[r] \in Exchanges
      /\ transport \in [Sessions -> {"none", "opening", "open", "closed"}]
  BY Types DEF HttpInv
<1>c. 0 \in 0..SseIdle /\ <<>> \in Seq(1..MaxMessages) OBVIOUS
<1>1. sdkStream' \in [Sessions -> 0..Len(request')] /\ openStreams' \in [Sessions -> Nat]
  BY <1>b DEF EndStreams, On
<1>2. /\ pipe' \in [Sessions -> Seq(1..MaxMessages)] /\ sseOpen' \in [Sessions -> BOOLEAN]
      /\ quiet' \in [Sessions -> 0..SseIdle]
  BY <1>b, <1>c DEF EndStreams, On
<1>3. transport' \in [Sessions -> {"none", "opening", "open", "closed"}] /\ table' \subseteq Sessions
  BY <1>a, <1>b DEF Shut, On
<1>4. ASSUME NEW u \in Sessions PROVE SessionOK(u)'
  <2>1. SessionOK(u) BY <1>a
  <2>2. CASE u \in S
    <3>1. u \notin table' /\ transport'[u] = "closed" /\ sdkStream'[u] = 0 /\ ~sseOpen'[u]
      BY <2>2 DEF Shut, EndStreams, On
    <3>2. openStreams'[u] = 0 BY <2>1, <2>2, <1>b DEF EndStreams, SessionOK
    <3> QED BY <3>1, <3>2 DEF SessionOK
  <2>3. CASE u \notin S
    <3>1. transport'[u] = transport[u] /\ openStreams'[u] = openStreams[u] /\ sdkStream'[u] = sdkStream[u]
          /\ sseOpen'[u] = sseOpen[u] /\ (u \in table' <=> u \in table)
      BY <1>b, <2>3 DEF Shut, EndStreams, On
    <3>2. sdkStream[u] # 0 => sdkStream[u] \in Requests /\ request'[sdkStream[u]] = request[sdkStream[u]]
      <4>1. sdkStream[u] \in 0..Len(request) BY <1>b
      <4>2. sdkStream[u] # 0 => sdkStream[u] \in Requests BY <4>1, <1>b
      <4>3. sdkStream[u] # 0 => request[sdkStream[u]].session = u BY <2>1 DEF SessionOK
      <4> QED BY <4>2, <4>3, <2>3
    <3> QED BY <2>1, <3>1, <3>2 DEF SessionOK
  <2> QED BY <2>2, <2>3
<1>5. ASSUME NEW r \in Requests PROVE ExchangeOK(r)'
  <2>1. \A q \in Requests : /\ request'[q].session = request[q].session /\ request'[q].age = request[q].age
                            /\ request'[q].stage # request[q].stage => request'[q].stage = "cut"
                            /\ request[q].session \in S => request'[q].stage \notin {"serving", "streaming"}
    BY <1>b DEF Exchanges
  <2>2. \A u \in Sessions : /\ u \notin S => transport'[u] = transport[u] /\ sdkStream'[u] = sdkStream[u]
                            /\ transport[u] = "opening" => transport'[u] = "opening"
    BY <1>a, <1>b DEF SessionOK, Shut, EndStreams, On
  <2>3. request[r].session \in Sessions /\ request[r].age \in 0..(Ttl + 1) BY <1>b DEF Exchanges
  <2>4. idle[request[r].session] \in 0..(Ttl + 1) BY <1>b, <2>3
  <2>5. ExchangeOK(r) BY <1>a
  <2>6. request'[r].stage = "opening" =>
          \A q \in Requests' \ {r} : ~(request'[q].stage = "opening" /\ request'[q].session = request'[r].session)
    BY <2>1, <2>5 DEF ExchangeOK
  <2>7. request'[r].stage = "streaming" => request[r].stage = "streaming" /\ request[r].session \notin S
    BY <2>1
  <2>8. request'[r].stage = "serving" => request[r].stage = "serving" /\ request[r].session \notin S
    BY <2>1
  <2>9. request'[r].stage = "opening" => request[r].stage = "opening" BY <2>1
  <2> DEFINE u == request[r].session
  <2>10. request'[r].stage = "serving" => transport'[u] = "open" /\ idle'[u] <= request'[r].age
    BY <2>1, <2>2, <2>3, <2>4, <2>5, <2>8 DEF ExchangeOK
  <2>11. request'[r].stage = "streaming" => sdkStream'[u] = r BY <2>2, <2>3, <2>5, <2>7 DEF ExchangeOK
  <2>12. request'[r].stage = "opening" => transport'[u] = "opening" BY <2>2, <2>3, <2>5, <2>9 DEF ExchangeOK
  <2>13. request'[r].session = u BY <2>1
  <2> HIDE DEF u
  <2> QED BY <2>6, <2>10, <2>11, <2>12, <2>13 DEF ExchangeOK
<1> QED BY <1>1, <1>2, <1>3, <1>4, <1>5

\* Calls, refusals and deletes: a request arrives after the sweep and changes no transport but by closing it.
LEMMA VisitKeeps ==
  ASSUME HttpInv, NEW s \in Sessions, NEW S \in SUBSET table, NEW stage \in {"serving", "stateless", "refused", "answered"},
         Arrives(s, stage, S), Shut(S), EndStreams(S), UNCHANGED <<server, messages>>,
         idle' \in {idle, [idle EXCEPT ![s] = 0]}, stage = "serving" => s \in table \ S /\ idle'[s] = 0
  PROVE  HttpInv'
<1> USE HttpAssumption
<1> DEFINE n == Len(request) + 1
<1>a. TypeOK /\ (\A u \in Sessions : SessionOK(u)) BY DEF HttpInv
<1>b. stage \in Live \cup Ended BY DEF Live, Ended
<1>c. /\ request' \in Seq(Exchanges) /\ Len(request') = n
      /\ Requests = 1..Len(request) /\ Requests' = 1..n
      /\ \A r \in Requests :
           request'[r] = IF request[r].session \in S /\ request[r].stage \in {"serving", "streaming"}
                         THEN [request[r] EXCEPT !.stage = "cut"] ELSE request[r]
      /\ request'[n] = [stage |-> stage, session |-> s, age |-> 0]
  BY <1>a, <1>b, ArriveStep
<1>d. Len(request) \in Nat /\ idle \in [Sessions -> 0..(Ttl + 1)] /\ 0 \in 0..(Ttl + 1) /\ buffer' = buffer
  BY <1>a, Types DEF messages
<1>e. \A u \in Sessions : idle'[u] \in {idle[u], 0} BY <1>d
<1>f. \A q \in Requests' \ Requests : request'[q].stage # "opening" BY <1>c, <1>d
<1>g. Len(request') \in Nat /\ Len(request') >= Len(request) /\ Requests' = 1..Len(request') BY <1>c, <1>d
<1>1. /\ sdkStream' \in [Sessions -> 0..Len(request')] /\ openStreams' \in [Sessions -> Nat]
      /\ pipe' \in [Sessions -> Seq(1..MaxMessages)] /\ sseOpen' \in [Sessions -> BOOLEAN]
      /\ quiet' \in [Sessions -> 0..SseIdle]
      /\ transport' \in [Sessions -> {"none", "opening", "open", "closed"}] /\ table' \subseteq Sessions
      /\ \A u \in Sessions : SessionOK(u)'
      /\ \A r \in Requests : ExchangeOK(r)'
  <2> HIDE DEF n
  <2> QED BY <1>c, <1>d, <1>e, <1>f, <1>g, CutKeeps
<1>2. TypeOK'
  <2>1. idle' \in [Sessions -> 0..(Ttl + 1)] BY <1>d
  <2> QED BY <1>a, <1>c, <1>1, <2>1 DEF TypeOK, messages
<1>3. ASSUME NEW r \in Requests', r = n PROVE ExchangeOK(r)'
  <2>1. stage = "serving" => transport'[s] = "open"
    BY <1>a DEF SessionOK, Shut, On
  <2>2. request'[r].stage = stage /\ request'[r].session = s /\ request'[r].age = 0 BY <1>c, <1>3
  <2> QED BY <2>1, <2>2 DEF ExchangeOK
<1>4. \A r \in Requests' : ExchangeOK(r)'
  <2>1. \A r \in Requests' : r \in Requests \/ r = n BY <1>c, <1>d
  <2> HIDE DEF n
  <2> QED BY <2>1, <1>1, <1>3
<1> QED BY <1>1, <1>2, <1>4 DEF HttpInv

\* The sweep timer and the close: sessions go, no request arrives.
LEMMA CloseKeeps ==
  ASSUME HttpInv, NEW S \in SUBSET table, request' = CutOff(S), Shut(S), EndStreams(S),
         UNCHANGED <<idle, messages>>, server' \in {"up", "closing", "cleared", "down"}
  PROVE  HttpInv'
<1>a. TypeOK BY DEF HttpInv
<1>b. /\ request' \in Seq(Exchanges) /\ Len(request') = Len(request) /\ Len(request) \in Nat
      /\ Requests = 1..Len(request) /\ Requests' = 1..Len(request')
      /\ \A r \in Requests :
           request'[r] = IF request[r].session \in S /\ request[r].stage \in {"serving", "streaming"}
                         THEN [request[r] EXCEPT !.stage = "cut"] ELSE request[r]
  BY <1>a, CutOffShape, Types DEF Requests
<1>c. buffer' = buffer /\ idle' = idle BY DEF messages
<1>1. /\ sdkStream' \in [Sessions -> 0..Len(request')] /\ openStreams' \in [Sessions -> Nat]
      /\ pipe' \in [Sessions -> Seq(1..MaxMessages)] /\ sseOpen' \in [Sessions -> BOOLEAN]
      /\ quiet' \in [Sessions -> 0..SseIdle]
      /\ transport' \in [Sessions -> {"none", "opening", "open", "closed"}] /\ table' \subseteq Sessions
      /\ \A u \in Sessions : SessionOK(u)'
      /\ \A r \in Requests : ExchangeOK(r)'
  BY <1>b, <1>c, CutKeeps
<1>2. TypeOK' BY <1>a, <1>b, <1>1 DEF TypeOK, messages
<1> QED BY <1>b, <1>1, <1>2 DEF HttpInv

\* The parts of the invariant about sessions and requests, and the types.
LEMMA Parts ==
  ASSUME HttpInv
  PROVE  /\ TypeOK /\ (\A u \in Sessions : SessionOK(u)) /\ (\A r \in Requests : ExchangeOK(r))
         /\ openStreams \in [Sessions -> Nat] /\ sdkStream \in [Sessions -> 0..Len(request)]
         /\ sseOpen \in [Sessions -> BOOLEAN] /\ pipe \in [Sessions -> Seq(1..MaxMessages)]
         /\ quiet \in [Sessions -> 0..SseIdle] /\ idle \in [Sessions -> 0..(Ttl + 1)]
         /\ Len(request) \in Nat /\ Requests = 1..Len(request)
         /\ \A r \in Requests : request[r] \in Exchanges
         /\ transport \in [Sessions -> {"none", "opening", "open", "closed"}]
         /\ table \subseteq Sessions
         /\ 0 \in 0..SseIdle /\ 0 \in 0..(Ttl + 1) /\ <<>> \in Seq(1..MaxMessages)
<1>1. TypeOK BY DEF HttpInv
<1>2. table \subseteq Sessions BY <1>1 DEF TypeOK
<1>3. 0 \in 0..SseIdle /\ 0 \in 0..(Ttl + 1) /\ <<>> \in Seq(1..MaxMessages) BY HttpAssumption
<1> QED BY <1>1, <1>2, <1>3, Types DEF HttpInv

\* Only sessions of the map expire.
LEMMA ExpiredInTable == Expired \subseteq table
BY DEF Expired

\* A request that mints a session.
LEMMA InitializeKeeps ==
  ASSUME HttpInv, NEW s \in Sessions, Initialize(s)
  PROVE  HttpInv'
<1> DEFINE n == Len(request) + 1
<1>c. /\ request' \in Seq(Exchanges) /\ Len(request') = n
      /\ Requests = 1..Len(request) /\ Requests' = 1..n
      /\ \A r \in Requests :
           request'[r] = IF request[r].session \in Expired /\ request[r].stage \in {"serving", "streaming"}
                         THEN [request[r] EXCEPT !.stage = "cut"] ELSE request[r]
      /\ request'[n] = [stage |-> "opening", session |-> s, age |-> 0]
  BY Parts, ArriveStep DEF Initialize, Live
<1>d. transport[s] = "none" /\ buffer' = buffer /\ idle' = idle /\ Expired \subseteq table
      /\ transport' = [On(transport, Expired, "closed") EXCEPT ![s] = "opening"]
      /\ table' = table \ Expired /\ EndStreams(Expired)
  BY ExpiredInTable DEF Initialize, messages
<1>1. TypeOK'
  <2>1. sdkStream' \in [Sessions -> 0..Len(request')] /\ openStreams' \in [Sessions -> Nat]
    BY <1>c, <1>d, Parts DEF EndStreams, On
  <2>2. /\ pipe' \in [Sessions -> Seq(1..MaxMessages)] /\ sseOpen' \in [Sessions -> BOOLEAN]
        /\ quiet' \in [Sessions -> 0..SseIdle]
    BY <1>d, Parts DEF EndStreams, On
  <2>3. transport' \in [Sessions -> {"none", "opening", "open", "closed"}] /\ table' \subseteq Sessions
    BY <1>d, Parts DEF On
  <2> QED BY <1>c, <1>d, <2>1, <2>2, <2>3, Parts DEF TypeOK, Initialize, messages
<1>2. ASSUME NEW u \in Sessions PROVE SessionOK(u)'
  <2>1. SessionOK(u) BY Parts
  <2>2. CASE u \in Expired
    <3>1. u # s /\ u \notin table' /\ transport'[u] = "closed" /\ sdkStream'[u] = 0 /\ ~sseOpen'[u]
      BY <2>1, <2>2, <1>d DEF EndStreams, On, SessionOK
    <3>2. openStreams'[u] = 0 BY <2>1, <2>2, <1>d, Parts DEF EndStreams, SessionOK
    <3> QED BY <3>1, <3>2 DEF SessionOK
  <2>3. CASE u \notin Expired
    <3>1. openStreams'[u] = openStreams[u] /\ sdkStream'[u] = sdkStream[u]
          /\ sseOpen'[u] = sseOpen[u] /\ (u \in table' <=> u \in table)
      BY <1>d, <2>3, Parts DEF EndStreams, On
    <3>2. sdkStream[u] # 0 => sdkStream[u] \in Requests /\ request'[sdkStream[u]] = request[sdkStream[u]]
      <4>1. sdkStream[u] \in 0..Len(request) BY Parts
      <4>2. sdkStream[u] # 0 => sdkStream[u] \in Requests BY <4>1, Parts
      <4>3. sdkStream[u] # 0 => request[sdkStream[u]].session = u BY <2>1 DEF SessionOK
      <4> QED BY <4>2, <4>3, <1>c, <2>3
    <3>3. transport'[u] = IF u = s THEN "opening" ELSE transport[u] BY <1>d, <2>3 DEF On
    <3> QED BY <2>1, <3>1, <3>2, <3>3, <1>d DEF SessionOK
  <2> QED BY <2>2, <2>3
<1>3. ASSUME NEW r \in Requests' PROVE ExchangeOK(r)'
  <2>1. \A q \in Requests : /\ request'[q].session = request[q].session /\ request'[q].age = request[q].age
                            /\ request'[q].stage # request[q].stage => request'[q].stage = "cut"
                            /\ request[q].session \in Expired => request'[q].stage \notin {"serving", "streaming"}
    BY <1>c, Parts DEF Exchanges
  <2>2. \A u \in Sessions : /\ u \notin Expired /\ u # s => transport'[u] = transport[u]
                            /\ u \notin Expired => sdkStream'[u] = sdkStream[u]
                            /\ transport[u] = "opening" => transport'[u] = "opening"
    BY <1>d, Parts DEF SessionOK, EndStreams, On
  <2>3. \A q \in Requests : request[q].session = s => request[q].stage # "opening" /\ request[q].stage # "serving"
    BY <1>d, Parts DEF ExchangeOK
  <2>4. CASE r \in Requests
    <3> DEFINE u == request[r].session
    <3>1. u \in Sessions /\ request'[r].session = u BY <2>1, <2>4, Parts DEF Exchanges
    <3>2. ExchangeOK(r) BY <2>4, Parts
    <3>3. request'[r].stage = "opening" => transport'[u] = "opening" BY <2>1, <2>2, <2>4, <3>1, <3>2 DEF ExchangeOK
    <3>4. request'[r].stage = "opening" => \A q \in Requests' \ {r} : ~(request'[q].stage = "opening" /\ request'[q].session = u)
      <4>1. \A q \in Requests \ {r} : request'[r].stage = "opening" => ~(request'[q].stage = "opening" /\ request'[q].session = u)
        BY <2>1, <2>4, <3>2 DEF ExchangeOK
      <4>2. request'[r].stage = "opening" => u # s BY <2>1, <2>3, <2>4
      <4> QED BY <4>1, <4>2, <1>c, Parts
    <3>5. request'[r].stage = "streaming" => sdkStream'[u] = r BY <2>1, <2>2, <2>4, <3>1, <3>2 DEF ExchangeOK
    <3>6. request'[r].stage = "serving" => transport'[u] = "open" /\ idle'[u] <= request'[r].age
      BY <1>d, <2>1, <2>2, <2>3, <2>4, <3>1, <3>2 DEF ExchangeOK
    <3> HIDE DEF u
    <3> QED BY <3>1, <3>3, <3>4, <3>5, <3>6 DEF ExchangeOK
  <2>5. CASE r = n
    <3>1. request'[r].stage = "opening" /\ request'[r].session = s BY <1>c, <2>5
    <3>2. transport'[s] = "opening" BY <1>d, Parts DEF On
    <3>3. \A q \in Requests' \ {r} : q \in Requests BY <1>c, <2>5, Parts
    <3>4. \A q \in Requests : ~(request'[q].stage = "opening" /\ request'[q].session = s) BY <2>1, <2>3
    <3> QED BY <3>1, <3>2, <3>3, <3>4 DEF ExchangeOK
  <2> QED BY <1>c, Parts, <2>4, <2>5
<1> QED BY <1>1, <1>2, <1>3 DEF HttpInv

\* A stream opens: count, slot, flag and buffer change together.
LEMMA ListenKeeps ==
  ASSUME HttpInv, NEW s \in Sessions, Listen(s)
  PROVE  HttpInv'
<1> DEFINE n == Len(request) + 1
<1>c. /\ request' \in Seq(Exchanges) /\ Len(request') = n
      /\ Requests = 1..Len(request) /\ Requests' = 1..n
      /\ \A r \in Requests :
           request'[r] = IF request[r].session \in Expired /\ request[r].stage \in {"serving", "streaming"}
                         THEN [request[r] EXCEPT !.stage = "cut"] ELSE request[r]
      /\ request'[n] = [stage |-> "streaming", session |-> s, age |-> 0]
  BY Parts, ArriveStep DEF Listen, Live
<1>d. /\ s \in table \ Expired /\ sdkStream[s] = 0 /\ ~sseOpen[s] /\ openStreams[s] = 0
      /\ transport' = On(transport, Expired, "closed") /\ table' = table \ Expired
      /\ idle' = [idle EXCEPT ![s] = 0] /\ openStreams' = [openStreams EXCEPT ![s] = 1]
      /\ sdkStream' = [sdkStream EXCEPT ![s] = n] /\ sseOpen' = [sseOpen EXCEPT ![s] = TRUE]
      /\ pipe' = [pipe EXCEPT ![s] = @ \o buffer[s]] /\ buffer' = [buffer EXCEPT ![s] = <<>>]
      /\ UNCHANGED <<server, quiet, got, sent>>
  <2>1. sdkStream[s] = 0 /\ s \in table \ Expired BY DEF Listen, Known
  <2>2. ~sseOpen[s] /\ openStreams[s] = 0 BY <2>1, Parts DEF SessionOK
  <2>3. openStreams' = [openStreams EXCEPT ![s] = 1]
    <3>1. openStreams[s] + 1 = 1 BY <2>2
    <3>2. openStreams' = [openStreams EXCEPT ![s] = openStreams[s] + 1] BY DEF Listen
    <3> QED BY <3>1, <3>2
  <2>4. pipe' = [pipe EXCEPT ![s] = @ \o buffer[s]] /\ buffer' = [buffer EXCEPT ![s] = <<>>]
    BY <2>2, Zenon DEF Listen
  <2> QED BY <2>1, <2>2, <2>3, <2>4 DEF Listen, Shut
<1>e. \A u \in Expired : u \in Sessions /\ u # s /\ sdkStream[u] = 0 /\ ~sseOpen[u] /\ openStreams[u] = 0
  BY <1>d, Parts, ExpiredInTable DEF SessionOK, Expired
<1>1. TypeOK'
  <2>1. buffer \in [Sessions -> Seq(1..MaxMessages)] /\ (\A u \in Sessions : Len(buffer[u]) <= BufferMax)
    BY Parts DEF TypeOK
  <2>2. sdkStream' \in [Sessions -> 0..Len(request')] BY <1>c, <1>d, Parts
  <2>3. openStreams' \in [Sessions -> Nat] /\ sseOpen' \in [Sessions -> BOOLEAN] BY <1>d, Parts
  <2>4. buffer[s] \in Seq(1..MaxMessages) /\ pipe[s] \in Seq(1..MaxMessages) BY <2>1, Parts
  <2>5. pipe[s] \o buffer[s] \in Seq(1..MaxMessages) BY <2>4
  <2>6. pipe' \in [Sessions -> Seq(1..MaxMessages)] BY <1>d, <2>5, Parts
  <2>7. buffer' \in [Sessions -> Seq(1..MaxMessages)] BY <1>d, <2>1, Parts
  <2>8. \A u \in Sessions : Len(buffer'[u]) <= BufferMax BY <1>d, <2>1, HttpAssumption
  <2>9. idle' \in [Sessions -> 0..(Ttl + 1)] BY <1>d, Parts
  <2>10. transport' \in [Sessions -> {"none", "opening", "open", "closed"}] /\ table' \subseteq Sessions
    BY <1>d, Parts DEF On
  <2> QED BY <1>c, <1>d, <2>2, <2>3, <2>6, <2>7, <2>8, <2>9, <2>10, Parts DEF TypeOK
<1>2. ASSUME NEW u \in Sessions PROVE SessionOK(u)'
  <2>1. SessionOK(u) BY Parts
  <2>2. CASE u = s
    <3>1. transport'[u] = "open" /\ u \in table' BY <1>d, <2>2, Parts DEF SessionOK, On
    <3>2. sdkStream'[u] = n /\ openStreams'[u] = 1 /\ sseOpen'[u] /\ buffer'[u] = <<>>
      BY <1>d, <2>2, Parts DEF TypeOK
    <3>3. n # 0 /\ request'[n].session = u /\ request'[n].stage = "streaming" BY <1>c, <2>2, Parts
    <3> QED BY <3>1, <3>2, <3>3 DEF SessionOK
  <2>3. CASE u # s
    <3>1. openStreams'[u] = openStreams[u] /\ sdkStream'[u] = sdkStream[u] /\ sseOpen'[u] = sseOpen[u]
          /\ buffer'[u] = buffer[u]
      BY <1>d, <2>3, Parts DEF TypeOK
    <3>2. sdkStream[u] # 0 => request'[sdkStream[u]] = request[sdkStream[u]]
      <4>1. sdkStream[u] \in 0..Len(request) BY Parts
      <4>2. sdkStream[u] # 0 => sdkStream[u] \in Requests BY <4>1, Parts
      <4>3. sdkStream[u] # 0 => request[sdkStream[u]].session = u /\ u \notin Expired BY <2>1, <1>e DEF SessionOK
      <4> QED BY <4>2, <4>3, <1>c
    <3>3. transport'[u] = (IF u \in Expired THEN "closed" ELSE transport[u])
          /\ (u \in table' <=> u \in table /\ u \notin Expired)
      BY <1>d DEF On
    <3> QED BY <2>1, <3>1, <3>2, <3>3, <1>e DEF SessionOK
  <2> QED BY <2>2, <2>3
<1>3. ASSUME NEW r \in Requests' PROVE ExchangeOK(r)'
  <2>1. \A q \in Requests : /\ request'[q].session = request[q].session /\ request'[q].age = request[q].age
                            /\ request'[q].stage # request[q].stage => request'[q].stage = "cut"
                            /\ request[q].session \in Expired => request'[q].stage \notin {"serving", "streaming"}
    BY <1>c, Parts DEF Exchanges
  <2>2. \A u \in Sessions : /\ u \notin Expired => transport'[u] = transport[u]
                            /\ u # s => sdkStream'[u] = sdkStream[u]
                            /\ transport[u] = "opening" => transport'[u] = "opening"
                            /\ idle'[u] \in {idle[u], 0}
    BY <1>d, ExpiredInTable, Parts DEF SessionOK, On
  <2>3. \A q \in Requests : request[q].session = s => request[q].stage # "streaming"
    BY <1>c, <1>d, Parts DEF ExchangeOK
  <2>4. CASE r \in Requests
    <3> DEFINE u == request[r].session
    <3>1. u \in Sessions /\ request'[r].session = u /\ request[r].age \in 0..(Ttl + 1)
      BY <2>1, <2>4, Parts DEF Exchanges
    <3>2. ExchangeOK(r) BY <2>4, Parts
    <3>3. request'[r].stage = "opening" => transport'[u] = "opening" BY <2>1, <2>2, <2>4, <3>1, <3>2 DEF ExchangeOK
    <3>4. request'[r].stage = "opening" => \A q \in Requests' \ {r} : ~(request'[q].stage = "opening" /\ request'[q].session = u)
      <4>1. \A q \in Requests \ {r} : request'[r].stage = "opening" => ~(request'[q].stage = "opening" /\ request'[q].session = u)
        BY <2>1, <2>4, <3>2 DEF ExchangeOK
      <4>2. request'[n].stage # "opening" BY <1>c
      <4> QED BY <4>1, <4>2, <1>c, Parts
    <3>5. request'[r].stage = "streaming" => sdkStream'[u] = r
      BY <2>1, <2>2, <2>3, <2>4, <3>1, <3>2 DEF ExchangeOK
    <3>6. idle[u] \in 0..(Ttl + 1) BY <3>1, Parts
    <3>7. request'[r].stage = "serving" => transport'[u] = "open" /\ idle'[u] <= request'[r].age
      BY <2>1, <2>2, <2>4, <3>1, <3>2, <3>6 DEF ExchangeOK
    <3> HIDE DEF u
    <3> QED BY <3>1, <3>3, <3>4, <3>5, <3>7 DEF ExchangeOK
  <2>5. CASE r = n
    <3>1. request'[r].stage = "streaming" /\ request'[r].session = s BY <1>c, <2>5
    <3>2. sdkStream'[s] = r BY <1>d, <2>5, Parts
    <3> QED BY <3>1, <3>2 DEF ExchangeOK
  <2> QED BY <1>c, Parts, <2>4, <2>5
<1> QED BY <1>1, <1>2, <1>3 DEF HttpInv

\* A session is registered, or its opening fails.
LEMMA OpenKeeps ==
  ASSUME HttpInv, NEW r \in Requests, Open(r) \/ OpenFails(r)
  PROVE  HttpInv'
<1> DEFINE s == request[r].session
<1>1. /\ request[r].stage = "opening" /\ s \in Sessions /\ transport[s] = "opening"
      /\ \A q \in Requests \ {r} : ~(request[q].stage = "opening" /\ request[q].session = s)
  BY Parts DEF Open, OpenFails, Exchanges, ExchangeOK
<1>2. PICK stage \in {"answered", "refused"} : request' = [request EXCEPT ![r].stage = stage]
  BY DEF Open, OpenFails
<1>3. PICK state \in {"open", "none"} : /\ transport' = [transport EXCEPT ![s] = state]
                                        /\ table' = IF state = "open" THEN table \cup {s} ELSE table
                                        /\ idle' \in {idle, [idle EXCEPT ![s] = 0]}
                                        /\ UNCHANGED <<server, streams, messages>>
  BY DEF Open, OpenFails
<1>4. request' \in [Requests -> Exchanges] BY <1>2, Parts DEF Exchanges, Ended, Requests
<1>5. request' \in Seq(Exchanges) /\ Len(request') = Len(request) /\ Requests' = Requests
  BY <1>4, MapShape, Parts DEF Requests
<1>6. \A q \in Requests : /\ request'[q].session = request[q].session /\ request'[q].age = request[q].age
                          /\ request'[q].stage = IF q = r THEN stage ELSE request[q].stage
  BY <1>2, Parts DEF Exchanges, Requests
<1> HIDE DEF s
<1>7. TypeOK' BY <1>1, <1>3, <1>5, Parts DEF TypeOK, streams, messages
<1>8. ASSUME NEW u \in Sessions PROVE SessionOK(u)'
  <2>1. SessionOK(u) BY Parts
  <2>2. transport'[u] = IF u = s THEN state ELSE transport[u] BY <1>3, Parts
  <2>3. sdkStream[u] # 0 => sdkStream[u] \in Requests /\ sdkStream[u] # r
    <3>1. sdkStream[u] \in 0..Len(request) BY Parts
    <3> QED BY <3>1, <1>1, <2>1, Parts DEF SessionOK
  <2> QED BY <1>1, <1>3, <1>6, <2>1, <2>2, <2>3 DEF SessionOK, streams, messages
<1>9. ASSUME NEW q \in Requests PROVE ExchangeOK(q)'
  <2>1. ExchangeOK(q) BY Parts
  <2>2. request[q].session \in Sessions BY Parts DEF Exchanges
  <2>3. CASE q = r BY <1>6, <2>3 DEF ExchangeOK
  <2>4. CASE q # r
    <3>1. request[q].stage = "opening" => request[q].session # s BY <1>1, <2>4
    <3>2. request[q].stage = "serving" => request[q].session # s BY <1>1, <2>1 DEF ExchangeOK
    <3>3. request[q].session # s => transport'[request[q].session] = transport[request[q].session]
                                    /\ idle'[request[q].session] = idle[request[q].session]
      BY <1>3, <2>2, Parts
    <3> QED BY <1>3, <1>5, <1>6, <2>1, <2>4, <3>1, <3>2, <3>3 DEF ExchangeOK, streams
  <2> QED BY <2>3, <2>4
<1> QED BY <1>5, <1>7, <1>8, <1>9 DEF HttpInv

\* A call is answered, or its caller goes away.
LEMMA AnswerKeeps ==
  ASSUME HttpInv, NEW r \in Requests, Answer(r) \/ CallerGone(r)
  PROVE  HttpInv'
<1>1. request[r].stage \in {"serving", "stateless"} BY DEF Answer, CallerGone
<1>2. PICK stage \in {"answered", "aborted"} : request' = [request EXCEPT ![r].stage = stage]
  BY DEF Answer, CallerGone
<1>3. UNCHANGED <<server, transport, table, idle, streams, messages>> BY DEF Answer, CallerGone
<1>4. request' \in [Requests -> Exchanges] BY <1>2, Parts DEF Exchanges, Ended, Requests
<1>5. request' \in Seq(Exchanges) /\ Len(request') = Len(request) /\ Requests' = Requests
  BY <1>4, MapShape, Parts DEF Requests
<1>6. \A q \in Requests : /\ request'[q].session = request[q].session /\ request'[q].age = request[q].age
                          /\ request'[q].stage = IF q = r THEN stage ELSE request[q].stage
  BY <1>2, Parts DEF Exchanges, Requests
<1>7. TypeOK' BY <1>3, <1>5, Parts DEF TypeOK, streams, messages
<1>8. ASSUME NEW u \in Sessions PROVE SessionOK(u)'
  <2>1. SessionOK(u) BY Parts
  <2>2. sdkStream[u] # 0 => sdkStream[u] \in Requests /\ sdkStream[u] # r
    <3>1. sdkStream[u] \in 0..Len(request) BY Parts
    <3> QED BY <3>1, <1>1, <2>1, Parts DEF SessionOK
  <2> QED BY <1>3, <1>6, <2>1, <2>2 DEF SessionOK, streams, messages
<1>9. ASSUME NEW q \in Requests PROVE ExchangeOK(q)'
  <2>1. ExchangeOK(q) BY Parts
  <2> QED BY <1>3, <1>5, <1>6, <2>1 DEF ExchangeOK, streams
<1> QED BY <1>5, <1>7, <1>8, <1>9 DEF HttpInv

\* The buffer never outgrows its bound.
LEMMA KeptBound ==
  ASSUME NEW queue \in Seq(1..MaxMessages), NEW m \in 1..MaxMessages, Len(queue) <= BufferMax
  PROVE  Kept(Append(queue, m)) \in Seq(1..MaxMessages) /\ Len(Kept(Append(queue, m))) <= BufferMax
<1>1. Append(queue, m) \in Seq(1..MaxMessages) /\ Len(Append(queue, m)) = Len(queue) + 1 OBVIOUS
<1>2. Append(queue, m) # <<>> /\ Len(queue) \in Nat BY <1>1
<1>3. Tail(Append(queue, m)) \in Seq(1..MaxMessages) /\ Len(Tail(Append(queue, m))) = Len(queue)
  <2> DEFINE longer == Append(queue, m)
  <2>1. longer \in Seq(1..MaxMessages) /\ longer # <<>> /\ Len(longer) - 1 = Len(queue) BY <1>1, <1>2
  <2> HIDE DEF longer
  <2>2. Tail(longer) \in Seq(1..MaxMessages) /\ Len(Tail(longer)) = Len(queue) BY <2>1, HeadTailProperties
  <2> QED BY <2>2 DEF longer
<1>4. CASE Len(Append(queue, m)) > BufferMax BY <1>3, <1>4 DEF Kept
<1>5. CASE ~(Len(Append(queue, m)) > BufferMax) BY <1>1, <1>2, <1>5, HttpAssumption DEF Kept
<1> QED BY <1>4, <1>5

\* A standalone message is written to the stream or kept.
LEMMA EmitKeeps ==
  ASSUME HttpInv, NEW s \in Sessions, Emit(s)
  PROVE  HttpInv'
<1>1. /\ transport[s] = "open" /\ sent \in Nat /\ sent' = sent + 1 /\ sent + 1 \in 1..MaxMessages
      /\ UNCHANGED <<server, transport, table, idle, openStreams, sdkStream, sseOpen, quiet, got, request>>
  BY HttpAssumption, Parts DEF Emit, TypeOK
<1>2. buffer \in [Sessions -> Seq(1..MaxMessages)] /\ (\A u \in Sessions : Len(buffer[u]) <= BufferMax)
  BY Parts DEF TypeOK
<1>3. pipe' \in [Sessions -> Seq(1..MaxMessages)]
  <2>1. Append(pipe[s], sent + 1) \in Seq(1..MaxMessages) BY <1>1, Parts
  <2> QED BY <2>1, Parts DEF Emit
<1>4. buffer' \in [Sessions -> Seq(1..MaxMessages)] /\ \A u \in Sessions : Len(buffer'[u]) <= BufferMax
  <2>1. Kept(Append(buffer[s], sent + 1)) \in Seq(1..MaxMessages) /\ Len(Kept(Append(buffer[s], sent + 1))) <= BufferMax
    BY <1>1, <1>2, KeptBound
  <2> QED BY <1>2, <2>1 DEF Emit
<1>5. TypeOK' BY <1>1, <1>3, <1>4, Parts DEF TypeOK
<1>6. \A u \in Sessions : sseOpen[u] => buffer'[u] = buffer[u] BY <1>2 DEF Emit
<1>7. ASSUME NEW u \in Sessions PROVE SessionOK(u)' BY <1>1, <1>6, Parts DEF SessionOK
<1>8. ASSUME NEW r \in Requests PROVE ExchangeOK(r)' BY <1>1, Parts DEF ExchangeOK, Requests
<1> QED BY <1>1, <1>5, <1>7, <1>8 DEF HttpInv, Requests

\* A chunk reaches the client.
LEMMA PullKeeps ==
  ASSUME HttpInv, NEW s \in Sessions, Pull(s)
  PROVE  HttpInv'
<1>1. /\ UNCHANGED <<server, transport, table, openStreams, sdkStream, sseOpen, buffer, sent, request>>
      /\ idle' = [idle EXCEPT ![s] = 0] /\ quiet' = [quiet EXCEPT ![s] = 0]
      /\ pipe[s] # <<>> /\ pipe[s] \in Seq(1..MaxMessages) /\ got \in [Sessions -> Seq(1..MaxMessages)]
  <2>1. pipe[s] \in Seq(1..MaxMessages) BY Parts
  <2>2. got \in [Sessions -> Seq(1..MaxMessages)] BY Parts DEF TypeOK
  <2> QED BY <2>1, <2>2 DEF Pull
<1>2. Head(pipe[s]) \in 1..MaxMessages /\ Tail(pipe[s]) \in Seq(1..MaxMessages) BY <1>1, HeadTailProperties
<1>3. Append(got[s], Head(pipe[s])) \in Seq(1..MaxMessages) BY <1>1, <1>2
<1>4. pipe' \in [Sessions -> Seq(1..MaxMessages)] /\ got' \in [Sessions -> Seq(1..MaxMessages)]
  BY <1>1, <1>2, <1>3, Parts DEF Pull
<1>5. idle' \in [Sessions -> 0..(Ttl + 1)] /\ quiet' \in [Sessions -> 0..SseIdle] BY <1>1, Parts
<1>6. TypeOK' BY <1>1, <1>4, <1>5, Parts DEF TypeOK
<1>7. ASSUME NEW u \in Sessions PROVE SessionOK(u)' BY <1>1, Parts DEF SessionOK
<1>8. ASSUME NEW r \in Requests PROVE ExchangeOK(r)'
  <2>1. request[r].session \in Sessions /\ request[r].age \in 0..(Ttl + 1) BY Parts DEF Exchanges
  <2>2. ExchangeOK(r) BY Parts
  <2> QED BY <1>1, <2>1, <2>2, Parts DEF ExchangeOK, Requests
<1> QED BY <1>1, <1>6, <1>7, <1>8 DEF HttpInv, Requests

\* A stream ends: count, slot and flag are reset together.
LEMMA FinishKeeps ==
  ASSUME HttpInv, NEW s \in Sessions, NEW stage \in {"ended", "aborted"}, Finish(s, stage)
  PROVE  HttpInv'
<1> DEFINE r == sdkStream[s]
<1>1. r \in Requests /\ request[r].session = s /\ request[r].stage = "streaming" /\ r # 0 /\ sdkStream[s] = r
  <2>1. r \in 0..Len(request) BY Parts
  <2>2. SessionOK(s) BY Parts
  <2> QED BY <2>1, <2>2, Parts DEF Finish, SessionOK
<1>2. /\ request' = [request EXCEPT ![r].stage = stage] /\ EndStreams({s}) /\ idle' = [idle EXCEPT ![s] = 0]
      /\ UNCHANGED <<server, transport, table, messages>>
  BY DEF Finish
<1> HIDE DEF r
<1>4. request' \in [Requests -> Exchanges] BY <1>1, <1>2, Parts DEF Exchanges, Ended, Requests
<1>5. request' \in Seq(Exchanges) /\ Len(request') = Len(request) /\ Requests' = Requests
  BY <1>4, MapShape, Parts DEF Requests
<1>6. \A q \in Requests : /\ request'[q].session = request[q].session /\ request'[q].age = request[q].age
                          /\ request'[q].stage = IF q = r THEN stage ELSE request[q].stage
  BY <1>1, <1>2, Parts DEF Exchanges, Requests
<1>7. TypeOK'
  <2>1. sdkStream' \in [Sessions -> 0..Len(request')] /\ openStreams' \in [Sessions -> Nat]
    BY <1>2, <1>5, Parts DEF EndStreams, On
  <2>2. /\ pipe' \in [Sessions -> Seq(1..MaxMessages)] /\ sseOpen' \in [Sessions -> BOOLEAN]
        /\ quiet' \in [Sessions -> 0..SseIdle]
    BY <1>2, Parts DEF EndStreams, On
  <2>3. idle' \in [Sessions -> 0..(Ttl + 1)] BY <1>2, Parts
  <2> QED BY <1>2, <1>5, <2>1, <2>2, <2>3, Parts DEF TypeOK, messages
<1>8. ASSUME NEW u \in Sessions PROVE SessionOK(u)'
  <2>1. SessionOK(u) BY Parts
  <2>2. CASE u = s
    <3>1. sdkStream'[u] = 0 /\ ~sseOpen'[u] BY <1>2, <2>2 DEF EndStreams, On
    <3>2. openStreams'[u] = 0 BY <1>2, <2>1, <2>2, Parts DEF EndStreams, SessionOK
    <3> QED BY <1>2, <2>1, <3>1, <3>2 DEF SessionOK
  <2>3. CASE u # s
    <3>1. openStreams'[u] = openStreams[u] /\ sdkStream'[u] = sdkStream[u] /\ sseOpen'[u] = sseOpen[u]
      BY <1>2, <2>3, Parts DEF EndStreams, On
    <3>2. sdkStream[u] # 0 => sdkStream[u] \in Requests /\ sdkStream[u] # r
      <4>1. sdkStream[u] \in 0..Len(request) BY Parts
      <4> QED BY <4>1, <1>1, <2>1, <2>3, Parts DEF SessionOK
    <3> QED BY <1>2, <1>6, <2>1, <3>1, <3>2 DEF SessionOK, messages
  <2> QED BY <2>2, <2>3
<1>9. ASSUME NEW q \in Requests PROVE ExchangeOK(q)'
  <2>1. ExchangeOK(q) BY Parts
  <2>2. request[q].session \in Sessions /\ request[q].age \in 0..(Ttl + 1) BY Parts DEF Exchanges
  <2>3. request'[q].stage = "streaming" => request[q].session # s BY <1>1, <1>6, <2>1 DEF ExchangeOK
  <2>4. request[q].session # s => sdkStream'[request[q].session] = sdkStream[request[q].session]
    BY <1>2, <2>2 DEF EndStreams, On
  <2>5. request'[q].stage = "serving" => idle'[request[q].session] <= request'[q].age
    BY <1>2, <1>6, <2>1, <2>2, Parts DEF ExchangeOK
  <2> QED BY <1>2, <1>5, <1>6, <2>1, <2>3, <2>4, <2>5 DEF ExchangeOK
<1> QED BY <1>5, <1>7, <1>8, <1>9 DEF HttpInv

\* Time makes a session older no faster than the calls it serves.
LEMMA TickKeeps ==
  ASSUME HttpInv, Tick
  PROVE  HttpInv'
<1> USE HttpAssumption
<1>1. UNCHANGED <<server, transport, table, openStreams, sdkStream, sseOpen, pipe, messages>> BY DEF Tick
<1>0. \A a \in 0..(Ttl + 1) : Least(a + 1, Ttl + 1) \in 0..(Ttl + 1) BY DEF Least
<1>2. request' \in [Requests -> Exchanges]
  <2>1. ASSUME NEW q \in Requests PROVE [request[q] EXCEPT !.age = Least(@ + 1, Ttl + 1)] \in Exchanges
    <3>1. request[q].age \in 0..(Ttl + 1) /\ request[q] \in Exchanges BY Parts DEF Exchanges
    <3>2. Least(request[q].age + 1, Ttl + 1) \in 0..(Ttl + 1) BY <1>0, <3>1
    <3> QED BY <3>1, <3>2 DEF Exchanges
  <2> QED BY <2>1, Parts DEF Tick
<1>3. request' \in Seq(Exchanges) /\ Len(request') = Len(request) /\ Requests' = Requests
  BY <1>2, MapShape, Parts DEF Requests
<1>4. \A q \in Requests : /\ request'[q].session = request[q].session /\ request'[q].stage = request[q].stage
                          /\ request[q].stage = "serving" => request'[q].age = Least(request[q].age + 1, Ttl + 1)
  <2>1. \A q \in Requests : request'[q] = IF request[q].stage = "serving"
                                           THEN [request[q] EXCEPT !.age = Least(@ + 1, Ttl + 1)] ELSE request[q]
    BY DEF Tick
  <2>2. \A q \in Requests : request[q] \in Exchanges BY Parts
  <2> QED BY <2>1, <2>2 DEF Exchanges
<1>5. idle' \in [Sessions -> 0..(Ttl + 1)] /\ quiet' \in [Sessions -> 0..SseIdle]
  <2>1. \A a \in 0..SseIdle : Least(a + 1, SseIdle) \in 0..SseIdle BY DEF Least
  <2>2. \A s \in Sessions : Least(quiet[s] + 1, SseIdle) \in 0..SseIdle BY <2>1, Parts
  <2>3. \A s \in Sessions : Least(idle[s] + 1, Ttl + 1) \in 0..(Ttl + 1) BY <1>0, Parts
  <2>4. idle' \in [Sessions -> 0..(Ttl + 1)] BY <2>3, Parts DEF Tick
  <2>5. quiet' \in [Sessions -> 0..SseIdle] BY <2>2, Parts DEF Tick
  <2> QED BY <2>4, <2>5
<1>6. TypeOK' BY <1>1, <1>3, <1>5, Parts DEF TypeOK, messages
<1>7. ASSUME NEW u \in Sessions PROVE SessionOK(u)'
  <2>1. SessionOK(u) BY Parts
  <2>2. sdkStream[u] # 0 => sdkStream[u] \in Requests
    <3>1. sdkStream[u] \in 0..Len(request) BY Parts
    <3> QED BY <3>1, Parts
  <2> QED BY <1>1, <1>4, <2>1, <2>2 DEF SessionOK, messages
<1>8. ASSUME NEW q \in Requests PROVE ExchangeOK(q)'
  <2> DEFINE u == request[q].session
  <2>1. ExchangeOK(q) BY Parts
  <2>2. u \in Sessions /\ request[q].age \in 0..(Ttl + 1) BY Parts DEF Exchanges
  <2>3. idle[u] \in 0..(Ttl + 1) /\ idle'[u] \in {idle[u], Least(idle[u] + 1, Ttl + 1)} BY <2>2, Parts DEF Tick
  <2>4. request[q].stage = "serving" => idle[u] <= request[q].age BY <2>1 DEF ExchangeOK
  <2>5. request[q].stage = "serving" => idle'[u] <= request'[q].age
    <3> HIDE DEF u
    <3> QED BY <1>4, <2>2, <2>3, <2>4 DEF Least
  <2> QED BY <1>1, <1>3, <1>4, <2>1, <2>5 DEF ExchangeOK
<1> QED BY <1>3, <1>6, <1>7, <1>8 DEF HttpInv

\* With the listener gone nothing serves or streams.
LEMMA CloseListenerKeeps ==
  ASSUME HttpInv, CloseListener
  PROVE  HttpInv'
<1> DEFINE over == {"serving", "stateless", "streaming"}
<1>1. UNCHANGED <<transport, table, idle, messages>> /\ server' = "down" /\ EndStreams(Sessions)
  BY DEF CloseListener
<1>2. request' \in [Requests -> Exchanges] BY Parts DEF CloseListener, Exchanges, Ended
<1>3. request' \in Seq(Exchanges) /\ Len(request') = Len(request) /\ Requests' = Requests
  BY <1>2, MapShape, Parts DEF Requests
<1>4. \A q \in Requests : /\ request'[q].session = request[q].session /\ request'[q].stage \notin over
                          /\ request'[q].stage = "opening" <=> request[q].stage = "opening"
  BY Parts DEF CloseListener, Exchanges
<1>5. TypeOK'
  <2>1. sdkStream' \in [Sessions -> 0..Len(request')] /\ openStreams' \in [Sessions -> Nat]
    BY <1>1, <1>3, Parts DEF EndStreams, On
  <2>2. /\ pipe' \in [Sessions -> Seq(1..MaxMessages)] /\ sseOpen' \in [Sessions -> BOOLEAN]
        /\ quiet' \in [Sessions -> 0..SseIdle]
    BY <1>1, Parts DEF EndStreams, On
  <2> QED BY <1>1, <1>3, <2>1, <2>2, Parts DEF TypeOK, messages
<1>6. ASSUME NEW u \in Sessions PROVE SessionOK(u)'
  <2>1. SessionOK(u) BY Parts
  <2>2. sdkStream'[u] = 0 /\ ~sseOpen'[u] BY <1>1 DEF EndStreams, On
  <2>3. openStreams'[u] = 0 BY <1>1, <2>1, Parts DEF EndStreams, SessionOK
  <2> QED BY <1>1, <2>1, <2>2, <2>3 DEF SessionOK
<1>7. ASSUME NEW q \in Requests PROVE ExchangeOK(q)'
  <2>1. ExchangeOK(q) BY Parts
  <2> QED BY <1>1, <1>3, <1>4, <2>1 DEF ExchangeOK
<1> QED BY <1>3, <1>5, <1>6, <1>7 DEF HttpInv

\* Every step keeps the invariant.
LEMMA StepKeeps == HttpInv /\ [Next]_vars => HttpInv'
<1> SUFFICES ASSUME HttpInv, [Next]_vars PROVE HttpInv' OBVIOUS
<1> USE ExpiredInTable
<1>1. ASSUME NEW s \in Sessions, Initialize(s) PROVE HttpInv' BY <1>1, InitializeKeeps
<1>2. ASSUME NEW s \in Sessions, Call(s) PROVE HttpInv'
  <2>1. s \in table \ Expired /\ idle'[s] = 0 BY <1>2, Parts DEF Call, Known
  <2> QED BY <1>2, <2>1, VisitKeeps DEF Call
<1>3. ASSUME NEW s \in Sessions, CallRecovered(s) PROVE HttpInv'
  <2>1. PICK stage \in {"stateless", "refused"} : Arrives(s, stage, Expired) BY <1>3 DEF CallRecovered
  <2> QED BY <1>3, <2>1, VisitKeeps DEF CallRecovered
<1>4. ASSUME NEW s \in Sessions, Listen(s) PROVE HttpInv' BY <1>4, ListenKeeps
<1>5. ASSUME NEW s \in Sessions, ListenRefused(s) PROVE HttpInv' BY <1>5, VisitKeeps DEF ListenRefused
<1>6. ASSUME NEW s \in Sessions, Delete(s) PROVE HttpInv'
  <2>1. Expired \cup {s} \in SUBSET table BY <1>6 DEF Delete, Known
  <2> QED BY <1>6, <2>1, VisitKeeps DEF Delete
<1>7. ASSUME NEW s \in Sessions, Emit(s) PROVE HttpInv' BY <1>7, EmitKeeps
<1>8. ASSUME NEW s \in Sessions, Pull(s) PROVE HttpInv' BY <1>8, PullKeeps
<1>9. ASSUME NEW s \in Sessions, IdleClose(s) \/ ListenerGone(s) PROVE HttpInv'
  BY <1>9, FinishKeeps DEF IdleClose, ListenerGone
<1>10. ASSUME NEW r \in Requests, Open(r) \/ OpenFails(r) PROVE HttpInv' BY <1>10, OpenKeeps
<1>11. ASSUME NEW r \in Requests, Answer(r) \/ CallerGone(r) PROVE HttpInv' BY <1>11, AnswerKeeps
<1>12. CASE SweepTimer
  <2>1. server' = server BY <1>12 DEF SweepTimer
  <2>2. server' \in {"up", "closing", "cleared", "down"} BY <2>1, Parts DEF TypeOK
  <2> QED BY <1>12, <2>2, CloseKeeps DEF SweepTimer
<1>13. CASE Tick BY <1>13, TickKeeps
<1>14. CASE CloseBegin
  BY <1>14 DEF CloseBegin, HttpInv, TypeOK, SessionOK, ExchangeOK, Requests, streams, messages
<1>15. CASE CloseSessions BY <1>15, CloseKeeps DEF CloseSessions
<1>16. CASE CloseListener BY <1>16, CloseListenerKeeps
<1>17. CASE UNCHANGED vars
  BY <1>17 DEF vars, HttpInv, TypeOK, SessionOK, ExchangeOK, Requests
<1> QED BY <1>1, <1>2, <1>3, <1>4, <1>5, <1>6, <1>7, <1>8, <1>9, <1>10, <1>11, <1>12, <1>13, <1>14, <1>15, <1>16, <1>17
    DEF Next

\* Map, transports, streams and requests always agree: no transport leaks out of the map,
\* no count or flag outlives its stream, and an open stream belongs to an open transport.
THEOREM SessionsAgree == Spec => []HttpInv
<1> QED BY InitInv, StepKeeps, PTL DEF Spec

\* A session that has expired has no stream, and every call it still serves has been running
\* for longer than the TTL.
LEMMA ExpiredIsIdle ==
  ASSUME HttpInv, NEW r \in Requests, request[r].session \in Expired, request[r].stage \in {"serving", "streaming"}
  PROVE  request[r].stage = "serving" /\ request[r].age > Ttl
<1> DEFINE s == request[r].session
<1>1. s \in Sessions /\ request[r].age \in 0..(Ttl + 1) /\ r # 0 BY Parts DEF Exchanges
<1>2. SessionOK(s) /\ ExchangeOK(r) BY <1>1, Parts
<1>3. openStreams[s] = 0 /\ idle[s] > Ttl /\ idle[s] \in 0..(Ttl + 1) BY <1>1, Parts DEF Expired
<1>4. sdkStream[s] = 0 BY <1>2, <1>3 DEF SessionOK
<1>5. request[r].stage # "streaming" BY <1>1, <1>2, <1>4 DEF ExchangeOK
<1>6. request[r].stage = "serving" => idle[s] <= request[r].age BY <1>2 DEF ExchangeOK
<1> HIDE DEF s
<1> QED BY <1>1, <1>3, <1>5, <1>6, HttpAssumption

\* A request of an expired session that arrives with the sweep ends nothing else.
LEMMA SweepIsSafe ==
  ASSUME HttpInv, NEW r \in Requests, NEW S, S \subseteq Expired,
         request'[r] = CutOff(S)[r], request[r].stage # "cut", request'[r].stage = "cut"
  PROVE  request[r].stage = "serving" /\ request[r].age > Ttl
<1>1. request[r].session \in S /\ request[r].stage \in {"serving", "streaming"}
  BY CutOffShape, Parts
<1> QED BY <1>1, ExpiredIsIdle

\* Every step that cuts an exchange off is a DELETE, the close, or a sweep past the TTL.
LEMMA StepIsSafe == HttpInv /\ [Next]_vars => [UseIsSafe]_vars
<1> SUFFICES ASSUME HttpInv, Next, NEW r \in Requests, request[r].stage # "cut", request'[r].stage = "cut"
             PROVE  \/ Deleted(request[r].session) \/ server = "closing"
                    \/ (request[r].stage = "serving" /\ request[r].age > Ttl)
  BY DEF UseIsSafe
<1>a. \A s \in Sessions, stage \in Live \cup Ended : \A S :
        Arrives(s, stage, S) => /\ request'[r] = CutOff(S)[r]
                                /\ Len(request') = Len(request) + 1
                                /\ request'[Len(request')] = [stage |-> stage, session |-> s, age |-> 0]
  BY Parts, ArriveStep, CutOffShape
<1>b. Len(request) \in Nat /\ "cut" \notin {"answered", "refused", "aborted", "ended"} BY Parts
<1>1. ASSUME NEW s \in Sessions, NEW stage \in Live \cup Ended, Arrives(s, stage, Expired)
      PROVE  request[r].stage = "serving" /\ request[r].age > Ttl
  BY <1>1, <1>a, SweepIsSafe
<1>2. ASSUME NEW s \in Sessions, Initialize(s) \/ Call(s) \/ CallRecovered(s) \/ Listen(s) \/ ListenRefused(s)
      PROVE  request[r].stage = "serving" /\ request[r].age > Ttl
  <2>1. \E stage \in Live \cup Ended : Arrives(s, stage, Expired)
    BY <1>2 DEF Initialize, Call, CallRecovered, Listen, ListenRefused, Live, Ended
  <2> QED BY <1>1, <2>1
<1>3. ASSUME NEW s \in Sessions, Delete(s)
      PROVE  Deleted(request[r].session) \/ (request[r].stage = "serving" /\ request[r].age > Ttl)
  <2>1. /\ request'[r] = CutOff(Expired \cup {s})[r] /\ Len(request') = Len(request) + 1
        /\ request'[Len(request')] = [stage |-> "answered", session |-> s, age |-> 0]
    BY <1>3, <1>a DEF Delete, Ended
  <2>2. CASE request[r].session = s BY <2>1, <2>2, <1>b DEF Deleted
  <2>3. CASE request[r].session # s
    <3>1. CutOff(Expired \cup {s})[r] = CutOff(Expired)[r] BY <2>3 DEF CutOff
    <3>2. request'[r] = CutOff(Expired)[r] BY <2>1, <3>1
    <3> QED BY <3>2, SweepIsSafe
  <2> QED BY <2>2, <2>3
<1>4. ASSUME NEW s \in Sessions, Emit(s) \/ Pull(s) PROVE FALSE BY <1>4 DEF Emit, Pull
<1>5. ASSUME NEW s \in Sessions, IdleClose(s) \/ ListenerGone(s) PROVE FALSE
  <2>1. \E stage \in {"ended", "aborted"} : request' = [request EXCEPT ![sdkStream[s]].stage = stage]
    BY <1>5 DEF IdleClose, ListenerGone, Finish
  <2> QED BY <2>1, Parts DEF Requests, Exchanges
<1>6. ASSUME NEW q \in Requests, Open(q) \/ OpenFails(q) \/ Answer(q) \/ CallerGone(q) PROVE FALSE
  <2>1. \E stage \in {"answered", "refused", "aborted"} : request' = [request EXCEPT ![q].stage = stage]
    BY <1>6 DEF Open, OpenFails, Answer, CallerGone
  <2> QED BY <2>1, Parts DEF Requests, Exchanges
<1>7. CASE SweepTimer BY <1>7, SweepIsSafe DEF SweepTimer
<1>8. CASE Tick
  <2>1. request'[r].stage = request[r].stage BY <1>8, Parts DEF Tick, Exchanges
  <2> QED BY <2>1
<1>9. CASE CloseBegin BY <1>9 DEF CloseBegin
<1>10. CASE CloseSessions BY <1>10 DEF CloseSessions
<1>11. CASE CloseListener
  <2>1. request'[r].stage \in {request[r].stage, "aborted"} BY <1>11, Parts DEF CloseListener, Exchanges
  <2> QED BY <2>1
<1> QED BY <1>2, <1>3, <1>4, <1>5, <1>6, <1>7, <1>8, <1>9, <1>10, <1>11 DEF Next

\* The sweep never ends a stream, and a call only once it has been running longer than the
\* TTL; nothing else but a DELETE and the close ends an exchange from the server's side.
THEOREM UseIsKept == Spec => NotSweptInUse
<1>1. Spec => []HttpInv BY SessionsAgree
<1>2. HttpInv /\ [Next]_vars => [UseIsSafe]_vars BY StepIsSafe
<1> QED BY <1>1, <1>2, PTL DEF Spec, NotSweptInUse

-----------------------------------------------------------------------------
(* The order of standalone messages *)

Ascending(q) == \A i, j \in 1..Len(q) : i < j => q[i] < q[j]
Before(a, b) == \A i \in 1..Len(a), j \in 1..Len(b) : a[i] < b[j]
UpTo(q, n) == \A i \in 1..Len(q) : q[i] <= n

\* What a client got, what its stream holds and what is buffered for it, after n messages.
Ordered(g, p, b, n) ==
  /\ Ascending(g) /\ Ascending(p) /\ Ascending(b)
  /\ Before(g, p) /\ Before(g, b) /\ Before(p, b)
  /\ UpTo(g, n) /\ UpTo(p, n) /\ UpTo(b, n)

\* InOrder is not inductive: the next message must be later than all that were sent.
OrderInv == \A s \in Sessions : Ordered(got[s], pipe[s], buffer[s], sent)

LEMMA AscendingConcat ==
  ASSUME NEW a \in Seq(Nat), NEW b \in Seq(Nat), Ascending(a), Ascending(b), Before(a, b)
  PROVE  Ascending(a \o b)
<1> SUFFICES ASSUME NEW i \in 1..Len(a \o b), NEW j \in 1..Len(a \o b), i < j
             PROVE  (a \o b)[i] < (a \o b)[j]
  BY DEF Ascending
<1>1. Len(a) \in Nat /\ Len(b) \in Nat /\ Len(a \o b) = Len(a) + Len(b) OBVIOUS
<1>2. \A k \in 1..Len(a \o b) : (a \o b)[k] = IF k <= Len(a) THEN a[k] ELSE b[k - Len(a)]
  BY ConcatProperties
<1>3. CASE j <= Len(a) BY <1>1, <1>2, <1>3 DEF Ascending
<1>4. CASE i <= Len(a) /\ ~(j <= Len(a))
  <2>1. i \in 1..Len(a) /\ j - Len(a) \in 1..Len(b) BY <1>1, <1>4
  <2> QED BY <1>2, <1>4, <2>1 DEF Before
<1>5. CASE ~(i <= Len(a))
  <2>1. i - Len(a) \in 1..Len(b) /\ j - Len(a) \in 1..Len(b) /\ i - Len(a) < j - Len(a) /\ ~(j <= Len(a))
    BY <1>1, <1>5
  <2> QED BY <1>2, <1>5, <2>1 DEF Ascending
<1> QED BY <1>3, <1>4, <1>5

LEMMA BeforeConcat ==
  ASSUME NEW a \in Seq(Nat), NEW b \in Seq(Nat), NEW c \in Seq(Nat), NEW n \in Nat
  PROVE  /\ Before(a, c) /\ Before(b, c) => Before(a \o b, c)
         /\ Before(c, a) /\ Before(c, b) => Before(c, a \o b)
         /\ UpTo(a, n) /\ UpTo(b, n) => UpTo(a \o b, n)
<1>1. Len(a) \in Nat /\ Len(b) \in Nat /\ Len(a \o b) = Len(a) + Len(b) OBVIOUS
<1>2. \A k \in 1..Len(a \o b) : \/ k \in 1..Len(a) /\ (a \o b)[k] = a[k]
                                \/ k - Len(a) \in 1..Len(b) /\ (a \o b)[k] = b[k - Len(a)]
  BY <1>1, ConcatProperties
<1> QED BY <1>2 DEF Before, UpTo

\* What the steps do to the three queues of a session.
LEMMA QueueSteps ==
  ASSUME NEW g \in Seq(Nat), NEW p \in Seq(Nat), NEW b \in Seq(Nat), NEW n \in Nat, Ordered(g, p, b, n)
  PROVE  /\ Ascending(g \o p \o b)
         /\ Ordered(g, <<>>, b, n)
         /\ Ordered(g, p \o b, <<>>, n)
         /\ p # <<>> => Ordered(Append(g, Head(p)), Tail(p), b, n)
         /\ b = <<>> => Ordered(g, Append(p, n + 1), <<>>, n + 1)
         /\ Ordered(g, p, Append(b, n + 1), n + 1)
         /\ b # <<>> => Ordered(g, p, Tail(b), n)
<1> USE DEF Ordered
<1>1. Ascending(g \o p \o b)
  <2>1. Ascending(g \o p) /\ Before(g \o p, b) /\ g \o p \in Seq(Nat) BY AscendingConcat, BeforeConcat
  <2> QED BY <2>1, AscendingConcat
<1>2. Ordered(g, <<>>, b, n) BY DEF Ascending, Before, UpTo
<1>3. Ordered(g, p \o b, <<>>, n)
  <2>1. Ascending(p \o b) BY AscendingConcat
  <2>2. Before(g, p \o b) /\ UpTo(p \o b, n) BY BeforeConcat
  <2> QED BY <2>1, <2>2 DEF Ascending, Before, UpTo
<1>4. ASSUME p # <<>> PROVE Ordered(Append(g, Head(p)), Tail(p), b, n)
  <2>1. /\ Head(p) = p[1] /\ Len(Tail(p)) = Len(p) - 1 /\ 1 \in 1..Len(p) /\ Head(p) \in Nat
        /\ \A k \in 1..Len(Tail(p)) : k + 1 \in 1..Len(p) /\ Tail(p)[k] = p[k + 1]
    BY <1>4, HeadTailProperties
  <2>2. /\ Len(Append(g, Head(p))) = Len(g) + 1
        /\ \A k \in 1..(Len(g) + 1) : /\ k \in 1..Len(g) \/ k = Len(g) + 1
                                      /\ Append(g, Head(p))[k] = IF k <= Len(g) THEN g[k] ELSE p[1]
    BY <2>1, AppendProperties
  <2>3. Ascending(Tail(p)) /\ Before(Tail(p), b) /\ UpTo(Tail(p), n)
    BY <2>1 DEF Ascending, Before, UpTo
  <2>4. Ascending(Append(g, Head(p)))
    <3> SUFFICES ASSUME NEW i \in 1..(Len(g) + 1), NEW j \in 1..(Len(g) + 1), i < j
                 PROVE  Append(g, Head(p))[i] < Append(g, Head(p))[j]
      BY <2>2 DEF Ascending
    <3>1. i \in 1..Len(g) /\ i <= Len(g) OBVIOUS
    <3>2. CASE j <= Len(g)
      <4>1. j \in 1..Len(g) BY <3>2
      <4> QED BY <2>2, <3>1, <3>2, <4>1 DEF Ascending
    <3>3. CASE ~(j <= Len(g)) BY <2>1, <2>2, <3>1, <3>3 DEF Before
    <3> QED BY <3>2, <3>3
  <2>5. Before(Append(g, Head(p)), Tail(p))
    <3> SUFFICES ASSUME NEW i \in 1..(Len(g) + 1), NEW j \in 1..Len(Tail(p))
                 PROVE  Append(g, Head(p))[i] < p[j + 1]
      BY <2>1, <2>2 DEF Before
    <3>1. j + 1 \in 1..Len(p) /\ 1 < j + 1 BY <2>1
    <3>2. CASE i <= Len(g)
      <4>1. i \in 1..Len(g) BY <3>2
      <4> QED BY <2>2, <3>1, <3>2, <4>1 DEF Before
    <3>3. CASE ~(i <= Len(g)) BY <2>1, <2>2, <3>1, <3>3 DEF Ascending
    <3> QED BY <3>2, <3>3
  <2>6. Before(Append(g, Head(p)), b) /\ UpTo(Append(g, Head(p)), n)
    BY <2>1, <2>2 DEF Before, UpTo
  <2> QED BY <2>3, <2>4, <2>5, <2>6
<1>5. \A q \in Seq(Nat) : Ascending(q) /\ UpTo(q, n) => Ascending(Append(q, n + 1)) /\ UpTo(Append(q, n + 1), n + 1)
  <2> SUFFICES ASSUME NEW q \in Seq(Nat), Ascending(q), UpTo(q, n)
               PROVE  Ascending(Append(q, n + 1)) /\ UpTo(Append(q, n + 1), n + 1)
    OBVIOUS
  <2>1. /\ Len(Append(q, n + 1)) = Len(q) + 1
        /\ \A k \in 1..(Len(q) + 1) : /\ k \in 1..Len(q) \/ k = Len(q) + 1
                                      /\ Append(q, n + 1)[k] = IF k <= Len(q) THEN q[k] ELSE n + 1
    BY AppendProperties
  <2>2. \A k \in 1..Len(q) : q[k] \in Nat OBVIOUS
  <2>3. UpTo(Append(q, n + 1), n + 1) BY <2>1, <2>2 DEF UpTo
  <2>4. \A i, j \in 1..(Len(q) + 1) : i < j => i \in 1..Len(q) OBVIOUS
  <2>5. Ascending(Append(q, n + 1)) BY <2>1, <2>2, <2>4 DEF Ascending, UpTo
  <2> QED BY <2>3, <2>5
<1>6. \A a, q \in Seq(Nat) : Before(a, q) /\ UpTo(a, n) => Before(a, Append(q, n + 1))
  <2> SUFFICES ASSUME NEW a \in Seq(Nat), NEW q \in Seq(Nat), Before(a, q), UpTo(a, n)
               PROVE  Before(a, Append(q, n + 1))
    OBVIOUS
  <2>1. /\ Len(Append(q, n + 1)) = Len(q) + 1
        /\ \A k \in 1..(Len(q) + 1) : /\ k \in 1..Len(q) \/ k = Len(q) + 1
                                      /\ Append(q, n + 1)[k] = IF k <= Len(q) THEN q[k] ELSE n + 1
    BY AppendProperties
  <2>2. \A k \in 1..Len(a) : a[k] \in Nat /\ a[k] <= n BY DEF UpTo
  <2> QED BY <2>1, <2>2 DEF Before
<1>7. \A q \in Seq(Nat) : UpTo(q, n) => UpTo(q, n + 1)
  <2> SUFFICES ASSUME NEW q \in Seq(Nat), UpTo(q, n), NEW k \in 1..Len(q) PROVE q[k] <= n + 1 BY DEF UpTo
  <2>1. q[k] \in Nat /\ q[k] <= n BY DEF UpTo
  <2> QED BY <2>1
<1>8. ASSUME b = <<>> PROVE Ordered(g, Append(p, n + 1), <<>>, n + 1)
  <2>1. Ascending(<<>>) /\ UpTo(<<>>, n + 1) /\ \A q : Before(q, <<>>) BY DEF Ascending, Before, UpTo
  <2> QED BY <1>5, <1>6, <1>7, <2>1
<1>9. Ordered(g, p, Append(b, n + 1), n + 1) BY <1>5, <1>6, <1>7
<1>10. ASSUME b # <<>> PROVE Ordered(g, p, Tail(b), n)
  <2>1. /\ Len(Tail(b)) = Len(b) - 1
        /\ \A k \in 1..Len(Tail(b)) : k + 1 \in 1..Len(b) /\ Tail(b)[k] = b[k + 1]
    BY <1>10, HeadTailProperties
  <2> QED BY <2>1 DEF Ascending, Before, UpTo
<1> QED BY <1>1, <1>2, <1>3, <1>4, <1>8, <1>9, <1>10

LEMMA QueueTypes ==
  ASSUME HttpInv
  PROVE  /\ sent \in Nat /\ SUBSET (1..MaxMessages) \subseteq SUBSET Nat
         /\ got \in [Sessions -> Seq(1..MaxMessages)] /\ pipe \in [Sessions -> Seq(1..MaxMessages)]
         /\ buffer \in [Sessions -> Seq(1..MaxMessages)]
         /\ \A s \in Sessions : got[s] \in Seq(Nat) /\ pipe[s] \in Seq(Nat) /\ buffer[s] \in Seq(Nat)
<1>1. sent \in Nat /\ got \in [Sessions -> Seq(1..MaxMessages)] /\ pipe \in [Sessions -> Seq(1..MaxMessages)]
      /\ buffer \in [Sessions -> Seq(1..MaxMessages)]
  BY HttpAssumption, Parts DEF TypeOK
<1>2. \A q \in Seq(1..MaxMessages) : q \in Seq(Nat)
  <2> TAKE q \in Seq(1..MaxMessages)
  <2>1. \A k \in 1..Len(q) : q[k] \in 1..MaxMessages BY ElementOfSeq
  <2>2. \A m \in 1..MaxMessages : m \in Nat OBVIOUS
  <2>3. q = [k \in 1..Len(q) |-> q[k]] /\ Len(q) \in Nat OBVIOUS
  <2> QED BY <2>1, <2>2, <2>3, IsASeq
<1> QED BY <1>1, <1>2

\* A stream that ends takes with it what was not pulled, and nothing else.
LEMMA EndKeepsOrder ==
  ASSUME HttpInv, OrderInv, NEW S, EndStreams(S), UNCHANGED messages
  PROVE  OrderInv'
<1> SUFFICES ASSUME NEW s \in Sessions PROVE Ordered(got[s], pipe'[s], buffer[s], sent)
  BY DEF OrderInv, messages
<1>1. pipe'[s] \in {pipe[s], <<>>} BY DEF EndStreams, On
<1>2. Ordered(got[s], pipe[s], buffer[s], sent) BY DEF OrderInv
<1> QED BY <1>1, <1>2, QueueTypes, QueueSteps

\* The buffer is flushed into an empty or a silent pipe: behind what it holds.
LEMMA ListenKeepsOrder ==
  ASSUME HttpInv, OrderInv, NEW s \in Sessions, Listen(s)
  PROVE  OrderInv'
<1> SUFFICES ASSUME NEW u \in Sessions PROVE Ordered(got[u], pipe'[u], buffer'[u], sent)
  BY DEF OrderInv, Listen
<1>1. Ordered(got[u], pipe[u], buffer[u], sent) BY DEF OrderInv
<1>2. \/ pipe'[u] = pipe[u] /\ buffer'[u] = buffer[u]
      \/ pipe'[u] = pipe[u] \o buffer[u] /\ buffer'[u] = <<>>
  <2>1. CASE sseOpen[s] BY <2>1, QueueTypes DEF Listen
  <2>2. CASE ~sseOpen[s] BY <2>2, QueueTypes DEF Listen
  <2> QED BY <2>1, <2>2
<1> QED BY <1>1, <1>2, QueueTypes, QueueSteps

\* A message goes behind all that was sent before it; what the bound drops is the oldest.
LEMMA EmitKeepsOrder ==
  ASSUME HttpInv, OrderInv, NEW s \in Sessions, Emit(s)
  PROVE  OrderInv'
<1> SUFFICES ASSUME NEW u \in Sessions PROVE Ordered(got[u], pipe'[u], buffer'[u], sent + 1)
  BY DEF OrderInv, Emit
<1> DEFINE m == sent + 1
<1>1. Ordered(got[u], pipe[u], buffer[u], sent) BY DEF OrderInv
<1>2. sent \in Nat /\ m \in Nat /\ got[u] \in Seq(Nat) /\ pipe[u] \in Seq(Nat) /\ buffer[u] \in Seq(Nat)
  BY QueueTypes
<1>3. Ordered(got[u], pipe[u], Append(buffer[u], m), m) BY <1>1, <1>2, QueueSteps
<1>4. Append(buffer[u], m) \in Seq(Nat) /\ Append(buffer[u], m) # <<>> BY <1>2
<1>5. Ordered(got[u], pipe[u], Tail(Append(buffer[u], m)), m)
  <2> DEFINE longer == Append(buffer[u], m)
  <2>1. longer \in Seq(Nat) /\ longer # <<>> /\ Ordered(got[u], pipe[u], longer, m) BY <1>3, <1>4
  <2> HIDE DEF longer, m
  <2>2. Ordered(got[u], pipe[u], Tail(longer), m) BY <1>2, <2>1, QueueSteps
  <2> QED BY <2>2 DEF longer
<1>6. Ordered(got[u], pipe[u], buffer[u], m)
  <2>1. \A q \in Seq(Nat) : UpTo(q, sent) => UpTo(q, m)
    <3> SUFFICES ASSUME NEW q \in Seq(Nat), UpTo(q, sent), NEW k \in 1..Len(q) PROVE q[k] <= m BY DEF UpTo
    <3>1. q[k] \in Nat /\ q[k] <= sent BY DEF UpTo
    <3> QED BY <1>2, <3>1
  <2> QED BY <1>1, <1>2, <2>1 DEF Ordered
<1>7. buffer[u] = <<>> => Ordered(got[u], Append(pipe[u], m), buffer[u], m) BY <1>1, <1>2, QueueSteps
<1>8. sseOpen[u] => buffer[u] = <<>> BY Parts DEF SessionOK
<1> HIDE DEF m
<1>9. CASE u # s
  <2>1. pipe'[u] = pipe[u] /\ buffer'[u] = buffer[u] BY <1>9, QueueTypes DEF Emit
  <2> QED BY <1>6, <2>1 DEF m
<1>10. CASE u = s /\ sseOpen[s]
  <2>1. buffer'[u] = buffer[u] /\ pipe'[u] \in {pipe[u], Append(pipe[u], m)} BY <1>10, QueueTypes DEF Emit, m
  <2> QED BY <1>6, <1>7, <1>8, <1>10, <2>1 DEF m
<1>11. CASE u = s /\ ~sseOpen[s]
  <2>1. pipe'[u] = pipe[u] /\ buffer'[u] \in {Append(buffer[u], m), Tail(Append(buffer[u], m))}
    BY <1>11, QueueTypes DEF Emit, Kept, m
  <2> QED BY <1>3, <1>5, <2>1 DEF m
<1> QED BY <1>9, <1>10, <1>11

\* The client pulls the head of the pipe.
LEMMA PullKeepsOrder ==
  ASSUME HttpInv, OrderInv, NEW s \in Sessions, Pull(s)
  PROVE  OrderInv'
<1> SUFFICES ASSUME NEW u \in Sessions PROVE Ordered(got'[u], pipe'[u], buffer[u], sent)
  BY DEF OrderInv, Pull
<1>1. Ordered(got[u], pipe[u], buffer[u], sent) BY DEF OrderInv
<1>2. IF u = s THEN pipe[u] # <<>> /\ got'[u] = Append(got[u], Head(pipe[u])) /\ pipe'[u] = Tail(pipe[u])
      ELSE got'[u] = got[u] /\ pipe'[u] = pipe[u]
  BY QueueTypes DEF Pull
<1> QED BY <1>1, <1>2, QueueTypes, QueueSteps

LEMMA StepKeepsOrder == HttpInv /\ OrderInv /\ [Next]_vars => OrderInv'
<1> SUFFICES ASSUME HttpInv, OrderInv, [Next]_vars PROVE OrderInv' OBVIOUS
<1>1. ASSUME NEW s \in Sessions,
             Initialize(s) \/ Call(s) \/ CallRecovered(s) \/ ListenRefused(s) \/ Delete(s)
             \/ IdleClose(s) \/ ListenerGone(s)
      PROVE  OrderInv'
  <2>1. (\E S : EndStreams(S)) /\ UNCHANGED messages
    BY <1>1 DEF Initialize, Call, CallRecovered, ListenRefused, Delete, IdleClose, ListenerGone, Finish
  <2> QED BY <2>1, EndKeepsOrder
<1>2. ASSUME NEW s \in Sessions, Listen(s) PROVE OrderInv' BY <1>2, ListenKeepsOrder
<1>3. ASSUME NEW s \in Sessions, Emit(s) PROVE OrderInv' BY <1>3, EmitKeepsOrder
<1>4. ASSUME NEW s \in Sessions, Pull(s) PROVE OrderInv' BY <1>4, PullKeepsOrder
<1>5. CASE SweepTimer \/ CloseSessions \/ CloseListener
  <2>1. (\E S : EndStreams(S)) /\ UNCHANGED messages BY <1>5 DEF SweepTimer, CloseSessions, CloseListener
  <2> QED BY <2>1, EndKeepsOrder
<1>6. ASSUME NEW r \in Requests, Open(r) \/ OpenFails(r) \/ Answer(r) \/ CallerGone(r) PROVE OrderInv'
  BY <1>6 DEF Open, OpenFails, Answer, CallerGone, OrderInv, messages, streams
<1>7. CASE Tick \/ CloseBegin BY <1>7 DEF Tick, CloseBegin, OrderInv, messages, streams
<1>8. CASE UNCHANGED vars BY <1>8 DEF vars, OrderInv
<1> QED BY <1>1, <1>2, <1>3, <1>4, <1>5, <1>6, <1>7, <1>8 DEF Next

\* A client is never sent a standalone message after a later one: not by the buffer, its
\* bound and its flushes, nor by streams that end and new ones that take over.
THEOREM MessagesInOrder == Spec => []InOrder
<1>1. Init => OrderInv
  <2>1. Ordered(<<>>, <<>>, <<>>, 0) BY DEF Ordered, Ascending, Before, UpTo
  <2> QED BY <2>1 DEF Init, OrderInv
<1>2. HttpInv /\ OrderInv => InOrder
  <2> SUFFICES ASSUME HttpInv, OrderInv, NEW s \in Sessions
               PROVE  \A i, j \in DOMAIN (got[s] \o pipe[s] \o buffer[s]) :
                        i < j => (got[s] \o pipe[s] \o buffer[s])[i] < (got[s] \o pipe[s] \o buffer[s])[j]
    BY DEF InOrder
  <2> DEFINE all == got[s] \o pipe[s] \o buffer[s]
  <2>1. got[s] \in Seq(Nat) /\ pipe[s] \in Seq(Nat) /\ buffer[s] \in Seq(Nat) BY QueueTypes
  <2>2. all \in Seq(Nat) BY <2>1
  <2>3. Ascending(all) BY <2>1, QueueTypes, QueueSteps DEF OrderInv
  <2> HIDE DEF all
  <2>4. \A i, j \in DOMAIN all : i < j => all[i] < all[j] BY <2>2, <2>3 DEF Ascending
  <2> QED BY <2>4 DEF all
<1>3. Spec => []HttpInv BY SessionsAgree
<1> QED BY <1>1, <1>2, <1>3, StepKeepsOrder, PTL DEF Spec
=============================================================================
