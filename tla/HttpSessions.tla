---------------------------- MODULE HttpSessions ----------------------------
(***************************************************************************)
(* The table of legacy MCP sessions behind the HTTP endpoint               *)
(* (createDualHandler in transport/http.ts): sessions opened by an         *)
(* initialize exchange, the calls and the standalone SSE stream served by  *)
(* their transports, the messages buffered while no stream is open, the    *)
(* idle timeout of streams, the idle sweep of sessions, the stateless      *)
(* recovery of requests that name an evicted session, DELETE, clients that *)
(* go away, and the handler's close.                                       *)
(*                                                                         *)
(* One step is what the event loop does between two awaits that wait for   *)
(* input, output or time.  The SDK's transport is external: one GET stream *)
(* per session, closing it ends its exchanges and calls onclose.           *)
(***************************************************************************)
EXTENDS Integers, Sequences

CONSTANTS
  Sessions,     \* bound: the session ids that may be minted
  MaxRequests,  \* bound: requests of all clients
  MaxMessages,  \* bound: standalone messages of all servers
  Ttl,          \* idle ticks after which a session may be swept
  SseIdle,      \* quiet ticks after which a stream is closed; 0: never
  BufferMax,    \* MCP_HTTP_STANDALONE_BUFFER_MAX
  Recovery      \* MCP_HTTP_STATELESS_RECOVERY

ASSUME HttpAssumption ==
  /\ MaxRequests \in Nat /\ MaxMessages \in Nat /\ Ttl \in Nat /\ SseIdle \in Nat
  /\ BufferMax \in Nat \ {0} /\ Recovery \in BOOLEAN

VARIABLES
  server,       \* up, closing, cleared (no session left behind), down (nobody listens)
  transport,    \* each session's transport: none, opening, open, closed
  table,        \* legacySessions: the ids in the map
  idle,         \* ticks since a session's lastSeen
  openStreams,  \* the count the sweep goes by
  sdkStream,    \* the request whose GET stream the transport has registered; 0: none
  sseOpen,      \* the flag the buffering goes by
  buffer,       \* standalone messages kept for the next stream
  pipe,         \* chunks of the stream not pulled yet
  quiet,        \* ticks since the stream last carried data
  got,          \* history: messages that reached a session's client
  sent,         \* standalone messages so far
  request       \* each request that has arrived: its stage, its session, its age

streams == <<openStreams, sdkStream, sseOpen, pipe, quiet>>
messages == <<buffer, got, sent>>
vars == <<server, transport, table, idle, openStreams, sdkStream, sseOpen, buffer, pipe, quiet, got, sent, request>>

Live == {"opening", "serving", "stateless", "streaming"}
Ended == {"answered", "refused", "cut", "ended", "aborted"}
Exchanges == [stage: Live \cup Ended, session: Sessions, age: 0..(Ttl + 1)]
Requests == DOMAIN request

TypeOK ==
  /\ server \in {"up", "closing", "cleared", "down"}
  /\ transport \in [Sessions -> {"none", "opening", "open", "closed"}]
  /\ table \subseteq Sessions
  /\ idle \in [Sessions -> 0..(Ttl + 1)]
  /\ openStreams \in [Sessions -> Nat]
  /\ sdkStream \in [Sessions -> 0..Len(request)]
  /\ sseOpen \in [Sessions -> BOOLEAN]
  /\ buffer \in [Sessions -> Seq(1..MaxMessages)] /\ \A s \in Sessions : Len(buffer[s]) <= BufferMax
  /\ pipe \in [Sessions -> Seq(1..MaxMessages)]
  /\ quiet \in [Sessions -> 0..SseIdle]
  /\ got \in [Sessions -> Seq(1..MaxMessages)]
  /\ sent \in 0..MaxMessages
  /\ request \in Seq(Exchanges)

Init ==
  /\ server = "up"
  /\ transport = [s \in Sessions |-> "none"]
  /\ table = {}
  /\ idle = [s \in Sessions |-> 0]
  /\ openStreams = [s \in Sessions |-> 0]
  /\ sdkStream = [s \in Sessions |-> 0]
  /\ sseOpen = [s \in Sessions |-> FALSE]
  /\ buffer = [s \in Sessions |-> <<>>]
  /\ pipe = [s \in Sessions |-> <<>>]
  /\ quiet = [s \in Sessions |-> 0]
  /\ got = [s \in Sessions |-> <<>>]
  /\ sent = 0
  /\ request = <<>>

-----------------------------------------------------------------------------
(* Closing sessions *)

On(f, S, v) == [s \in Sessions |-> IF s \in S THEN v ELSE f[s]]
\* What is left of the exchanges when the transports of S close.
CutOff(S) ==
  [r \in Requests |-> IF request[r].session \in S /\ request[r].stage \in {"serving", "streaming"}
                      THEN [request[r] EXCEPT !.stage = "cut"] ELSE request[r]]
\* transport.close() and product.close() of every session in S, with what onclose does.
Shut(S) ==
  /\ transport' = On(transport, S, "closed")
  /\ table' = table \ S
\* The streams of S come to an end: the count, the SDK's slot and the flag are reset.
EndStreams(S) ==
  /\ openStreams' = [s \in Sessions |-> IF s \in S /\ openStreams[s] > 0 THEN openStreams[s] - 1 ELSE openStreams[s]]
  /\ sdkStream' = On(sdkStream, S, 0)
  /\ sseOpen' = On(sseOpen, S, FALSE)
  /\ pipe' = On(pipe, S, <<>>)
  /\ quiet' = On(quiet, S, 0)

\* sweepIdleLegacySessions.  Mutant: streams do not count.
ExpiredAnyway == {s \in table : idle[s] > Ttl}
Expired == {s \in table : openStreams[s] = 0 /\ idle[s] > Ttl}

SweepTimer ==
  /\ server = "up" /\ Expired # {}
  /\ Shut(Expired) /\ EndStreams(Expired)
  /\ request' = CutOff(Expired)
  /\ UNCHANGED <<server, idle, messages>>

-----------------------------------------------------------------------------
(* Requests: serveLegacy sweeps first, then looks the session up. *)

Arrives(s, stage, S) ==
  /\ server # "down" /\ Len(request) < MaxRequests
  /\ request' = Append(CutOff(S), [stage |-> stage, session |-> s, age |-> 0])
Known(s) == s \in table \ Expired
Minted(s) == transport[s] \in {"open", "closed"}

Initialize(s) ==
  /\ transport[s] = "none"
  /\ Arrives(s, "opening", Expired)
  /\ transport' = [On(transport, Expired, "closed") EXCEPT ![s] = "opening"]
  /\ table' = table \ Expired
  /\ EndStreams(Expired)
  /\ UNCHANGED <<server, idle, messages>>

\* The factory and connect are done, the exchange opens the session.
Open(r) ==
  LET s == request[r].session IN
  /\ request[r].stage = "opening"
  /\ request' = [request EXCEPT ![r].stage = "answered"]
  /\ transport' = [transport EXCEPT ![s] = "open"]
  /\ table' = table \cup {s}
  /\ idle' = [idle EXCEPT ![s] = 0]
  /\ UNCHANGED <<server, streams, messages>>

\* The factory throws, or the exchange opens no session: nothing stays behind.
OpenFails(r) ==
  /\ request[r].stage = "opening"
  /\ request' = [request EXCEPT ![r].stage = "refused"]
  /\ transport' = [transport EXCEPT ![request[r].session] = "none"]
  /\ UNCHANGED <<server, table, idle, streams, messages>>

\* A call that names a session in the map goes to its transport.
\* Mutant: the session is looked up before the sweep.
CallBeforeSweep(s) ==
  /\ Minted(s) /\ s \in table
  /\ Arrives(s, "serving", Expired)
  /\ Shut(Expired) /\ EndStreams(Expired)
  /\ idle' = [idle EXCEPT ![s] = 0]
  /\ UNCHANGED <<server, messages>>
Call(s) ==
  /\ Minted(s) /\ Known(s)
  /\ Arrives(s, "serving", Expired)
  /\ Shut(Expired) /\ EndStreams(Expired)
  /\ idle' = [idle EXCEPT ![s] = 0]
  /\ UNCHANGED <<server, messages>>

\* Any other call gets a transport of its own, or the session error.
CallRecovered(s) ==
  /\ Minted(s) /\ ~Known(s)
  /\ Arrives(s, IF Recovery THEN "stateless" ELSE "refused", Expired)
  /\ Shut(Expired) /\ EndStreams(Expired)
  /\ UNCHANGED <<server, idle, messages>>

\* GET: the transport registers the stream, the buffer is flushed into it, it is counted.
\* Mutant: the flag is raised and nothing flushed.
ListenUnflushed(s) ==
  /\ Minted(s) /\ Known(s) /\ sdkStream[s] = 0
  /\ Arrives(s, "streaming", Expired)
  /\ Shut(Expired)
  /\ idle' = [idle EXCEPT ![s] = 0]
  /\ openStreams' = [openStreams EXCEPT ![s] = @ + 1]
  /\ sdkStream' = [sdkStream EXCEPT ![s] = Len(request) + 1]
  /\ sseOpen' = [sseOpen EXCEPT ![s] = TRUE]
  /\ UNCHANGED <<server, pipe, quiet, messages>>
Listen(s) ==
  /\ Minted(s) /\ Known(s) /\ sdkStream[s] = 0
  /\ Arrives(s, "streaming", Expired)
  /\ Shut(Expired)
  /\ idle' = [idle EXCEPT ![s] = 0]
  /\ openStreams' = [openStreams EXCEPT ![s] = @ + 1]
  /\ sdkStream' = [sdkStream EXCEPT ![s] = Len(request) + 1]
  /\ sseOpen' = [sseOpen EXCEPT ![s] = TRUE]
  /\ pipe' = [pipe EXCEPT ![s] = IF sseOpen[s] THEN @ ELSE @ \o buffer[s]]
  /\ buffer' = [buffer EXCEPT ![s] = IF sseOpen[s] THEN @ ELSE <<>>]
  /\ UNCHANGED <<server, quiet, got, sent>>

\* A second stream (409), or no session to open one on (405 or the session error).
ListenRefused(s) ==
  /\ Minted(s) /\ (Known(s) => sdkStream[s] # 0)
  /\ Arrives(s, "refused", Expired)
  /\ Shut(Expired) /\ EndStreams(Expired)
  /\ idle' = IF Known(s) THEN [idle EXCEPT ![s] = 0] ELSE idle
  /\ UNCHANGED <<server, messages>>

\* DELETE: the transport closes itself.
Delete(s) ==
  /\ Minted(s) /\ Known(s)
  /\ Arrives(s, "answered", Expired \cup {s})
  /\ Shut(Expired \cup {s}) /\ EndStreams(Expired \cup {s})
  /\ UNCHANGED <<server, idle, messages>>

Answer(r) ==
  /\ \/ request[r].stage = "stateless"
     \/ request[r].stage = "serving" /\ transport[request[r].session] = "open"
  /\ request' = [request EXCEPT ![r].stage = "answered"]
  /\ UNCHANGED <<server, transport, table, idle, streams, messages>>

-----------------------------------------------------------------------------
(* Streams *)

\* bufferStandaloneUntilSse: kept while no stream is open, the oldest dropped at the bound.
Kept(queue) == IF Len(queue) > BufferMax THEN Tail(queue) ELSE queue
Emit(s) ==
  /\ transport[s] = "open" /\ sent < MaxMessages
  /\ sent' = sent + 1
  /\ IF sseOpen[s]
     THEN /\ pipe' = IF sdkStream[s] # 0 THEN [pipe EXCEPT ![s] = Append(@, sent + 1)] ELSE pipe
          /\ UNCHANGED buffer
     ELSE /\ buffer' = [buffer EXCEPT ![s] = Kept(Append(@, sent + 1))]
          /\ UNCHANGED pipe
  /\ UNCHANGED <<server, transport, table, idle, openStreams, sdkStream, sseOpen, quiet, got, request>>

Pull(s) ==
  /\ pipe[s] # <<>>
  /\ got' = [got EXCEPT ![s] = Append(@, Head(pipe[s]))]
  /\ pipe' = [pipe EXCEPT ![s] = Tail(@)]
  /\ quiet' = [quiet EXCEPT ![s] = 0]
  /\ idle' = [idle EXCEPT ![s] = 0]
  /\ UNCHANGED <<server, transport, table, openStreams, sdkStream, sseOpen, buffer, sent, request>>

\* finish(): the stream of s ends, by the idle timer or because its client went away.
\* Mutants: the count stays; the flag stays.
FinishCounted(s, stage) ==
  /\ sdkStream[s] # 0
  /\ request' = [request EXCEPT ![sdkStream[s]].stage = stage]
  /\ sdkStream' = [sdkStream EXCEPT ![s] = 0]
  /\ sseOpen' = [sseOpen EXCEPT ![s] = FALSE]
  /\ pipe' = [pipe EXCEPT ![s] = <<>>]
  /\ quiet' = [quiet EXCEPT ![s] = 0]
  /\ idle' = [idle EXCEPT ![s] = 0]
  /\ UNCHANGED <<server, transport, table, openStreams, messages>>
FinishFlagged(s, stage) ==
  /\ sdkStream[s] # 0
  /\ request' = [request EXCEPT ![sdkStream[s]].stage = stage]
  /\ sdkStream' = [sdkStream EXCEPT ![s] = 0]
  /\ openStreams' = [openStreams EXCEPT ![s] = @ - 1]
  /\ pipe' = [pipe EXCEPT ![s] = <<>>]
  /\ quiet' = [quiet EXCEPT ![s] = 0]
  /\ idle' = [idle EXCEPT ![s] = 0]
  /\ UNCHANGED <<server, transport, table, sseOpen, messages>>
Finish(s, stage) ==
  /\ sdkStream[s] # 0
  /\ request' = [request EXCEPT ![sdkStream[s]].stage = stage]
  /\ EndStreams({s})
  /\ idle' = [idle EXCEPT ![s] = 0]
  /\ UNCHANGED <<server, transport, table, messages>>

IdleClose(s) == SseIdle > 0 /\ quiet[s] = SseIdle /\ Finish(s, "ended")
ListenerGone(s) == Finish(s, "aborted")
CallerGone(r) ==
  /\ request[r].stage \in {"serving", "stateless"}
  /\ request' = [request EXCEPT ![r].stage = "aborted"]
  /\ UNCHANGED <<server, transport, table, idle, streams, messages>>

Least(a, b) == IF a < b THEN a ELSE b
Tick ==
  /\ idle' = [s \in Sessions |-> IF s \in table THEN Least(idle[s] + 1, Ttl + 1) ELSE idle[s]]
  /\ quiet' = [s \in Sessions |-> IF sdkStream[s] # 0 THEN Least(quiet[s] + 1, SseIdle) ELSE 0]
  /\ request' = [r \in Requests |-> IF request[r].stage = "serving"
                                    THEN [request[r] EXCEPT !.age = Least(@ + 1, Ttl + 1)] ELSE request[r]]
  /\ UNCHANGED <<server, transport, table, openStreams, sdkStream, sseOpen, pipe, messages>>

-----------------------------------------------------------------------------
(* close: the sweep timer is cleared and the modern handler closed, then every session of *)
(* the map; then the listener goes, and every connection with it.                         *)
CloseBegin ==
  /\ server = "up" /\ server' = "closing"
  /\ UNCHANGED <<transport, table, idle, streams, messages, request>>
CloseSessions ==
  /\ server = "closing" /\ server' = "cleared"
  /\ Shut(table) /\ EndStreams(table)
  /\ request' = CutOff(table)
  /\ UNCHANGED <<idle, messages>>
CloseListener ==
  /\ server = "cleared" /\ server' = "down"
  /\ EndStreams(Sessions)
  /\ request' = [r \in Requests |-> IF request[r].stage \in {"serving", "stateless", "streaming"}
                                    THEN [request[r] EXCEPT !.stage = "aborted"] ELSE request[r]]
  /\ UNCHANGED <<transport, table, idle, messages>>

-----------------------------------------------------------------------------
Next ==
  \/ \E s \in Sessions :
       \/ Initialize(s) \/ Call(s) \/ CallRecovered(s) \/ Listen(s) \/ ListenRefused(s) \/ Delete(s)
       \/ Emit(s) \/ Pull(s) \/ IdleClose(s) \/ ListenerGone(s)
  \/ \E r \in Requests : Open(r) \/ OpenFails(r) \/ Answer(r) \/ CallerGone(r)
  \/ SweepTimer \/ Tick
  \/ CloseBegin \/ CloseSessions \/ CloseListener

Spec == Init /\ [][Next]_vars

\* Timers fire, calls and factories end, a close that has begun goes on.
Fairness ==
  /\ WF_vars(Tick) /\ WF_vars(SweepTimer)
  /\ \A s \in Sessions : WF_vars(IdleClose(s))
  /\ \A r \in 1..MaxRequests : WF_vars(r \in Requests /\ (Open(r) \/ Answer(r)))
  /\ WF_vars(CloseSessions) /\ WF_vars(CloseListener)
FairSpec == Spec /\ Fairness

-----------------------------------------------------------------------------
(* Properties *)

\* Map, transports, streams and requests agree: the map holds the open transports (a leaked
\* transport would pin its server for ever), the sweep's count and the buffer's flag say
\* what the SDK has registered (a flag that stays up sends messages into nothing), nothing
\* waits in the buffer while a stream is open, and only open transports serve.
SessionOK(s) ==
  /\ s \in table <=> transport[s] = "open"
  /\ openStreams[s] = IF sdkStream[s] = 0 THEN 0 ELSE 1
  /\ sseOpen[s] <=> sdkStream[s] # 0
  /\ sseOpen[s] => buffer[s] = <<>> /\ transport[s] = "open"
  /\ sdkStream[s] # 0 => request[sdkStream[s]].session = s /\ request[sdkStream[s]].stage = "streaming"
ExchangeOK(r) ==
  LET s == request[r].session IN
  /\ request[r].stage = "opening" =>
       /\ transport[s] = "opening"
       /\ \A q \in Requests \ {r} : ~(request[q].stage = "opening" /\ request[q].session = s)
  /\ request[r].stage = "streaming" => sdkStream[s] = r
  /\ request[r].stage = "serving" => transport[s] = "open" /\ idle[s] <= request[r].age
HttpInv ==
  /\ TypeOK
  /\ \A s \in Sessions : SessionOK(s)
  /\ \A r \in Requests : ExchangeOK(r)

\* A session's client receives its standalone messages in the order they were sent, across
\* buffering, flushes, streams that end and new ones.
InOrder ==
  \A s \in Sessions : \A i, j \in DOMAIN (got[s] \o pipe[s] \o buffer[s]) :
    i < j => (got[s] \o pipe[s] \o buffer[s])[i] < (got[s] \o pipe[s] \o buffer[s])[j]

\* What may end an exchange from the server's side: a DELETE of its session, or the close.
Deleted(s) ==
  /\ Len(request') > Len(request)
  /\ request'[Len(request')].session = s /\ request'[Len(request')].stage = "answered"
\* The sweep never ends a stream (FIX-028), and it ends a call only if the call has been
\* running for longer than the idle TTL.
UseIsSafe ==
  \A r \in Requests :
    LET q == request[r] IN
    q.stage # "cut" /\ request'[r].stage = "cut" =>
      \/ Deleted(q.session) \/ server = "closing"
      \/ q.stage = "serving" /\ q.age > Ttl
NotSweptInUse == [][UseIsSafe]_vars

\* Every request comes to an end, evicted sessions, sweeps and closes notwithstanding.
EveryRequestEnds ==
  \A r \in 1..MaxRequests : r <= Len(request) ~> (r <= Len(request) /\ request[r].stage \in Ended)

\* A session is not kept for ever: once no request comes any more it goes, although its client never
\* said so and left a stream open.
Reclaimed == \A s \in Sessions : transport[s] = "open" ~> (transport[s] = "closed" \/ server # "up")
=============================================================================
