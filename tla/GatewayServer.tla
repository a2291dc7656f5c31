---------------------------- MODULE GatewayServer ----------------------------
(****************************************************************************)
(* The gateway's listener and its client connections                        *)
(* (gateway/server/gateway_server.ts): the accept loop, one handleConnection*)
(* per connection with its request timer and keep-alive interval, and       *)
(* shutdown, which pulls sockets and proxies from under the handlers that   *)
(* are still running.                                                       *)
(*                                                                          *)
(* start and shutdown are called once each by the runtime. What the router, *)
(* the middleware and the proxies answer is left open; they take any time,  *)
(* for ever included.                                                       *)
(****************************************************************************)
EXTENDS Naturals, FiniteSets

CONSTANTS
  Connections,      \* client connections that may arrive
  NoConn,           \* no connection
  Tls,              \* config.tls is given
  MaxConnections,   \* config.maxConnections
  MaxRequests       \* bound: requests read from one connection

ASSUME GatewayAssumption ==
  /\ IsFiniteSet(Connections)
  /\ NoConn \notin Connections
  /\ Tls \in BOOLEAN
  /\ MaxConnections \in Nat \ {0}
  /\ MaxRequests \in Nat

VARIABLES
  server,           \* "off", "loading", "up", "broken" (running, but its accept
                    \* loop is dead), "down" or "failed"
  pending,          \* the connection accept() has produced for the loop
  stopping,         \* shutdown is awaiting the proxies
  proxied,          \* the proxies map is filled
  stage,            \* stage[k]: where handleConnection(k) is
  open,             \* connections whose socket is open
  tracked,          \* activeConnections
  requestCount,     \* requestCount[k]: requests read from k
  timer,            \* connections with a request timer pending
  idleChecks,       \* idleChecks[k]: requests whose keep-alive interval runs
  totalRequests, totalErrors,    \* stats
  exempt            \* history: requests that neither statistic counts

handlerVars == <<stage, open, tracked, requestCount, timer, idleChecks>>
counters == <<totalRequests, totalErrors, exempt>>
serverVars == <<server, pending, stopping, proxied>>
vars == <<serverVars, handlerVars, counters>>

running == server \in {"up", "broken"}

\* Requests that were read and are not counted yet; with the answers that
\* are counted or exempt, those the server's own code is busy with.
Uncounted == {"filtering", "proxying", "responding"}
Handling == Uncounted \cup {"answering"}

Stages == {"away", "reading", "sending", "refused", "ended"} \cup Handling

Init ==
  /\ server = "off"
  /\ pending = NoConn
  /\ stopping = FALSE
  /\ proxied = TRUE
  /\ stage = [k \in Connections |-> "away"]
  /\ open = {}
  /\ tracked = {}
  /\ requestCount = [k \in Connections |-> 0]
  /\ timer = {}
  /\ idleChecks = [k \in Connections |-> {}]
  /\ totalRequests = 0 /\ totalErrors = 0 /\ exempt = 0

-----------------------------------------------------------------------------
(* The server.                                                              *)

\* start: with TLS the certificate and the key are awaited first.
Start ==
  /\ server = "off"
  /\ server' = IF Tls THEN "loading" ELSE "up"
  /\ UNCHANGED <<pending, stopping, proxied, handlerVars, counters>>

Listen ==
  /\ server = "loading"
  /\ server' = "up"
  /\ UNCHANGED <<pending, stopping, proxied, handlerVars, counters>>

\* A file that cannot be read, a port that is taken: start throws.
StartFails ==
  /\ server \in {"off", "loading"}
  /\ server' = "failed"
  /\ UNCHANGED <<pending, stopping, proxied, handlerVars, counters>>

\* The listener's accept() resolves; the loop resumes in a later microtask.
Accept(k) ==
  /\ server = "up"
  /\ pending = NoConn
  /\ stage[k] = "away"
  /\ pending' = k
  /\ open' = open \cup {k}
  /\ UNCHANGED <<server, stopping, proxied, stage, tracked, requestCount, timer,
                 idleChecks, counters>>

\* accept() throws: the loop ends with it, and running stays true.
AcceptFails ==
  /\ server = "up"
  /\ pending = NoConn
  /\ server' = "broken"
  /\ UNCHANGED <<pending, stopping, proxied, handlerVars, counters>>

\* Mutant: > for >=.
fullOneLate == Cardinality(tracked) > MaxConnections

full == Cardinality(tracked) >= MaxConnections

\* The loop closes a connection over the limit.
Refuse(k) ==
  /\ full
  /\ stage' = [stage EXCEPT ![k] = "refused"]
  /\ open' = open \ {k}
  /\ UNCHANGED <<tracked, timer>>

\* Mutant: the handler does not look whether the server still runs.
HandleAnyway(k) ==
  /\ ~full
  /\ tracked' = tracked \cup {k}
  /\ stage' = [stage EXCEPT ![k] = "reading"]
  /\ timer' = timer \cup {k}
  /\ UNCHANGED open

\* handleConnection up to its first await: a running server waits for a
\* request with the timer set; one shut down meanwhile goes straight to finally.
Handle(k) ==
  /\ ~full
  /\ \/ /\ running
        /\ tracked' = tracked \cup {k}
        /\ stage' = [stage EXCEPT ![k] = "reading"]
        /\ timer' = timer \cup {k}
        /\ UNCHANGED open
     \/ /\ ~running
        /\ stage' = [stage EXCEPT ![k] = "ended"]
        /\ open' = open \ {k}
        /\ UNCHANGED <<tracked, timer>>

\* The loop resumes with the accepted connection.
Resume(k) ==
  /\ pending = k
  /\ pending' = NoConn
  /\ Refuse(k) \/ Handle(k)
  /\ UNCHANGED <<server, stopping, proxied, requestCount, idleChecks, counters>>

\* Mutant: the map is emptied before the sockets are closed.
ShutdownForgetting ==
  /\ running
  /\ server' = "down"
  /\ tracked' = {}
  /\ stopping' = TRUE
  /\ UNCHANGED <<pending, proxied, open, stage, requestCount, timer, idleChecks,
                 counters>>

\* shutdown up to its first await: listener, sockets and map go at once; the
\* handlers find out later.
Shutdown ==
  /\ running
  /\ server' = "down"
  /\ open' = open \ tracked
  /\ tracked' = {}
  /\ stopping' = TRUE
  /\ UNCHANGED <<pending, proxied, stage, requestCount, timer, idleChecks, counters>>

\* The proxies have shut down, and the map is cleared.
ClearProxies ==
  /\ stopping
  /\ stopping' = FALSE
  /\ proxied' = FALSE
  /\ UNCHANGED <<server, pending, handlerVars, counters>>

-----------------------------------------------------------------------------
(* handleConnection and handleRequest.                                      *)

\* The finally of handleConnection.
Finish(k) ==
  /\ stage' = [stage EXCEPT ![k] = "ended"]
  /\ tracked' = tracked \ {k}
  /\ open' = open \ {k}

\* Mutant: clearTimeout is forgotten.
RequestReadTimed(k) ==
  /\ stage[k] = "reading"
  /\ requestCount[k] < MaxRequests
  /\ requestCount' = [requestCount EXCEPT ![k] = @ + 1]
  /\ stage' = [stage EXCEPT ![k] = "filtering"]
  /\ UNCHANGED <<serverVars, open, tracked, timer, idleChecks, counters>>

\* A request is read, possibly from the buffer of a socket closed meanwhile.
RequestRead(k) ==
  /\ stage[k] = "reading"
  /\ requestCount[k] < MaxRequests
  /\ timer' = timer \ {k}
  /\ requestCount' = [requestCount EXCEPT ![k] = @ + 1]
  /\ stage' = [stage EXCEPT ![k] = "filtering"]
  /\ UNCHANGED <<serverVars, open, tracked, idleChecks, counters>>

\* readRequest throws: a closed socket, a client gone, bytes that do not
\* parse. The timer is left to fire.
ReadFails(k) ==
  /\ stage[k] = "reading"
  /\ Finish(k)
  /\ UNCHANGED <<serverVars, requestCount, timer, idleChecks, counters>>

\* Mutant: none is waited for.
NeverTimesOut(k) ==
  /\ k \in timer /\ stage[k] # "reading"
  /\ timer' = timer \ {k}
  /\ UNCHANGED <<serverVars, open, stage, tracked, requestCount, idleChecks, counters>>

\* The request timer fires and closes the socket; the read will throw.
RequestTimeout(k) ==
  /\ k \in timer
  /\ timer' = timer \ {k}
  /\ open' = open \ {k}
  /\ UNCHANGED <<serverVars, stage, tracked, requestCount, idleChecks, counters>>

\* The request middleware answers, or no route matches.
AnswerEarly(k) ==
  /\ stage[k] = "filtering"
  /\ stage' = [stage EXCEPT ![k] = "answering"]
  /\ exempt' = exempt + 1
  /\ UNCHANGED <<serverVars, open, tracked, requestCount, timer, idleChecks,
                 totalRequests, totalErrors>>

\* A middleware error: its answer still goes through the response middleware.
MiddlewareError(k) ==
  /\ stage[k] = "filtering"
  /\ stage' = [stage EXCEPT ![k] = "answering"]
  /\ totalErrors' = totalErrors + 1
  /\ UNCHANGED <<serverVars, open, tracked, requestCount, timer, idleChecks,
                 totalRequests, exempt>>

\* The routed request goes to its proxy, if shutdown has left one.
Forward(k) ==
  /\ stage[k] = "filtering"
  /\ proxied
  /\ stage' = [stage EXCEPT ![k] = "proxying"]
  /\ UNCHANGED <<serverVars, open, tracked, requestCount, timer, idleChecks, counters>>

\* It does not get there: its target is no URL, or the proxies are gone.
RoutingThrows(k) ==
  /\ stage[k] = "filtering"
  /\ stage' = [stage EXCEPT ![k] = "sending"]
  /\ totalErrors' = totalErrors + 1
  /\ UNCHANGED <<serverVars, open, tracked, requestCount, timer, idleChecks,
                 totalRequests, exempt>>

\* The proxy answers, with an upstream's response or an error of its own.
ProxyAnswers(k) ==
  /\ stage[k] = "proxying"
  /\ stage' = [stage EXCEPT ![k] = "responding"]
  /\ UNCHANGED <<serverVars, open, tracked, requestCount, timer, idleChecks, counters>>

\* Mutant: the catch does not end the request, which is counted again.
ProxyThrowsOn(k) ==
  /\ stage[k] = "proxying"
  /\ stage' = [stage EXCEPT ![k] = "responding"]
  /\ totalErrors' = totalErrors + 1
  /\ UNCHANGED <<serverVars, open, tracked, requestCount, timer, idleChecks,
                 totalRequests, exempt>>

\* The proxy throws: the error answer skips the response middleware.
ProxyThrows(k) ==
  /\ stage[k] = "proxying"
  /\ stage' = [stage EXCEPT ![k] = "sending"]
  /\ totalErrors' = totalErrors + 1
  /\ UNCHANGED <<serverVars, open, tracked, requestCount, timer, idleChecks,
                 totalRequests, exempt>>

\* The response middleware is through; only a proxied request is counted here.
ResponseReady(k) ==
  /\ stage[k] \in {"responding", "answering"}
  /\ totalRequests' = IF stage[k] = "responding" THEN totalRequests + 1
                                                 ELSE totalRequests
  /\ stage' = [stage EXCEPT ![k] = "sending"]
  /\ UNCHANGED <<serverVars, open, tracked, requestCount, timer, idleChecks,
                 totalErrors, exempt>>

\* The response is written. A connection to keep alive gets an interval for
\* the request just answered, and is read again while the server runs and no
\* interval has closed it.
Sent(k) ==
  /\ stage[k] = "sending"
  /\ \/ /\ idleChecks' = [idleChecks EXCEPT ![k] = @ \cup {requestCount[k]}]
        /\ \/ /\ running /\ k \in open
              /\ stage' = [stage EXCEPT ![k] = "reading"]
              /\ timer' = timer \cup {k}
              /\ UNCHANGED <<open, tracked>>
           \/ /\ ~running
              /\ Finish(k)
              /\ UNCHANGED timer
     \/ /\ Finish(k)
        /\ UNCHANGED <<timer, idleChecks>>
  /\ UNCHANGED <<serverVars, requestCount, counters>>

\* The write fails, as it must on a closed socket.
SendFails(k) ==
  /\ stage[k] = "sending"
  /\ Finish(k)
  /\ UNCHANGED <<serverVars, requestCount, timer, idleChecks, counters>>

\* The interval started after request n finds its time is up and closes the
\* socket. It looks at that moment only, not at what was read since.
CheckIdle(k, n) ==
  /\ n \in idleChecks[k]
  /\ idleChecks' = [idleChecks EXCEPT ![k] = @ \ {n}]
  /\ open' = open \ {k}
  /\ UNCHANGED <<serverVars, stage, tracked, requestCount, timer, counters>>

-----------------------------------------------------------------------------
\* What happens to one connection.
Serve(k) ==
  \/ Accept(k) \/ Resume(k)
  \/ RequestRead(k) \/ ReadFails(k) \/ RequestTimeout(k)
  \/ AnswerEarly(k) \/ MiddlewareError(k)
  \/ Forward(k) \/ RoutingThrows(k)
  \/ ProxyAnswers(k) \/ ProxyThrows(k) \/ ResponseReady(k)
  \/ Sent(k) \/ SendFails(k)
  \/ \E n \in idleChecks[k] : CheckIdle(k, n)

Next ==
  \/ Start \/ Listen \/ StartFails \/ AcceptFails \/ Shutdown \/ ClearProxies
  \/ \E k \in Connections : Serve(k)

Spec == Init /\ [][Next]_vars

\* Timers fire, and what awaits a closed socket fails. Nothing is assumed of
\* the clients, the middleware and the proxies.
Fairness ==
  \A k \in Connections :
    /\ WF_vars(RequestTimeout(k))
    /\ WF_vars(k \notin open /\ ReadFails(k))
    /\ WF_vars(k \notin open /\ SendFails(k))
    /\ WF_vars(Resume(k))

FairSpec == Spec /\ Fairness

-----------------------------------------------------------------------------
(* Properties.                                                              *)

\* Every variable has its type; what shutdown waits for is there to clear, and
\* an interval belongs to a request.
TypeOK ==
  /\ server \in {"off", "loading", "up", "broken", "down", "failed"}
  /\ pending \in Connections \cup {NoConn}
  /\ proxied \in BOOLEAN /\ stopping \in BOOLEAN /\ (stopping => proxied)
  /\ stage \in [Connections -> Stages]
  /\ open \in SUBSET Connections
  /\ tracked \in SUBSET Connections
  /\ requestCount \in [Connections -> 0..MaxRequests]
  /\ timer \in SUBSET Connections
  /\ idleChecks \in [Connections -> SUBSET (1..MaxRequests)]
  /\ totalRequests \in Nat /\ totalErrors \in Nat /\ exempt \in Nat

\* What shutdown relies on: every open socket is in activeConnections, except
\* that of a connection accept() has produced and the loop has not yet seen.
OpenIsTracked == open \ {pending} \subseteq tracked

\* However accepts, ends and a shutdown interleave, the server does not hold
\* more open connections than config.maxConnections.
WithinLimit == Cardinality(open \ {pending}) <= MaxConnections

\* Once shut down the server holds no open connection, though a connection
\* accepted in the same turn reaches its handler afterwards.
DownMeansClosed == ~running => open \subseteq {pending}

\* The requests read, one by one.
RequestsRead == {r \in Connections \X (1..MaxRequests) : r[2] <= requestCount[r[1]]}

\* Every request read is counted exactly once or belongs to those no statistic
\* counts (answered by the middleware, or without a route), whichever of the
\* error paths it takes and whatever shutdown takes away meanwhile.
CountedOnce ==
  totalRequests + totalErrors + exempt
      + Cardinality({k \in Connections : stage[k] \in Uncounted})
    = Cardinality(RequestsRead)

\* The request timer never cuts off a request that was received: it closes
\* only a connection that waits for one.
TimerSparesRequests ==
  [][\A k \in open : RequestTimeout(k) => stage[k] = "reading"]_vars

\* A client that does not send its request is dropped in the end.
ReadsEnd ==
  \A k \in Connections : \A n \in 0..MaxRequests :
    (stage[k] = "reading" /\ requestCount[k] = n)
      ~> ~(stage[k] = "reading" /\ requestCount[k] = n)

\* After a shutdown every handler ends, but for those that middleware or a
\* proxy keeps waiting.
ShutdownDrains ==
  \A k \in Connections :
    server = "down" ~> (stage[k] \in {"away", "refused", "ended"} \cup Handling)

\* What "Check if connection has been idle too long" says: an interval closes
\* no connection on which a request came in since. False: the interval of an
\* earlier request is never cleared.
IdleCheckSparesBusy ==
  [][\A k \in open : \A n \in idleChecks[k] :
       CheckIdle(k, n) => requestCount[k] = n]_vars
=============================================================================
