------------------------- MODULE GatewayServerProofs -------------------------
(****************************************************************************)
(* Proofs about GatewayServer for any number of connections, any limit and  *)
(* any number of requests, with and without TLS.                            *)
(****************************************************************************)
EXTENDS GatewayServer, FiniteSetTheorems, TLAPS

(* A handler runs for every tracked connection, and has read a request once *)
(* it is past its first read.                                               *)
HandlersRun ==
  /\ \A k \in tracked : stage[k] \in Handling \cup {"reading", "sending"}
  /\ \A k \in Connections :
       stage[k] \in Handling \cup {"sending"} => requestCount[k] >= 1

(* A pending request timer waits with the reader, or is too late to matter. *)
TimersWait ==
  \A k \in timer : k \in open => stage[k] = "reading"

(* The map of a server that does not run is empty, and that of one that does *)
(* has room; its proxies are there.                                         *)
LimitKept ==
  /\ Cardinality(tracked) <= MaxConnections
  /\ ~running => tracked = {}
  /\ server # "down" => proxied /\ ~stopping

(* accept() produces new connections only. *)
PendingIsNew ==
  /\ pending # NoConn => stage[pending] = "away"
  /\ \A k \in Connections : stage[k] = "away" => k \notin timer

IInv ==
  /\ TypeOK
  /\ OpenIsTracked
  /\ HandlersRun
  /\ TimersWait
  /\ LimitKept
  /\ PendingIsNew

-----------------------------------------------------------------------------
\* The initial state satisfies the invariant.
LEMMA InitIInv == Init => IInv
<1> SUFFICES ASSUME Init PROVE IInv
  OBVIOUS
<1> USE GatewayAssumption DEF Init
<1>1. TypeOK
  <2>1. /\ stage \in [Connections -> Stages]
        /\ requestCount \in [Connections -> 0..MaxRequests]
        /\ idleChecks \in [Connections -> SUBSET (1..MaxRequests)]
    BY DEF Stages
  <2> QED
    BY <2>1 DEF TypeOK
<1>2. OpenIsTracked /\ TimersWait /\ PendingIsNew
  BY DEF OpenIsTracked, TimersWait, PendingIsNew
<1>3. HandlersRun
  BY DEF HandlersRun, Handling, Uncounted
<1>4. LimitKept
  BY FS_EmptySet DEF LimitKept, running
<1> QED
  BY <1>1, <1>2, <1>3, <1>4 DEF IInv

\* Starting, failing to start, losing the accept loop: no connection changes.
LEMMA StartupStep ==
  ASSUME IInv, Start \/ Listen \/ StartFails \/ AcceptFails
  PROVE  IInv'
<1> USE GatewayAssumption
<1>1. /\ UNCHANGED <<pending, stopping, proxied, handlerVars, counters>>
      /\ server \notin {"down", "failed"} /\ server' # "down"
      /\ server' \in {"off", "loading", "up", "broken", "down", "failed"}
      /\ running => running'
  BY DEF Start, Listen, StartFails, AcceptFails, running
<1>2. TypeOK'
  BY <1>1 DEF IInv, TypeOK, handlerVars, counters
<1>3. (OpenIsTracked /\ HandlersRun /\ TimersWait /\ PendingIsNew)'
  BY <1>1 DEF IInv, OpenIsTracked, HandlersRun, TimersWait, PendingIsNew, handlerVars
<1>4. LimitKept'
  BY <1>1 DEF IInv, LimitKept, handlerVars
<1> QED
  BY <1>2, <1>3, <1>4 DEF IInv

\* accept() produces a connection.
LEMMA AcceptStep ==
  ASSUME IInv, NEW k \in Connections, Accept(k)
  PROVE  IInv'
<1> USE GatewayAssumption DEF Accept, counters
<1>1. TypeOK'
  BY DEF IInv, TypeOK
<1>2. OpenIsTracked'
  BY DEF IInv, OpenIsTracked, TypeOK
<1>3. HandlersRun'
  BY DEF IInv, HandlersRun
<1>4. TimersWait' /\ PendingIsNew'
  BY DEF IInv, TimersWait, PendingIsNew
<1>5. LimitKept'
  BY DEF IInv, LimitKept, running
<1> QED
  BY <1>1, <1>2, <1>3, <1>4, <1>5 DEF IInv

\* The loop refuses the connection, handles it, or finds the server down.
LEMMA ResumeStep ==
  ASSUME IInv, NEW k \in Connections, Resume(k)
  PROVE  IInv'
<1> USE GatewayAssumption DEF counters
<1>a. IsFiniteSet(tracked)
  BY FS_Subset DEF IInv, TypeOK
<1>b. /\ pending = k /\ pending' = NoConn /\ stage[k] = "away" /\ k \notin tracked
      /\ k \notin timer
      /\ UNCHANGED <<server, stopping, proxied, requestCount, idleChecks, counters>>
  BY DEF Resume, IInv, PendingIsNew, HandlersRun, Handling, Uncounted
<1>1. CASE Refuse(k) \/ (Handle(k) /\ ~running)
  <2>1. /\ open' = open \ {k}
        /\ UNCHANGED <<tracked, timer>>
        /\ \E s \in {"refused", "ended"} : stage' = [stage EXCEPT ![k] = s]
    BY <1>1 DEF Refuse, Handle
  <2>2. TypeOK'
    BY <1>b, <2>1 DEF IInv, TypeOK, Stages
  <2>3. OpenIsTracked'
    BY <1>b, <2>1 DEF IInv, OpenIsTracked
  <2>4. HandlersRun'
    BY <1>b, <2>1 DEF IInv, HandlersRun, TypeOK, Handling, Uncounted
  <2>5. TimersWait' /\ PendingIsNew'
    BY <1>b, <2>1 DEF IInv, TimersWait, PendingIsNew, TypeOK
  <2>6. LimitKept'
    BY <1>b, <2>1 DEF IInv, LimitKept, running
  <2> QED
    BY <2>2, <2>3, <2>4, <2>5, <2>6 DEF IInv
<1>2. CASE Handle(k) /\ running
  <2>1. /\ tracked' = tracked \cup {k}
        /\ timer' = timer \cup {k}
        /\ stage' = [stage EXCEPT ![k] = "reading"]
        /\ UNCHANGED open
        /\ ~full
    BY <1>2 DEF Handle
  <2>2. TypeOK'
    BY <1>b, <2>1 DEF IInv, TypeOK, Stages
  <2>3. OpenIsTracked'
    BY <1>b, <2>1 DEF IInv, OpenIsTracked
  <2>4. HandlersRun'
    BY <1>b, <2>1 DEF IInv, HandlersRun, TypeOK, Handling, Uncounted
  <2>5. TimersWait' /\ PendingIsNew'
    BY <1>b, <2>1 DEF IInv, TimersWait, PendingIsNew, TypeOK
  <2>6. Cardinality(tracked') <= MaxConnections
    <3>1. Cardinality(tracked') = Cardinality(tracked) + 1
      BY <1>a, <1>b, <2>1, FS_AddElement
    <3>2. Cardinality(tracked) \in Nat
      BY <1>a, FS_CardinalityType
    <3> QED
      BY <3>1, <3>2, <2>1 DEF full
  <2>7. LimitKept'
    BY <1>2, <1>b, <2>6 DEF IInv, LimitKept, running
  <2> QED
    BY <2>2, <2>3, <2>4, <2>5, <2>7 DEF IInv
<1> QED
  BY <1>1, <1>2 DEF Resume, Handle

\* Shutdown empties the map, and closes what was in it.
LEMMA ShutdownStep ==
  ASSUME IInv, Shutdown \/ ClearProxies
  PROVE  IInv'
<1> USE GatewayAssumption DEF counters, handlerVars
<1>1. CASE Shutdown
  <2> USE <1>1 DEF Shutdown
  <2>1. TypeOK'
    BY DEF IInv, TypeOK, LimitKept, running
  <2>2. OpenIsTracked'
    BY DEF IInv, OpenIsTracked
  <2>3. HandlersRun'
    BY DEF IInv, HandlersRun
  <2>4. TimersWait' /\ PendingIsNew'
    BY DEF IInv, TimersWait, PendingIsNew
  <2>5. LimitKept'
    BY FS_EmptySet DEF IInv, LimitKept, running
  <2> QED
    BY <2>1, <2>2, <2>3, <2>4, <2>5 DEF IInv
<1>2. CASE ClearProxies
  <2> USE <1>2 DEF ClearProxies
  <2>1. TypeOK'
    BY DEF IInv, TypeOK
  <2>2. (OpenIsTracked /\ HandlersRun /\ TimersWait /\ PendingIsNew)'
    BY DEF IInv, OpenIsTracked, HandlersRun, TimersWait, PendingIsNew
  <2>3. server = "down"
    BY DEF IInv, LimitKept
  <2>4. LimitKept'
    BY <2>3 DEF IInv, LimitKept, running
  <2> QED
    BY <2>1, <2>2, <2>4 DEF IInv
<1> QED
  BY <1>1, <1>2

\* A request on its way through the handler: the connection, its socket and
\* its map entry stay, and a reader that leaves takes its timer along.
LEMMA HandlerStep ==
  ASSUME IInv, NEW k \in Connections,
         \/ RequestRead(k) \/ AnswerEarly(k) \/ MiddlewareError(k)
         \/ Forward(k) \/ RoutingThrows(k)
         \/ ProxyAnswers(k) \/ ProxyThrows(k) \/ ResponseReady(k)
  PROVE  IInv'
<1> USE GatewayAssumption DEF counters, serverVars
<1> DEFINE Active == Handling \cup {"reading", "sending"}
<1>1. UNCHANGED <<server, pending, stopping, proxied, open, tracked, idleChecks>>
  BY DEF RequestRead, AnswerEarly, MiddlewareError, Forward, RoutingThrows,
         ProxyAnswers, ProxyThrows, ResponseReady
<1>2. /\ totalRequests' \in Nat /\ totalErrors' \in Nat /\ exempt' \in Nat
  BY DEF RequestRead, AnswerEarly, MiddlewareError, Forward, RoutingThrows,
         ProxyAnswers, ProxyThrows, ResponseReady, IInv, TypeOK
<1>3. PICK s \in Handling \cup {"sending"} : stage' = [stage EXCEPT ![k] = s]
  BY DEF RequestRead, AnswerEarly, MiddlewareError, Forward, RoutingThrows,
         ProxyAnswers, ProxyThrows, ResponseReady, Handling, Uncounted
<1>4. stage[k] \in Active
  BY DEF RequestRead, AnswerEarly, MiddlewareError, Forward, RoutingThrows,
         ProxyAnswers, ProxyThrows, ResponseReady, Handling, Uncounted
<1>5. \/ /\ stage[k] # "reading" /\ timer' = timer
         /\ requestCount' = requestCount
      \/ /\ stage[k] = "reading" /\ timer' = timer \ {k}
         /\ requestCount[k] < MaxRequests
         /\ requestCount' = [requestCount EXCEPT ![k] = requestCount[k] + 1]
  BY DEF RequestRead, AnswerEarly, MiddlewareError, Forward, RoutingThrows,
         ProxyAnswers, ProxyThrows, ResponseReady
<1>6. stage[k] # "away" /\ s # "away" /\ s \in Stages /\ s \in Active
  BY <1>3, <1>4 DEF Handling, Uncounted, Stages
<1>7. requestCount' \in [Connections -> 0..MaxRequests]
  BY <1>5 DEF IInv, TypeOK
<1>8. TypeOK'
  BY <1>1, <1>2, <1>3, <1>5, <1>6, <1>7 DEF IInv, TypeOK
<1>9. OpenIsTracked'
  BY <1>1 DEF IInv, OpenIsTracked
<1>10. \A j \in tracked' : stage'[j] \in Active
  BY <1>1, <1>3, <1>6 DEF IInv, HandlersRun, TypeOK
<1>11. ASSUME NEW j \in Connections, stage'[j] \in Handling \cup {"sending"}
       PROVE  requestCount'[j] >= 1
  <2>1. CASE j = k /\ stage[k] # "reading"
    <3>1. stage[k] \in Handling \cup {"sending"}
      BY <1>4, <2>1
    <3> QED
      BY <2>1, <3>1, <1>5 DEF IInv, HandlersRun
  <2>2. CASE j = k /\ stage[k] = "reading"
    BY <2>2, <1>5 DEF IInv, TypeOK
  <2>3. CASE j # k
    <3>1. stage'[j] = stage[j] /\ requestCount'[j] = requestCount[j]
      BY <2>3, <1>3, <1>5 DEF IInv, TypeOK
    <3> QED
      BY <1>11, <3>1 DEF IInv, HandlersRun
  <2> QED
    BY <2>1, <2>2, <2>3
<1>12. HandlersRun'
  BY <1>10, <1>11 DEF HandlersRun
<1>13. TimersWait'
  BY <1>1, <1>3, <1>5 DEF IInv, TimersWait, TypeOK
<1>14. PendingIsNew'
  BY <1>1, <1>3, <1>5, <1>6 DEF IInv, PendingIsNew, TypeOK
<1>15. LimitKept'
  BY <1>1 DEF IInv, LimitKept, running
<1> QED
  BY <1>8, <1>9, <1>12, <1>13, <1>14, <1>15 DEF IInv

\* A handler ends: the connection leaves the map as its socket is closed.
LEMMA FinishStep ==
  ASSUME IInv, NEW k \in Connections, Finish(k), stage[k] # "away",
         UNCHANGED <<serverVars, requestCount, timer, counters>>,
         idleChecks' \in [Connections -> SUBSET (1..MaxRequests)]
  PROVE  IInv'
<1> USE GatewayAssumption DEF counters, serverVars, Finish
<1>1. TypeOK'
  BY DEF IInv, TypeOK, Stages
<1>2. OpenIsTracked'
  BY DEF IInv, OpenIsTracked
<1>3. HandlersRun'
  BY DEF IInv, HandlersRun, TypeOK, Handling, Uncounted
<1>4. TimersWait' /\ PendingIsNew'
  BY DEF IInv, TimersWait, PendingIsNew, TypeOK
<1>5. Cardinality(tracked') <= MaxConnections
  <2>1. IsFiniteSet(tracked) /\ tracked' \in SUBSET tracked
    BY FS_Subset DEF IInv, TypeOK
  <2>2. /\ Cardinality(tracked') <= Cardinality(tracked)
        /\ Cardinality(tracked) \in Nat /\ Cardinality(tracked') \in Nat
    BY <2>1, FS_Subset, FS_CardinalityType
  <2> QED
    BY <2>2 DEF IInv, LimitKept
<1>6. LimitKept'
  BY <1>5 DEF IInv, LimitKept, running
<1> QED
  BY <1>1, <1>2, <1>3, <1>4, <1>6 DEF IInv

\* A response is sent: the interval starts, and the handler reads on or ends.
LEMMA SentStep ==
  ASSUME IInv, NEW k \in Connections, Sent(k)
  PROVE  IInv'
<1> USE GatewayAssumption
<1>1. /\ stage[k] = "sending"
      /\ UNCHANGED <<serverVars, requestCount, counters>>
  BY DEF Sent
<1>2. requestCount[k] \in 1..MaxRequests
  BY <1>1 DEF IInv, HandlersRun, TypeOK
<1>3. idleChecks' \in [Connections -> SUBSET (1..MaxRequests)]
  <2>1. \/ idleChecks' = idleChecks
        \/ idleChecks' = [idleChecks EXCEPT ![k] = idleChecks[k] \cup {requestCount[k]}]
    BY DEF Sent
  <2> QED
    BY <1>2, <2>1 DEF IInv, TypeOK
<1>4. CASE Finish(k) /\ UNCHANGED timer
  BY <1>1, <1>3, <1>4, FinishStep
<1>5. CASE /\ running /\ k \in open
           /\ stage' = [stage EXCEPT ![k] = "reading"]
           /\ timer' = timer \cup {k}
           /\ UNCHANGED <<open, tracked>>
  <2> USE <1>1, <1>5 DEF serverVars, counters
  <2>1. TypeOK'
    BY <1>3 DEF IInv, TypeOK, Stages
  <2>2. OpenIsTracked'
    BY DEF IInv, OpenIsTracked
  <2>3. HandlersRun'
    BY DEF IInv, HandlersRun, TypeOK, Handling, Uncounted
  <2>4. TimersWait' /\ PendingIsNew'
    BY DEF IInv, TimersWait, PendingIsNew, TypeOK
  <2>5. LimitKept'
    BY DEF IInv, LimitKept, running
  <2> QED
    BY <2>1, <2>2, <2>3, <2>4, <2>5 DEF IInv
<1> QED
  BY <1>4, <1>5 DEF Sent

\* A timer fires: at most a socket is closed.
LEMMA TimerStep ==
  ASSUME IInv, NEW k \in Connections,
         RequestTimeout(k) \/ \E n \in idleChecks[k] : CheckIdle(k, n)
  PROVE  IInv'
<1> USE GatewayAssumption DEF counters, serverVars
<1>1. /\ UNCHANGED <<server, pending, stopping, proxied, stage, tracked,
                     requestCount, totalRequests, totalErrors, exempt>>
      /\ open' = open \ {k}
      /\ timer' \subseteq timer
      /\ idleChecks' \in [Connections -> SUBSET (1..MaxRequests)]
  BY DEF RequestTimeout, CheckIdle, IInv, TypeOK
<1>2. TypeOK'
  BY <1>1 DEF IInv, TypeOK
<1>3. (OpenIsTracked /\ HandlersRun /\ TimersWait /\ PendingIsNew)'
  BY <1>1 DEF IInv, OpenIsTracked, HandlersRun, TimersWait, PendingIsNew
<1>4. LimitKept'
  BY <1>1 DEF IInv, LimitKept, running
<1> QED
  BY <1>2, <1>3, <1>4 DEF IInv

\* Every step preserves the invariant.
LEMMA NextIInv == IInv /\ [Next]_vars => IInv'
<1> SUFFICES ASSUME IInv, [Next]_vars PROVE IInv'
  OBVIOUS
<1>1. CASE Start \/ Listen \/ StartFails \/ AcceptFails
  BY <1>1, StartupStep
<1>2. CASE Shutdown \/ ClearProxies
  BY <1>2, ShutdownStep
<1>3. ASSUME NEW k \in Connections, Accept(k) PROVE IInv'
  BY <1>3, AcceptStep
<1>4. ASSUME NEW k \in Connections, Resume(k) PROVE IInv'
  BY <1>4, ResumeStep
<1>5. ASSUME NEW k \in Connections,
             \/ RequestRead(k) \/ AnswerEarly(k) \/ MiddlewareError(k)
             \/ Forward(k) \/ RoutingThrows(k)
             \/ ProxyAnswers(k) \/ ProxyThrows(k) \/ ResponseReady(k)
      PROVE  IInv'
  BY <1>5, HandlerStep
<1>6. ASSUME NEW k \in Connections, ReadFails(k) \/ SendFails(k) PROVE IInv'
  <2>1. /\ Finish(k) /\ stage[k] # "away"
        /\ UNCHANGED <<serverVars, requestCount, timer, idleChecks, counters>>
    BY <1>6 DEF ReadFails, SendFails
  <2>2. idleChecks' \in [Connections -> SUBSET (1..MaxRequests)]
    BY <2>1 DEF IInv, TypeOK
  <2> QED
    BY <2>1, <2>2, FinishStep
<1>7. ASSUME NEW k \in Connections, Sent(k) PROVE IInv'
  BY <1>7, SentStep
<1>8. ASSUME NEW k \in Connections,
             RequestTimeout(k) \/ \E n \in idleChecks[k] : CheckIdle(k, n)
      PROVE  IInv'
  BY <1>8, TimerStep
<1>9. CASE UNCHANGED vars
  <2> USE <1>9 DEF vars, serverVars, handlerVars, counters
  <2>1. TypeOK' /\ OpenIsTracked'
    BY DEF IInv, TypeOK, OpenIsTracked
  <2>2. (HandlersRun /\ TimersWait /\ PendingIsNew)'
    BY DEF IInv, HandlersRun, TimersWait, PendingIsNew
  <2>3. LimitKept'
    BY DEF IInv, LimitKept, running
  <2> QED
    BY <2>1, <2>2, <2>3 DEF IInv
<1> QED
  BY <1>1, <1>2, <1>3, <1>4, <1>5, <1>6, <1>7, <1>8, <1>9 DEF Next, Serve

-----------------------------------------------------------------------------
\* The invariant holds of every reachable state.
THEOREM Inductive == Spec => []IInv
<1>1. Init => IInv
  BY InitIInv
<1>2. IInv /\ [Next]_vars => IInv'
  BY NextIInv
<1> QED
  BY <1>1, <1>2, PTL DEF Spec

\* Every variable has its type.
THEOREM TypeCorrect == Spec => []TypeOK
<1>1. IInv => TypeOK
  BY DEF IInv
<1> QED
  BY <1>1, Inductive, PTL

\* Whatever handlers, timers and shutdown do, an open socket is in the map that
\* shutdown goes through.
THEOREM SocketsAreTracked == Spec => []OpenIsTracked
<1>1. IInv => OpenIsTracked
  BY DEF IInv
<1> QED
  BY <1>1, Inductive, PTL

\* The server never holds more open connections than its limit.
THEOREM LimitHolds == Spec => []WithinLimit
<1>1. IInv => WithinLimit
  <2> SUFFICES ASSUME IInv PROVE WithinLimit
    OBVIOUS
  <2>1. IsFiniteSet(tracked) /\ open \ {pending} \in SUBSET tracked
    BY GatewayAssumption, FS_Subset DEF IInv, TypeOK, OpenIsTracked
  <2>2. /\ Cardinality(open \ {pending}) <= Cardinality(tracked)
        /\ IsFiniteSet(open \ {pending})
    BY <2>1, FS_Subset
  <2>3. Cardinality(tracked) \in Nat /\ Cardinality(open \ {pending}) \in Nat
    BY <2>1, <2>2, FS_CardinalityType
  <2> QED
    BY <2>2, <2>3, GatewayAssumption DEF IInv, LimitKept, WithinLimit
<1> QED
  BY <1>1, Inductive, PTL

\* A server that was shut down, or never came up, holds no open connection.
THEOREM ShutdownCloses == Spec => []DownMeansClosed
<1>1. IInv => DownMeansClosed
  BY DEF IInv, LimitKept, OpenIsTracked, DownMeansClosed
<1> QED
  BY <1>1, Inductive, PTL

\* The request timer closes no connection that is past reading its request.
THEOREM TimersSpareRequests == Spec => TimerSparesRequests
<1>1. IInv => [\A k \in open : RequestTimeout(k) => stage[k] = "reading"]_vars
  BY DEF IInv, TimersWait, RequestTimeout
<1>2. Spec => []IInv
  BY Inductive
<1> QED
  BY <1>1, <1>2, PTL DEF Spec, TimerSparesRequests

-----------------------------------------------------------------------------
(* The statistics.                                                          *)

(* Connections with a request that is read and not counted yet.             *)
Waiting == {k \in Connections : stage[k] \in Uncounted}

\* What is counted is finite.
LEMMA FiniteCounts ==
  /\ IsFiniteSet(Waiting) /\ Cardinality(Waiting) \in Nat
  /\ IsFiniteSet(RequestsRead) /\ Cardinality(RequestsRead) \in Nat
<1>1. IsFiniteSet(1..MaxRequests)
  BY GatewayAssumption, FS_Interval
<1>2. IsFiniteSet(Connections \X (1..MaxRequests))
  BY <1>1, GatewayAssumption, FS_Product
<1>3. Waiting \subseteq Connections /\ RequestsRead \subseteq Connections \X (1..MaxRequests)
  BY DEF Waiting, RequestsRead
<1> QED
  BY <1>2, <1>3, GatewayAssumption, FS_Subset, FS_CardinalityType

\* A handler goes from one stage to another: what that does to those waiting.
LEMMA WaitingMoves ==
  ASSUME TypeOK, NEW k \in Connections, NEW s, stage' = [stage EXCEPT ![k] = s]
  PROVE  /\ stage[k] \in Uncounted /\ s \notin Uncounted
              => Cardinality(Waiting') = Cardinality(Waiting) - 1
         /\ stage[k] \notin Uncounted /\ s \in Uncounted
              => Cardinality(Waiting') = Cardinality(Waiting) + 1
         /\ (stage[k] \in Uncounted <=> s \in Uncounted) => Waiting' = Waiting
<1>1. stage[k] \in Uncounted /\ s \notin Uncounted
        => Waiting' = Waiting \ {k} /\ k \in Waiting
  BY DEF Waiting, TypeOK, Uncounted
<1>2. stage[k] \notin Uncounted /\ s \in Uncounted
        => Waiting' = Waiting \cup {k} /\ k \notin Waiting
  BY DEF Waiting, TypeOK, Uncounted
<1>3. (stage[k] \in Uncounted <=> s \in Uncounted) => Waiting' = Waiting
  BY DEF Waiting, TypeOK, Uncounted
<1> QED
  BY <1>1, <1>2, <1>3, FiniteCounts, FS_AddElement, FS_RemoveElement

\* A request is read: one more.
LEMMA OneMoreRead ==
  ASSUME TypeOK, NEW k \in Connections, requestCount[k] < MaxRequests,
         requestCount' = [requestCount EXCEPT ![k] = requestCount[k] + 1]
  PROVE  Cardinality(RequestsRead') = Cardinality(RequestsRead) + 1
<1> DEFINE new == <<k, requestCount[k] + 1>>
<1>1. requestCount[k] + 1 \in 1..MaxRequests
  BY GatewayAssumption DEF TypeOK
<1>2. new \notin RequestsRead
  BY DEF RequestsRead, TypeOK
<1>3. RequestsRead' = RequestsRead \cup {new}
  <2>1. ASSUME NEW j \in Connections, NEW n \in 1..MaxRequests
        PROVE  n <= requestCount'[j] <=> n <= requestCount[j] \/ <<j, n>> = new
    BY <1>1 DEF TypeOK
  <2> QED
    BY <1>1, <2>1 DEF RequestsRead
<1> HIDE DEF new
<1> QED
  BY <1>2, <1>3, FiniteCounts, FS_AddElement

\* Every step keeps the balance: a request is read and waits, and no longer
\* waits when it is counted; nothing else ends the wait.
LEMMA CountedStep ==
  ASSUME IInv, CountedOnce, [Next]_vars
  PROVE  CountedOnce'
<1> DEFINE W == Cardinality(Waiting)
           R == Cardinality(RequestsRead)
<1>n. /\ W \in Nat /\ R \in Nat /\ W' \in Nat /\ R' \in Nat /\ TypeOK
      /\ totalRequests \in Nat /\ totalErrors \in Nat /\ exempt \in Nat
  <2>1. (W \in Nat /\ R \in Nat)'
    BY FiniteCounts, PTL
  <2> QED
    BY <2>1, FiniteCounts DEF IInv, TypeOK
<1>b. /\ totalRequests + totalErrors + exempt + W = R
      /\ totalRequests' + totalErrors' + exempt' + W' = R' => CountedOnce'
  BY DEF CountedOnce, Waiting, RequestsRead
<1> HIDE DEF W, R
<1>1. CASE Waiting' = Waiting /\ UNCHANGED <<requestCount, counters>>
  <2>1. W' = W /\ R' = R
    BY <1>1 DEF W, R, RequestsRead
  <2> QED
    BY <1>1, <1>b, <2>1 DEF counters
<1>2. ASSUME NEW k \in Connections, NEW s,
             stage' = [stage EXCEPT ![k] = s],
             stage[k] \in Uncounted <=> s \in Uncounted,
             UNCHANGED <<requestCount, counters>>
      PROVE  CountedOnce'
  BY <1>1, <1>2, <1>n, WaitingMoves
<1>3. ASSUME NEW k \in Connections, RequestRead(k) PROVE CountedOnce'
  <2>1. R' = R + 1
    BY <1>3, <1>n, OneMoreRead DEF RequestRead, R
  <2>2. W' = W + 1
    BY <1>3, <1>n, WaitingMoves DEF RequestRead, Uncounted, W
  <2>3. UNCHANGED counters
    BY <1>3 DEF RequestRead
  <2> QED
    BY <1>b, <1>n, <2>1, <2>2, <2>3 DEF counters
<1>4. ASSUME NEW k \in Connections,
             AnswerEarly(k) \/ MiddlewareError(k) \/ RoutingThrows(k) \/ ProxyThrows(k)
               \/ (stage[k] = "responding" /\ ResponseReady(k))
      PROVE  CountedOnce'
  <2>1. PICK s \in {"answering", "sending"} :
          stage' = [stage EXCEPT ![k] = s] /\ stage[k] \in Uncounted
    BY <1>4 DEF AnswerEarly, MiddlewareError, RoutingThrows, ProxyThrows, ResponseReady,
       Uncounted
  <2>2. W' = W - 1
    BY <1>n, <2>1, WaitingMoves DEF Uncounted, W
  <2>3. R' = R
    BY <1>4 DEF AnswerEarly, MiddlewareError, RoutingThrows, ProxyThrows, ResponseReady,
       R, RequestsRead
  <2>4. totalRequests' + totalErrors' + exempt' = totalRequests + totalErrors + exempt + 1
    BY <1>4, <1>n DEF AnswerEarly, MiddlewareError, RoutingThrows, ProxyThrows, ResponseReady
  <2>5. totalRequests' \in Nat /\ totalErrors' \in Nat /\ exempt' \in Nat
    BY <1>4, <1>n DEF AnswerEarly, MiddlewareError, RoutingThrows, ProxyThrows, ResponseReady
  <2>6. totalRequests' + totalErrors' + exempt' + W' = R'
    <3>1. ASSUME NEW a \in Nat, NEW b \in Nat, a = b + 1 PROVE a + (W - 1) = b + W
      BY <1>n, <3>1
    <3>2. /\ totalRequests' + totalErrors' + exempt' \in Nat
          /\ totalRequests + totalErrors + exempt \in Nat
      <4>1. \A a, b, c \in Nat : a + b + c \in Nat
        OBVIOUS
      <4> QED
        BY <1>n, <2>5, <4>1
    <3> QED
      BY <1>b, <2>2, <2>3, <2>4, <3>1, <3>2
  <2> QED
    BY <1>b, <2>6
<1>5. ASSUME NEW k \in Connections, Resume(k) PROVE CountedOnce'
  <2>1. stage[k] = "away" /\ UNCHANGED <<requestCount, counters>>
    <3>1. pending = k /\ pending # NoConn /\ UNCHANGED <<requestCount, counters>>
      BY <1>5, GatewayAssumption DEF Resume, counters
    <3> QED
      BY <3>1 DEF IInv, PendingIsNew
  <2>2. PICK s \in {"refused", "reading", "ended"} : stage' = [stage EXCEPT ![k] = s]
    BY <1>5 DEF Resume, Refuse, Handle
  <2> QED
    BY <1>2, <2>1, <2>2 DEF Uncounted
<1>6. ASSUME NEW k \in Connections,
             \/ Forward(k) \/ ProxyAnswers(k) \/ ReadFails(k) \/ Sent(k) \/ SendFails(k)
             \/ (stage[k] # "responding" /\ ResponseReady(k))
      PROVE  CountedOnce'
  <2>1. UNCHANGED <<requestCount, counters>>
    BY <1>6, <1>n DEF Forward, ProxyAnswers, ReadFails, Sent, SendFails, ResponseReady, counters
  <2>2. PICK s \in Stages : /\ stage' = [stage EXCEPT ![k] = s]
                            /\ stage[k] \in Uncounted <=> s \in Uncounted
    BY <1>6 DEF Forward, ProxyAnswers, ReadFails, Sent, SendFails, ResponseReady, Finish,
       Uncounted, Stages, Handling
  <2> QED
    BY <1>2, <2>1, <2>2
<1>7. ASSUME NEW k \in Connections,
             Accept(k) \/ RequestTimeout(k) \/ \E n \in idleChecks[k] : CheckIdle(k, n)
      PROVE  CountedOnce'
  <2>1. UNCHANGED <<stage, requestCount, counters>>
    BY <1>7 DEF Accept, RequestTimeout, CheckIdle
  <2> QED
    BY <1>1, <2>1 DEF Waiting
<1>8. CASE \/ Start \/ Listen \/ StartFails \/ AcceptFails \/ Shutdown \/ ClearProxies
           \/ UNCHANGED vars
  <2>1. UNCHANGED <<stage, requestCount, counters>>
    BY <1>8 DEF Start, Listen, StartFails, AcceptFails, Shutdown, ClearProxies, vars,
       handlerVars
  <2> QED
    BY <1>1, <2>1 DEF Waiting
<1> QED
  BY <1>3, <1>4, <1>5, <1>6, <1>7, <1>8 DEF Next, Serve

\* Every request read is counted once, or exempt, for any number of connections
\* and requests, on every path through handleRequest and across a shutdown.
THEOREM EveryRequestCountedOnce == Spec => []CountedOnce
<1>1. Init => CountedOnce
  <2> SUFFICES ASSUME Init PROVE CountedOnce
    OBVIOUS
  <2>1. Waiting = {} /\ RequestsRead = {}
    BY DEF Init, Waiting, RequestsRead, Uncounted
  <2>2. Cardinality(Waiting) = 0 /\ Cardinality(RequestsRead) = 0
    BY <2>1, FS_EmptySet
  <2> QED
    BY <2>2 DEF Init, CountedOnce, Waiting
<1>2. IInv /\ CountedOnce /\ [Next]_vars => CountedOnce'
  BY CountedStep
<1> QED
  BY <1>1, <1>2, Inductive, PTL DEF Spec

-----------------------------------------------------------------------------
(* What the liveness properties rest on.                                    *)

(* A handler that waits for a request on an open socket has its timer.      *)
ReadersTimed == \A k \in open : stage[k] = "reading" => k \in timer

\* Whoever starts to read sets the timer; whoever takes it closes the socket,
\* or has read.
LEMMA ReadersStep == ASSUME IInv, ReadersTimed, [Next]_vars PROVE ReadersTimed'
<1> USE DEF ReadersTimed
<1>0. TypeOK
  BY DEF IInv
<1>1. CASE UNCHANGED handlerVars
  BY <1>1 DEF handlerVars
<1>2. CASE Start \/ Listen \/ StartFails \/ AcceptFails \/ ClearProxies \/ UNCHANGED vars
  BY <1>1, <1>2 DEF Start, Listen, StartFails, AcceptFails, ClearProxies, vars
<1>3. CASE Shutdown
  BY <1>3 DEF Shutdown
<1>4. ASSUME NEW k \in Connections, Accept(k) PROVE ReadersTimed'
  BY <1>4 DEF Accept
<1>5. ASSUME NEW k \in Connections, Resume(k) PROVE ReadersTimed'
  BY <1>0, <1>5 DEF Resume, Refuse, Handle, TypeOK
<1>6. ASSUME NEW k \in Connections, Finish(k), UNCHANGED timer PROVE ReadersTimed'
  BY <1>0, <1>6 DEF Finish, TypeOK
<1>7. ASSUME NEW k \in Connections, ReadFails(k) \/ SendFails(k) \/ Sent(k)
      PROVE  ReadersTimed'
  BY <1>0, <1>6, <1>7 DEF ReadFails, SendFails, Sent, TypeOK
<1>8. ASSUME NEW k \in Connections,
             RequestTimeout(k) \/ \E n \in idleChecks[k] : CheckIdle(k, n)
      PROVE  ReadersTimed'
  BY <1>8 DEF RequestTimeout, CheckIdle
<1>9. ASSUME NEW k \in Connections,
             \/ RequestRead(k) \/ AnswerEarly(k) \/ MiddlewareError(k)
             \/ Forward(k) \/ RoutingThrows(k)
             \/ ProxyAnswers(k) \/ ProxyThrows(k) \/ ResponseReady(k)
      PROVE  ReadersTimed'
  BY <1>0, <1>9 DEF RequestRead, AnswerEarly, MiddlewareError, Forward, RoutingThrows,
     ProxyAnswers, ProxyThrows, ResponseReady, TypeOK
<1> QED
  BY <1>2, <1>3, <1>4, <1>5, <1>7, <1>8, <1>9 DEF Next, Serve

\* No client keeps a handler reading for ever for want of a timer: on an open
\* socket one is pending, and RequestTimeout can happen. ReadsEnd needs this.
THEOREM ReadersAreTimed == Spec => []ReadersTimed
<1>1. Init => ReadersTimed
  BY DEF Init, ReadersTimed
<1>2. IInv /\ ReadersTimed /\ [Next]_vars => ReadersTimed'
  BY ReadersStep
<1> QED
  BY <1>1, <1>2, Inductive, PTL DEF Spec
=============================================================================
