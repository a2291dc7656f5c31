----------------------------- MODULE RuntimeProofs -----------------------------
(****************************************************************************)
(* Proofs about Runtime for any gateway, any configuration and any overlap  *)
(* of start and shutdown.                                                   *)
(****************************************************************************)
EXTENDS Runtime, GatewayServerProofs

(* What a shutdown waits for says how far it is.                            *)
Underway ==
  /\ awaits # "nothing" => state # "STOPPED"
  /\ awaits = "metrics" => ~starting

(* The gateway is down once the shutdown was there, unless it was loading.  *)
Quiet ==
  awaits \in {"gateways", "metrics"} \/ state = "STOPPED"
    => found = "loading" \/ server \in {"off", "down", "failed"}

(* A graceful shutdown closes the metrics server after start is done.       *)
Unmetered ==
  state = "STOPPED" /\ graceful => metricsServer # "serving" /\ ~starting

RInv ==
  /\ RuntimeTypeOK
  /\ server \in {"off", "loading", "up", "broken", "down", "failed"}
  /\ Underway
  /\ Quiet
  /\ Unmetered

-----------------------------------------------------------------------------
\* The runtime does to the gateway only what GatewayServer says.
LEMMA GatewaySteps == RuntimeNext => [Next]_vars
<1> SUFFICES ASSUME RuntimeNext PROVE [Next]_vars
  OBVIOUS
<1>1. CASE start
  BY <1>1 DEF start, Next
<1>2. CASE shutdown \/ ForceNext
  BY <1>2 DEF shutdown, ForceNext, Reach, Next
<1>3. CASE Started \/ GracefulEnds \/ MetricsClosed \/ ForceEnds
  BY <1>3 DEF Started, GracefulEnds, MetricsClosed, ForceEnds
<1>4. CASE Gateway
  BY <1>4 DEF Gateway, Next
<1> QED
  BY <1>1, <1>2, <1>3, <1>4 DEF RuntimeNext

\* The invariant holds at first.
LEMMA RuntimeInitially == RuntimeInit => RInv
BY DEF RuntimeInit, Init, RInv, RuntimeTypeOK, Underway, Quiet, Unmetered

\* The shutdown of the gateway: down, or it was not running.
LEMMA Reached ==
  ASSUME Reach, RInv
  PROVE  /\ awaits' = "gateways" /\ found' = server
         /\ server' \in {"off", "loading", "down", "failed"}
         /\ server' = "loading" => server = "loading"
BY DEF Reach, RInv, Shutdown, running, vars, serverVars

\* The gateway by itself does not come up once it is past loading.
LEMMA GatewayStays ==
  ASSUME Gateway, RInv
  PROVE  /\ server' \in {"off", "loading", "up", "broken", "down", "failed"}
         /\ server \in {"off", "down", "failed"} => server' = server
<1>1. CASE Listen \/ (server = "loading" /\ StartFails) \/ AcceptFails \/ ClearProxies
  BY <1>1 DEF Listen, StartFails, AcceptFails, ClearProxies, RInv
<1>2. ASSUME NEW k \in Connections, Serve(k) PROVE server' = server
  BY <1>2 DEF Serve, Accept, Resume, RequestRead, ReadFails, RequestTimeout, AnswerEarly,
     MiddlewareError, Forward, RoutingThrows, ProxyAnswers, ProxyThrows, ResponseReady, Sent,
     SendFails, CheckIdle, serverVars
<1> QED
  BY <1>1, <1>2 DEF Gateway, RInv

\* Every step, the gateway's included, keeps the invariant.
LEMMA RuntimeStep == RInv /\ [RuntimeNext]_runtimeVars => RInv'
<1> SUFFICES ASSUME RInv, [RuntimeNext]_runtimeVars PROVE RInv'
  OBVIOUS
<1> USE DEF RInv, RuntimeTypeOK, Underway, Quiet, Unmetered, configVars, downVars
<1>1. CASE start
  <2>1. server' \in {"off", "loading", "up", "failed"}
    BY <1>1 DEF start, Start, StartFails, vars, serverVars
  <2>2. awaits = "nothing"
    BY <1>1 DEF start
  <2> QED
    BY <1>1, <2>1, <2>2 DEF start
<1>2. CASE Started
  BY <1>2 DEF Started, vars, serverVars
<1>3. CASE shutdown
  <2>1. CASE Reach /\ state' = "STOPPING"
    BY <1>3, <2>1, Reached DEF shutdown
  <2>2. CASE UNCHANGED <<vars, found>> /\ (UNCHANGED <<state, awaits>> \/
             (awaits' = "others" /\ state' = "STOPPING"))
    BY <1>3, <2>2 DEF shutdown, vars, serverVars
  <2> QED
    BY <1>3, <2>1, <2>2 DEF shutdown
<1>4. CASE ForceNext
  BY <1>4, Reached DEF ForceNext
<1>5. CASE GracefulEnds \/ MetricsClosed \/ ForceEnds
  BY <1>5 DEF GracefulEnds, MetricsClosed, ForceEnds, Stopped, vars, serverVars
<1>6. CASE Gateway
  BY <1>6, GatewayStays DEF Gateway, ownVars
<1>7. CASE UNCHANGED runtimeVars
  BY <1>7 DEF runtimeVars, ownVars, vars, serverVars
<1> QED
  BY <1>1, <1>2, <1>3, <1>4, <1>5, <1>6, <1>7 DEF RuntimeNext

\* The invariant holds always.
LEMMA RuntimeInductive == RuntimeSpec => []RInv
BY RuntimeInitially, RuntimeStep, PTL DEF RuntimeSpec

-----------------------------------------------------------------------------
\* The runtime with its gateway implements the gateway's own specification: what
\* is proved of GatewayServer holds under the runtime's calls.
THEOREM RuntimeImplementsGateway == RuntimeSpec => Spec
<1>1. RuntimeInit => Init
  BY DEF RuntimeInit
<1>2. [RuntimeNext]_runtimeVars => [Next]_vars
  BY GatewaySteps DEF runtimeVars
<1> QED
  BY <1>1, <1>2, PTL DEF RuntimeSpec, Spec

\* Every variable of the runtime has its type.
THEOREM RuntimeTypeCorrect == RuntimeSpec => []RuntimeTypeOK
BY RuntimeInductive, PTL DEF RInv

\* The gateway of a runtime keeps to its limit.
THEOREM RuntimeKeepsLimit == RuntimeSpec => []WithinLimit
BY RuntimeImplementsGateway, LimitHolds, PTL

\* A gateway that does not run holds no connection, whoever shut it down.
THEOREM RuntimeClosesConnections == RuntimeSpec => []DownMeansClosed
BY RuntimeImplementsGateway, ShutdownCloses, PTL

\* No request that was received is cut off by the request timer.
THEOREM RuntimeSparesRequests == RuntimeSpec => TimerSparesRequests
BY RuntimeImplementsGateway, TimersSpareRequests, PTL

\* Every request is counted once under the runtime's calls, too.
THEOREM RuntimeCountsOnce == RuntimeSpec => []CountedOnce
BY RuntimeImplementsGateway, EveryRequestCountedOnce, PTL

\* A stopped runtime serves nobody, unless its gateway was loading when the
\* shutdown got to it: by then it is down, and no step but start brings it up.
THEOREM StoppedMeansDown == RuntimeSpec => []StoppedServesNobody
<1>1. RInv /\ DownMeansClosed => StoppedServesNobody
  BY DEF RInv, Quiet, DownMeansClosed, StoppedServesNobody, running
<1> QED
  BY <1>1, RuntimeInductive, RuntimeClosesConnections, PTL

\* A graceful shutdown leaves no metrics server.
THEOREM MetricsAreStopped == RuntimeSpec => []MetricsGoDown
<1>1. RInv => MetricsGoDown
  BY DEF RInv, Unmetered, MetricsGoDown
<1> QED
  BY <1>1, RuntimeInductive, PTL

-----------------------------------------------------------------------------
(* What the liveness property rests on.                                     *)

(* A shutdown whose promise is pending awaits something, a graceful one its *)
(* gateways or the metrics server, and the runtime is not called STOPPED.   *)
ShutdownAwaits ==
  /\ shutdownPromise = "pending" <=> awaits # "nothing"
  /\ shutdownPromise = "pending" => state # "STOPPED"
  /\ graceful => awaits # "others"

\* No shutdown is pending that awaits nothing, and none resolves before it is
\* through: with StopsOnceAsked, which TLC checks under fairness.
THEOREM ShutdownIsUnderway == RuntimeSpec => []ShutdownAwaits
<1>1. RuntimeInit => ShutdownAwaits
  BY DEF RuntimeInit, ShutdownAwaits
<1>2. RInv /\ ShutdownAwaits /\ [RuntimeNext]_runtimeVars => ShutdownAwaits'
  <2> SUFFICES ASSUME RInv, ShutdownAwaits, [RuntimeNext]_runtimeVars PROVE ShutdownAwaits'
    OBVIOUS
  <2> USE DEF ShutdownAwaits, configVars, downVars
  <2>1. CASE start \/ Started
    BY <2>1 DEF start, Started
  <2>2. CASE shutdown
    BY <2>2 DEF shutdown, Reach
  <2>3. CASE ForceNext
    BY <2>3 DEF ForceNext, Reach
  <2>4. CASE GracefulEnds \/ MetricsClosed \/ ForceEnds
    BY <2>4 DEF GracefulEnds, MetricsClosed, ForceEnds, Stopped
  <2>5. CASE Gateway \/ UNCHANGED runtimeVars
    BY <2>5 DEF Gateway, runtimeVars, ownVars
  <2> QED
    BY <2>1, <2>2, <2>3, <2>4, <2>5 DEF RuntimeNext
<1> QED
  BY <1>1, <1>2, RuntimeInductive, PTL DEF RuntimeSpec
=============================================================================
