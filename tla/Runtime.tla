------------------------------ MODULE Runtime ------------------------------
(****************************************************************************)
(* The proxy engine's runtime (core/runtime/runtime.ts) and one of the      *)
(* gateways it starts and shuts down, with its connections.                 *)
(*                                                                          *)
(* start and shutdown may be called at any time, shutdown also in the turn  *)
(* in which start was called, and by a signal; not by a listener of the     *)
(* runtime's own events. What start still does after its awaits comes in    *)
(* that turn, and before anything a shutdown does after its own, which has  *)
(* more of them to go through. The other gateways are seen only in the time *)
(* the runtime waits for them.                                              *)
(****************************************************************************)
EXTENDS GatewayServer

VARIABLES
  graceful,         \* config.gracefulShutdown
  metrics,          \* config.metrics and config.metricsPort
  state,            \* RuntimeState
  starting,         \* start awaits startGateways or startMetricsServer
  metricsServer,    \* "none", "serving" or "closed"
  shutdownPromise,  \* "none", "pending" or "resolved"
  awaits,           \* what the shutdown awaits: "others", the gateways before
                    \* this one, "gateways", "metrics" or "nothing"
  found             \* the server's state when the shutdown got to it (not in
                    \* the code)

configVars == <<graceful, metrics>>
downVars == <<shutdownPromise, awaits, found>>
ownVars == <<configVars, state, starting, metricsServer, downVars>>
runtimeVars == <<vars, ownVars>>

RuntimeInit ==
  /\ Init
  /\ graceful \in BOOLEAN /\ metrics \in BOOLEAN
  /\ state = "STOPPED"
  /\ starting = FALSE
  /\ metricsServer = "none"
  /\ shutdownPromise = "none" /\ awaits = "nothing"
  /\ found = "off"

-----------------------------------------------------------------------------
\* start up to its first await: the gateway is constructed, which may throw,
\* and its start called, whose failure is only logged. Bound: a gateway is
\* started once, where a second start would construct another one.
start ==
  /\ ~starting
  /\ state = "STOPPED" /\ server = "off"
  /\ state' = "STARTING"
  /\ starting' = TRUE
  /\ Start \/ StartFails \/ UNCHANGED vars
  /\ UNCHANGED <<configVars, metricsServer, downVars>>

\* The rest of start: an error of the constructor or of the metrics server
\* makes it fail; otherwise the runtime is RUNNING, whatever it was meanwhile.
Started ==
  /\ starting
  /\ starting' = FALSE
  /\ \/ /\ server = "off" \/ metrics
        /\ state' = "ERROR"
        /\ UNCHANGED metricsServer
     \/ /\ server # "off"
        /\ state' = "RUNNING"
        /\ metricsServer' = IF metrics THEN "serving" ELSE metricsServer
  /\ UNCHANGED <<vars, configVars, downVars>>

\* The shutdown gets to the gateway, whose shutdown does nothing unless it runs.
Reach ==
  /\ awaits' = "gateways"
  /\ found' = server
  /\ Shutdown \/ (~running /\ UNCHANGED vars)

\* shutdown, the first time it is called. A stopped runtime has nothing to do,
\* and keeps the promise of having done it; any other begins with its gateways:
\* all at once, or one after the other. Called again it returns the promise.
shutdown ==
  /\ shutdownPromise = "none"
  /\ \/ /\ state = "STOPPED"
        /\ shutdownPromise' = "resolved"
        /\ UNCHANGED <<vars, state, awaits, found>>
     \/ /\ state # "STOPPED"
        /\ shutdownPromise' = "pending"
        /\ state' = "STOPPING"
        /\ \/ Reach
           \/ ~graceful /\ awaits' = "others" /\ UNCHANGED <<vars, found>>
  /\ UNCHANGED <<configVars, starting, metricsServer>>

\* The forced shutdown is done with the gateways before this one.
ForceNext ==
  /\ ~starting
  /\ awaits = "others"
  /\ Reach
  /\ UNCHANGED <<configVars, state, starting, metricsServer, shutdownPromise>>

\* The end of performShutdown.
Stopped ==
  /\ state' = "STOPPED"
  /\ shutdownPromise' = "resolved"
  /\ awaits' = "nothing"

\* Mutant: the gateways are awaited without a timeout.
GracefulEndsUntimed ==
  /\ ~starting
  /\ graceful /\ awaits = "gateways" /\ ~stopping
  /\ IF metricsServer = "serving"
     THEN awaits' = "metrics" /\ UNCHANGED <<state, shutdownPromise>>
     ELSE Stopped
  /\ UNCHANGED <<vars, configVars, starting, metricsServer, found>>

\* Mutant: the timeout ends the shutdown as a whole.
GracefulEndsAtTimeout ==
  /\ ~starting
  /\ graceful /\ awaits = "gateways"
  /\ IF metricsServer = "serving" /\ ~stopping
     THEN awaits' = "metrics" /\ UNCHANGED <<state, shutdownPromise>>
     ELSE Stopped
  /\ UNCHANGED <<vars, configVars, starting, metricsServer, found>>

\* All gateways are down, or the timeout of the graceful shutdown has come.
GracefulEnds ==
  /\ ~starting
  /\ graceful /\ awaits = "gateways"
  /\ IF metricsServer = "serving"
     THEN awaits' = "metrics" /\ UNCHANGED <<state, shutdownPromise>>
     ELSE Stopped
  /\ UNCHANGED <<vars, configVars, starting, metricsServer, found>>

MetricsClosed ==
  /\ awaits = "metrics"
  /\ metricsServer' = "closed"
  /\ Stopped
  /\ UNCHANGED <<vars, configVars, starting, found>>

\* Mutant: the loop ends with the gateways it has awaited so far.
ForceEndsEarly ==
  /\ ~starting
  /\ ~graceful /\ awaits \in {"others", "gateways"}
  /\ ~stopping
  /\ Stopped
  /\ UNCHANGED <<vars, configVars, starting, metricsServer, found>>

\* The forced shutdown has awaited this gateway and those after it. It has no
\* timeout, and leaves the metrics server.
ForceEnds ==
  /\ ~starting
  /\ ~graceful /\ awaits = "gateways"
  /\ ~stopping
  /\ Stopped
  /\ UNCHANGED <<vars, configVars, starting, metricsServer, found>>

\* The gateway goes on by itself.
Gateway ==
  /\ ~starting
  /\ \/ Listen \/ (server = "loading" /\ StartFails) \/ AcceptFails \/ ClearProxies
     \/ \E k \in Connections : Serve(k)
  /\ UNCHANGED ownVars

-----------------------------------------------------------------------------
RuntimeNext ==
  \/ start \/ Started \/ shutdown
  \/ ForceNext \/ GracefulEnds \/ MetricsClosed \/ ForceEnds
  \/ Gateway

RuntimeSpec == RuntimeInit /\ [][RuntimeNext]_runtimeVars

\* The runtime's timer fires and its promises settle; of the gateway, what
\* GatewayServer assumes. Proxies may take for ever to shut down, and so may
\* the clients of the metrics server.
RuntimeFairness ==
  /\ Fairness
  /\ WF_runtimeVars(Started)
  /\ WF_runtimeVars(GracefulEnds)

RuntimeFairSpec == RuntimeSpec /\ RuntimeFairness

-----------------------------------------------------------------------------
(* Properties.                                                              *)

\* Every variable has its type.
RuntimeTypeOK ==
  /\ graceful \in BOOLEAN /\ metrics \in BOOLEAN /\ starting \in BOOLEAN
  /\ state \in {"STOPPED", "STARTING", "RUNNING", "STOPPING", "ERROR"}
  /\ metricsServer \in {"none", "serving", "closed"}
  /\ shutdownPromise \in {"none", "pending", "resolved"}
  /\ awaits \in {"nothing", "others", "gateways", "metrics"}
  /\ found \in {"off", "loading", "up", "broken", "down", "failed"}

\* A runtime that is STOPPED serves nobody, however its shutdown and its start
\* overlapped, and whether or not the timeout ended it. The exception: a
\* gateway that was still loading its TLS files ignored the shutdown, and
\* listens afterwards.
StoppedServesNobody ==
  state = "STOPPED" /\ found # "loading" => ~running /\ open \subseteq {pending}

\* A graceful shutdown leaves no metrics server behind, not even one that came
\* up while it was waiting or when a gateway kept it waiting too long.
MetricsGoDown ==
  state = "STOPPED" /\ graceful => metricsServer # "serving"

\* A graceful shutdown that has begun gets past the gateways even when their
\* proxies hang, and then the runtime is STOPPED, though a start in the same
\* turn has called it RUNNING meanwhile.
StopsOnceAsked ==
  graceful /\ shutdownPromise = "pending"
    ~> awaits = "metrics" \/ (shutdownPromise = "resolved" /\ state = "STOPPED")
=============================================================================
