---------------------------- MODULE ReverseProxy ----------------------------
(****************************************************************************)
(* A request on its way through ReverseProxy.handleRequest                  *)
(* (core/proxy_types/reverse_proxy.ts): the proxy's own retry loop, around  *)
(* the loop of retry() (core/network/utils/retry.ts) that UpstreamClient    *)
(* (core/network/external/upstream_client.ts) runs around its breaker's     *)
(* execute. The breaker is the one of CircuitBreaker, each execute a call.  *)
(*                                                                          *)
(* The route has one server: of what servers share, nothing else is         *)
(* modelled, and each has a breaker and balancer statistics of its own. The *)
(* balancer is one that counts active connections (least-connections,       *)
(* least-response-time). A delay ends at any later time.                    *)
(****************************************************************************)
EXTENDS Naturals, FiniteSets

CONSTANTS
  Requests,            \* requests that arrive
  MaxRetries,          \* config.maxRetries
  MaxCalls,            \* bound: breaker calls one request makes
  FailureThreshold, SuccessThreshold, Timeout, WindowSize, MaxTime

Attempts == [req : Requests, n : 1..MaxCalls]

ASSUME ProxyAssumption ==
  /\ IsFiniteSet(Requests)
  /\ MaxRetries \in Nat /\ MaxCalls \in Nat
  /\ FailureThreshold \in Nat \ {0} /\ SuccessThreshold \in Nat \ {0}
  /\ Timeout \in Nat /\ WindowSize \in Nat /\ MaxTime \in Nat

VARIABLES
  \* The breaker's:
  state, failures, successes, nextAttemptTime, now, call,
  endedAt, openedAt, overridden, recovered,
  \* The request's:
  stage,               \* stage[r]: where request r is
  outer,               \* outer[r]: attempt of handleRequest's loop, from 0
  inner,               \* inner[r]: attempt of retry()'s loop, from 0
  calls,               \* calls[r]: breaker calls made for r
  sends,               \* sends[r]: those that went to the upstream
  \* Shared by the requests:
  misread,             \* the breaker's rejection passes for a network error
  stats,               \* UpstreamClient.stats
  active               \* the balancer's activeConnections of the server

Breaker == INSTANCE CircuitBreaker WITH Calls <- Attempts

proxyVars == <<stage, outer, inner, calls, sends, misread, stats, active>>
breakerVars == <<state, failures, successes, nextAttemptTime, now, call,
                 endedAt, openedAt, overridden, recovered>>
vars == <<breakerVars, proxyVars>>

Upstream == {"connecting", "reading"}
InClient == Upstream \cup {"rejected", "backoff"}
InProxy == InClient \cup {"delay"}
Answered == {"ok", "bad_gateway", "unavailable"}

In(S) == {r \in Requests : stage[r] \in S}

Current(r) == [req |-> r, n |-> calls[r]]

-----------------------------------------------------------------------------
Init ==
  /\ Breaker!Init
  /\ stage = [r \in Requests |-> "new"]
  /\ outer = [r \in Requests |-> 0]
  /\ inner = [r \in Requests |-> 0]
  /\ calls = [r \in Requests |-> 0]
  /\ sends = [r \in Requests |-> 0]
  /\ misread \in BOOLEAN
  /\ stats = [totalRequests |-> 0, successfulRequests |-> 0,
              failedRequests |-> 0, activeConnections |-> 0]
  /\ active = 0

\* Mutant: the call goes ahead whatever the breaker's state.
makeUnguardedRequest(r) ==
  /\ calls[r] < MaxCalls
  /\ calls' = [calls EXCEPT ![r] = @ + 1]
  /\ call' = [call EXCEPT ![[req |-> r, n |-> calls[r] + 1]] = "running"]
  /\ stage' = [stage EXCEPT ![r] = "connecting"]
  /\ sends' = [sends EXCEPT ![r] = @ + 1]
  /\ UNCHANGED <<state, failures, successes, nextAttemptTime, now, endedAt,
                 openedAt, overridden, recovered>>

\* makeRequest up to its await: the breaker rejects the call, or lets it start
\* connecting.
makeRequest(r) ==
  LET c == [req |-> r, n |-> calls[r] + 1] IN
  /\ calls[r] < MaxCalls
  /\ calls' = [calls EXCEPT ![r] = @ + 1]
  /\ \/ /\ Breaker!Reject(c)
        /\ stage' = [stage EXCEPT ![r] = "rejected"]
        /\ UNCHANGED sends
     \/ /\ Breaker!Admit(c)
        /\ stage' = [stage EXCEPT ![r] = "connecting"]
        /\ sends' = [sends EXCEPT ![r] = @ + 1]

\* Mutant: no finally counts the request out.
leaveClientActive(outcome) == stats' = [stats EXCEPT ![outcome] = @ + 1]

\* UpstreamClient.request counts the request in, and out.
enterClient ==
  stats' = [stats EXCEPT !.totalRequests = @ + 1, !.activeConnections = @ + 1]

leaveClient(outcome) ==
  stats' = [stats EXCEPT ![outcome] = @ + 1, !.activeConnections = @ - 1]

\* recordSuccess and recordFailure: the balancer's count, floored at 0.
releaseServer == active' = IF active = 0 THEN 0 ELSE active - 1

\* Mutant: the failure is not recorded with the balancer.
ClientFailsUnrecorded(r) ==
  /\ leaveClient("failedRequests")
  /\ stage' = [stage EXCEPT ![r] = IF outer[r] < MaxRetries THEN "delay"
                                                         ELSE "bad_gateway"]
  /\ UNCHANGED active

\* UpstreamClient.request throws: handleRequest records it, and goes on after
\* a delay or answers 502.
ClientFails(r) ==
  /\ leaveClient("failedRequests")
  /\ releaseServer
  /\ \/ /\ outer[r] < MaxRetries
        /\ stage' = [stage EXCEPT ![r] = "delay"]
     \/ /\ outer[r] >= MaxRetries
        /\ stage' = [stage EXCEPT ![r] = "bad_gateway"]

-----------------------------------------------------------------------------
\* handleRequest finds no healthy server: 503.
Unavailable(r) ==
  /\ stage[r] = "new"
  /\ stage' = [stage EXCEPT ![r] = "unavailable"]
  /\ UNCHANGED <<breakerVars, outer, inner, calls, sends, misread, stats, active>>

\* handleRequest selects the server and makes its first attempt.
Begin(r) ==
  /\ stage[r] = "new"
  /\ active' = active + 1
  /\ enterClient
  /\ makeRequest(r)
  /\ UNCHANGED <<outer, inner, misread>>

\* The URL made of the request's is none, and new URL throws: the client counts
\* the request in and out, and nothing gets to the breaker.
BadUrl(r, attempt) ==
  /\ stats' = [stats EXCEPT !.totalRequests = @ + 1, !.failedRequests = @ + 1]
  /\ stage' = [stage EXCEPT ![r] = IF attempt < MaxRetries THEN "delay"
                                                         ELSE "bad_gateway"]
  /\ UNCHANGED <<breakerVars, inner, calls, sends, misread>>

\* So it is in the first attempt (the server is selected, and recorded to have
\* failed), and therefore in all.
BeginBadUrl(r) ==
  /\ stage[r] = "new"
  /\ BadUrl(r, 0)
  /\ UNCHANGED <<outer, active>>

DelayOverBadUrl(r) ==
  /\ stage[r] = "delay"
  /\ calls[r] = 0
  /\ BadUrl(r, outer[r] + 1)
  /\ outer' = [outer EXCEPT ![r] = @ + 1]
  /\ releaseServer

\* isRetryable has accepted an error: retry() sleeps, or gives up. Without
\* retries there is no loop, which comes to the same as one attempt.
RetryOrFail(r) ==
  \/ /\ inner[r] + 1 < MaxRetries
     /\ inner' = [inner EXCEPT ![r] = @ + 1]
     /\ stage' = [stage EXCEPT ![r] = "backoff"]
     /\ UNCHANGED <<stats, active>>
  \/ /\ inner[r] + 1 >= MaxRetries
     /\ ClientFails(r)
     /\ UNCHANGED inner

\* The breaker's rejection goes through retry() unretried, unless the server's
\* name, which is in its message, has a word isRetryable looks for.
Rejected(r) ==
  /\ stage[r] = "rejected"
  /\ \/ ~misread /\ ClientFails(r) /\ UNCHANGED inner
     \/ misread /\ RetryOrFail(r)
  /\ UNCHANGED <<breakerVars, outer, calls, sends, misread>>

\* executeRequest has connected, shaken hands and written the request. None
\* of these awaits has a timeout.
Connected(r) ==
  /\ stage[r] = "connecting"
  /\ stage' = [stage EXCEPT ![r] = "reading"]
  /\ UNCHANGED <<breakerVars, outer, inner, calls, sends, misread, stats, active>>

\* The response arrives, of whatever status.
Respond(r) ==
  /\ stage[r] = "reading"
  /\ Breaker!Succeed(Current(r))
  /\ leaveClient("successfulRequests")
  /\ releaseServer
  /\ stage' = [stage EXCEPT ![r] = "ok"]
  /\ UNCHANGED <<outer, inner, calls, sends, misread>>

\* Mutant: retry() runs once more than maxAttempts.
NetworkErrorOneMore(r) ==
  /\ stage[r] \in Upstream
  /\ Breaker!Fail(Current(r))
  /\ \/ /\ inner[r] < MaxRetries
        /\ inner' = [inner EXCEPT ![r] = @ + 1]
        /\ stage' = [stage EXCEPT ![r] = "backoff"]
        /\ UNCHANGED <<stats, active>>
     \/ inner[r] >= MaxRetries /\ ClientFails(r) /\ UNCHANGED inner
  /\ UNCHANGED <<outer, calls, sends, misread>>

\* Mutant: an attempt that is retried does not report to the breaker.
NetworkErrorUnreported(r) ==
  /\ stage[r] \in Upstream
  /\ inner[r] + 1 < MaxRetries
  /\ inner' = [inner EXCEPT ![r] = @ + 1]
  /\ stage' = [stage EXCEPT ![r] = "backoff"]
  /\ UNCHANGED <<breakerVars, outer, calls, sends, misread, stats, active>>

\* An error isRetryable accepts.
NetworkError(r) ==
  /\ stage[r] \in Upstream
  /\ Breaker!Fail(Current(r))
  /\ RetryOrFail(r)
  /\ UNCHANGED <<outer, calls, sends, misread>>

\* An error it does not accept.
OtherError(r) ==
  /\ stage[r] \in Upstream
  /\ Breaker!Fail(Current(r))
  /\ ClientFails(r)
  /\ UNCHANGED <<outer, inner, calls, sends, misread>>

\* Mutant: waiting for the response has no timeout.
NeverTimedOut(r) == FALSE /\ OtherError(r)

\* One of these is the timeout of the response: "Operation timed out after"
\* matches none of isRetryable's words.
TimedOut(r) == stage[r] = "reading" /\ OtherError(r)

\* retry()'s sleep ends.
BackoffOver(r) ==
  /\ stage[r] = "backoff"
  /\ makeRequest(r)
  /\ UNCHANGED <<outer, inner, misread, stats, active>>

\* handleRequest's delay ends; the server stays the one first selected.
DelayOver(r) ==
  /\ stage[r] = "delay"
  /\ calls[r] > 0
  /\ outer' = [outer EXCEPT ![r] = @ + 1]
  /\ inner' = [inner EXCEPT ![r] = 0]
  /\ enterClient
  /\ makeRequest(r)
  /\ UNCHANGED <<misread, active>>

Tick == Breaker!Tick /\ UNCHANGED proxyVars

Next ==
  \/ \E r \in Requests :
       \/ Unavailable(r) \/ Begin(r) \/ BeginBadUrl(r)
       \/ Rejected(r) \/ Connected(r) \/ Respond(r)
       \/ NetworkError(r) \/ OtherError(r)
       \/ BackoffOver(r) \/ DelayOver(r) \/ DelayOverBadUrl(r)
  \/ Tick

Spec == Init /\ [][Next]_vars

\* The timers fire and the promises settle. Nothing is assumed of the dial, the
\* handshake and the write.
Fairness ==
  \A r \in Requests :
    WF_vars(Rejected(r) \/ TimedOut(r) \/ BackoffOver(r) \/ DelayOver(r)
              \/ DelayOverBadUrl(r))

FairSpec == Spec /\ Fairness

-----------------------------------------------------------------------------
(* Properties.                                                              *)

\* Every variable has its type.
TypeOK ==
  /\ Breaker!TypeOK
  /\ stage \in [Requests -> {"new"} \cup InProxy \cup Answered]
  /\ outer \in [Requests -> 0..MaxRetries]
  /\ inner \in [Requests -> 0..MaxRetries]
  /\ calls \in [Requests -> 0..MaxCalls]
  /\ sends \in [Requests -> 0..MaxCalls]
  /\ misread \in BOOLEAN
  /\ stats \in [totalRequests : Nat, successfulRequests : Nat,
                failedRequests : Nat, activeConnections : Nat]
  /\ active \in Nat

\* Every request UpstreamClient counted in is still in it or counted out as a
\* success or a failure, on every path through the two loops and the breaker.
StatsBalance ==
  /\ stats.activeConnections = Cardinality(In(InClient))
  /\ stats.totalRequests = stats.successfulRequests + stats.failedRequests
                             + stats.activeConnections

\* A call the breaker let through is the current one of a request that will
\* settle it: no retry, timeout or rejection leaves one behind, and none is
\* settled for a request that moved on.
EveryAttemptReports ==
  {c \in Attempts : call[c] = "running"} = {Current(r) : r \in In(Upstream)}

\* The balancer never holds a server for busier than it is, though one selection
\* is followed by a recordFailure for every attempt.
NeverOvercounted == active <= Cardinality(In(InProxy))

\* The two loops multiply, and no path makes them do worse: a request reaches
\* the upstream at most (MaxRetries + 1) * max(1, MaxRetries) times.
AmplificationBound ==
  \A r \in Requests :
    sends[r] <= (MaxRetries + 1) * (IF MaxRetries = 0 THEN 1 ELSE MaxRetries)

\* While the breaker is open and its time has not come, nothing goes to the
\* upstream: neither a new request nor a retry of either loop.
RestWhileOpen ==
  [][state = "OPEN" /\ now < nextAttemptTime => sends' = sends]_vars

\* The requests use their breaker as its module has it, unattended: however they
\* overlap, a call is made once, through execute, and settled once, while it runs.
BreakerContract == Breaker!UnattendedSpec

\* Every request is answered, or is stuck in a dial, a handshake or a write.
EveryRequestAnswered ==
  \A r \in Requests :
    [](stage[r] # "new" =>
         <>(stage[r] \in Answered \/ [](stage[r] = "connecting")))
=============================================================================
