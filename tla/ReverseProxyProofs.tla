------------------------- MODULE ReverseProxyProofs -------------------------
(****************************************************************************)
(* Proofs about ReverseProxy for any number of requests, any number of      *)
(* retries and any breaker. What is proved of the breaker alone is taken    *)
(* from CircuitBreakerProofs.                                               *)
(****************************************************************************)
EXTENDS ReverseProxy, FiniteSetTheorems, TLAPS

Proved == INSTANCE CircuitBreakerProofs WITH Calls <- Attempts

\* Attempts of retry()'s loop in one attempt of handleRequest's.
Rounds == IF MaxRetries = 0 THEN 1 ELSE MaxRetries

(* The calls the breaker has running are the current ones of the requests   *)
(* upstream.                                                                *)
Ledger ==
  /\ \A r \in Requests : stage[r] \in Upstream => calls[r] \in 1..MaxCalls
  /\ \A c \in Attempts :
       call[c] = "running" <=> c.n = calls[c.req] /\ stage[c.req] \in Upstream

(* The calls of its breaker that a request may have made in one attempt of  *)
(* handleRequest's loop, by how far it is in retry()'s.                     *)
Used(r) ==
  IF stage[r] \in Upstream \cup {"rejected"} THEN inner[r] + 1
  ELSE IF stage[r] \in {"new", "backoff"} THEN inner[r]
  ELSE Rounds

BudgetOf(r) ==
  /\ inner[r] < Rounds
  /\ sends[r] <= calls[r]
  /\ calls[r] <= outer[r] * Rounds + Used(r)
  /\ stage[r] = "delay" => outer[r] < MaxRetries
  /\ stage[r] = "new" => outer[r] = 0

Budget == \A r \in Requests : BudgetOf(r)

IInv ==
  /\ TypeOK
  /\ Ledger
  /\ Budget
  /\ StatsBalance
  /\ NeverOvercounted

-----------------------------------------------------------------------------
\* There are finitely many calls.
LEMMA AttemptsFinite == IsFiniteSet(Attempts)
<1> DEFINE P == Requests \X (1..MaxCalls)
           f == [p \in P |-> [req |-> p[1], n |-> p[2]]]
<1>1. IsFiniteSet(P)
  <2>1. IsFiniteSet(1..MaxCalls)
    BY ProxyAssumption, FS_Interval
  <2> QED
    BY <2>1, ProxyAssumption, FS_Product
<1>2. f \in [P -> Attempts] /\ \A c \in Attempts : \E p \in P : f[p] = c
  <2>1. f \in [P -> Attempts]
    BY DEF Attempts
  <2>2. ASSUME NEW c \in Attempts PROVE \E p \in P : f[p] = c
    <3>1. <<c.req, c.n>> \in P /\ f[<<c.req, c.n>>] = c
      BY DEF Attempts
    <3> QED
      BY <3>1
  <2> QED
    BY <2>1, <2>2
<1>3. f \in Surjection(P, Attempts)
  BY <1>2 DEF Surjection
<1> HIDE DEF P, f
<1> QED
  BY <1>1, <1>3, FS_Surjection

\* The breaker's module has its own name for this.
LEMMA BreakerConstants == Proved!IsFiniteSet(Attempts)
<1>1. IsFiniteSet(Attempts) <=> Proved!IsFiniteSet(Attempts)
  BY DEF IsFiniteSet, Proved!IsFiniteSet
<1> QED
  BY <1>1, AttemptsFinite

\* The breaker the proxy runs is the one proved correct.
LEMMA SameBreaker ==
  /\ Breaker!TypeOK <=> Proved!TypeOK
  /\ \A c \in Attempts :
       /\ Breaker!Reject(c) => Proved!Reject(c)
       /\ Breaker!Admit(c) => Proved!Admit(c)
       /\ Breaker!Succeed(c) => Proved!Succeed(c)
       /\ Breaker!Fail(c) => Proved!Fail(c)
  /\ Breaker!Tick => Proved!Tick
<1>1. Breaker!TypeOK <=> Proved!TypeOK
  BY DEF Breaker!TypeOK, Proved!TypeOK
<1>2. ASSUME NEW c \in Attempts
      PROVE  /\ Breaker!Reject(c) => Proved!Reject(c)
             /\ Breaker!Admit(c) => Proved!Admit(c)
  BY DEF Breaker!Reject, Proved!Reject, Breaker!Admit, Proved!Admit,
         Breaker!history, Proved!history
<1>3. ASSUME NEW c \in Attempts PROVE Breaker!Succeed(c) => Proved!Succeed(c)
  BY DEF Breaker!Succeed, Proved!Succeed, Breaker!onSuccess, Proved!onSuccess,
         Breaker!ResetCounters, Proved!ResetCounters, Breaker!cleanFailures,
         Proved!cleanFailures
<1>a. \A S : Breaker!Cardinality(S) = Proved!Cardinality(S)
  BY DEF Breaker!Cardinality, Proved!Cardinality
<1>4. ASSUME NEW c \in Attempts PROVE Breaker!Fail(c) => Proved!Fail(c)
  BY <1>a DEF Breaker!Fail, Proved!Fail, Breaker!onFailure, Proved!onFailure,
         Breaker!Trip, Proved!Trip, Breaker!cleanFailures, Proved!cleanFailures
<1>5. Breaker!Tick => Proved!Tick
  BY DEF Breaker!Tick, Proved!Tick, Breaker!history, Proved!history
<1> QED
  BY <1>1, <1>2, <1>3, <1>4, <1>5

-----------------------------------------------------------------------------
\* Where a request goes when its stage changes, and what that does to a count.
LEMMA Moving ==
  ASSUME NEW r \in Requests, NEW s, NEW S, stage' = [stage EXCEPT ![r] = s],
         TypeOK
  PROVE  /\ Cardinality(In(S)) \in Nat /\ Cardinality(In(S)') \in Nat
         /\ (stage[r] \in S <=> s \in S) => In(S)' = In(S)
         /\ stage[r] \notin S /\ s \in S
              => Cardinality(In(S)') = Cardinality(In(S)) + 1
         /\ stage[r] \in S /\ s \notin S
              => /\ Cardinality(In(S)') = Cardinality(In(S)) - 1
                 /\ Cardinality(In(S)) >= 1
<1>1. In(S) \subseteq Requests /\ In(S)' \subseteq Requests
  BY DEF In
<1>2. IsFiniteSet(In(S)) /\ IsFiniteSet(In(S)')
  BY <1>1, ProxyAssumption, FS_Subset
<1>3. Cardinality(In(S)) \in Nat /\ Cardinality(In(S)') \in Nat
  BY <1>2, FS_CardinalityType
<1>4. (stage[r] \in S <=> s \in S) => In(S)' = In(S)
  BY DEF In, TypeOK
<1>5. ASSUME stage[r] \notin S, s \in S
      PROVE  Cardinality(In(S)') = Cardinality(In(S)) + 1
  <2>1. r \notin In(S) /\ In(S)' = In(S) \cup {r}
    BY <1>5 DEF In, TypeOK
  <2> QED
    BY <2>1, <1>2, FS_AddElement
<1>6. ASSUME stage[r] \in S, s \notin S
      PROVE  Cardinality(In(S)') = Cardinality(In(S)) - 1 /\ Cardinality(In(S)) >= 1
  <2>1. r \in In(S) /\ In(S)' = In(S) \ {r}
    BY <1>6 DEF In, TypeOK
  <2>2. Cardinality(In(S)') = Cardinality(In(S)) - 1
    BY <2>1, <1>2, FS_RemoveElement
  <2> QED
    BY <2>2, <1>3
<1> QED
  BY <1>3, <1>4, <1>5, <1>6

\* A request that leaves the client, counted as one outcome or the other, and
\* the proxy or not.
LEMMA Leaving ==
  ASSUME IInv, NEW r \in Requests, stage[r] \in InClient,
         NEW s \in {"delay", "bad_gateway", "ok"},
         stage' = [stage EXCEPT ![r] = s], releaseServer,
         NEW o \in {"successfulRequests", "failedRequests"}, leaveClient(o)
  PROVE  /\ StatsBalance' /\ NeverOvercounted'
         /\ stats' \in [totalRequests : Nat, successfulRequests : Nat,
                         failedRequests : Nat, activeConnections : Nat]
         /\ active' \in Nat
<1>0. TypeOK /\ StatsBalance /\ NeverOvercounted
  BY DEF IInv
<1>1. s \notin InClient /\ stage[r] \in InProxy
  BY DEF InClient, InProxy, Upstream
<1>2. /\ Cardinality(In(InClient)) \in Nat
      /\ Cardinality(In(InClient)') = Cardinality(In(InClient)) - 1
      /\ Cardinality(In(InClient)) >= 1
  BY <1>0, <1>1, Moving
<1>3. /\ stats' \in [totalRequests : Nat, successfulRequests : Nat,
                      failedRequests : Nat, activeConnections : Nat]
      /\ StatsBalance'
  <2>1. /\ stats.totalRequests \in Nat /\ stats.successfulRequests \in Nat
        /\ stats.failedRequests \in Nat /\ stats.activeConnections \in Nat
    BY <1>0 DEF TypeOK
  <2>2. stats.activeConnections >= 1
    BY <1>0, <1>2 DEF StatsBalance
  <2>3. CASE o = "successfulRequests"
    <3>1. /\ stats'.totalRequests = stats.totalRequests
          /\ stats'.successfulRequests = stats.successfulRequests + 1
          /\ stats'.failedRequests = stats.failedRequests
          /\ stats'.activeConnections = stats.activeConnections - 1
          /\ stats' = [totalRequests |-> stats'.totalRequests,
                       successfulRequests |-> stats'.successfulRequests,
                       failedRequests |-> stats'.failedRequests,
                       activeConnections |-> stats'.activeConnections]
      BY <1>0, <2>3 DEF TypeOK, leaveClient
    <3> QED
      BY <1>0, <1>2, <2>1, <2>2, <3>1 DEF StatsBalance
  <2>4. CASE o = "failedRequests"
    <3>1. /\ stats'.totalRequests = stats.totalRequests
          /\ stats'.successfulRequests = stats.successfulRequests
          /\ stats'.failedRequests = stats.failedRequests + 1
          /\ stats'.activeConnections = stats.activeConnections - 1
          /\ stats' = [totalRequests |-> stats'.totalRequests,
                       successfulRequests |-> stats'.successfulRequests,
                       failedRequests |-> stats'.failedRequests,
                       activeConnections |-> stats'.activeConnections]
      BY <1>0, <2>4 DEF TypeOK, leaveClient
    <3> QED
      BY <1>0, <1>2, <2>1, <2>2, <3>1 DEF StatsBalance
  <2> QED
    BY <2>3, <2>4
<1>4. active' \in Nat /\ NeverOvercounted'
  <2>1. /\ Cardinality(In(InProxy)) \in Nat /\ Cardinality(In(InProxy)') \in Nat
        /\ Cardinality(In(InProxy)') >= Cardinality(In(InProxy)) - 1
    <3>1. Cardinality(In(InProxy)) \in Nat /\ Cardinality(In(InProxy)') \in Nat
      BY <1>0, Moving
    <3>2. \/ In(InProxy)' = In(InProxy)
          \/ Cardinality(In(InProxy)') = Cardinality(In(InProxy)) - 1
      BY <1>0, <1>1, Moving
    <3>3. \/ Cardinality(In(InProxy)') = Cardinality(In(InProxy))
          \/ Cardinality(In(InProxy)') = Cardinality(In(InProxy)) - 1
      BY <3>2
    <3> QED
      BY <3>1, <3>3
  <2>2. active \in Nat /\ active <= Cardinality(In(InProxy))
    BY <1>0 DEF TypeOK, NeverOvercounted
  <2>3. active' = IF active = 0 THEN 0 ELSE active - 1
    BY DEF releaseServer
  <2>4. active' \in Nat /\ active' <= Cardinality(In(InProxy)')
    BY <2>1, <2>2, <2>3
  <2> QED
    BY <2>4 DEF NeverOvercounted
<1> QED
  BY <1>3, <1>4

\* A request that enters the client, new to the proxy or not.
LEMMA Entering ==
  ASSUME IInv, NEW r \in Requests, stage[r] \notin InClient, enterClient,
         NEW s \in {"rejected", "connecting"}, stage' = [stage EXCEPT ![r] = s]
  PROVE  /\ StatsBalance'
         /\ stats' \in [totalRequests : Nat, successfulRequests : Nat,
                         failedRequests : Nat, activeConnections : Nat]
<1>0. TypeOK /\ StatsBalance
  BY DEF IInv
<1>1. s \in InClient
  BY DEF InClient, Upstream
<1>2. /\ Cardinality(In(InClient)) \in Nat
      /\ Cardinality(In(InClient)') = Cardinality(In(InClient)) + 1
  BY <1>0, <1>1, Moving
<1>3. /\ stats.totalRequests \in Nat /\ stats.successfulRequests \in Nat
      /\ stats.failedRequests \in Nat /\ stats.activeConnections \in Nat
  BY <1>0 DEF TypeOK
<1>4. /\ stats'.totalRequests = stats.totalRequests + 1
      /\ stats'.successfulRequests = stats.successfulRequests
      /\ stats'.failedRequests = stats.failedRequests
      /\ stats'.activeConnections = stats.activeConnections + 1
      /\ stats' = [totalRequests |-> stats'.totalRequests,
                   successfulRequests |-> stats'.successfulRequests,
                   failedRequests |-> stats'.failedRequests,
                   activeConnections |-> stats'.activeConnections]
  BY <1>0 DEF TypeOK, enterClient
<1> QED
  BY <1>0, <1>2, <1>3, <1>4 DEF StatsBalance

\* A request that the client counts in and out at once.
LEMMA InAndOut ==
  ASSUME IInv, NEW r \in Requests, stage[r] \in {"new", "delay"}, NEW k, BadUrl(r, k)
  PROVE  /\ StatsBalance'
         /\ stats' \in [totalRequests : Nat, successfulRequests : Nat,
                         failedRequests : Nat, activeConnections : Nat]
<1>0. TypeOK /\ StatsBalance
  BY DEF IInv
<1>1. PICK s \in {"delay", "bad_gateway"} : stage' = [stage EXCEPT ![r] = s]
  BY DEF BadUrl
<1>2. (stage[r] \in InClient <=> s \in InClient)
  BY DEF InClient, Upstream
<1>3. In(InClient)' = In(InClient) /\ Cardinality(In(InClient)) \in Nat
  BY <1>0, <1>1, <1>2, Moving
<1>4. /\ stats.totalRequests \in Nat /\ stats.successfulRequests \in Nat
      /\ stats.failedRequests \in Nat /\ stats.activeConnections \in Nat
  BY <1>0 DEF TypeOK
<1>5. /\ stats'.totalRequests = stats.totalRequests + 1
      /\ stats'.successfulRequests = stats.successfulRequests
      /\ stats'.failedRequests = stats.failedRequests + 1
      /\ stats'.activeConnections = stats.activeConnections
      /\ stats' = [totalRequests |-> stats'.totalRequests,
                   successfulRequests |-> stats'.successfulRequests,
                   failedRequests |-> stats'.failedRequests,
                   activeConnections |-> stats'.activeConnections]
  BY <1>0 DEF TypeOK, BadUrl
<1> QED
  BY <1>0, <1>3, <1>4, <1>5 DEF StatsBalance

\* A step that leaves every request and every count as they are.
LEMMA Standing ==
  ASSUME IInv, UNCHANGED <<stats, active>>,
         In(InClient)' = In(InClient), In(InProxy)' = In(InProxy)
  PROVE  /\ StatsBalance' /\ NeverOvercounted'
         /\ stats' \in [totalRequests : Nat, successfulRequests : Nat,
                         failedRequests : Nat, activeConnections : Nat]
         /\ active' \in Nat
BY DEF IInv, TypeOK, StatsBalance, NeverOvercounted

\* The counters of the client and of the balancer.
LEMMA CountsStep ==
  ASSUME IInv, [Next]_vars
  PROVE  /\ StatsBalance' /\ NeverOvercounted'
         /\ stats' \in [totalRequests : Nat, successfulRequests : Nat,
                         failedRequests : Nat, activeConnections : Nat]
         /\ active' \in Nat
<1> DEFINE Goal ==
      /\ StatsBalance' /\ NeverOvercounted'
      /\ stats' \in [totalRequests : Nat, successfulRequests : Nat,
                      failedRequests : Nat, activeConnections : Nat]
      /\ active' \in Nat
<1>0. TypeOK /\ NeverOvercounted
  BY DEF IInv
<1> USE DEF InClient, InProxy, Upstream
<1>1. ASSUME NEW r \in Requests, Unavailable(r) PROVE Goal
  <2>a. /\ stage' = [stage EXCEPT ![r] = "unavailable"]
        /\ stage[r] \notin InProxy /\ "unavailable" \notin InProxy
    BY <1>1 DEF Unavailable
  <2>b. stage[r] \notin InClient /\ "unavailable" \notin InClient
    BY <2>a
  <2>1. In(InClient)' = In(InClient) /\ In(InProxy)' = In(InProxy)
    BY <1>0, <2>a, <2>b, Moving
  <2> QED
    BY <1>1, <2>1, Standing DEF Unavailable
<1>2. ASSUME NEW r \in Requests, Begin(r) PROVE Goal
  <2>1. PICK s \in {"rejected", "connecting"} : stage' = [stage EXCEPT ![r] = s]
    BY <1>2 DEF Begin, makeRequest
  <2>2. /\ StatsBalance'
        /\ stats' \in [totalRequests : Nat, successfulRequests : Nat,
                        failedRequests : Nat, activeConnections : Nat]
    BY <1>2, <2>1, Entering DEF Begin
  <2>3. /\ Cardinality(In(InProxy)) \in Nat
        /\ Cardinality(In(InProxy)') = Cardinality(In(InProxy)) + 1
    BY <1>0, <1>2, <2>1, Moving DEF Begin
  <2>4. active' \in Nat /\ active' <= Cardinality(In(InProxy)')
    BY <1>0, <1>2, <2>3 DEF Begin, TypeOK, NeverOvercounted
  <2> QED
    BY <2>2, <2>4 DEF NeverOvercounted
<1>3. ASSUME NEW r \in Requests, stage[r] \in InClient, ClientFails(r) PROVE Goal
  <2>1. PICK s \in {"delay", "bad_gateway"} : stage' = [stage EXCEPT ![r] = s]
    BY <1>3 DEF ClientFails
  <2>2. /\ s \in {"delay", "bad_gateway", "ok"}
        /\ releaseServer /\ leaveClient("failedRequests")
    BY <1>3 DEF ClientFails
  <2> QED
    BY <1>3, <2>1, <2>2, Leaving
<1>4. ASSUME NEW r \in Requests, OtherError(r) PROVE Goal
  BY <1>3, <1>4 DEF OtherError
<1>5. ASSUME NEW r \in Requests, Connected(r) PROVE Goal
  <2>1. In(InClient)' = In(InClient) /\ In(InProxy)' = In(InProxy)
    BY <1>0, <1>5, Moving DEF Connected
  <2> QED
    BY <1>5, <2>1, Standing DEF Connected
<1>6. ASSUME NEW r \in Requests, Respond(r) PROVE Goal
  BY <1>6, Leaving DEF Respond
<1>7. ASSUME NEW r \in Requests, NetworkError(r) \/ Rejected(r) PROVE Goal
  <2>0. stage[r] \in InClient
    BY <1>7 DEF NetworkError, Rejected
  <2>1. CASE ClientFails(r)
    BY <1>3, <2>0, <2>1
  <2>2. CASE stage' = [stage EXCEPT ![r] = "backoff"] /\ UNCHANGED <<stats, active>>
    <3>1. In(InClient)' = In(InClient) /\ In(InProxy)' = In(InProxy)
      BY <1>0, <2>0, <2>2, Moving
    <3> QED
      BY <2>2, <3>1, Standing
  <2> QED
    BY <1>7, <2>1, <2>2 DEF NetworkError, Rejected, RetryOrFail
<1>8. ASSUME NEW r \in Requests, BackoffOver(r) PROVE Goal
  <2>1. PICK s \in {"rejected", "connecting"} : stage' = [stage EXCEPT ![r] = s]
    BY <1>8 DEF BackoffOver, makeRequest
  <2>2. In(InClient)' = In(InClient) /\ In(InProxy)' = In(InProxy)
    BY <1>0, <1>8, <2>1, Moving DEF BackoffOver
  <2> QED
    BY <1>8, <2>2, Standing DEF BackoffOver
<1>9. ASSUME NEW r \in Requests, DelayOver(r) PROVE Goal
  <2>1. PICK s \in {"rejected", "connecting"} : stage' = [stage EXCEPT ![r] = s]
    BY <1>9 DEF DelayOver, makeRequest
  <2>2. /\ StatsBalance'
        /\ stats' \in [totalRequests : Nat, successfulRequests : Nat,
                        failedRequests : Nat, activeConnections : Nat]
    BY <1>9, <2>1, Entering DEF DelayOver
  <2>3. In(InProxy)' = In(InProxy)
    BY <1>0, <1>9, <2>1, Moving DEF DelayOver
  <2> QED
    BY <1>0, <1>9, <2>2, <2>3 DEF DelayOver, TypeOK, NeverOvercounted
<1>11. ASSUME NEW r \in Requests, BeginBadUrl(r) PROVE Goal
  <2>1. PICK s \in {"delay", "bad_gateway"} : stage' = [stage EXCEPT ![r] = s]
    BY <1>11 DEF BeginBadUrl, BadUrl
  <2>2. /\ StatsBalance'
        /\ stats' \in [totalRequests : Nat, successfulRequests : Nat,
                        failedRequests : Nat, activeConnections : Nat]
    BY <1>11, InAndOut DEF BeginBadUrl
  <2>3. stage[r] \notin InProxy /\ active' = active
    BY <1>11 DEF BeginBadUrl
  <2>4. /\ Cardinality(In(InProxy)) \in Nat
        /\ \/ In(InProxy)' = In(InProxy)
           \/ Cardinality(In(InProxy)') = Cardinality(In(InProxy)) + 1
    BY <1>0, <2>1, <2>3, Moving
  <2>5. active \in Nat /\ active <= Cardinality(In(InProxy)')
    BY <1>0, <2>4 DEF TypeOK, NeverOvercounted
  <2> QED
    BY <2>2, <2>3, <2>5 DEF NeverOvercounted
<1>12. ASSUME NEW r \in Requests, DelayOverBadUrl(r) PROVE Goal
  <2>1. PICK s \in {"delay", "bad_gateway"} : stage' = [stage EXCEPT ![r] = s]
    BY <1>12 DEF DelayOverBadUrl, BadUrl
  <2>2. /\ StatsBalance'
        /\ stats' \in [totalRequests : Nat, successfulRequests : Nat,
                        failedRequests : Nat, activeConnections : Nat]
    <3>1. stage[r] \in {"new", "delay"} /\ BadUrl(r, outer[r] + 1)
      BY <1>12 DEF DelayOverBadUrl
    <3> QED
      BY <3>1, InAndOut
  <2>3. stage[r] \in InProxy /\ active' = IF active = 0 THEN 0 ELSE active - 1
    BY <1>12 DEF DelayOverBadUrl, releaseServer
  <2>4. /\ Cardinality(In(InProxy)) \in Nat /\ Cardinality(In(InProxy)') \in Nat
        /\ \/ In(InProxy)' = In(InProxy)
           \/ Cardinality(In(InProxy)') = Cardinality(In(InProxy)) - 1
    BY <1>0, <2>1, <2>3, Moving
  <2>5. /\ Cardinality(In(InProxy)') = Cardinality(In(InProxy))
           \/ Cardinality(In(InProxy)') = Cardinality(In(InProxy)) - 1
        /\ active \in Nat /\ active <= Cardinality(In(InProxy))
    BY <1>0, <2>4 DEF TypeOK, NeverOvercounted
  <2>6. active' \in Nat /\ active' <= Cardinality(In(InProxy)')
    BY <2>3, <2>4, <2>5
  <2> QED
    BY <2>2, <2>6 DEF NeverOvercounted
<1>10. CASE Tick \/ UNCHANGED vars
  <2>1. stage' = stage /\ UNCHANGED <<stats, active>>
    BY <1>10 DEF Tick, vars, proxyVars
  <2>2. In(InClient)' = In(InClient) /\ In(InProxy)' = In(InProxy)
    BY <2>1 DEF In
  <2> QED
    BY <2>1, <2>2, Standing
<1> QED
  BY <1>1, <1>2, <1>4, <1>5, <1>6, <1>7, <1>8, <1>9, <1>10, <1>11, <1>12 DEF Next

\* The proxy does with its breaker only what the breaker's module says, without
\* the operator's controls: a call is new when it is made, and running when it
\* is settled.
LEMMA BreakerSteps ==
  ASSUME IInv, [Next]_vars
  PROVE  [Breaker!UnattendedNext]_(Breaker!vars)
<1>1. ASSUME NEW c \in Attempts,
             Breaker!Reject(c) \/ Breaker!Admit(c) \/ Breaker!Succeed(c) \/ Breaker!Fail(c)
      PROVE  Breaker!UnattendedNext
  BY <1>1 DEF Breaker!UnattendedNext
<1>2. ASSUME NEW r \in Requests, calls[r] \in Nat, makeRequest(r)
      PROVE  Breaker!UnattendedNext
  <2>1. [req |-> r, n |-> calls[r] + 1] \in Attempts
    BY <1>2, ProxyAssumption DEF makeRequest, Attempts
  <2> QED
    BY <1>1, <1>2, <2>1 DEF makeRequest
<1>3. ASSUME NEW r \in Requests, stage[r] \in Upstream PROVE Current(r) \in Attempts
  BY <1>3 DEF IInv, Ledger, Current, Attempts
<1>4. ASSUME NEW r \in Requests, Begin(r) \/ BackoffOver(r) \/ DelayOver(r)
      PROVE  Breaker!UnattendedNext
  BY <1>2, <1>4 DEF IInv, TypeOK, Begin, BackoffOver, DelayOver
<1>5. ASSUME NEW r \in Requests, Respond(r) \/ NetworkError(r) \/ OtherError(r)
      PROVE  Breaker!UnattendedNext
  BY <1>1, <1>3, <1>5 DEF Respond, NetworkError, OtherError, Upstream
<1>6. CASE Tick
  BY <1>6 DEF Tick, Breaker!UnattendedNext
<1>7. ASSUME NEW r \in Requests,
             \/ Unavailable(r) \/ Rejected(r) \/ Connected(r)
             \/ BeginBadUrl(r) \/ DelayOverBadUrl(r)
      PROVE  UNCHANGED Breaker!vars
  BY <1>7 DEF Unavailable, Rejected, Connected, BeginBadUrl, DelayOverBadUrl, BadUrl,
     breakerVars, Breaker!vars
<1>8. CASE UNCHANGED vars
  BY <1>8 DEF vars, breakerVars, Breaker!vars
<1> QED
  BY <1>4, <1>5, <1>6, <1>7, <1>8 DEF Next

\* Every such step is one of the breaker that is proved correct.
LEMMA ProvedSteps ==
  ASSUME [Breaker!UnattendedNext]_(Breaker!vars)
  PROVE  [Proved!Next]_(Proved!vars)
<1>1. CASE Breaker!UnattendedNext
  BY <1>1, SameBreaker DEF Breaker!UnattendedNext, Proved!Next
<1>2. CASE UNCHANGED Breaker!vars
  BY <1>2 DEF Breaker!vars, Proved!vars
<1> QED
  BY <1>1, <1>2

\* The breaker's own variables keep their types.
LEMMA BreakerStep ==
  ASSUME IInv, [Next]_vars PROVE Breaker!TypeOK'
<1>1. Proved!TypeOK
  BY SameBreaker DEF IInv, TypeOK
<1>2. Proved!TypeOK'
  BY <1>1, BreakerSteps, ProvedSteps, BreakerConstants, ProxyAssumption, Proved!TypeStep
<1> QED
  BY <1>2 DEF Breaker!TypeOK, Proved!TypeOK

\* The two loops and what they have sent.
LEMMA LoopsStep ==
  ASSUME IInv, [Next]_vars
  PROVE  /\ Budget'
         /\ stage' \in [Requests -> {"new"} \cup InProxy \cup Answered]
         /\ outer' \in [Requests -> 0..MaxRetries]
         /\ inner' \in [Requests -> 0..MaxRetries]
         /\ calls' \in [Requests -> 0..MaxCalls]
         /\ sends' \in [Requests -> 0..MaxCalls]
         /\ misread' \in BOOLEAN
<1> DEFINE Types ==
      /\ stage' \in [Requests -> {"new"} \cup InProxy \cup Answered]
      /\ outer' \in [Requests -> 0..MaxRetries]
      /\ inner' \in [Requests -> 0..MaxRetries]
      /\ calls' \in [Requests -> 0..MaxCalls]
      /\ sends' \in [Requests -> 0..MaxCalls]
<1>0. TypeOK /\ Budget
  BY DEF IInv
<1>a. Rounds \in Nat /\ Rounds >= 1 /\ Rounds <= MaxRetries + 1
  BY ProxyAssumption DEF Rounds
<1>b. \A k \in Nat : (k + 1) * Rounds = k * Rounds + Rounds /\ k * Rounds \in Nat
  BY <1>a
<1>c. ASSUME NEW q \in Requests, stage'[q] = stage[q], outer'[q] = outer[q],
             inner'[q] = inner[q], calls'[q] = calls[q], sends'[q] = sends[q]
      PROVE  BudgetOf(q)'
  BY <1>0, <1>c DEF Budget, BudgetOf, Used
<1>1. ASSUME NEW r \in Requests, makeRequest(r),
             NEW o \in 0..MaxRetries, outer' = [outer EXCEPT ![r] = o],
             NEW i \in 0..MaxRetries, inner' = [inner EXCEPT ![r] = i],
             i < Rounds, calls[r] <= o * Rounds + i
      PROVE  Types /\ Budget'
  <2>1. /\ sends[r] \in Nat /\ calls[r] \in Nat /\ o * Rounds \in Nat
        /\ sends[r] <= calls[r]
    BY <1>0, <1>b DEF TypeOK, Budget, BudgetOf
  <2>2. /\ calls' = [calls EXCEPT ![r] = @ + 1] /\ calls[r] + 1 \in 0..MaxCalls
        /\ \/ stage' = [stage EXCEPT ![r] = "rejected"] /\ sends' = sends
           \/ /\ stage' = [stage EXCEPT ![r] = "connecting"]
              /\ sends' = [sends EXCEPT ![r] = @ + 1]
    BY <1>1, <2>1, ProxyAssumption DEF makeRequest
  <2>3. sends[r] + 1 \in 0..MaxCalls
    BY <2>1, <2>2, ProxyAssumption
  <2>4. Types
    BY <1>0, <1>1, <2>2, <2>3 DEF TypeOK, InProxy, InClient, Upstream
  <2>5. BudgetOf(r)'
    <3>1. /\ outer'[r] = o /\ inner'[r] = i /\ calls'[r] = calls[r] + 1
          /\ \/ stage'[r] = "rejected" /\ sends'[r] = sends[r]
             \/ stage'[r] = "connecting" /\ sends'[r] = sends[r] + 1
      BY <1>0, <1>1, <2>2 DEF TypeOK
    <3>2. Used(r)' = i + 1
      BY <3>1, <2>1 DEF Used, Upstream
    <3> QED
      BY <1>1, <2>1, <3>1, <3>2 DEF BudgetOf
  <2>6. ASSUME NEW q \in Requests, q # r PROVE BudgetOf(q)'
    <3>1. /\ stage'[q] = stage[q] /\ outer'[q] = outer[q] /\ inner'[q] = inner[q]
          /\ calls'[q] = calls[q] /\ sends'[q] = sends[q]
      BY <1>0, <1>1, <2>2, <2>6 DEF TypeOK
    <3> QED
      BY <1>c, <3>1
  <2> QED
    BY <2>4, <2>5, <2>6 DEF Budget
<1>2. ASSUME NEW r \in Requests, UNCHANGED <<outer, calls, sends>>,
             NEW s \in InProxy \cup Answered, stage' = [stage EXCEPT ![r] = s],
             NEW i \in 0..MaxRetries, inner' = [inner EXCEPT ![r] = i], i < Rounds,
             Used(r) <= Used(r)', s = "delay" => outer[r] < MaxRetries
      PROVE  Types /\ Budget'
  <2>1. Types
    BY <1>0, <1>2 DEF TypeOK
  <2>2. BudgetOf(r)'
    <3>1. /\ calls[r] \in Nat /\ outer[r] \in Nat /\ outer[r] * Rounds \in Nat
          /\ sends[r] <= calls[r] /\ calls[r] <= outer[r] * Rounds + Used(r)
          /\ inner[r] \in Nat
      BY <1>0, <1>b DEF TypeOK, Budget, BudgetOf
    <3>2. inner'[r] = i /\ stage'[r] = s
      BY <1>0, <1>2 DEF TypeOK
    <3>3. Used(r) \in Nat /\ Used(r)' \in Nat
      BY <1>a, <3>1, <3>2 DEF Used
    <3>4. calls[r] <= outer[r] * Rounds + Used(r)'
      BY <1>2, <3>1, <3>3
    <3> QED
      BY <1>2, <3>1, <3>2, <3>4 DEF BudgetOf, InProxy, InClient, Upstream, Answered
  <2>3. ASSUME NEW q \in Requests, q # r PROVE BudgetOf(q)'
    <3>1. /\ stage'[q] = stage[q] /\ outer'[q] = outer[q] /\ inner'[q] = inner[q]
          /\ calls'[q] = calls[q] /\ sends'[q] = sends[q]
      BY <1>0, <1>2, <2>3 DEF TypeOK
    <3> QED
      BY <1>c, <3>1
  <2> QED
    BY <2>1, <2>2, <2>3 DEF Budget
<1>3. ASSUME NEW r \in Requests
      PROVE  /\ outer[r] \in 0..MaxRetries /\ outer = [outer EXCEPT ![r] = outer[r]]
             /\ inner[r] \in 0..MaxRetries /\ inner = [inner EXCEPT ![r] = inner[r]]
             /\ inner[r] < Rounds /\ inner[r] + 1 <= Rounds
             /\ stage = [stage EXCEPT ![r] = stage[r]]
  BY <1>0, <1>a DEF TypeOK, Budget, BudgetOf
<1>4. ASSUME NEW r \in Requests, Begin(r) \/ BackoffOver(r) PROVE Types /\ Budget'
  <2>1. calls[r] <= outer[r] * Rounds + inner[r]
    BY <1>0, <1>4 DEF Budget, BudgetOf, Used, Upstream, Begin, BackoffOver
  <2>2. makeRequest(r) /\ UNCHANGED <<outer, inner>>
    BY <1>4 DEF Begin, BackoffOver
  <2> QED
    BY <1>1, <1>3, <2>1, <2>2
<1>5. ASSUME NEW r \in Requests, DelayOver(r) PROVE Types /\ Budget'
  <2>1. /\ outer[r] < MaxRetries /\ outer[r] \in Nat /\ calls[r] \in Nat
        /\ calls[r] <= outer[r] * Rounds + Rounds
    BY <1>0, <1>5 DEF TypeOK, Budget, BudgetOf, Used, Upstream, DelayOver
  <2>2. /\ outer[r] + 1 \in 0..MaxRetries /\ 0 \in 0..MaxRetries
        /\ outer' = [outer EXCEPT ![r] = outer[r] + 1]
        /\ inner' = [inner EXCEPT ![r] = 0]
    BY <1>5, <2>1, ProxyAssumption DEF DelayOver
  <2>3. calls[r] <= (outer[r] + 1) * Rounds + 0 /\ 0 < Rounds
    BY <1>a, <1>b, <2>1
  <2>4. makeRequest(r)
    BY <1>5 DEF DelayOver
  <2> QED
    BY <1>1, <2>2, <2>3, <2>4
<1>6. ASSUME NEW r \in Requests, stage[r] \in InClient, ClientFails(r),
             UNCHANGED <<outer, inner, calls, sends>>
      PROVE  Types /\ Budget'
  <2>1. PICK s \in {"delay", "bad_gateway"} :
          /\ stage' = [stage EXCEPT ![r] = s]
          /\ s = "delay" => outer[r] < MaxRetries
    BY <1>6 DEF ClientFails
  <2>2. stage'[r] = s
    BY <1>0, <2>1 DEF TypeOK
  <2>3. Used(r)' = Rounds
    BY <2>2 DEF Used, Upstream
  <2>4. Used(r) <= Rounds
    BY <1>3, <1>6, <1>a DEF Used, InClient
  <2> QED
    BY <1>2, <1>3, <1>6, <2>1, <2>3, <2>4 DEF InProxy, Answered
<1>7. ASSUME NEW r \in Requests, OtherError(r) PROVE Types /\ Budget'
  BY <1>6, <1>7 DEF OtherError, InClient, Upstream
<1>8. ASSUME NEW r \in Requests, NetworkError(r) \/ Rejected(r) PROVE Types /\ Budget'
  <2>0. stage[r] \in Upstream \cup {"rejected"} /\ UNCHANGED <<outer, calls, sends>>
    BY <1>8 DEF NetworkError, Rejected
  <2>1. CASE ClientFails(r) /\ UNCHANGED inner
    BY <1>6, <2>0, <2>1 DEF InClient
  <2>2. CASE /\ inner[r] + 1 < MaxRetries
             /\ inner' = [inner EXCEPT ![r] = @ + 1]
             /\ stage' = [stage EXCEPT ![r] = "backoff"]
    <3>1. inner[r] + 1 \in 0..MaxRetries /\ inner[r] + 1 < Rounds
      BY <1>3, <2>2, ProxyAssumption DEF Rounds
    <3>2. stage'[r] = "backoff" /\ inner'[r] = inner[r] + 1
      BY <1>0, <2>2 DEF TypeOK
    <3>3. Used(r) = inner[r] + 1 /\ Used(r)' = inner[r] + 1
      BY <2>0, <3>2 DEF Used, Upstream
    <3>4. Used(r) <= Used(r)'
      BY <1>3, <3>3
    <3>5. /\ inner' = [inner EXCEPT ![r] = inner[r] + 1]
          /\ UNCHANGED <<outer, calls, sends>>
          /\ "backoff" \in InProxy \cup Answered
          /\ "backoff" = "delay" => outer[r] < MaxRetries
      BY <2>0, <2>2 DEF InProxy, InClient
    <3> QED
      BY <1>2, <2>2, <3>1, <3>4, <3>5
  <2> QED
    BY <1>8, <2>1, <2>2 DEF NetworkError, Rejected, RetryOrFail
<1>9. ASSUME NEW r \in Requests, Connected(r) \/ Respond(r) PROVE Types /\ Budget'
  <2>1. PICK s \in {"reading", "ok"} : stage' = [stage EXCEPT ![r] = s]
    BY <1>9 DEF Connected, Respond
  <2>2. UNCHANGED <<outer, inner, calls, sends>> /\ stage[r] \in Upstream
    BY <1>9 DEF Connected, Respond, Upstream
  <2>3. stage'[r] = s
    BY <1>0, <2>1 DEF TypeOK
  <2>4. Used(r) = inner[r] + 1 /\ Used(r)' \in {inner[r] + 1, Rounds}
    BY <2>2, <2>3 DEF Used, Upstream
  <2>5. Used(r) <= Used(r)'
    BY <1>3, <1>a, <2>4
  <2> QED
    BY <1>2, <1>3, <2>1, <2>2, <2>5 DEF InProxy, InClient, Upstream, Answered
<1>10. ASSUME NEW r \in Requests, Unavailable(r) PROVE Types /\ Budget'
  <2>1. stage'[r] = "unavailable"
    BY <1>0, <1>10 DEF TypeOK, Unavailable
  <2>2. Used(r) = inner[r] /\ Used(r)' = Rounds
    BY <1>10, <2>1 DEF Used, Upstream, Unavailable
  <2>3. Used(r) <= Used(r)'
    BY <1>3, <1>a, <2>2
  <2>4. /\ stage' = [stage EXCEPT ![r] = "unavailable"]
        /\ UNCHANGED <<outer, inner, calls, sends>>
        /\ "unavailable" \in InProxy \cup Answered
        /\ "unavailable" = "delay" => outer[r] < MaxRetries
    BY <1>10 DEF Unavailable, Answered
  <2> QED
    BY <1>2, <1>3, <2>3, <2>4
<1>11. ASSUME NEW r \in Requests, BeginBadUrl(r) PROVE Types /\ Budget'
  <2>1. PICK s \in {"delay", "bad_gateway"} :
          /\ stage' = [stage EXCEPT ![r] = s]
          /\ s = "delay" => 0 < MaxRetries
    BY <1>11 DEF BeginBadUrl, BadUrl
  <2>2. UNCHANGED <<outer, inner, calls, sends>> /\ stage[r] = "new"
    BY <1>11 DEF BeginBadUrl, BadUrl
  <2>3. stage'[r] = s
    BY <1>0, <2>1 DEF TypeOK
  <2>4. Used(r) = inner[r] /\ Used(r)' = Rounds
    BY <2>2, <2>3 DEF Used, Upstream
  <2>5. Used(r) <= Used(r)'
    BY <1>3, <1>a, <2>4
  <2>6. s = "delay" => outer[r] < MaxRetries
    BY <1>0, <2>1, <2>2 DEF Budget, BudgetOf
  <2>7. s \in InProxy \cup Answered
    BY <2>1 DEF InProxy, Answered
  <2> QED
    BY <1>2, <1>3, <2>1, <2>2, <2>5, <2>6, <2>7
<1>12. ASSUME NEW r \in Requests, DelayOverBadUrl(r) PROVE Types /\ Budget'
  <2>1. PICK s \in {"delay", "bad_gateway"} :
          /\ stage' = [stage EXCEPT ![r] = s]
          /\ s = "delay" => outer[r] + 1 < MaxRetries
    BY <1>12 DEF DelayOverBadUrl, BadUrl
  <2>2. /\ UNCHANGED <<inner, calls, sends>> /\ stage[r] = "delay" /\ calls[r] = 0
        /\ outer' = [outer EXCEPT ![r] = outer[r] + 1]
    BY <1>12 DEF DelayOverBadUrl, BadUrl
  <2>3. /\ outer[r] \in 0..MaxRetries /\ outer[r] < MaxRetries /\ sends[r] <= 0
    BY <1>0, <2>2 DEF TypeOK, Budget, BudgetOf
  <2>4. outer[r] + 1 \in 0..MaxRetries /\ outer[r] + 1 \in Nat
    BY <2>3, ProxyAssumption
  <2>5. Types
    BY <1>0, <2>1, <2>2, <2>4 DEF TypeOK, InProxy, Answered
  <2>6. BudgetOf(r)'
    <3>1. /\ stage'[r] = s /\ outer'[r] = outer[r] + 1
          /\ inner'[r] = inner[r] /\ calls'[r] = 0 /\ sends'[r] <= 0
      BY <1>0, <2>1, <2>2, <2>3 DEF TypeOK
    <3>2. Used(r)' = Rounds
      BY <2>1, <3>1 DEF Used, Upstream
    <3>3. outer'[r] * Rounds \in Nat
      BY <1>a, <2>4, <3>1
    <3>4. calls'[r] <= outer'[r] * Rounds + Used(r)'
      BY <1>a, <3>1, <3>2, <3>3
    <3>5. inner'[r] < Rounds
      BY <1>3, <3>1
    <3> QED
      BY <2>1, <3>1, <3>4, <3>5 DEF BudgetOf
  <2>7. ASSUME NEW q \in Requests, q # r PROVE BudgetOf(q)'
    <3>1. /\ stage'[q] = stage[q] /\ outer'[q] = outer[q] /\ inner'[q] = inner[q]
          /\ calls'[q] = calls[q] /\ sends'[q] = sends[q]
      BY <1>0, <2>1, <2>2, <2>7 DEF TypeOK
    <3> QED
      BY <1>c, <3>1
  <2> QED
    BY <2>5, <2>6, <2>7 DEF Budget
<1>13. misread' \in BOOLEAN
  BY <1>0 DEF TypeOK, Next, Unavailable, Begin, BeginBadUrl, DelayOverBadUrl, BadUrl,
     Rejected, Connected, Respond, NetworkError, OtherError, BackoffOver, DelayOver, Tick,
     proxyVars, vars
<1>14. CASE Tick \/ UNCHANGED vars
  <2>1. UNCHANGED <<stage, outer, inner, calls, sends>>
    BY <1>14 DEF Tick, vars, proxyVars
  <2>2. Budget'
    BY <1>c, <2>1 DEF Budget
  <2> QED
    <3>1. Types
      BY <1>0, <2>1 DEF TypeOK
    <3> QED
      BY <1>13, <2>2, <3>1
<1> QED
  BY <1>4, <1>5, <1>7, <1>8, <1>9, <1>10, <1>11, <1>12, <1>13, <1>14 DEF Next

\* The breaker's running calls follow the requests.
LEMMA LedgerStep ==
  ASSUME IInv, [Next]_vars PROVE Ledger'
<1>0. TypeOK /\ Ledger
  BY DEF IInv
<1>1. call \in [Attempts -> {"new", "running", "ok", "failed", "rejected"}]
  BY <1>0 DEF TypeOK, Breaker!TypeOK
\* A request outside the upstream makes a call.
<1>2. ASSUME NEW r \in Requests, stage[r] \notin Upstream, makeRequest(r) PROVE Ledger'
  <2> DEFINE c == [req |-> r, n |-> calls[r] + 1]
  <2>1. /\ calls[r] \in Nat /\ calls' = [calls EXCEPT ![r] = calls[r] + 1]
        /\ calls[r] + 1 \in 1..MaxCalls
    BY <1>0, <1>2, ProxyAssumption DEF TypeOK, makeRequest
  <2>2. c \in Attempts
    BY <2>1 DEF Attempts
  <2>3. \/ /\ stage' = [stage EXCEPT ![r] = "rejected"]
           /\ call' = [call EXCEPT ![c] = "rejected"]
        \/ /\ stage' = [stage EXCEPT ![r] = "connecting"]
           /\ call' = [call EXCEPT ![c] = "running"]
    BY <1>2 DEF makeRequest, Breaker!Reject, Breaker!Admit
  <2>4. ASSUME NEW q \in Requests, stage'[q] \in Upstream
        PROVE  calls'[q] \in 1..MaxCalls
    BY <1>0, <2>1, <2>3, <2>4 DEF Ledger, TypeOK
  <2>5. ASSUME NEW d \in Attempts
        PROVE  call'[d] = "running" <=> d.n = calls'[d.req] /\ stage'[d.req] \in Upstream
    <3>1. d.req \in Requests /\ d = [req |-> d.req, n |-> d.n]
      BY DEF Attempts
    <3>2. CASE d = c
      BY <1>0, <1>1, <2>1, <2>2, <2>3, <3>2 DEF TypeOK, Upstream
    <3>3. CASE d # c /\ d.req = r
      <4>1. call'[d] = call[d] /\ d.n # calls'[d.req]
        BY <1>0, <1>1, <2>1, <2>3, <3>1, <3>3 DEF TypeOK
      <4> QED
        BY <1>0, <1>2, <3>3, <4>1 DEF Ledger
    <3>4. CASE d.req # r
      <4>1. /\ call'[d] = call[d] /\ calls'[d.req] = calls[d.req]
            /\ stage'[d.req] = stage[d.req]
        BY <1>0, <1>1, <2>1, <2>3, <3>1, <3>4 DEF TypeOK
      <4> QED
        BY <1>0, <4>1 DEF Ledger
    <3> QED
      BY <3>2, <3>3, <3>4
  <2> QED
    BY <2>4, <2>5 DEF Ledger
\* A request upstream settles its call.
<1>3. ASSUME NEW r \in Requests, stage[r] \in Upstream, UNCHANGED calls,
             NEW o \in {"ok", "failed"}, call' = [call EXCEPT ![Current(r)] = o],
             NEW s, s \notin Upstream, stage' = [stage EXCEPT ![r] = s]
      PROVE  Ledger'
  <2>1. Current(r) \in Attempts /\ Current(r) = [req |-> r, n |-> calls[r]]
    BY <1>0, <1>3 DEF Ledger, Attempts, Current
  <2>2. ASSUME NEW q \in Requests, stage'[q] \in Upstream
        PROVE  calls'[q] \in 1..MaxCalls
    BY <1>0, <1>3, <2>2 DEF Ledger, TypeOK
  <2>3. ASSUME NEW d \in Attempts
        PROVE  call'[d] = "running" <=> d.n = calls'[d.req] /\ stage'[d.req] \in Upstream
    <3>1. d.req \in Requests /\ d = [req |-> d.req, n |-> d.n]
      BY DEF Attempts
    <3>2. CASE d = Current(r)
      BY <1>0, <1>1, <1>3, <2>1, <3>2 DEF TypeOK
    <3>3. CASE d # Current(r) /\ d.req = r
      <4>1. call'[d] = call[d] /\ d.n # calls[r] /\ stage'[r] = s
        BY <1>0, <1>1, <1>3, <2>1, <3>1, <3>3 DEF TypeOK
      <4> QED
        BY <1>0, <1>3, <3>3, <4>1 DEF Ledger
    <3>4. CASE d.req # r
      <4>1. call'[d] = call[d] /\ stage'[d.req] = stage[d.req]
        BY <1>0, <1>1, <1>3, <2>1, <3>1, <3>4 DEF TypeOK
      <4> QED
        BY <1>0, <1>3, <4>1 DEF Ledger
    <3> QED
      BY <3>2, <3>3, <3>4
  <2> QED
    BY <2>2, <2>3 DEF Ledger
\* The breaker is not involved.
<1>4. ASSUME UNCHANGED <<call, calls>>,
             \A r \in Requests : stage'[r] \in Upstream <=> stage[r] \in Upstream
      PROVE  Ledger'
  <2>1. \A d \in Attempts : d.req \in Requests
    BY DEF Attempts
  <2> QED
    BY <1>0, <1>4, <2>1 DEF Ledger
<1>5. ASSUME NEW r \in Requests, Begin(r) \/ BackoffOver(r) \/ DelayOver(r)
      PROVE  Ledger'
  BY <1>2, <1>5 DEF Begin, BackoffOver, DelayOver, Upstream
<1>6. ASSUME NEW r \in Requests, Respond(r) PROVE Ledger'
  BY <1>3, <1>6 DEF Respond, Upstream, Breaker!Succeed
<1>7. ASSUME NEW r \in Requests, NetworkError(r) \/ OtherError(r) PROVE Ledger'
  <2>1. PICK s \in {"backoff", "delay", "bad_gateway"} : stage' = [stage EXCEPT ![r] = s]
    BY <1>7 DEF NetworkError, OtherError, RetryOrFail, ClientFails
  <2>2. /\ stage[r] \in Upstream /\ UNCHANGED calls /\ s \notin Upstream
        /\ call' = [call EXCEPT ![Current(r)] = "failed"]
    BY <1>7 DEF NetworkError, OtherError, Upstream, Breaker!Fail
  <2> QED
    BY <1>3, <2>1, <2>2
<1>8. ASSUME NEW r \in Requests,
             \/ Unavailable(r) \/ Rejected(r) \/ Connected(r)
             \/ BeginBadUrl(r) \/ DelayOverBadUrl(r)
      PROVE  Ledger'
  <2>1. UNCHANGED <<call, calls>>
    BY <1>8 DEF Unavailable, Rejected, Connected, BeginBadUrl, DelayOverBadUrl, BadUrl,
       breakerVars
  <2>2. \A q \in Requests : stage'[q] \in Upstream <=> stage[q] \in Upstream
    BY <1>0, <1>8 DEF TypeOK, Unavailable, Rejected, Connected, BeginBadUrl,
       DelayOverBadUrl, BadUrl, RetryOrFail, ClientFails, Upstream
  <2> QED
    BY <1>4, <2>1, <2>2
<1>9. CASE Tick \/ UNCHANGED vars
  <2>1. UNCHANGED <<call, calls, stage>>
    BY <1>9 DEF Tick, vars, proxyVars, breakerVars, Breaker!Tick
  <2> QED
    BY <1>4, <2>1
<1> QED
  BY <1>5, <1>6, <1>7, <1>8, <1>9 DEF Next

\* Before any request nothing is counted.
LEMMA InitIInv == Init => IInv
<1> SUFFICES ASSUME Init PROVE IInv
  OBVIOUS
<1>1. TypeOK
  BY ProxyAssumption DEF Init, TypeOK, Breaker!Init, Breaker!TypeOK
<1>2. In(InClient) = {} /\ In(InProxy) = {}
  BY DEF Init, In, InProxy, InClient, Upstream
<1>3. StatsBalance /\ NeverOvercounted
  BY <1>2, FS_EmptySet DEF Init, StatsBalance, NeverOvercounted
<1>4. Ledger
  <2>1. \A c \in Attempts : c.req \in Requests
    BY DEF Attempts
  <2> QED
    BY <2>1 DEF Init, Ledger, Upstream, Breaker!Init
<1>5. Budget
  BY ProxyAssumption DEF Init, Budget, BudgetOf, Used, Rounds, Upstream
<1> QED
  BY <1>1, <1>3, <1>4, <1>5 DEF IInv

\* The inductive invariant.
THEOREM Inductive == Spec => []IInv
<1>1. IInv /\ [Next]_vars => IInv'
  BY CountsStep, BreakerStep, LoopsStep, LedgerStep DEF IInv, TypeOK
<1> QED
  BY InitIInv, <1>1, PTL DEF Spec

\* The variables of the proxy and of its breaker keep their types.
THEOREM TypeCorrect == Spec => []TypeOK
<1>1. IInv => TypeOK
  BY DEF IInv
<1> QED
  BY <1>1, Inductive, PTL

\* Every request is in the client, or counted out of it once.
THEOREM StatsAddUp == Spec => []StatsBalance
<1>1. IInv => StatsBalance
  BY DEF IInv
<1> QED
  BY <1>1, Inductive, PTL

\* The balancer never holds a server for busier than it is.
THEOREM BalancerNeverOvercounts == Spec => []NeverOvercounted
<1>1. IInv => NeverOvercounted
  BY DEF IInv
<1> QED
  BY <1>1, Inductive, PTL

\* No call is left running in the breaker by a request that moved on.
THEOREM AttemptsReport == Spec => []EveryAttemptReports
<1>1. IInv => EveryAttemptReports
  <2> SUFFICES ASSUME IInv PROVE EveryAttemptReports
    OBVIOUS
  <2>0. Ledger
    BY DEF IInv
  <2>1. ASSUME NEW c \in Attempts, call[c] = "running"
        PROVE  c \in {Current(r) : r \in In(Upstream)}
    <3>1. c.req \in Requests /\ c = [req |-> c.req, n |-> c.n]
      BY DEF Attempts
    <3>2. c.req \in In(Upstream) /\ c = Current(c.req)
      BY <2>0, <2>1, <3>1 DEF Ledger, In, Current
    <3> QED
      BY <3>2
  <2>2. ASSUME NEW r \in In(Upstream)
        PROVE  Current(r) \in Attempts /\ call[Current(r)] = "running"
    <3>1. Current(r) \in Attempts
      BY <2>0, <2>2 DEF Ledger, In, Current, Attempts
    <3> QED
      BY <2>0, <2>2, <3>1 DEF Ledger, In, Current
  <2> QED
    BY <2>1, <2>2 DEF EveryAttemptReports
<1> QED
  BY <1>1, Inductive, PTL

\* What a request's position in the two loops allows, at most.
LEMMA AtMostTheProduct ==
  ASSUME IInv, NEW r \in Requests
  PROVE  /\ calls[r] \in Nat /\ sends[r] \in Nat /\ sends[r] <= calls[r]
         /\ calls[r] <= (MaxRetries + 1) * Rounds
         /\ stage[r] \in {"new", "backoff", "delay"}
              => calls[r] < (MaxRetries + 1) * Rounds
<1>1. /\ outer[r] \in Nat /\ outer[r] <= MaxRetries /\ inner[r] \in Nat
      /\ sends[r] \in Nat /\ calls[r] \in Nat /\ sends[r] <= calls[r]
      /\ inner[r] < Rounds /\ calls[r] <= outer[r] * Rounds + Used(r)
      /\ stage[r] = "delay" => outer[r] < MaxRetries
  BY DEF IInv, TypeOK, Budget, BudgetOf
<1>2. MaxRetries \in Nat /\ Rounds \in Nat /\ Rounds >= 1
  BY ProxyAssumption DEF Rounds
<1>3. /\ Used(r) \in Nat /\ Used(r) <= Rounds
      /\ stage[r] \in {"new", "backoff"} => Used(r) < Rounds
  BY <1>1, <1>2 DEF Used, Upstream
<1>4. outer[r] * Rounds <= MaxRetries * Rounds
  BY <1>1, <1>2
<1>5. (MaxRetries + 1) * Rounds = MaxRetries * Rounds + Rounds
  BY <1>2
<1>6. outer[r] * Rounds \in Nat /\ MaxRetries * Rounds \in Nat
  BY <1>1, <1>2
<1>7. outer[r] < MaxRetries => outer[r] * Rounds + Rounds <= MaxRetries * Rounds
  <2>1. outer[r] < MaxRetries => (outer[r] + 1) * Rounds <= MaxRetries * Rounds
    BY <1>1, <1>2
  <2>2. (outer[r] + 1) * Rounds = outer[r] * Rounds + Rounds
    BY <1>1, <1>2
  <2> QED
    BY <2>1, <2>2
<1> HIDE DEF Rounds, Used
<1>8. calls[r] <= (MaxRetries + 1) * Rounds
  BY <1>1, <1>2, <1>3, <1>4, <1>5, <1>6
<1>9. stage[r] \in {"new", "backoff"} => calls[r] < (MaxRetries + 1) * Rounds
  BY <1>1, <1>2, <1>3, <1>4, <1>5, <1>6
<1>10. stage[r] = "delay" => calls[r] < (MaxRetries + 1) * Rounds
  BY <1>1, <1>2, <1>3, <1>5, <1>6, <1>7
<1> QED
  BY <1>1, <1>8, <1>9, <1>10

\* The two retry loops multiply, and do no worse.
THEOREM AmplificationIsBounded == Spec => []AmplificationBound
<1>1. IInv => AmplificationBound
  <2> SUFFICES ASSUME IInv, NEW r \in Requests
               PROVE  sends[r] <= (MaxRetries + 1) * Rounds
    BY DEF AmplificationBound, Rounds
  <2>1. (MaxRetries + 1) * Rounds \in Nat
    BY ProxyAssumption DEF Rounds
  <2> QED
    BY <2>1, AtMostTheProduct
<1> QED
  BY <1>1, Inductive, PTL

\* What a request that is to make another call has made is less than the product.
CallsLeft ==
  \A r \in In({"new", "backoff", "delay"}) : calls[r] < (MaxRetries + 1) * Rounds

\* The two loops end by themselves, rejected calls included: the bound MaxCalls,
\* when it is no less than the product, never keeps a request from its next call.
THEOREM LoopsEndByThemselves == Spec => []CallsLeft
<1>1. IInv => CallsLeft
  BY AtMostTheProduct DEF CallsLeft, In
<1> QED
  BY <1>1, Inductive, PTL

\* Nothing goes to the upstream while the breaker rests.
THEOREM UpstreamRests == Spec => RestWhileOpen
<1>1. IInv /\ [Next]_vars
        => [state = "OPEN" /\ now < nextAttemptTime => sends' = sends]_vars
  <2> SUFFICES ASSUME IInv, Next, state = "OPEN", now < nextAttemptTime
               PROVE  sends' = sends
    OBVIOUS
  <2>0. now \in Nat /\ nextAttemptTime \in Nat
    BY ProxyAssumption DEF IInv, TypeOK, Breaker!TypeOK
  <2>1. ASSUME NEW r \in Requests, makeRequest(r) PROVE sends' = sends
    BY <2>0, <2>1 DEF makeRequest, Breaker!Admit
  <2> QED
    BY <2>1 DEF Next, Unavailable, Begin, BeginBadUrl, DelayOverBadUrl, BadUrl, Rejected,
                Connected, Respond, NetworkError, OtherError, BackoffOver, DelayOver, Tick,
                proxyVars
<1> QED
  BY <1>1, Inductive, PTL DEF Spec, RestWhileOpen

-----------------------------------------------------------------------------
(* The breaker inside the proxy.                                            *)

\* Whatever the requests do, their breaker behaves as CircuitBreaker does when
\* nobody touches its controls: every call goes through execute once.
THEOREM ImplementsBreaker == Spec => BreakerContract
<1>1. Init => Breaker!Init
  BY DEF Init
<1>2. IInv /\ [Next]_vars => [Breaker!UnattendedNext]_(Breaker!vars)
  BY BreakerSteps
<1> QED
  BY <1>1, <1>2, Inductive, PTL DEF Spec, BreakerContract, Breaker!UnattendedSpec

\* Hence all that is proved of the breaker holds of the proxy's.
LEMMA RunsProvedBreaker == Spec => Proved!Spec
<1>1. Init => Proved!Init
  BY DEF Init, Breaker!Init, Proved!Init
<1>2. IInv /\ [Next]_vars => [Proved!Next]_(Proved!vars)
  BY BreakerSteps, ProvedSteps
<1> QED
  BY <1>1, <1>2, Inductive, PTL DEF Spec, Proved!Spec

\* A closed circuit in the proxy has room for another failure.
THEOREM ProxyClosedHasRoom == Spec => []Breaker!ClosedBelowThreshold
<1>1. Proved!ClosedBelowThreshold => Breaker!ClosedBelowThreshold
  BY DEF Proved!ClosedBelowThreshold, Breaker!ClosedBelowThreshold,
         Proved!Cardinality, Breaker!Cardinality
<1>2. Proved!Spec => []Proved!ClosedBelowThreshold
  BY Proved!ClosedHasRoom, BreakerConstants, ProxyAssumption
<1> QED
  BY <1>1, <1>2, RunsProvedBreaker, PTL

\* No request of a recovery is the one success too many.
THEOREM ProxyNoLostClose == Spec => []Breaker!NoMissedClose
<1>1. Proved!NoMissedClose => Breaker!NoMissedClose
  BY DEF Proved!NoMissedClose, Breaker!NoMissedClose
<1>2. Proved!Spec => []Proved!NoMissedClose
  BY Proved!NoLostClose, BreakerConstants, ProxyAssumption
<1> QED
  BY <1>1, <1>2, RunsProvedBreaker, PTL

\* Neither loop of retries gets through to a server whose circuit opened less
\* than the timeout ago.
THEOREM ProxyCoolsDown == Spec => Breaker!CoolDown
<1>1. Proved!CoolDown => Breaker!CoolDown
  BY PTL DEF Proved!CoolDown, Breaker!CoolDown, Proved!vars, Breaker!vars
<1>2. Proved!Spec => Proved!CoolDown
  BY Proved!UpstreamRests, BreakerConstants, ProxyAssumption
<1> QED
  BY <1>1, <1>2, RunsProvedBreaker, PTL

\* What takes the server out of service is enough attempts that did fail within
\* the window, of whichever requests.
THEOREM ProxyTripsAreEarned == Spec => Breaker!TripIsEarned
<1>1. [\A c \in Attempts : Proved!Fail(c) /\ state = "CLOSED" /\ state' = "OPEN" =>
         Proved!Cardinality(Proved!RecentlyFailed') >= FailureThreshold]_(Proved!vars)
      => [\A c \in Attempts : Breaker!Fail(c) /\ state = "CLOSED" /\ state' = "OPEN" =>
            Breaker!Cardinality(Breaker!RecentlyFailed') >= FailureThreshold]_(Breaker!vars)
  <2>1. Proved!vars = Breaker!vars
    BY DEF Proved!vars, Breaker!vars
  <2>2. Proved!RecentlyFailed' = Breaker!RecentlyFailed'
    BY DEF Proved!RecentlyFailed, Breaker!RecentlyFailed
  <2>3. Proved!Cardinality(Proved!RecentlyFailed') = Breaker!Cardinality(Breaker!RecentlyFailed')
    BY <2>2 DEF Proved!Cardinality, Breaker!Cardinality
  <2>4. Proved!vars' = Breaker!vars'
    BY DEF Proved!vars, Breaker!vars
  <2> QED
    BY <2>1, <2>3, <2>4, SameBreaker
<1>2. Proved!Spec => Proved!TripIsEarned
  BY Proved!TripsAreEarned, BreakerConstants, ProxyAssumption
<1> QED
  BY <1>1, <1>2, RunsProvedBreaker, PTL DEF Proved!TripIsEarned, Breaker!TripIsEarned
=============================================================================
