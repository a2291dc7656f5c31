------------------------- MODULE UpstreamPoolProofs -------------------------
(****************************************************************************)
(* Proofs about UpstreamPool for any number of callers, pool objects and    *)
(* dials.                                                                   *)
(****************************************************************************)
EXTENDS UpstreamPool, FiniteSetTheorems, TLAPS

(* A pool object that does not exist yet has no state.                      *)
Fresh ==
  /\ \A g \in Pools : g > created =>
       members[g] = {} /\ dialled[g] = 0 /\ ~timer[g]
  /\ \A u \in Users : dialPool[u] \in 0..created
  /\ \A u \in Users : phase[u] = "dialling" => dialPool[u] # 0

(* Callers hold something exactly in phase "holding", and never an IDLE or  *)
(* uncreated connection; no two hold the same.                              *)
Leases ==
  /\ \A u \in Users : lease[u] # NoConn <=> phase[u] = "holding"
  /\ \A u \in Users : lease[u] # NoConn => status[lease[u]] \in {"IN_USE", "CLOSED"}
  /\ \A u, v \in Users : lease[u] = lease[v] /\ lease[u] # NoConn => u = v

(* A pool's array holds connections it created, numbered up to its counter. *)
Arrays ==
  /\ \A c \in Conn : status[c] = "NONE" <=> c.id > dialled[c.pool]
  /\ \A g \in Pools : \A c \in members[g] : c.pool = g /\ status[c] # "NONE"

(* RegistryAgrees, connection by connection.                                *)
Sockets ==
  \A c \in Conn : /\ c \in open <=> registry[c] # "NONE"
                  /\ c \in open => registry[c] = status[c]

IInv ==
  /\ TypeOK
  /\ Fresh
  /\ Leases
  /\ Arrays
  /\ Sockets
  /\ HandsOutOpenOnly
  /\ ClosedOnlyByShutdown

-----------------------------------------------------------------------------
(* What getPool does, as seen by the actions that call it.                  *)
LEMMA GetPoolFacts ==
  ASSUME TypeOK, getPool
  PROVE  /\ created' \in 0..MaxPools /\ created <= created'
         /\ current' = Found /\ current' \in Pools /\ current' <= created'
         /\ timer' \in [Pools -> BOOLEAN]
         /\ Found = current \/ Found = created + 1
         /\ \A g \in Pools : timer'[g] # timer[g] => g > created
         /\ \A g \in Pools : g > created' => timer'[g] = timer[g] /\ g > created
<1> USE PoolAssumption DEF TypeOK, Pools
<1>1. CASE current # 0 /\ UNCHANGED poolVars
  BY <1>1 DEF Found, poolVars
<1>2. CASE /\ current = 0
           /\ created < MaxPools
           /\ created' = created + 1
           /\ current' = created + 1
           /\ timer' = [timer EXCEPT ![created + 1] = TRUE]
  <2>1. created + 1 \in 1..MaxPools /\ created' \in 0..MaxPools
    BY <1>2
  <2>2. timer' \in [Pools -> BOOLEAN]
    BY <1>2, <2>1
  <2>3. \A g \in Pools : g # created + 1 => timer'[g] = timer[g]
    BY <1>2
  <2>4. \A g \in Pools : g > created' => g > created /\ g # created + 1
    BY <1>2
  <2>5. \A g \in Pools : g = created + 1 => g > created
    BY <1>2
  <2>6. /\ created <= created' /\ current' = Found /\ current' \in Pools
        /\ current' <= created' /\ Found = created + 1
    BY <1>2, <2>1 DEF Found
  <2>7. /\ \A g \in Pools : timer'[g] # timer[g] => g > created
        /\ \A g \in Pools : g > created' => timer'[g] = timer[g] /\ g > created
    BY <2>3, <2>4, <2>5
  <2> QED
    BY <2>1, <2>2, <2>6, <2>7
<1> QED
  BY <1>1, <1>2 DEF getPool

(* The variables keep their types.                                          *)
LEMMA TypeStep == IInv /\ [Next]_vars => TypeOK'
<1> SUFFICES ASSUME IInv, [Next]_vars PROVE TypeOK'
  OBVIOUS
<1>0. TypeOK /\ Fresh
  BY DEF IInv
<1> USE <1>0 DEF TypeOK
<1>1. ASSUME NEW u \in Users, NEW c \in Conn, AcquireIdle(u, c) PROVE TypeOK'
  BY <1>1 DEF AcquireIdle, poolVars
<1>2. ASSUME NEW u \in Users, AcquireDial(u) PROVE TypeOK'
  <2>1. created' \in 0..MaxPools /\ current' \in 0..created' /\ timer' \in [Pools -> BOOLEAN]
    BY <1>2, GetPoolFacts DEF AcquireDial, Pools
  <2>2. Found \in 0..MaxPools
    BY <1>2, GetPoolFacts DEF AcquireDial, Pools
  <2> QED
    BY <1>2, <2>1, <2>2 DEF AcquireDial, connVars
<1>3. ASSUME NEW u \in Users, AcquireRefused(u) PROVE TypeOK'
  BY <1>3 DEF AcquireRefused, poolVars, connVars
<1>4. ASSUME NEW u \in Users, DialDone(u) PROVE TypeOK'
  <2> DEFINE g == dialPool[u]
             c == [pool |-> g, id |-> dialled[g] + 1]
  <2>1. g \in Pools /\ c \in Conn
    BY <1>4, PoolAssumption DEF DialDone, Fresh, Pools, Conn
  <2>2. dialled' \in [Pools -> 0..MaxDials]
    BY <1>4, <2>1, PoolAssumption DEF DialDone
  <2> QED
    BY <1>4, <2>1, <2>2, PoolAssumption DEF DialDone, poolVars
<1>5. ASSUME NEW u \in Users, DialFailed(u) PROVE TypeOK'
  BY <1>5, PoolAssumption DEF DialFailed, poolVars, connVars
<1>6. ASSUME NEW u \in Users, Release(u) PROVE TypeOK'
  <2>1. created' \in 0..MaxPools /\ current' \in 0..created' /\ timer' \in [Pools -> BOOLEAN]
    BY <1>6, GetPoolFacts DEF Release, Pools
  <2> QED
    BY <1>6, <2>1 DEF Release
<1>7. ASSUME NEW u \in Users, Remove(u) PROVE TypeOK'
  <2>1. created' \in 0..MaxPools /\ current' \in 0..created' /\ timer' \in [Pools -> BOOLEAN]
    BY <1>7, GetPoolFacts DEF Remove, Close, Pools
  <2> QED
    BY <1>7, <2>1 DEF Remove, Close, connVars
<1>8. ASSUME NEW g \in Pools, Cleanup(g) PROVE TypeOK'
  BY <1>8 DEF Cleanup, Stale, Close, poolVars
<1>9. ASSUME CloseAll PROVE TypeOK'
  BY <1>9, PoolAssumption DEF CloseAll, Close
<1>10. ASSUME ClearPools PROVE TypeOK'
  BY <1>10, PoolAssumption DEF ClearPools, connVars
<1>11. ASSUME NEW c \in Conn, AgeOut(c) \/ IdleOut(c) PROVE TypeOK'
  BY <1>11 DEF AgeOut, IdleOut, poolVars, connVars
<1>12. CASE UNCHANGED vars
  BY <1>12 DEF vars
<1> QED
  BY <1>1, <1>2, <1>3, <1>4, <1>5, <1>6, <1>7, <1>8, <1>9, <1>10, <1>11, <1>12
  DEF Next, Acquire, Return

-----------------------------------------------------------------------------
(* A connection that exists belongs to a pool object that exists.           *)
LEMMA ExistingConn ==
  ASSUME IInv, NEW c \in Conn, status[c] # "NONE"
  PROVE  c.pool \in Pools /\ c.pool <= created /\ c.id <= dialled[c.pool]
<1>1. c.pool \in Pools /\ c.id \in 1..MaxDials
  BY DEF Conn
<1>2. ~(c.id > dialled[c.pool]) /\ dialled[c.pool] \in 0..MaxDials
  BY <1>1 DEF IInv, Arrays, TypeOK
<1>3. c.id <= dialled[c.pool]
  BY <1>1, <1>2, PoolAssumption
<1>4. dialled[c.pool] # 0
  BY <1>1, <1>3, PoolAssumption
<1>5. ~(c.pool > created) /\ created \in 0..MaxPools
  BY <1>1, <1>4 DEF IInv, Fresh, TypeOK
<1> QED
  BY <1>1, <1>3, <1>5, PoolAssumption DEF Pools

(* A held connection exists.                                                *)
LEMMA HeldConn ==
  ASSUME IInv, NEW u \in Users, lease[u] # NoConn
  PROVE  lease[u] \in Conn /\ status[lease[u]] \in {"IN_USE", "CLOSED"}
BY DEF IInv, TypeOK, Leases

(* The connection a finished dial creates is new.                           *)
LEMMA NewConn ==
  ASSUME IInv, NEW u \in Users, DialDone(u)
  PROVE  LET g == dialPool[u]
             c == [pool |-> g, id |-> dialled[g] + 1]
         IN /\ g \in Pools /\ g <= created
            /\ c \in Conn /\ status[c] = "NONE"
            /\ \A v \in Users : lease[v] # c
            /\ \A h \in Pools : c \notin members[h]
<1> DEFINE g == dialPool[u]
           c == [pool |-> g, id |-> dialled[g] + 1]
<1>1. g \in Pools /\ g <= created
  BY PoolAssumption DEF IInv, DialDone, Fresh, TypeOK, Pools
<1>2. dialled[g] \in 0..MaxDials /\ dialled[g] < MaxDials
  BY <1>1 DEF IInv, DialDone, TypeOK
<1>3. c \in Conn /\ c.id > dialled[c.pool]
  BY <1>1, <1>2, PoolAssumption DEF Conn
<1>4. status[c] = "NONE"
  BY <1>3 DEF IInv, Arrays
<1>5. c # NoConn
  BY <1>3, PoolAssumption
<1>6. \A v \in Users : lease[v] # c
  BY <1>4, <1>5 DEF IInv, Leases
<1>7. \A h \in Pools : c \notin members[h]
  BY <1>4 DEF IInv, Arrays
<1> QED
  BY <1>1, <1>3, <1>4, <1>6, <1>7

-----------------------------------------------------------------------------
(* Pool objects that do not exist yet stay blank.                           *)
LEMMA FreshStep == IInv /\ [Next]_vars => Fresh'
<1> SUFFICES ASSUME IInv, [Next]_vars PROVE Fresh'
  OBVIOUS
<1>0. TypeOK /\ Fresh
  BY DEF IInv
<1> USE <1>0 DEF Fresh
<1>1. ASSUME NEW u \in Users, NEW c \in Conn, AcquireIdle(u, c) PROVE Fresh'
  BY <1>1 DEF AcquireIdle, poolVars, TypeOK
<1>2. ASSUME NEW u \in Users, AcquireDial(u) PROVE Fresh'
  <2>1. /\ created' \in 0..MaxPools /\ created \in 0..MaxPools /\ created <= created'
        /\ Found \in Pools /\ Found <= created'
    BY <1>2, GetPoolFacts DEF AcquireDial, TypeOK
  <2>2. \A g \in Pools : g > created' => timer'[g] = timer[g] /\ g > created
    BY <1>2, GetPoolFacts DEF AcquireDial
  <2>3. \A v \in Users : dialPool'[v] \in 0..created' /\ (phase'[v] = "dialling" => dialPool'[v] # 0)
    BY <1>2, <2>1, PoolAssumption DEF AcquireDial, TypeOK, Pools
  <2> QED
    BY <1>2, <2>2, <2>3 DEF AcquireDial
<1>3. ASSUME NEW u \in Users, AcquireRefused(u) PROVE Fresh'
  BY <1>3 DEF AcquireRefused, poolVars, TypeOK
<1>4. ASSUME NEW u \in Users, DialDone(u) PROVE Fresh'
  <2>1. dialPool[u] \in Pools /\ dialPool[u] <= created
    BY <1>4, NewConn
  <2>2. \A g \in Pools : g > created => g # dialPool[u]
    BY <2>1, PoolAssumption DEF TypeOK, Pools
  <2>3. \A g \in Pools : g > created => members'[g] = members[g] /\ dialled'[g] = dialled[g]
    BY <1>4, <2>2 DEF DialDone, TypeOK
  <2>4. \A v \in Users : dialPool'[v] \in 0..created /\ (phase'[v] = "dialling" => dialPool'[v] # 0)
    BY <1>4, PoolAssumption DEF DialDone, TypeOK
  <2> QED
    BY <1>4, <2>3, <2>4 DEF DialDone, poolVars
<1>5. ASSUME NEW u \in Users, DialFailed(u) PROVE Fresh'
  <2>1. \A v \in Users : dialPool'[v] \in 0..created /\ (phase'[v] = "dialling" => dialPool'[v] # 0)
    BY <1>5, PoolAssumption DEF DialFailed, TypeOK
  <2> QED
    BY <1>5, <2>1 DEF DialFailed, poolVars
<1>6. ASSUME NEW u \in Users, Release(u) \/ Remove(u) PROVE Fresh'
  <2>1. getPool
    BY <1>6 DEF Release, Remove, Close
  <2>2. created \in 0..MaxPools /\ created' \in 0..MaxPools /\ created <= created'
    BY <2>1, GetPoolFacts DEF TypeOK
  <2>3. \A g \in Pools : g > created' => timer'[g] = timer[g] /\ g > created
    BY <2>1, GetPoolFacts
  <2>4. \A g \in Pools : members'[g] \subseteq members[g]
    BY <1>6 DEF Release, Remove, Close, TypeOK
  <2>5. \A v \in Users : dialPool[v] \in 0..created'
    BY <2>2, PoolAssumption
  <2>6. UNCHANGED <<dialled, dialPool>> /\ \A v \in Users : phase'[v] = "dialling" => phase[v] = "dialling"
    BY <1>6 DEF Release, Remove, Close, TypeOK
  <2> QED
    BY <2>3, <2>4, <2>5, <2>6
<1>7. ASSUME NEW g \in Pools, Cleanup(g) PROVE Fresh'
  BY <1>7 DEF Cleanup, Stale, Close, poolVars, TypeOK
<1>8. ASSUME CloseAll PROVE Fresh'
  BY <1>8 DEF CloseAll, Close, TypeOK
<1>9. ASSUME ClearPools PROVE Fresh'
  BY <1>9 DEF ClearPools
<1>10. ASSUME NEW c \in Conn, AgeOut(c) \/ IdleOut(c) PROVE Fresh'
  BY <1>10 DEF AgeOut, IdleOut, poolVars
<1>11. CASE UNCHANGED vars
  BY <1>11 DEF vars
<1> QED
  BY <1>1, <1>2, <1>3, <1>4, <1>5, <1>6, <1>7, <1>8, <1>9, <1>10, <1>11
  DEF Next, Acquire, Return

(* Leases stay exclusive, and a leased connection never becomes IDLE.       *)
LEMMA LeasesStep == IInv /\ [Next]_vars => Leases'
<1> SUFFICES ASSUME IInv, [Next]_vars PROVE Leases'
  OBVIOUS
<1>0. TypeOK /\ Leases
  BY DEF IInv
<1> USE <1>0 DEF TypeOK, Leases
<1>1. ASSUME NEW u \in Users, NEW c \in Conn, AcquireIdle(u, c) PROVE Leases'
  <2>1. status[c] = "IDLE" /\ c # NoConn
    BY <1>1, PoolAssumption DEF AcquireIdle, Reusable
  <2>2. \A v \in Users : lease[v] # c
    BY <2>1
  <2> QED
    BY <1>1, <2>1, <2>2 DEF AcquireIdle
<1>2. ASSUME NEW u \in Users, AcquireDial(u) \/ AcquireRefused(u) \/ DialFailed(u)
      PROVE Leases'
  BY <1>2 DEF AcquireDial, AcquireRefused, DialFailed, connVars
<1>3. ASSUME NEW u \in Users, DialDone(u) PROVE Leases'
  <2> DEFINE c == [pool |-> dialPool[u], id |-> dialled[dialPool[u]] + 1]
  <2>1. c \in Conn /\ c # NoConn /\ \A v \in Users : lease[v] # c
    BY <1>3, NewConn, PoolAssumption
  <2>2. /\ lease' = [lease EXCEPT ![u] = c]
        /\ status' = [status EXCEPT ![c] = "IN_USE"]
        /\ phase' = [phase EXCEPT ![u] = "holding"]
    BY <1>3 DEF DialDone
  <2> QED
    BY <2>1, <2>2
<1>4. ASSUME NEW u \in Users, Release(u) \/ Remove(u) PROVE Leases'
  <2>1. lease[u] \in Conn
    BY <1>4 DEF Release, Remove, Close
  <2>2. \A v \in Users : v # u /\ lease[v] # NoConn => lease[v] # lease[u]
    BY <2>1, PoolAssumption
  <2>3. /\ lease' = [lease EXCEPT ![u] = NoConn]
        /\ phase' = [phase EXCEPT ![u] = "ready"]
        /\ \A c \in Conn : c # lease[u] => status'[c] = status[c]
    BY <1>4, <2>1 DEF Release, Remove, Close, connVars
  <2> QED
    BY <2>1, <2>2, <2>3
<1>5. ASSUME NEW g \in Pools, Cleanup(g) PROVE Leases'
  BY <1>5 DEF Cleanup, Stale, Close
<1>6. ASSUME CloseAll PROVE Leases'
  BY <1>6 DEF CloseAll, Close
<1>7. ASSUME ClearPools PROVE Leases'
  BY <1>7 DEF ClearPools, connVars
<1>8. ASSUME NEW c \in Conn, AgeOut(c) \/ IdleOut(c) PROVE Leases'
  BY <1>8 DEF AgeOut, IdleOut, connVars
<1>9. CASE UNCHANGED vars
  BY <1>9 DEF vars
<1> QED
  BY <1>1, <1>2, <1>3, <1>4, <1>5, <1>6, <1>7, <1>8, <1>9 DEF Next, Acquire, Return

(* Arrays keep to their pool's own, created connections.                    *)
LEMMA ArraysStep == IInv /\ [Next]_vars => Arrays'
<1> SUFFICES ASSUME IInv, [Next]_vars PROVE Arrays'
  OBVIOUS
<1>0. TypeOK /\ Leases /\ Arrays
  BY DEF IInv
<1> USE <1>0 DEF TypeOK, Arrays
<1>1. ASSUME NEW u \in Users, NEW c \in Conn, AcquireIdle(u, c) PROVE Arrays'
  BY <1>1 DEF AcquireIdle, Reusable
<1>2. ASSUME NEW u \in Users, AcquireDial(u) \/ AcquireRefused(u) \/ DialFailed(u)
      PROVE Arrays'
  BY <1>2 DEF AcquireDial, AcquireRefused, DialFailed, connVars
<1>3. ASSUME NEW u \in Users, DialDone(u) PROVE Arrays'
  <2> DEFINE g == dialPool[u]
             n == [pool |-> g, id |-> dialled[g] + 1]
  <2>1. g \in Pools /\ n \in Conn /\ n.pool = g /\ n.id = dialled[g] + 1
    BY <1>3, NewConn
  <2>2. /\ dialled' = [dialled EXCEPT ![g] = @ + 1]
        /\ members' = [members EXCEPT ![g] = @ \cup {n}]
        /\ status' = [status EXCEPT ![n] = "IN_USE"]
    BY <1>3 DEF DialDone
  <2>3. ASSUME NEW c \in Conn PROVE status'[c] = "NONE" <=> c.id > dialled'[c.pool]
    <3>1. c.pool \in Pools /\ c.id \in 1..MaxDials /\ c = [pool |-> c.pool, id |-> c.id]
      BY DEF Conn
    <3>2. dialled[g] \in 0..MaxDials /\ dialled[c.pool] \in 0..MaxDials
      BY <2>1, <3>1
    <3>3. CASE c = n
      BY <2>1, <2>2, <3>2, <3>3, PoolAssumption
    <3>4. CASE c # n /\ c.pool = g
      <4>1. c.id # dialled[g] + 1
        BY <3>1, <3>4
      <4>2. c.id > dialled[g] <=> c.id > dialled[g] + 1
        <5>1. c.id \in Nat /\ dialled[g] \in Nat
          BY <3>1, <3>2, PoolAssumption
        <5> QED
          BY <4>1, <5>1
      <4> QED
        BY <2>1, <2>2, <3>4, <4>2
    <3>5. CASE c # n /\ c.pool # g
      BY <2>1, <2>2, <3>1, <3>5
    <3> QED
      BY <3>3, <3>4, <3>5
  <2>4. \A h \in Pools : \A c \in members'[h] : c.pool = h /\ status'[c] # "NONE"
    BY <2>1, <2>2
  <2> QED
    BY <2>3, <2>4
<1>4. ASSUME NEW u \in Users, Release(u) \/ Remove(u) PROVE Arrays'
  <2>1. lease[u] \in Conn /\ status[lease[u]] \in {"IN_USE", "CLOSED"}
    BY <1>4 DEF Release, Remove, Close, Leases
  <2>2. /\ dialled' = dialled
        /\ \A g \in Pools : members'[g] \subseteq members[g]
        /\ \A c \in Conn : c # lease[u] => status'[c] = status[c]
        /\ status'[lease[u]] # "NONE"
    BY <1>4, <2>1 DEF Release, Remove, Close, connVars
  <2> QED
    BY <2>1, <2>2
<1>5. ASSUME NEW g \in Pools, Cleanup(g) PROVE Arrays'
  BY <1>5 DEF Cleanup, Stale, Close
<1>6. ASSUME CloseAll PROVE Arrays'
  BY <1>6 DEF CloseAll, Close
<1>7. ASSUME ClearPools PROVE Arrays'
  BY <1>7 DEF ClearPools, connVars
<1>8. ASSUME NEW c \in Conn, AgeOut(c) \/ IdleOut(c) PROVE Arrays'
  BY <1>8 DEF AgeOut, IdleOut, connVars
<1>9. CASE UNCHANGED vars
  BY <1>9 DEF vars
<1> QED
  BY <1>1, <1>2, <1>3, <1>4, <1>5, <1>6, <1>7, <1>8, <1>9 DEF Next, Acquire, Return

(* Sockets and registry entries come and go together.                       *)
LEMMA SocketsStep == IInv /\ [Next]_vars => Sockets'
<1> SUFFICES ASSUME IInv, [Next]_vars PROVE Sockets'
  OBVIOUS
<1>0. TypeOK /\ Sockets
  BY DEF IInv
<1> USE <1>0 DEF TypeOK, Sockets
<1>1. ASSUME NEW u \in Users, NEW c \in Conn, AcquireIdle(u, c) PROVE Sockets'
  BY <1>1 DEF AcquireIdle
<1>2. ASSUME NEW u \in Users, AcquireDial(u) \/ AcquireRefused(u) \/ DialFailed(u)
      PROVE Sockets'
  BY <1>2 DEF AcquireDial, AcquireRefused, DialFailed, connVars
<1>3. ASSUME NEW u \in Users, DialDone(u) PROVE Sockets'
  BY <1>3, NewConn DEF DialDone
<1>4. ASSUME NEW u \in Users, Release(u) PROVE Sockets'
  BY <1>4 DEF Release
<1>5. ASSUME NEW u \in Users, Remove(u) PROVE Sockets'
  BY <1>5 DEF Remove, Close, connVars
<1>6. ASSUME NEW g \in Pools, Cleanup(g) PROVE Sockets'
  BY <1>6 DEF Cleanup, Stale, Close
<1>7. ASSUME CloseAll PROVE Sockets'
  BY <1>7 DEF CloseAll, Close
<1>8. ASSUME ClearPools PROVE Sockets'
  BY <1>8 DEF ClearPools, connVars
<1>9. ASSUME NEW c \in Conn, AgeOut(c) \/ IdleOut(c) PROVE Sockets'
  BY <1>9 DEF AgeOut, IdleOut, connVars
<1>10. CASE UNCHANGED vars
  BY <1>10 DEF vars
<1> QED
  BY <1>1, <1>2, <1>3, <1>4, <1>5, <1>6, <1>7, <1>8, <1>9, <1>10
  DEF Next, Acquire, Return

(* The array find searches holds open connections only.                     *)
LEMMA HandsOutStep == IInv /\ [Next]_vars => HandsOutOpenOnly'
<1> SUFFICES ASSUME IInv, [Next]_vars PROVE HandsOutOpenOnly'
  OBVIOUS
<1>0. TypeOK /\ Fresh /\ Arrays /\ HandsOutOpenOnly
  BY DEF IInv
<1> USE <1>0 DEF TypeOK, HandsOutOpenOnly
<1>a. ASSUME getPool
      PROVE \A c \in members[current'] : current' # 0 => c \in open /\ c.pool = current'
  <2>1. current' \in Pools /\ (Found = current \/ Found = created + 1) /\ current' = Found
    BY <1>a, GetPoolFacts
  <2>2. CASE current # 0
    BY <1>a, <2>1, <2>2 DEF Found, Arrays
  <2>3. CASE current = 0
    <3>1. current' > created
      BY <2>1, <2>3 DEF Found
    <3>2. members[current'] = {}
      BY <2>1, <3>1 DEF Fresh
    <3> QED
      BY <3>2
  <2> QED
    BY <2>2, <2>3
<1>1. ASSUME NEW u \in Users, NEW c \in Conn, AcquireIdle(u, c)
      PROVE HandsOutOpenOnly'
  BY <1>1 DEF AcquireIdle, poolVars
<1>2. ASSUME NEW u \in Users, AcquireDial(u) PROVE HandsOutOpenOnly'
  BY <1>2, <1>a DEF AcquireDial, connVars
<1>3. ASSUME NEW u \in Users, AcquireRefused(u) \/ DialFailed(u)
      PROVE HandsOutOpenOnly'
  BY <1>3 DEF AcquireRefused, DialFailed, poolVars, connVars
<1>4. ASSUME NEW u \in Users, DialDone(u) PROVE HandsOutOpenOnly'
  BY <1>4, NewConn DEF DialDone, poolVars
<1>5. ASSUME NEW u \in Users, Release(u) PROVE HandsOutOpenOnly'
  BY <1>5, <1>a DEF Release
<1>6. ASSUME NEW u \in Users, Remove(u) PROVE HandsOutOpenOnly'
  <2> DEFINE c == lease[u]
             g == Found
             found == {m \in members[g] : m.id = c.id}
  <2>1. getPool /\ g = current' /\ g \in Pools /\ c \in Conn
    BY <1>6, GetPoolFacts DEF Remove, Close, IInv, Leases
  <2>2. CASE found = {}
    BY <1>6, <1>a, <2>1, <2>2 DEF Remove, Close, connVars
  <2>3. CASE found # {}
    <3>1. members'[g] = members[g] \ found /\ open' = open \ {c}
      BY <1>6, <2>1, <2>3 DEF Remove, Close
    <3>2. c \notin members[g] \ found
      OBVIOUS
    <3> QED
      BY <1>a, <2>1, <3>1, <3>2
  <2> QED
    BY <2>2, <2>3
<1>7. ASSUME NEW g \in Pools, Cleanup(g) PROVE HandsOutOpenOnly'
  <2>1. CASE g = current
    BY <1>7, <2>1 DEF Cleanup, Stale, Close, poolVars
  <2>2. CASE g # current
    <3>1. current # 0 => current \in Pools
      BY PoolAssumption DEF Pools
    <3>2. current # 0 => \A c \in members[current] : c \notin members[g]
      BY <2>2, <3>1 DEF Arrays
    <3> QED
      BY <1>7, <2>2, <3>2 DEF Cleanup, Stale, Close, poolVars
  <2> QED
    BY <2>1, <2>2
<1>8. ASSUME CloseAll PROVE HandsOutOpenOnly'
  <2>1. current # 0 => current \in Pools
    BY PoolAssumption DEF Pools
  <2> QED
    BY <1>8, <2>1 DEF CloseAll, Close
<1>9. ASSUME ClearPools PROVE HandsOutOpenOnly'
  BY <1>9 DEF ClearPools
<1>10. ASSUME NEW c \in Conn, AgeOut(c) \/ IdleOut(c) PROVE HandsOutOpenOnly'
  BY <1>10 DEF AgeOut, IdleOut, poolVars, connVars
<1>11. CASE UNCHANGED vars
  BY <1>11 DEF vars
<1> QED
  BY <1>1, <1>2, <1>3, <1>4, <1>5, <1>6, <1>7, <1>8, <1>9, <1>10, <1>11
  DEF Next, Acquire, Return

(* Nothing but closeAll closes a leased connection.                         *)
LEMMA ClosedOnlyStep == IInv /\ [Next]_vars => ClosedOnlyByShutdown'
<1> SUFFICES ASSUME IInv, [Next]_vars, NEW w \in Users, lease'[w] # NoConn
             PROVE  lease'[w] \in open' \/ ~timer'[lease'[w].pool]
  BY DEF ClosedOnlyByShutdown
<1>0. TypeOK /\ Leases /\ Sockets /\ ClosedOnlyByShutdown
  BY DEF IInv
<1> USE <1>0 DEF TypeOK, ClosedOnlyByShutdown
<1> DEFINE Goal == lease'[w] \in open' \/ ~timer'[lease'[w].pool]
(* A created pool object is not that of any lease held before.              *)
<1>a. ASSUME getPool, lease[w] # NoConn PROVE timer'[lease[w].pool] = timer[lease[w].pool]
  <2>1. lease[w] \in Conn /\ lease[w].pool \in Pools /\ lease[w].pool <= created
    BY <1>a, HeldConn, ExistingConn
  <2>2. ~(lease[w].pool > created)
    BY <2>1, PoolAssumption DEF Pools
  <2> QED
    BY <1>a, <2>1, <2>2, GetPoolFacts
<1>1. ASSUME NEW u \in Users, NEW c \in Conn, AcquireIdle(u, c) PROVE Goal
  <2>1. c \in open
    BY <1>1 DEF AcquireIdle, Reusable, HandsOutOpenOnly, IInv
  <2> QED
    BY <1>1, <2>1 DEF AcquireIdle, poolVars
<1>2. ASSUME NEW u \in Users, AcquireDial(u) PROVE Goal
  BY <1>2, <1>a DEF AcquireDial, connVars
<1>3. ASSUME NEW u \in Users, AcquireRefused(u) \/ DialFailed(u) PROVE Goal
  BY <1>3 DEF AcquireRefused, DialFailed, poolVars, connVars
<1>4. ASSUME NEW u \in Users, DialDone(u) PROVE Goal
  BY <1>4, NewConn DEF DialDone, poolVars
<1>5. ASSUME NEW u \in Users, Release(u) PROVE Goal
  BY <1>5, <1>a DEF Release
<1>6. ASSUME NEW u \in Users, Remove(u) PROVE Goal
  <2>1. u # w /\ lease'[w] = lease[w] /\ lease[u] # NoConn /\ lease[w] # lease[u]
    BY <1>6, PoolAssumption DEF Remove, Close, Leases
  <2>2. lease[w] \in open => lease'[w] \in open'
    BY <1>6, <2>1 DEF Remove, Close, connVars
  <2>3. timer'[lease[w].pool] = timer[lease[w].pool]
    BY <1>6, <1>a, <2>1 DEF Remove, Close
  <2> QED
    BY <2>1, <2>2, <2>3
<1>7. ASSUME NEW g \in Pools, Cleanup(g) PROVE Goal
  <2>1. lease'[w] = lease[w] /\ lease[w] \in Conn /\ timer' = timer
    BY <1>7, HeldConn DEF Cleanup, Stale, Close, poolVars
  <2>2. lease[w] \in open => status[lease[w]] = "IN_USE"
    BY <2>1, PoolAssumption DEF Leases, Sockets
  <2>3. lease[w] \in open => lease[w] \in open'
    BY <1>7, <2>1, <2>2 DEF Cleanup, Stale, Close
  <2> QED
    BY <2>1, <2>3
<1>8. ASSUME CloseAll PROVE Goal
  <2>1. lease'[w] = lease[w] /\ lease[w] \in Conn /\ lease[w].pool \in Pools
    BY <1>8, HeldConn, ExistingConn DEF CloseAll, Close
  <2>2. CASE lease[w].pool = current
    BY <1>8, <2>1, <2>2 DEF CloseAll, Close
  <2>3. CASE lease[w].pool # current
    <3>1. \A g \in Pools \cap {current} : lease[w] \notin members[g]
      BY <2>3 DEF IInv, Arrays
    <3>2. lease[w] \in open => lease[w] \in open'
      BY <1>8, <3>1 DEF CloseAll, Close
    <3>3. timer'[lease[w].pool] = timer[lease[w].pool]
      BY <1>8, <2>1, <2>3 DEF CloseAll, Close
    <3> QED
      BY <2>1, <3>2, <3>3
  <2> QED
    BY <2>2, <2>3
<1>9. ASSUME ClearPools PROVE Goal
  BY <1>9 DEF ClearPools, connVars
<1>10. ASSUME NEW c \in Conn, AgeOut(c) \/ IdleOut(c) PROVE Goal
  BY <1>10 DEF AgeOut, IdleOut, poolVars, connVars
<1>11. CASE UNCHANGED vars
  BY <1>11 DEF vars
<1> QED
  BY <1>1, <1>2, <1>3, <1>4, <1>5, <1>6, <1>7, <1>8, <1>9, <1>10, <1>11
  DEF Next, Acquire, Return

-----------------------------------------------------------------------------
\* The empty manager satisfies the invariant.
LEMMA InitIInv == Init => IInv
<1> SUFFICES ASSUME Init PROVE IInv
  OBVIOUS
<1> USE PoolAssumption DEF Init
<1>1. TypeOK
  BY DEF TypeOK, Pools
<1>2. Arrays
  BY DEF Arrays, Conn, Pools
<1>3. Fresh /\ Leases /\ Sockets /\ HandsOutOpenOnly /\ ClosedOnlyByShutdown
  BY DEF Fresh, Leases, Sockets, HandsOutOpenOnly, ClosedOnlyByShutdown, Pools
<1> QED
  BY <1>1, <1>2, <1>3 DEF IInv

(* The inductive invariant.                                                 *)
THEOREM Inductive == Spec => []IInv
<1>1. IInv /\ [Next]_vars => IInv'
  BY TypeStep, FreshStep, LeasesStep, ArraysStep, SocketsStep, HandsOutStep,
     ClosedOnlyStep DEF IInv
<1> QED
  BY InitIInv, <1>1, PTL DEF Spec

(* The pool's variables keep their types.                                   *)
THEOREM TypeCorrect == Spec => []TypeOK
<1>1. IInv => TypeOK
  BY DEF IInv
<1> QED
  BY Inductive, <1>1, PTL

(* A connection is leased to one caller at a time and says so.              *)
THEOREM LeasesAreExclusive == Spec => []ExclusiveLease
<1>1. IInv => ExclusiveLease
  BY PoolAssumption DEF IInv, ExclusiveLease, Leases, Leased, Sockets, TypeOK
<1> QED
  BY Inductive, <1>1, PTL

(* No closed connection can be handed out.                                  *)
THEOREM OnlyOpenConnectionsAreHandedOut == Spec => []HandsOutOpenOnly
<1>1. IInv => HandsOutOpenOnly
  BY DEF IInv
<1> QED
  BY Inductive, <1>1, PTL

(* The registry holds exactly the open connections, in their pool's state.  *)
THEOREM RegistryFollowsSockets == Spec => []RegistryAgrees
<1>1. IInv => RegistryAgrees
  BY DEF IInv, RegistryAgrees, Sockets, TypeOK
<1> QED
  BY Inductive, <1>1, PTL

(* A leased connection is closed by closeAll only.                          *)
THEOREM LeasesSurviveReaping == Spec => []ClosedOnlyByShutdown
<1>1. IInv => ClosedOnlyByShutdown
  BY DEF IInv
<1> QED
  BY Inductive, <1>1, PTL

-----------------------------------------------------------------------------
(* An interval that runs belongs to a pool object that exists, which getPool *)
(* leaves alone.                                                             *)
LEMMA GetPoolKeepsTimers ==
  ASSUME TypeOK, Fresh, getPool, NEW p \in Pools, timer[p]
  PROVE  timer'[p]
<1>1. ~(p > created)
  BY DEF Fresh
<1> QED
  BY <1>1, GetPoolFacts

(* The connection is open and an interval looks after it. Whatever takes it  *)
(* out of its array, or stops the interval, closes it, but for the splice by *)
(* number.                                                                   *)
LEMMA TendedStep ==
  ASSUME IInv, [Next]_vars, NEW c \in open', c \in open, NEW p \in Pools,
         timer[p], c \in members[p], ~(timer'[p] /\ c \in members'[p])
  PROVE  \E u \in Users : Remove(u) /\ lease[u].id = c.id /\ lease[u].pool # c.pool
<1>0. TypeOK /\ Fresh /\ Arrays /\ Leases
  BY DEF IInv
<1>c. ~UNCHANGED <<timer, members>>
  OBVIOUS
<1>1. ASSUME NEW u \in Users, DialDone(u) PROVE FALSE
  BY <1>0, <1>1 DEF DialDone, poolVars, TypeOK
<1>2. ASSUME NEW u \in Users, Remove(u)
      PROVE  lease[u].id = c.id /\ lease[u].pool # c.pool
  <2> DEFINE h == lease[u]
             found == {m \in members[Found] : m.id = h.id}
  <2>1. getPool /\ phase[u] = "holding" /\ h \in Conn
    BY <1>0, <1>2, HeldConn DEF Remove, Leases
  <2>2. timer'[p] /\ Found \in Pools
    BY <1>0, <2>1, GetPoolKeepsTimers, GetPoolFacts
  <2>3. /\ found # {}
        /\ members' = [members EXCEPT ![Found] = @ \ found]
        /\ open' = open \ {h}
    BY <1>2, <2>2 DEF Remove, Close, connVars
  <2>4. c \in Conn /\ c # h
    BY <1>0, <2>3 DEF TypeOK
  <2>5. c \in found
    BY <1>0, <2>2, <2>3 DEF TypeOK
  <2>6. c.id = h.id
    BY <2>5
  <2> QED
    BY <2>1, <2>4, <2>6 DEF Conn
<1>3. ASSUME NEW g \in Pools, Cleanup(g) PROVE FALSE
  BY <1>0, <1>3 DEF Cleanup, Close, poolVars, TypeOK
<1>4. ASSUME CloseAll PROVE FALSE
  <2>1. /\ open' = open \ UNION {members[g] \cap open : g \in Pools \cap {current}}
        /\ members' = [g \in Pools |-> IF g = current THEN {} ELSE members[g]]
        /\ timer' = [g \in Pools |-> timer[g] /\ g # current]
    BY <1>4 DEF CloseAll, Close
  <2>2. p # current
    BY <2>1
  <2>3. timer'[p] /\ members'[p] = members[p]
    BY <2>1, <2>2
  <2> QED
    BY <2>3
<1>5. ASSUME NEW u \in Users, Acquire(u) \/ DialFailed(u) \/ Release(u) PROVE FALSE
  <2>1. UNCHANGED members
    BY <1>5 DEF Acquire, AcquireIdle, AcquireDial, AcquireRefused, DialFailed, Release
  <2>2. getPool \/ UNCHANGED poolVars
    BY <1>5 DEF Acquire, AcquireIdle, AcquireDial, AcquireRefused, DialFailed, Release
  <2> QED
    BY <1>0, <1>c, <2>1, <2>2, GetPoolKeepsTimers DEF poolVars
<1>6. ASSUME NEW d \in Conn, AgeOut(d) \/ IdleOut(d) PROVE FALSE
  BY <1>6, <1>c DEF AgeOut, IdleOut, poolVars
<1>7. ~ClearPools /\ ~UNCHANGED vars
  BY <1>c DEF ClearPools, vars
<1> QED
  BY <1>1, <1>2, <1>3, <1>4, <1>5, <1>6, <1>7 DEF Next, Return

(* Only the end of a dial opens a connection, and it puts it in the array of *)
(* the pool object the dial began on.                                        *)
LEMMA OpenedStep ==
  ASSUME IInv, [Next]_vars, NEW c \in open', c \notin open
  PROVE  c.pool \in Pools /\ c \in members'[c.pool] /\ timer' = timer
<1>0. TypeOK
  BY DEF IInv
<1>1. PICK u \in Users : DialDone(u)
  <2>1. open' \subseteq open \/ \E u \in Users : DialDone(u)
    BY DEF Next, Acquire, AcquireIdle, AcquireDial, AcquireRefused, DialFailed, Return,
       Release, Remove, Cleanup, CloseAll, ClearPools, AgeOut, IdleOut, Close, connVars, vars
  <2> QED
    BY <2>1
<1> DEFINE g == dialPool[u]
           n == [pool |-> g, id |-> dialled[g] + 1]
<1>2. /\ open' = open \cup {n} /\ members' = [members EXCEPT ![g] = @ \cup {n}]
      /\ timer' = timer
  BY <1>1 DEF DialDone, poolVars
<1>3. g \in Pools /\ n.pool = g
  BY <1>1, NewConn
<1>4. c = n
  BY <1>2
<1> HIDE DEF n
<1> QED
  BY <1>0, <1>2, <1>3, <1>4 DEF TypeOK

(* With any number of pool objects, callers and overlapping closeAll calls,  *)
(* a connection leaks from the care of the intervals in two ways only: a     *)
(* dial that ends on a closed pool object, and the splice by number.         *)
THEOREM LeaksInTwoWays == Spec => LostInTwoWays
<1> DEFINE Lost(c) ==
      \/ c \in open \ Tended
      \/ c \notin open /\ ~timer[c.pool]
      \/ \E u \in Users :
           /\ Remove(u)
           /\ lease[u].id = c.id /\ lease[u].pool # c.pool
<1>1. ASSUME IInv, [Next]_vars PROVE [\A c \in open' \ Tended' : Lost(c)]_vars
  <2> SUFFICES ASSUME NEW c \in open', c \notin Tended' PROVE Lost(c)
    OBVIOUS
  <2>1. CASE c \in open /\ c \in Tended
    <3>1. PICK p \in Pools : timer[p] /\ c \in members[p]
      BY <2>1 DEF Tended
    <3>2. ~(timer'[p] /\ c \in members'[p])
      BY <3>1 DEF Tended
    <3> QED
      BY <1>1, <2>1, <3>1, <3>2, TendedStep
  <2>2. CASE c \notin open
    <3>1. c.pool \in Pools /\ c \in members'[c.pool] /\ timer' = timer
      BY <1>1, <2>2, OpenedStep
    <3>2. ~timer[c.pool]
      BY <3>1 DEF Tended
    <3> QED
      BY <2>2, <3>2
  <2> QED
    BY <2>1, <2>2
<1> QED
  BY <1>1, Inductive, PTL DEF Spec, LostInTwoWays

-----------------------------------------------------------------------------
(* The overshoot of the limit.                                              *)
Within(g) ==
  /\ IsFiniteSet(members[g])
  /\ Cardinality(members[g]) + Cardinality(Diallers(g))
       <= MaxConnections - 1 + Cardinality(Users)

\* The callers dialling in a pool object can be counted.
LEMMA DiallersFinite ==
  ASSUME NEW g
  PROVE  /\ IsFiniteSet(Diallers(g)) /\ Cardinality(Diallers(g)) \in Nat
         /\ Cardinality(Diallers(g)) <= Cardinality(Users)
         /\ IsFiniteSet(Diallers(g)') /\ Cardinality(Diallers(g)') \in Nat
         /\ Cardinality(Diallers(g)') <= Cardinality(Users)
         /\ Cardinality(Users) \in Nat
<1>1. Diallers(g) \subseteq Users /\ Diallers(g)' \subseteq Users
  BY DEF Diallers
<1> QED
  BY <1>1, PoolAssumption, FS_Subset, FS_CardinalityType

(* A step that adds neither connections nor diallers to g keeps it within.  *)
LEMMA Shrinking ==
  ASSUME NEW g \in Pools, Within(g),
         members'[g] \subseteq members[g], Diallers(g)' \subseteq Diallers(g)
  PROVE  Within(g)'
<1>1. /\ IsFiniteSet(members'[g])
      /\ Cardinality(members'[g]) <= Cardinality(members[g])
      /\ Cardinality(members'[g]) \in Nat /\ Cardinality(members[g]) \in Nat
  BY FS_Subset, FS_CardinalityType DEF Within
<1>2. /\ Cardinality(Diallers(g)') <= Cardinality(Diallers(g))
      /\ Cardinality(Diallers(g)') \in Nat /\ Cardinality(Diallers(g)) \in Nat
      /\ Cardinality(Users) \in Nat
  BY DiallersFinite, FS_Subset
<1> QED
  BY <1>1, <1>2, PoolAssumption DEF Within

\* No step takes a pool object further over its limit than its callers.
LEMMA WithinStep ==
  ASSUME IInv, [Next]_vars, NEW g \in Pools, Within(g)
  PROVE  Within(g)'
<1>0. TypeOK
  BY DEF IInv
<1> USE <1>0 DEF TypeOK
<1>1. ASSUME NEW u \in Users, AcquireDial(u), Found = g PROVE Within(g)'
  <2>1. members' = members /\ Cardinality(members[g]) < MaxConnections
    BY <1>1 DEF AcquireDial
  <2>2. Cardinality(members[g]) \in Nat
    BY FS_CardinalityType DEF Within
  <2>3. /\ Cardinality(Diallers(g)') <= Cardinality(Users)
        /\ Cardinality(Diallers(g)') \in Nat /\ Cardinality(Users) \in Nat
    BY DiallersFinite
  <2> QED
    BY <2>1, <2>2, <2>3, PoolAssumption DEF Within
<1>2. ASSUME NEW u \in Users, AcquireDial(u), Found # g PROVE Within(g)'
  <2>1. Diallers(g)' \subseteq Diallers(g)
    BY <1>2 DEF AcquireDial, Diallers
  <2> QED
    BY <1>2, <2>1, Shrinking DEF AcquireDial
<1>3. ASSUME NEW u \in Users, DialDone(u), dialPool[u] = g PROVE Within(g)'
  <2> DEFINE c == [pool |-> g, id |-> dialled[g] + 1]
  <2>1. c \notin members[g] /\ members'[g] = members[g] \cup {c}
    <3>1. c \notin members[g]
      BY <1>3, NewConn
    <3>2. members' = [members EXCEPT ![g] = @ \cup {c}]
      BY <1>3 DEF DialDone
    <3> QED
      BY <3>1, <3>2
  <2>2. u \in Diallers(g) /\ Diallers(g)' = Diallers(g) \ {u}
    BY <1>3 DEF DialDone, Diallers
  <2>3. /\ IsFiniteSet(members'[g])
        /\ Cardinality(members'[g]) = Cardinality(members[g]) + 1
        /\ Cardinality(members[g]) \in Nat
    <3> HIDE DEF c
    <3>1. IsFiniteSet(members[g])
      BY DEF Within
    <3>2. /\ IsFiniteSet(members[g] \cup {c})
          /\ Cardinality(members[g] \cup {c}) = Cardinality(members[g]) + 1
      BY <2>1, <3>1, FS_AddElement
    <3> QED
      BY <2>1, <3>1, <3>2, FS_CardinalityType
  <2>4. /\ Cardinality(Diallers(g)') = Cardinality(Diallers(g)) - 1
        /\ Cardinality(Diallers(g)) \in Nat /\ Cardinality(Users) \in Nat
    BY <2>2, DiallersFinite, FS_RemoveElement
  <2> QED
    BY <2>3, <2>4, PoolAssumption DEF Within
<1>4. ASSUME NEW u \in Users, DialDone(u), dialPool[u] # g PROVE Within(g)'
  <2>1. members'[g] = members[g]
    BY <1>4, NewConn DEF DialDone
  <2>2. Diallers(g)' \subseteq Diallers(g)
    BY <1>4 DEF DialDone, Diallers
  <2> QED
    BY <2>1, <2>2, Shrinking
<1>5. ASSUME members'[g] \subseteq members[g], UNCHANGED dialPool,
             \A u \in Users : phase'[u] = "dialling" => phase[u] = "dialling"
      PROVE  Within(g)'
  <2>1. Diallers(g)' \subseteq Diallers(g)
    BY <1>5 DEF Diallers
  <2> QED
    BY <1>5, <2>1, Shrinking
<1>6. ASSUME NEW u \in Users, DialFailed(u) PROVE Within(g)'
  <2>1. Diallers(g)' \subseteq Diallers(g)
    BY <1>6 DEF DialFailed, Diallers
  <2> QED
    BY <1>6, <2>1, Shrinking DEF DialFailed
<1>7. ASSUME NEW u \in Users, NEW c \in Conn,
             AcquireIdle(u, c) \/ AcquireRefused(u) \/ Release(u) \/ Remove(u)
      PROVE  Within(g)'
  <2>1. members'[g] \subseteq members[g]
    BY <1>7 DEF AcquireIdle, AcquireRefused, Release, Remove, Close
  <2>2. UNCHANGED dialPool
    BY <1>7 DEF AcquireIdle, AcquireRefused, Release, Remove, Close
  <2>3. \A v \in Users : phase'[v] = "dialling" => phase[v] = "dialling"
    BY <1>7 DEF AcquireIdle, AcquireRefused, Release, Remove, Close
  <2> QED
    BY <2>1, <2>2, <2>3, <1>5
<1>8. ASSUME NEW h \in Pools, Cleanup(h) PROVE Within(g)'
  BY <1>8, <1>5 DEF Cleanup, Stale, Close
<1>9. ASSUME CloseAll PROVE Within(g)'
  BY <1>9, <1>5 DEF CloseAll, Close
<1>10. ASSUME ClearPools PROVE Within(g)'
  BY <1>10, <1>5 DEF ClearPools
<1>11. ASSUME NEW c \in Conn, AgeOut(c) \/ IdleOut(c) PROVE Within(g)'
  BY <1>11, <1>5 DEF AgeOut, IdleOut
<1>12. CASE UNCHANGED vars
  BY <1>12, <1>5 DEF vars
<1>13. Conn # {}
  <2>1. [pool |-> 1, id |-> 1] \in Conn
    BY PoolAssumption DEF Conn, Pools
  <2> QED
    BY <2>1
<1> QED
  BY <1>1, <1>2, <1>3, <1>4, <1>6, <1>7, <1>8, <1>9, <1>10, <1>11, <1>12, <1>13
  DEF Next, Acquire, Return

(* Dials in flight take an array over the limit by at most one connection   *)
(* for every caller but one.                                                *)
THEOREM OvershootIsBounded == Spec => []BoundedOvershoot
<1> DEFINE AllWithin == \A g \in Pools : Within(g)
<1>1. Init => AllWithin
  <2> SUFFICES ASSUME Init, NEW g \in Pools PROVE Within(g)
    OBVIOUS
  <2>1. members[g] = {} /\ Diallers(g) = {}
    BY DEF Init, Diallers
  <2>2. IsFiniteSet({}) /\ Cardinality({}) = 0
    BY FS_EmptySet
  <2>3. Cardinality(Users) \in Nat
    BY PoolAssumption, FS_CardinalityType
  <2> QED
    BY <2>1, <2>2, <2>3, PoolAssumption DEF Within
<1>2. IInv /\ AllWithin /\ [Next]_vars => AllWithin'
  BY WithinStep
<1>3. AllWithin => BoundedOvershoot
  BY DEF Within, BoundedOvershoot
<1> QED
  BY Inductive, <1>1, <1>2, <1>3, PTL DEF Spec

-----------------------------------------------------------------------------
(* The pool implements the exclusive lease.                                 *)

Free == {c \in Conn : current # 0 /\ c \in members[current] /\ status[c] = "IDLE"}

(* Creating a pool object on a miss frees nothing.                          *)
LEMMA GetPoolFreesNothing ==
  ASSUME IInv, getPool, NEW c \in Conn, c \in members[current']
  PROVE  current # 0 /\ current' = current /\ c \in members[current]
<1>1. current' \in Pools /\ current' = Found
  BY GetPoolFacts DEF IInv
<1>2. CASE current # 0
  BY <1>1, <1>2 DEF Found
<1>3. CASE current = 0
  <2>1. current' > created
    BY <1>1, <1>3 DEF Found, IInv, TypeOK
  <2> QED
    BY <1>1, <2>1 DEF IInv, Fresh
<1> QED
  BY <1>2, <1>3

\* getPool changes the map only when it is empty.
LEMMA GetPoolKeepsCurrent ==
  ASSUME getPool, current # 0
  PROVE  current' = current
BY DEF getPool, poolVars

\* What may be granted again is open.
LEMMA FreeIsOpen ==
  ASSUME IInv
  PROVE  Free \subseteq open
BY DEF IInv, Free, HandsOutOpenOnly

\* The empty manager has issued no connection.
LEMMA ContractInit == Init => Contract!Init
BY PoolAssumption DEF Init, Contract!Init, Issued

\* Every handler is a step of the exclusive lease, or none of its business.
LEMMA ContractStep == IInv /\ [Next]_vars => [Contract!Next]_Contract!vars
<1> SUFFICES ASSUME IInv, [Next]_vars PROVE [Contract!Next]_Contract!vars
  OBVIOUS
<1>0. TypeOK
  BY DEF IInv
<1> USE <1>0 DEF TypeOK
<1>s. (UNCHANGED <<Issued, open, Free, lease>>) => UNCHANGED Contract!vars
  BY DEF Contract!vars, Issued, Free
<1>1. ASSUME NEW u \in Users, NEW c \in Conn, AcquireIdle(u, c)
      PROVE Contract!Next
  <2>1. lease[u] = NoConn
    BY <1>1 DEF AcquireIdle, IInv, Leases
  <2>2. c \in Free /\ Free' = Free \ {c} /\ Issued' = Issued
    BY <1>1 DEF AcquireIdle, Reusable, Free, Issued, poolVars
  <2>3. Contract!Reuse(u, c)
    BY <1>1, <2>1, <2>2 DEF Contract!Reuse, AcquireIdle, Free, Issued
  <2> QED
    BY <2>3 DEF Contract!Next
<1>2. ASSUME NEW u \in Users, AcquireDial(u) PROVE UNCHANGED Contract!vars
  <2>1. UNCHANGED <<members, status, open, lease>> /\ getPool
    BY <1>2 DEF AcquireDial, connVars
  <2>2. Free' = Free
    BY <2>1, GetPoolFreesNothing, GetPoolKeepsCurrent DEF Free
  <2> QED
    BY <2>1, <2>2, <1>s DEF Issued
<1>3. ASSUME NEW u \in Users, AcquireRefused(u) \/ DialFailed(u)
      PROVE UNCHANGED Contract!vars
  BY <1>3, <1>s DEF AcquireRefused, DialFailed, poolVars, connVars, Issued, Free
<1>4. ASSUME NEW u \in Users, DialDone(u) PROVE Contract!Next
  <2> DEFINE g == dialPool[u]
             c == [pool |-> g, id |-> dialled[g] + 1]
  <2>1. c \in Conn /\ status[c] = "NONE" /\ g \in Pools
    BY <1>4, NewConn
  <2>2. lease[u] = NoConn
    BY <1>4 DEF DialDone, IInv, Leases
  <2>3. /\ status' = [status EXCEPT ![c] = "IN_USE"]
        /\ members' = [members EXCEPT ![g] = @ \cup {c}]
        /\ open' = open \cup {c}
        /\ lease' = [lease EXCEPT ![u] = c]
        /\ current' = current
    BY <1>4 DEF DialDone, poolVars
  <2> HIDE DEF c
  <2>4. Issued' = Issued \cup {c} /\ c \notin Issued
    BY <2>1, <2>3 DEF Issued
  <2>5. Free' = Free
    BY <2>1, <2>3 DEF Free
  <2>6. Contract!Open(u, c)
    BY <2>1, <2>2, <2>3, <2>4, <2>5 DEF Contract!Open, Issued, Free
  <2> QED
    BY <2>1, <2>6 DEF Contract!Next, Contract!Open
<1>5. ASSUME NEW u \in Users, Release(u) PROVE Contract!Next
  <2> DEFINE c == lease[u]
  <2>1. c \in Conn /\ c # NoConn /\ status[c] \in {"IN_USE", "CLOSED"}
    BY <1>5, HeldConn DEF Release, IInv, Leases
  <2>2. /\ getPool /\ members' = members /\ open' = open
        /\ status' = [status EXCEPT ![c] = "IDLE"]
        /\ lease' = [lease EXCEPT ![u] = NoConn]
    BY <1>5 DEF Release
  <2>3. Issued' = Issued
    BY <2>1, <2>2 DEF Issued
  <2>4. CASE current # 0 /\ c \in members[current]
    <3>1. c \in open /\ current' = current
      BY <2>2, <2>4, GetPoolKeepsCurrent DEF IInv, HandsOutOpenOnly
    <3>2. Free' = Free \cup {c}
      BY <2>1, <2>2, <2>4, <3>1 DEF Free
    <3>3. Contract!Return(u)
      BY <2>1, <2>2, <2>3, <3>1, <3>2 DEF Contract!Return, Issued, Free
    <3> QED
      BY <3>3 DEF Contract!Next
  <2>5. CASE current = 0 \/ c \notin members[current]
    <3>1. Free' = Free
      BY <2>1, <2>2, <2>5, GetPoolFreesNothing, GetPoolKeepsCurrent DEF Free
    <3>2. Contract!Return(u)
      BY <2>1, <2>2, <2>3, <3>1 DEF Contract!Return, Issued, Free
    <3> QED
      BY <3>2 DEF Contract!Next
  <2> QED
    BY <2>4, <2>5
<1>6. ASSUME NEW u \in Users, Remove(u) PROVE Contract!Next
  <2> DEFINE c == lease[u]
  <2>1. c \in Conn /\ c # NoConn /\ status[c] \in {"IN_USE", "CLOSED"}
    BY <1>6, HeldConn DEF Remove, Close, IInv, Leases
  <2>2. /\ getPool /\ open' \in {open, open \ {c}}
        /\ \A g \in Pools : members'[g] \subseteq members[g]
        /\ \A d \in Conn : d # c => status'[d] = status[d]
        /\ status'[c] \in {"IN_USE", "CLOSED"}
        /\ lease' = [lease EXCEPT ![u] = NoConn]
    BY <1>6, <2>1 DEF Remove, Close, connVars
  <2>3. Issued' = Issued
    BY <2>1, <2>2 DEF Issued
  <2>4. current' \in Pools
    BY <2>2, GetPoolFacts
  <2>5. Free' \subseteq Free
    BY <2>1, <2>2, <2>4, GetPoolFreesNothing DEF Free
  <2>6. Contract!Discard(u)
    BY <2>1, <2>2, <2>3, <2>5 DEF Contract!Discard, Issued, Free
  <2> QED
    BY <2>6 DEF Contract!Next
<1>7. ASSUME NEW g \in Pools, Cleanup(g) PROVE Contract!Next
  <2> DEFINE stale == {c \in members[g] : status[c] # "IN_USE" /\ ~isConnectionValid(c)}
             S == stale \cap open
  <2>1. /\ members' = [members EXCEPT ![g] = @ \ stale]
        /\ open' = open \ stale
        /\ status' = [c \in Conn |-> IF c \in stale THEN "CLOSED" ELSE status[c]]
        /\ current' = current /\ lease' = lease
    BY <1>7 DEF Cleanup, Stale, Close, poolVars
  <2>2. \A c \in stale : c \in Conn /\ status[c] # "NONE" /\ status[c] # "IN_USE"
    BY DEF IInv, Arrays
  <2>3. \A u \in Users : lease[u] \notin S
    BY <2>2, PoolAssumption DEF IInv, Leases, Sockets
  <2> HIDE DEF stale
  <2>4. Issued' = Issued
    BY <2>1, <2>2 DEF Issued
  <2>5. Free' = Free \ S
    BY <2>1, <2>2, FreeIsOpen DEF Free
  <2>6. S \in SUBSET open /\ open' = open \ S
    BY <2>1
  <2>7. Contract!Retire(S)
    BY <2>1, <2>3, <2>4, <2>5, <2>6 DEF Contract!Retire, Contract!Held, Issued, Free
  <2> QED
    BY <2>6, <2>7 DEF Contract!Next, Contract!Retire
<1>8. ASSUME CloseAll PROVE Contract!Next
  <2> DEFINE S == UNION {members[g] \cap open : g \in Pools \cap {current}}
  <2>1. /\ open' = open \ S /\ lease' = lease /\ current' = current
        /\ status' = [c \in Conn |-> IF c \in S THEN "CLOSED" ELSE status[c]]
        /\ members' = [g \in Pools |-> IF g = current THEN {} ELSE members[g]]
    BY <1>8 DEF CloseAll, Close
  <2>2. S \in SUBSET open /\ \A c \in S : c \in Conn /\ status[c] # "NONE"
    BY DEF IInv, Arrays
  <2> HIDE DEF S
  <2>3. Issued' = Issued
    BY <2>1, <2>2 DEF Issued
  <2>4. current # 0 => current \in Pools
    BY PoolAssumption DEF Pools
  <2>5. Free' = {}
    BY <2>1, <2>4 DEF Free
  <2>6. Contract!Shutdown(S)
    BY <2>1, <2>2, <2>3, <2>5 DEF Contract!Shutdown, Issued, Free
  <2> QED
    BY <2>2, <2>6 DEF Contract!Next, Contract!Shutdown
<1>9. ASSUME ClearPools PROVE Contract!Next
  <2>1. Free' = {} /\ Issued' = Issued /\ open' = open /\ lease' = lease
    BY <1>9 DEF ClearPools, connVars, Free, Issued
  <2>2. Contract!Shutdown({})
    BY <2>1 DEF Contract!Shutdown, Issued, Free
  <2> QED
    BY <2>2 DEF Contract!Next
<1>10. ASSUME NEW c \in Conn, AgeOut(c) \/ IdleOut(c)
       PROVE UNCHANGED Contract!vars
  BY <1>10, <1>s DEF AgeOut, IdleOut, poolVars, connVars, Issued, Free
<1>11. CASE UNCHANGED vars
  BY <1>11, <1>s DEF vars, Issued, Free
<1> QED
  BY <1>1, <1>2, <1>3, <1>4, <1>5, <1>6, <1>7, <1>8, <1>9, <1>10, <1>11
  DEF Next, Acquire, Return

(* Seen from its callers, the pool is an exclusive lease.                   *)
THEOREM ImplementsLease == Spec => LeaseContract
BY Inductive, ContractInit, ContractStep, PTL DEF Spec, LeaseContract, Contract!Spec
=============================================================================
