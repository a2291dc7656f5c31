---------------------------- MODULE UpstreamPool ----------------------------
(****************************************************************************)
(* The proxy's upstream connection pool for one host:port: the manager, the *)
(* HostConnectionPool objects it creates one after the other, and the       *)
(* registry they share (core/connection/connection_manager.ts and           *)
(* core/network/internal/connection_registry.ts).                           *)
(*                                                                          *)
(* JavaScript runs each handler up to its next await, so a synchronous      *)
(* handler is one action and a handler with an await is one action per      *)
(* segment: getConnection is split at the dial, closeAll between closing    *)
(* the pools and clearing the map.                                          *)
(*                                                                          *)
(* A connection object is named by the pool object that dialled it and by   *)
(* the number that pool gave it. The code's string id holds the number      *)
(* only, so two pool objects of one host hand out equal ids.                *)
(****************************************************************************)
EXTENDS Naturals, FiniteSets

CONSTANTS
  Users,            \* concurrent callers of UpstreamConnectionManager
  NoConn,           \* "no connection leased"
  MaxConnections    \* config.maxConnections

CONSTANTS \* to bound the model
  MaxPools,         \* pool objects created for the host
  MaxDials,         \* connections one pool object creates
  MaxIssued,        \* connections all of them create
  MaxClosers        \* closeAll calls in progress at a time

Pools == 1..MaxPools
Conn == [pool : Pools, id : 1..MaxDials]

ASSUME PoolAssumption ==
  /\ Users # {} /\ IsFiniteSet(Users)
  /\ NoConn \notin Conn
  /\ MaxConnections \in Nat \ {0}
  /\ MaxPools \in Nat \ {0} /\ MaxDials \in Nat \ {0}
  /\ MaxIssued \in Nat /\ MaxClosers \in Nat

VARIABLES
  created,       \* number of HostConnectionPool objects constructed
  current,       \* the one the manager's map holds, 0 when the map is empty
  timer,         \* timer[g]: pool g's cleanup interval is running
  members,       \* members[g]: pool g's connections array
  dialled,       \* dialled[g]: connections pool g has created (nextId - 1)
  status,        \* status[c]: PooledConnection.state ("NONE": not created)
  open,          \* connections whose socket is open
  registry,      \* registry[c]: state in the registry, "NONE" if unregistered
  aged,          \* connections past maxLifetime
  idled,         \* connections past idleTimeout since their last use
  phase,         \* phase[u]: where caller u is
  dialPool,      \* dialPool[u]: pool object a dialling u is awaiting in
  lease,         \* lease[u]: connection u holds
  clearing       \* closeAll calls between closing the pools and clearing

poolVars == <<created, current, timer>>
connVars == <<status, registry, open>>
vars == <<created, current, timer, members, dialled, status, open, registry,
          aged, idled, phase, dialPool, lease, clearing>>

-----------------------------------------------------------------------------
(* Of a timestamp only what isConnectionValid compares it for is kept: on    *)
(* which side of its limit the connection is.                               *)
\* Mutant: the idle timeout is not looked at.
ValidWhileYoung(c) == c \notin aged

isConnectionValid(c) == c \notin aged /\ c \notin idled

\* Mutant: find forgets the state.
ReusableInAnyState(g) == {c \in members[g] : isConnectionValid(c)}

Reusable(g) == {c \in members[g] : status[c] = "IDLE" /\ isConnectionValid(c)}

Diallers(g) == {u \in Users : phase[u] = "dialling" /\ dialPool[u] = g}

Issued == {c \in Conn : status[c] # "NONE"}

Leased == {c \in Conn : \E u \in Users : lease[u] = c}

\* Mutant: the cleanup forgets that a connection may be in use.
StaleEvenInUse(g) == {c \in members[g] : ~isConnectionValid(c)}

\* What a cleanup of pool g reaps: invalid connections nobody uses.
Stale(g) ==
  {c \in members[g] : status[c] # "IN_USE" /\ ~isConnectionValid(c)}

\* Mutant: the registry entry stays.
CloseUnregistered(S) ==
  /\ open' = open \ S
  /\ status' = [c \in Conn |-> IF c \in S THEN "CLOSED" ELSE status[c]]
  /\ UNCHANGED registry

\* Closing the connections of S: socket, state, registry entry.
Close(S) ==
  /\ open' = open \ S
  /\ status' = [c \in Conn |-> IF c \in S THEN "CLOSED" ELSE status[c]]
  /\ registry' = [c \in Conn |-> IF c \in S THEN "NONE" ELSE registry[c]]

(* getPool looks the host up in the map and creates the pool on a miss.     *)
\* The pool object getPool returns.
Found == IF current # 0 THEN current ELSE created + 1

\* The effect of getPool on the map; a created pool starts its interval.
getPool ==
  \/ current # 0 /\ UNCHANGED poolVars
  \/ /\ current = 0
     /\ created < MaxPools
     /\ created' = created + 1
     /\ current' = created + 1
     /\ timer' = [timer EXCEPT ![created + 1] = TRUE]

-----------------------------------------------------------------------------
Init ==
  /\ created = 0
  /\ current = 0
  /\ timer = [g \in Pools |-> FALSE]
  /\ members = [g \in Pools |-> {}]
  /\ dialled = [g \in Pools |-> 0]
  /\ status = [c \in Conn |-> "NONE"]
  /\ open = {}
  /\ registry = [c \in Conn |-> "NONE"]
  /\ aged = {}
  /\ idled = {}
  /\ phase = [u \in Users |-> "ready"]
  /\ dialPool = [u \in Users |-> 0]
  /\ lease = [u \in Users |-> NoConn]
  /\ clearing = 0

\* Mutant: the connection handed out is not marked.
AcquireIdleUnmarked(u, c) ==
  /\ phase[u] \in {"ready", "refused"}
  /\ current # 0
  /\ c \in Reusable(current)
  /\ \A d \in Reusable(current) : c.id <= d.id
  /\ idled' = idled \ {c}
  /\ phase' = [phase EXCEPT ![u] = "holding"]
  /\ lease' = [lease EXCEPT ![u] = c]
  /\ UNCHANGED <<poolVars, members, dialled, connVars, aged, dialPool, clearing>>

\* getConnection finds the first idle, valid connection of the array (they
\* are pushed in the order of their numbers) and leases it at once.
AcquireIdle(u, c) ==
  /\ phase[u] \in {"ready", "refused"}
  /\ current # 0
  /\ c \in Reusable(current)
  /\ \A d \in Reusable(current) : c.id <= d.id
  /\ status' = [status EXCEPT ![c] = "IN_USE"]
  /\ registry' = [registry EXCEPT ![c] = IF @ = "NONE" THEN @ ELSE "IN_USE"]
  /\ idled' = idled \ {c}
  /\ phase' = [phase EXCEPT ![u] = "holding"]
  /\ lease' = [lease EXCEPT ![u] = c]
  /\ UNCHANGED <<poolVars, members, dialled, open, aged, dialPool, clearing>>

\* Mutant: no limit.
AcquireDialUnlimited(u) ==
  /\ phase[u] \in {"ready", "refused"}
  /\ getPool
  /\ Reusable(Found) = {}
  /\ dialPool' = [dialPool EXCEPT ![u] = Found]
  /\ phase' = [phase EXCEPT ![u] = "dialling"]
  /\ UNCHANGED <<members, dialled, connVars, aged, idled, lease, clearing>>

\* getConnection finds none, sees room and awaits Deno.connect.
AcquireDial(u) ==
  /\ phase[u] \in {"ready", "refused"}
  /\ getPool
  /\ LET g == Found IN
       /\ Reusable(g) = {}
       /\ Cardinality(members[g]) < MaxConnections
       /\ dialPool' = [dialPool EXCEPT ![u] = g]
  /\ phase' = [phase EXCEPT ![u] = "dialling"]
  /\ UNCHANGED <<members, dialled, connVars, aged, idled, lease, clearing>>

\* getConnection finds none and no room: acquire returns null, the caller
\* gets an error.
AcquireRefused(u) ==
  /\ phase[u] = "ready"
  /\ current # 0
  /\ Reusable(current) = {}
  /\ Cardinality(members[current]) >= MaxConnections
  /\ phase' = [phase EXCEPT ![u] = "refused"]
  /\ UNCHANGED <<poolVars, members, dialled, connVars, aged, idled, dialPool,
                 lease, clearing>>

\* The dial succeeds: createConnection registers the connection and pushes
\* it on the array of the pool object it was called on, wherever that is now.
DialDone(u) ==
  /\ phase[u] = "dialling"
  /\ Cardinality(Issued) < MaxIssued
  /\ LET g == dialPool[u]
         c == [pool |-> g, id |-> dialled[g] + 1]
     IN /\ dialled[g] < MaxDials
        /\ dialled' = [dialled EXCEPT ![g] = @ + 1]
        /\ members' = [members EXCEPT ![g] = @ \cup {c}]
        /\ status' = [status EXCEPT ![c] = "IN_USE"]
        /\ registry' = [registry EXCEPT ![c] = "IN_USE"]
        /\ open' = open \cup {c}
        /\ lease' = [lease EXCEPT ![u] = c]
  /\ phase' = [phase EXCEPT ![u] = "holding"]
  /\ dialPool' = [dialPool EXCEPT ![u] = 0]
  /\ UNCHANGED <<poolVars, aged, idled, clearing>>

\* The dial fails: createConnection returns null, the caller gets an error.
DialFailed(u) ==
  /\ phase[u] = "dialling"
  /\ phase' = [phase EXCEPT ![u] = "refused"]
  /\ dialPool' = [dialPool EXCEPT ![u] = 0]
  /\ UNCHANGED <<poolVars, members, dialled, connVars, aged, idled, lease,
                 clearing>>

\* releaseConnection: the pool found now may not be the one that dialled c,
\* and c may have been closed meanwhile; neither is looked at.
Release(u) ==
  /\ phase[u] = "holding"
  /\ getPool
  /\ LET c == lease[u] IN
       /\ status' = [status EXCEPT ![c] = "IDLE"]
       /\ registry' = [registry EXCEPT ![c] = IF @ = "NONE" THEN @ ELSE "IDLE"]
       /\ idled' = idled \ {c}
  /\ phase' = [phase EXCEPT ![u] = "ready"]
  /\ lease' = [lease EXCEPT ![u] = NoConn]
  /\ UNCHANGED <<members, dialled, open, aged, dialPool, clearing>>

\* Mutant: the entry is spliced out and its socket left open.
RemoveUnclosed(u) ==
  /\ phase[u] = "holding"
  /\ getPool
  /\ members' = [members EXCEPT ![Found] = {m \in @ : m.id # lease[u].id}]
  /\ phase' = [phase EXCEPT ![u] = "ready"]
  /\ lease' = [lease EXCEPT ![u] = NoConn]
  /\ UNCHANGED <<connVars, dialled, aged, idled, dialPool, clearing>>

\* A caller drops a broken connection: getPool(host, port).remove(c). The
\* array is searched by id; what is closed is the argument, what is spliced
\* out is the entry with that id.
Remove(u) ==
  /\ phase[u] = "holding"
  /\ getPool
  /\ LET c == lease[u]
         g == Found
         found == {m \in members[g] : m.id = c.id}
     IN \/ /\ found # {}
           /\ members' = [members EXCEPT ![g] = @ \ found]
           /\ Close({c})
        \/ /\ found = {}
           /\ UNCHANGED <<members, connVars>>
  /\ phase' = [phase EXCEPT ![u] = "ready"]
  /\ lease' = [lease EXCEPT ![u] = NoConn]
  /\ UNCHANGED <<dialled, aged, idled, dialPool, clearing>>

\* Pool g's interval fires: everything invalid and not in use is closed.
Cleanup(g) ==
  /\ timer[g]
  /\ Stale(g) # {}
  /\ members' = [members EXCEPT ![g] = @ \ Stale(g)]
  /\ Close(Stale(g))
  /\ UNCHANGED <<poolVars, dialled, aged, idled, phase, dialPool, lease, clearing>>

\* Mutant: the closed connections stay in the array.
CloseAllKeepingArray ==
  /\ clearing < MaxClosers
  /\ Close(UNION {members[g] \cap open : g \in Pools \cap {current}})
  /\ timer' = [g \in Pools |-> timer[g] /\ g # current]
  /\ clearing' = clearing + 1
  /\ UNCHANGED <<created, current, members, dialled, aged, idled, phase,
                 dialPool, lease>>

\* closeAll, up to its await: the pool in the map, if any, stops its interval
\* and closes every connection of its array, leased or not. Closing a socket
\* already closed throws, which skips the state change and the unregister.
CloseAll ==
  /\ clearing < MaxClosers
  /\ Close(UNION {members[g] \cap open : g \in Pools \cap {current}})
  /\ members' = [g \in Pools |-> IF g = current THEN {} ELSE members[g]]
  /\ timer' = [g \in Pools |-> timer[g] /\ g # current]
  /\ clearing' = clearing + 1
  /\ UNCHANGED <<created, current, dialled, aged, idled, phase, dialPool, lease>>

\* closeAll, after its await: the map is emptied, whatever it holds by now.
ClearPools ==
  /\ clearing > 0
  /\ clearing' = clearing - 1
  /\ current' = 0
  /\ UNCHANGED <<created, timer, members, dialled, connVars, aged, idled, phase,
                 dialPool, lease>>

\* Time passes: a connection of a pool that still reads its clocks (the pool
\* in the map, or one with an interval) goes past its lifetime, or past its
\* idle timeout when nobody uses it. (A leased one may too; its release
\* restarts that clock before anything reads it.)
Clocked == UNION {members[g] : g \in {p \in Pools : p = current \/ timer[p]}}

AgeOut(c) ==
  /\ c \in Clocked \ aged
  /\ aged' = aged \cup {c}
  /\ UNCHANGED <<poolVars, members, dialled, connVars, idled, phase, dialPool,
                 lease, clearing>>

IdleOut(c) ==
  /\ c \in Clocked \ idled
  /\ status[c] # "IN_USE"
  /\ idled' = idled \cup {c}
  /\ UNCHANGED <<poolVars, members, dialled, connVars, aged, phase, dialPool,
                 lease, clearing>>

-----------------------------------------------------------------------------
Acquire(u) ==
  \/ \E c \in Conn : AcquireIdle(u, c)
  \/ AcquireDial(u)
  \/ AcquireRefused(u)

Return(u) == Release(u) \/ Remove(u)

Next ==
  \/ \E u \in Users : Acquire(u) \/ DialDone(u) \/ DialFailed(u) \/ Return(u)
  \/ \E g \in Pools : Cleanup(g)
  \/ CloseAll \/ ClearPools
  \/ \E c \in Conn : AgeOut(c) \/ IdleOut(c)

Spec == Init /\ [][Next]_vars

\* Timers fire and time passes. Nothing is assumed of the callers or of the
\* network.
Fairness ==
  /\ \A c \in Conn : WF_vars(IdleOut(c))
  /\ \A g \in Pools : WF_vars(Cleanup(g))

FairSpec == Spec /\ Fairness

-----------------------------------------------------------------------------
(* Properties.                                                              *)

\* Every variable has its type, and the map holds a pool that was created.
TypeOK ==
  /\ created \in 0..MaxPools
  /\ current \in 0..created
  /\ timer \in [Pools -> BOOLEAN]
  /\ members \in [Pools -> SUBSET Conn]
  /\ dialled \in [Pools -> 0..MaxDials]
  /\ status \in [Conn -> {"NONE", "IDLE", "IN_USE", "CLOSED"}]
  /\ open \in SUBSET Conn
  /\ registry \in [Conn -> {"NONE", "IDLE", "IN_USE"}]
  /\ aged \in SUBSET Conn
  /\ idled \in SUBSET Conn
  /\ phase \in [Users -> {"ready", "dialling", "holding", "refused"}]
  /\ dialPool \in [Users -> 0..MaxPools]
  /\ lease \in [Users -> Conn \cup {NoConn}]
  /\ clearing \in 0..MaxClosers

\* A connection is leased to at most one caller, and while it is open its
\* state says so: no interleaving of acquire, release, cleanup and closeAll
\* puts a leased connection back in the hands of a second caller.
ExclusiveLease ==
  /\ \A u, v \in Users : lease[u] = lease[v] /\ lease[u] # NoConn => u = v
  /\ \A c \in Leased : c \in open => status[c] = "IN_USE"

\* What the pool in the map can hand out has an open socket: neither a
\* release after closeAll nor a reaped connection can come back through find.
HandsOutOpenOnly ==
  current # 0 => members[current] \subseteq open

\* The registry follows the sockets: a connection is registered exactly while
\* its socket is open, in the state its pool gives it.
RegistryAgrees ==
  /\ open = {c \in Conn : registry[c] # "NONE"}
  /\ \A c \in open : registry[c] = status[c]

\* A caller's connection is not closed under it unless its pool was closed:
\* neither the interval nor another caller's remove reaps a leased connection.
ClosedOnlyByShutdown ==
  \A u \in Users : lease[u] # NoConn =>
    lease[u] \in open \/ ~timer[lease[u].pool]

\* The connections in an array that a running interval looks after.
Tended == UNION {members[g] : g \in {p \in Pools : timer[p]}}

\* An open connection gets out of the care of every interval in two ways only:
\* its dial ended on a pool object that was closed meanwhile, or a caller removed
\* a connection of another pool object that has the same number. No release,
\* cleanup, closeAll or other remove loses one, over any change of pool objects.
LostInTwoWays ==
  [][\A c \in open' \ Tended' :
       \/ c \in open \ Tended
       \/ c \notin open /\ ~timer[c.pool]
       \/ \E u \in Users :
            /\ Remove(u)
            /\ lease[u].id = c.id /\ lease[u].pool # c.pool]_vars

\* The limit is tested before the dial and not after it, so dials in flight
\* go over it, by at most one connection for every caller but one.
BoundedOvershoot ==
  \A g \in Pools :
    Cardinality(members[g]) + Cardinality(Diallers(g))
      <= MaxConnections - 1 + Cardinality(Users)

\* What "Close all connections in all pools" says: once closeAll is done and
\* no caller is left, no socket is open. False: a dial that ends between or
\* after the two halves of closeAll is pushed on an array nobody will visit.
ShutdownComplete ==
  (created > 0 /\ current = 0 /\ clearing = 0
     /\ \A u \in Users : phase[u] \in {"ready", "refused"}) => open = {}

\* A connection left idle in a pool whose interval runs does not sit in the
\* array for ever: it is leased again, reaped, closed with its pool, or spliced
\* out by a remove.
IdleIsReaped ==
  \A c \in Conn :
    (c \in Tended /\ status[c] = "IDLE") ~> ~(c \in Tended /\ status[c] = "IDLE")

\* The pool implements the exclusive lease of ConnectionLease.
Contract == INSTANCE ConnectionLease WITH
  issued <- Issued,
  live   <- open,
  free   <- {c \in Conn : current # 0 /\ c \in members[current]
                           /\ status[c] = "IDLE"},
  owner  <- lease

LeaseContract == Contract!Spec
=============================================================================
