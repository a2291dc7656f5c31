--------------------------- MODULE ConnectionLease ---------------------------
(****************************************************************************)
(* What a connection pool promises its callers, with nothing of how it does *)
(* it: a connection is granted to one caller at a time, and is granted      *)
(* again only after its holder gave it back and while it is still live.     *)
(* UpstreamPool implements this specification.                              *)
(****************************************************************************)
CONSTANTS Users,       \* callers of the pool
          Conn,        \* connection objects that may ever exist
          NoConn       \* "holds nothing"

VARIABLES issued,      \* connections created so far
          live,        \* those whose socket is open
          free,        \* those a caller may be granted again
          owner        \* owner[u]: the connection u holds, or NoConn

vars == <<issued, live, free, owner>>

Held == {owner[u] : u \in Users} \ {NoConn}

Init ==
  /\ issued = {}
  /\ live = {}
  /\ free = {}
  /\ owner = [u \in Users |-> NoConn]

\* A brand new connection is opened for u.
Open(u, c) ==
  /\ owner[u] = NoConn
  /\ c \in Conn \ issued
  /\ issued' = issued \cup {c}
  /\ live' = live \cup {c}
  /\ owner' = [owner EXCEPT ![u] = c]
  /\ UNCHANGED free

\* A returned connection is granted to u.
Reuse(u, c) ==
  /\ owner[u] = NoConn
  /\ c \in free
  /\ free' = free \ {c}
  /\ owner' = [owner EXCEPT ![u] = c]
  /\ UNCHANGED <<issued, live>>

\* u gives its connection back; only a live one can become free.
Return(u) ==
  /\ owner[u] # NoConn
  /\ owner' = [owner EXCEPT ![u] = NoConn]
  /\ free' \in {free, free \cup ({owner[u]} \cap live)}
  /\ UNCHANGED <<issued, live>>

\* u gives up its connection for good. Another free connection may be
\* forgotten with it, never granted by it.
Discard(u) ==
  /\ owner[u] # NoConn
  /\ owner' = [owner EXCEPT ![u] = NoConn]
  /\ live' \in {live, live \ {owner[u]}}
  /\ free' \subseteq free
  /\ UNCHANGED issued

\* Connections nobody holds are closed.
Retire(S) ==
  /\ S \subseteq live \ Held
  /\ live' = live \ S
  /\ free' = free \ S
  /\ UNCHANGED <<issued, owner>>

\* The whole pool is closed: held connections may be closed too, and nothing
\* stays free.
Shutdown(S) ==
  /\ S \subseteq live
  /\ live' = live \ S
  /\ free' = {}
  /\ UNCHANGED <<issued, owner>>

Next ==
  \/ \E u \in Users, c \in Conn : Open(u, c) \/ Reuse(u, c)
  \/ \E u \in Users : Return(u) \/ Discard(u)
  \/ \E S \in SUBSET live : Retire(S) \/ Shutdown(S)

Spec == Init /\ [][Next]_vars
=============================================================================
