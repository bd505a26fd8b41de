--------------------------- MODULE ConnectionPool ---------------------------
(***************************************************************************)
(* The connection pool of connection_pool.c: a linked list of pooled       *)
(* connections shared by user threads, which get and return connections,   *)
(* and by the keep-alive thread, which marks idle connections unhealthy.   *)
(* Every operation is one critical section of pool->mutex and one action;  *)
(* only grpc_connection_pool_destroy and the keep-alive thread's loop also *)
(* act without it.                                                         *)
(*                                                                         *)
(* A node of the list and the http2_connection it owns are one object.     *)
(* Sending keep-alive pings is left out: the code has no ping yet, and     *)
(* last_keepalive, its interval and set_keepalive decide nothing else.     *)
(***************************************************************************)
EXTENDS Null, Lists, FiniteSets

CONSTANTS
    Conns,            \* the nodes that can be allocated
    Targets,          \* addresses
    Users,            \* threads, each holding at most one connection
    MaxConnections,   \* pool->max_connections
    IdleTimeout,      \* pool->idle_timeout_ms, in ticks of the clock
    MaxTime           \* bound: ticks

ASSUME PoolAssumption ==
    /\ NULL \notin Conns \cup Targets
    /\ IsFiniteSet(Conns)
    /\ IsFiniteSet(Users)
    /\ MaxConnections \in Nat \ {0}
    /\ IdleTimeout \in Nat \ {0}
    /\ MaxTime \in Nat

VARIABLES
    connections,   \* pool->connections and the nodes that follow it
    state,         \* state[n]: "unused", "pooled" or "freed"
    target,        \* target[n]
    lastUsed,      \* last_used[n]
    active,        \* active_calls[n]
    healthy,       \* is_healthy[n]
    count,         \* pool->current_connections
    held,          \* held[u]: the connection u got and has not returned
    now,           \* time(NULL)
    running,       \* pool->keepalive_running
    keeper,        \* the keep-alive thread
    destroyer      \* where grpc_connection_pool_destroy is

poolVars == <<connections, state, target, lastUsed, active, healthy, count,
              held, now, running, keeper, destroyer>>
nodes == <<connections, state, target, lastUsed, active, healthy, count>>
poolThreads == <<running, keeper, destroyer>>

Pooled == {n \in Conns : state[n] = "pooled"}

InList(n) == n \in Elements(connections)

\* Following a pointer to a freed node is undefined behaviour; the model goes
\* on only while no operation can do so.
Intact == \A n \in Conns : InList(n) => state[n] = "pooled"

\* An operation on the pool can begin and traverse the list.
Usable == destroyer = "no" /\ Intact

-----------------------------------------------------------------------------
\* grpc_connection_pool_create.  The creation of the thread may fail.
PoolInit ==
    /\ connections = <<>>
    /\ state = [n \in Conns |-> "unused"]
    /\ target = [n \in Conns |-> NULL]
    /\ lastUsed = [n \in Conns |-> 0]
    /\ active = [n \in Conns |-> 0]
    /\ healthy = [n \in Conns |-> FALSE]
    /\ count = 0
    /\ held = [u \in Users |-> NULL]
    /\ now = 0
    /\ keeper \in {"looping", "none"}
    /\ running = (keeper = "looping")
    /\ destroyer = "no"

\* A healthy connection to t that the search from the head meets first.
Reusable(n, t) == healthy[n] /\ target[n] = t

FirstReusable(n, t) ==
    \E i \in 1 .. Len(connections) :
        /\ connections[i] = n
        /\ Reusable(n, t)
        /\ \A j \in 1 .. i - 1 : ~Reusable(connections[j], t)

Bug_AlwaysCreate(t) == TRUE
NoReusable(t) == \A n \in Pooled : InList(n) => ~Reusable(n, t)

\* grpc_connection_pool_get finds a connection to reuse.
GetReuse(u, t) ==
    /\ Usable
    /\ held[u] = NULL
    /\ \E n \in Pooled :
         /\ FirstReusable(n, t)
         /\ lastUsed' = [lastUsed EXCEPT ![n] = now]
         /\ active' = [active EXCEPT ![n] = @ + 1]
         /\ held' = [held EXCEPT ![u] = n]
    /\ UNCHANGED <<connections, state, target, healthy, count, now, poolThreads>>

\* A new node n at the head of the list, for u.
LinkConn(u, t, n) ==
    /\ state[n] = "unused"
    /\ connections' = <<n>> \o connections
    /\ target' = [target EXCEPT ![n] = t]
    /\ lastUsed' = [lastUsed EXCEPT ![n] = now]
    /\ active' = [active EXCEPT ![n] = 1]
    /\ healthy' = [healthy EXCEPT ![n] = TRUE]
    /\ held' = [held EXCEPT ![u] = n]

\* grpc_connection_pool_get creates a connection: the pool has room.
Room == count < MaxConnections

GetCreate(u, t) ==
    /\ Usable
    /\ held[u] = NULL
    /\ NoReusable(t)
    /\ Room
    /\ \E n \in Conns :
         /\ LinkConn(u, t, n)
         /\ state' = [state EXCEPT ![n] = "pooled"]
    /\ count' = count + 1
    /\ UNCHANGED <<now, poolThreads>>

\* The idle connection that has not been used for longest; the search keeps
\* the first of several.
Oldest(n) ==
    \E i \in 1 .. Len(connections) :
        /\ connections[i] = n
        /\ active[n] = 0
        /\ \A j \in 1 .. Len(connections) :
             active[connections[j]] = 0 =>
               IF j < i THEN lastUsed[connections[j]] > lastUsed[n]
                        ELSE lastUsed[connections[j]] >= lastUsed[n]

\* grpc_connection_pool_get finds the pool full: the oldest idle node is
\* freed, and stays in the list.  Then a connection is created, or cannot be
\* (no memory).
GetEvict(u, t) ==
    /\ Usable
    /\ held[u] = NULL
    /\ NoReusable(t)
    /\ ~Room
    /\ \E old \in Pooled :
         /\ Oldest(old)
         /\ \/ \E n \in Conns :
                 /\ LinkConn(u, t, n)
                 /\ state' = [state EXCEPT ![old] = "freed", ![n] = "pooled"]
                 /\ count' = (count - 1) + 1
            \/ /\ state' = [state EXCEPT ![old] = "freed"]
               /\ count' = count - 1
               /\ UNCHANGED <<connections, target, lastUsed, active, healthy, held>>
    /\ UNCHANGED <<now, poolThreads>>

\* grpc_connection_pool_return: the node is found by its connection and
\* target, which only the pool changes.
ReleaseConn(n) == active' = [active EXCEPT ![n] = IF @ > 0 THEN @ - 1 ELSE @]

ReturnConn(u) ==
    /\ Usable
    /\ held[u] # NULL
    /\ InList(held[u])
    /\ ReleaseConn(held[u])
    /\ lastUsed' = [lastUsed EXCEPT ![held[u]] = now]
    /\ held' = [held EXCEPT ![u] = NULL]
    /\ UNCHANGED <<connections, state, target, healthy, count, now, poolThreads>>

-----------------------------------------------------------------------------
\* grpc_connection_pool_cleanup_idle unlinks and frees what is idle and
\* unhealthy.
Removable(n) == active[n] = 0 /\ ~healthy[n]

CleanupIdle ==
    LET removed == {n \in Conns : InList(n) /\ Removable(n)}
    IN  /\ Usable
        /\ connections' = Filter(connections, Conns \ removed)
        /\ state' = [n \in Conns |-> IF n \in removed THEN "freed" ELSE state[n]]
        /\ count' = count - Cardinality(removed)
        /\ UNCHANGED <<target, lastUsed, active, healthy, held, now, poolThreads>>

\* The keep-alive thread: one pass over the list under the mutex.
Bug_TimeOutBusy(n) == now - lastUsed[n] >= IdleTimeout
TimedOut(n) == active[n] = 0 /\ now - lastUsed[n] >= IdleTimeout

KeepalivePass ==
    /\ keeper = "looping"
    /\ running
    /\ Intact
    /\ healthy' = [n \in Conns |-> healthy[n] /\ ~(InList(n) /\ TimedOut(n))]
    /\ UNCHANGED <<connections, state, target, lastUsed, active, count, held,
                   now, poolThreads>>

\* It reads keepalive_running, without the mutex, and ends.
KeepaliveExit ==
    /\ keeper = "looping"
    /\ ~running
    /\ keeper' = "ended"
    /\ UNCHANGED <<nodes, held, now, running, destroyer>>

Tick ==
    /\ now < MaxTime
    /\ now' = now + 1
    /\ UNCHANGED <<nodes, held, poolThreads>>

-----------------------------------------------------------------------------
\* grpc_connection_pool_destroy, called when every connection has been
\* returned: it clears the flag ...
Bug_ForgetFlag ==
    /\ Usable
    /\ \A u \in Users : held[u] = NULL
    /\ destroyer' = "joining"
    /\ UNCHANGED <<nodes, held, now, running, keeper>>
DestroyPool ==
    /\ Usable
    /\ \A u \in Users : held[u] = NULL
    /\ running' = FALSE
    /\ destroyer' = "joining"
    /\ UNCHANGED <<nodes, held, now, keeper>>

\* ... joins the thread.  A thread that was never created cannot be joined:
\* keepalive_thread is not a thread, and the behaviour is undefined ...
JoinKeeper ==
    /\ destroyer = "joining"
    /\ keeper # "looping"
    /\ destroyer' = IF keeper = "none" THEN "undefined" ELSE "joined"
    /\ UNCHANGED <<nodes, held, now, running, keeper>>

\* ... and frees every node and the pool.
FreePool ==
    /\ destroyer = "joined"
    /\ state' = [n \in Conns |-> IF InList(n) THEN "freed" ELSE state[n]]
    /\ connections' = <<>>
    /\ count' = 0
    /\ destroyer' = "done"
    /\ UNCHANGED <<target, lastUsed, active, healthy, held, now, running, keeper>>

PoolNext ==
    \/ \E u \in Users, t \in Targets : GetReuse(u, t) \/ GetCreate(u, t) \/ GetEvict(u, t)
    \/ \E u \in Users : ReturnConn(u)
    \/ CleanupIdle
    \/ KeepalivePass
    \/ KeepaliveExit
    \/ Tick
    \/ DestroyPool
    \/ JoinKeeper
    \/ FreePool

PoolSpec == PoolInit /\ [][PoolNext]_poolVars

\* Time goes on, and the keep-alive thread and a thread inside
\* grpc_connection_pool_destroy keep running.
PoolFairSpec ==
    /\ PoolSpec
    /\ WF_poolVars(Tick)
    /\ WF_poolVars(KeepalivePass)
    /\ WF_poolVars(KeepaliveExit)
    /\ WF_poolVars(JoinKeeper)
    /\ WF_poolVars(FreePool)

-----------------------------------------------------------------------------
\* A connection that a user got and has not returned is alive, healthy and
\* counted: neither the keep-alive thread, nor cleanup_idle, nor an eviction
\* by another thread takes it away, and active_calls is the number of users.
HeldIsSafe ==
    /\ \A u \in Users : held[u] # NULL => state[held[u]] = "pooled" /\ healthy[held[u]]
    /\ \A n \in Pooled : active[n] = Cardinality({u \in Users : held[u] = n})

\* V1.3.0_RELEASE_NOTES: "Max Connections: Configurable pool size limit" and
\* "Pools and reuses HTTP/2 connections".  current_connections is the number
\* of open connections, evictions and failed creations included, and stays
\* within the limit; threads that ask for the same target share a connection,
\* so that there are never two healthy ones to it.
PoolBounded ==
    /\ count = Cardinality(Pooled)
    /\ count <= MaxConnections
    /\ \A m, n \in Pooled : healthy[m] /\ healthy[n] /\ target[m] = target[n] => m = n

\* grpc_connection_pool_destroy returns: the keep-alive thread sees the flag
\* and ends, if it was created.
DestroyReturns ==
    (destroyer = "joining" /\ keeper # "none") ~> (destroyer = "done")

\* connection_pool.c, grpc_connection_pool_get: "Reuse this connection slot".
\* No node of the list has been freed.
NoFreedNodeInList == destroyer = "no" => Intact
=============================================================================
