\* A third target in a pool of two evicts a connection.
CONSTANTS
    Conns = {n1, n2, n3}
    Targets = {t1, t2, t3}
    Users = {u1}
    NULL = NULL
    MaxConnections = 2
    IdleTimeout = 1
    MaxTime = 1
SPECIFICATION PoolSpec
INVARIANT NoFreedNodeInList
\* A destroyed pool, or one with a freed node in its list, stops.
CHECK_DEADLOCK FALSE
