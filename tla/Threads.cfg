\* A queue with three events and two consumers; a pool of two connections for
\* three targets, with two users: reuse, creation and eviction; three workers
\* on two ports, and two shutdowns.
CONSTANTS
    NULL = NULL
    Events = {e1, e2, e3}
    Consumers = {c1, c2}
    QuiesceBeforeDestroy = TRUE
    Conns = {n1, n2, n3}
    Targets = {t1, t2, t3}
    Users = {u1, u2}
    MaxConnections = 2
    IdleTimeout = 1
    MaxTime = 2
    Workers = {w1, w2, w3}
    MaxPorts = 2
    MaxPending = 2
    MaxShutdowns = 2
SPECIFICATION ThreadsSpec
INVARIANTS
    ListIntact
    NoStrandedWaiter
    HeldIsSafe
    PoolBounded
    NoWorkerOnFreedServer
    NotifiedWhenQuiet
PROPERTIES
    ImplementsEventQueue
    WaitersReleased
    CallReturns
    DestroyReturns
    ShutdownWaitsOnlyForClients
\* A destroyed queue, pool or server stops, and so does a pool with a freed
\* node in its list.
CHECK_DEADLOCK FALSE
