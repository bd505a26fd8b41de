\* A server that is started after its shutdown, and destroyed.
CONSTANTS
    Workers = {w1, w2}
    MaxPorts = 1
    MaxPending = 1
    MaxShutdowns = 1
SPECIFICATION ServerSpec
INVARIANT ShutdownSufficesToDestroy
\* A destroyed server stops.
CHECK_DEADLOCK FALSE
