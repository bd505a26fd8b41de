\* Shutdown when clients stop connecting.
CONSTANTS
    Workers = {w1, w2}
    MaxPorts = 2
    MaxPending = 2
    MaxShutdowns = 2
SPECIFICATION ServerFairSpec
PROPERTY ShutdownReturns
\* A destroyed server stops.
CHECK_DEADLOCK FALSE
