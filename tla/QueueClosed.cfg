\* An event pushed when the queue has been shut down.
CONSTANTS
    NULL = NULL
    Events = {e1, e2}
    Consumers = {c1}
    QuiesceBeforeDestroy = TRUE
SPECIFICATION Spec
PROPERTY NothingAddedAfterShutdown
\* A destroyed queue stops.
CHECK_DEADLOCK FALSE
