\* Three calls, one of them a health check's, on a table that starts with one
\* entry: it doubles twice.
CONSTANTS
    Calls = {c1, c2, c3}
    Checks = {c3}
    Events = {b1, b2}
    MaxBusy = 2
    Reader = Reader
    NULL = NULL
    Destroyer = Destroyer
    InitialCapacity = 1
    IdSpace = 16
SPECIFICATION ClientSpec
INVARIANTS RegistryExact IdsUnique BatchesAccounted
PROPERTIES OpenedInIdOrder OperationsReturn
\* A client that has destroyed its channel does nothing more.
CHECK_DEADLOCK FALSE
