\* Two threads on each object.  Up to three backends at two addresses, marked
\* and picked in any order, with weights whose sum exceeds the largest int;
\* three resolutions, lists of one or two addresses.
CONSTANTS
    Threads = {t1, t2}
    NULL = NULL
    Nodes = {n1, n2, n3}
    Spans = {s1, s2}
    Exporters = {e1}
    TagCapacity = 1
    MaxTags = 2
    MaxFinishes = 1
    MetricNames = {m1, m2}
    Amounts <- MCAmounts
    MaxMetrics = 2
    MaxChanges = 3
    Handlers = {h1, h2}
    Levels = {0, 1, 2}
    MinLevel = 1
    ServiceNodes = {v1, v2, v3}
    ServiceNames = {a, b}
    Methods = {p}
    MaxMethods = 1
    Addresses = {a1, a2}
    Weights <- MCWeights
    IntMax = 3
    MaxBackends = 3
    MaxPicks = 4
    MaxResolves = 3
    MaxAddresses = 2
SPECIFICATION ServicesSpec
INVARIANTS
    ChainIntact
    ExportsFaithful
    StatisticsExact
    LogFaithful
    RegistryStable
    PicksFair
    WeightedShare
    OnlyCurrentAllocated
    ReaderConsistent
PROPERTIES SuccessIsComplete ExecutionReturns
\* An object that was destroyed stops.
CHECK_DEADLOCK FALSE
