------------------------------ MODULE Metrics ------------------------------
(***************************************************************************)
(* The metrics registry of observability.c: a list of metrics that grows   *)
(* at its head, searched by name with registry->mutex held.  A name that   *)
(* is registered again hides its older metric.                             *)
(***************************************************************************)
EXTENDS Common, Lists

CONSTANTS
    MetricNames,
    Amounts,       \* values passed to increment and set
    MaxMetrics,    \* bound: metrics registered
    MaxChanges     \* bound: increments and sets

ASSUME MetricsAssumption == Amounts \subseteq Int

VARIABLES
    metrics,       \* registry->metrics, the oldest first
    metricsLock,   \* owner of registry->mutex
    change,        \* change[t]: the grpc_metrics_increment of thread t
    log            \* history: log[n]: what was done to n since it was registered

metricsVars == <<metrics, metricsLock, change, log>>

NoChange == [at |-> "idle"]
NewMetric(n) == [name |-> n, value |-> 0, count |-> 0, sum |-> 0, min |-> 0, max |-> 0]

MetricsInit ==
    /\ metrics = <<>>
    /\ metricsLock = NULL
    /\ change = [t \in Threads |-> NoChange]
    /\ log = [n \in MetricNames |-> <<>>]

\* The metric that a search by name finds first, 0 if none.
Find(n) ==
    LET found == {i \in 1 .. Len(metrics) : metrics[i].name = n}
    IN  IF found = {} THEN 0 ELSE CHOOSE i \in found : \A j \in found : j <= i

Changes ==
    LET all[S \in SUBSET MetricNames] ==
            IF S = {} THEN 0
            ELSE LET n == CHOOSE n \in S : TRUE IN Len(log[n]) + all[S \ {n}]
    IN  all[MetricNames]

-----------------------------------------------------------------------------
\* grpc_metrics_register.
Register(n) ==
    /\ metricsLock = NULL
    /\ Len(metrics) < MaxMetrics
    /\ metrics' = Append(metrics, NewMetric(n))
    /\ log' = [log EXCEPT ![n] = <<>>]
    /\ UNCHANGED <<metricsLock, change>>

\* grpc_metrics_increment: the search; without a metric it returns -1.
Increment(t, n, v) ==
    /\ change[t] = NoChange
    /\ metricsLock = NULL
    /\ Changes < MaxChanges
    /\ Find(n) # 0
    /\ metricsLock' = t
    /\ change' = [change EXCEPT ![t] = [at |-> "adding", metric |-> Find(n), amount |-> v]]
    /\ UNCHANGED <<metrics, log>>

Added(m, v) == [m EXCEPT !.value = @ + v, !.count = @ + 1, !.sum = @ + v]

IncrementAdds(t) ==
    LET c == change[t]
    IN  /\ c.at = "adding"
        /\ metrics' = [metrics EXCEPT ![c.metric] = Added(@, c.amount)]
        /\ change' = [change EXCEPT ![t].at = "bounding"]
        /\ UNCHANGED <<metricsLock, log>>

\* min and max are those of the first value, and then of all of them.
Bug_Bounded(m, v) ==
    [m EXCEPT !.min = IF v < @ THEN v ELSE @, !.max = IF v > @ THEN v ELSE @]
Bounded(m, v) ==
    [m EXCEPT !.min = IF m.count = 1 \/ v < @ THEN v ELSE @,
              !.max = IF m.count = 1 \/ v > @ THEN v ELSE @]

IncrementReturns(t) ==
    LET c == change[t]
    IN  /\ c.at = "bounding"
        /\ metrics' = [metrics EXCEPT ![c.metric] = Bounded(@, c.amount)]
        /\ log' = [log EXCEPT ![metrics[c.metric].name] = Append(@, <<"add", c.amount>>)]
        /\ metricsLock' = NULL
        /\ change' = [change EXCEPT ![t] = NoChange]

\* grpc_metrics_set.
Set(n, v) ==
    /\ metricsLock = NULL
    /\ Changes < MaxChanges
    /\ Find(n) # 0
    /\ metrics' = [metrics EXCEPT ![Find(n)].value = v]
    /\ log' = [log EXCEPT ![n] = Append(@, <<"set", v>>)]
    /\ UNCHANGED <<metricsLock, change>>

\* grpc_metrics_registry_destroy, when no thread uses the registry.
DestroyMetrics ==
    /\ metricsLock = NULL
    /\ \A t \in Threads : change[t] = NoChange
    /\ metrics' = <<>>
    /\ metricsLock' = "destroyed"
    /\ log' = [n \in MetricNames |-> <<>>]
    /\ UNCHANGED change

MetricsNext ==
    \/ \E n \in MetricNames : Register(n)
    \/ \E t \in Threads, n \in MetricNames, v \in Amounts : Increment(t, n, v)
    \/ \E t \in Threads : IncrementAdds(t) \/ IncrementReturns(t)
    \/ \E n \in MetricNames, v \in Amounts : Set(n, v)
    \/ DestroyMetrics

MetricsSpec == MetricsInit /\ [][MetricsNext]_metricsVars

-----------------------------------------------------------------------------
\* The increments of a history, and what a history adds up to: the latest
\* value set plus the increments after it.
Additions(changes) == Filter(changes, {"add"} \X Amounts)

Total(changes) ==
    LET upTo[i \in 0 .. Len(changes)] ==
            IF i = 0 THEN 0
            ELSE IF changes[i][1] = "set" THEN changes[i][2]
            ELSE upTo[i - 1] + changes[i][2]
    IN  upTo[Len(changes)]

\* The metric that grpc_metrics_get finds by a name has, whenever no thread is
\* changing one, the count, sum, minimum and maximum of the increments of that
\* name since it was registered last, and as its value the latest one set plus
\* the increments after it.
StatisticsExact ==
    metricsLock = NULL => \A n \in MetricNames : Find(n) # 0 =>
        LET m == metrics[Find(n)]
            adds == Additions(log[n])
            amounts == {e[2] : e \in Elements(adds)}
        IN  /\ m.count = Len(adds)
            /\ m.sum = Total(adds)
            /\ m.value = Total(log[n])
            /\ amounts # {} =>
                 /\ m.min \in amounts /\ \A v \in amounts : m.min <= v
                 /\ m.max \in amounts /\ \A v \in amounts : m.max >= v
=============================================================================
