------------------------------ MODULE Tracing ------------------------------
(***************************************************************************)
(* Trace contexts of observability.c.  Spans are started and finished with *)
(* ctx->mutex held, and a finished span is handed to the exporter from     *)
(* there.  Tags are added to a span with no mutex: one thread, the span's  *)
(* owner, does that, and any thread may finish the span, also while the    *)
(* owner moves the tags to a larger array.  An array of tags is named by   *)
(* its capacity, which grows with every move.                              *)
(***************************************************************************)
EXTENDS Common, Integers, Sequences

CONSTANTS
    Spans,          \* the spans that are started
    Exporters,      \* exporters; the user_data of e is e as well
    TagCapacity,    \* capacity of the first array of tags (4)
    MaxTags,        \* bound: tags of a span
    MaxFinishes     \* bound: calls of grpc_trace_finish_span on a span

ASSUME TracingAssumption == TagCapacity \in Nat \ {0}

VARIABLES
    active,         \* ctx->active_spans, the newest first
    span,           \* the spans: their tags, the array allocated for them,
                    \* and whether they are finished
    metadata,       \* metadata[s]: the array span->tags.metadata points to
    exportFunc,     \* ctx->export_span
    exportData,     \* ctx->exporter_user_data
    traceLock,      \* owner of ctx->mutex
    tracing,        \* tracing[t]: what thread t does
    owner,          \* owner[s]: the thread that adds tags to s
    export          \* the latest call of an exporter: what it was given, and
                    \* the tags that had been added before the span's finish

traceVars == <<active, span, metadata, exportFunc, exportData, traceLock, tracing,
               owner, export>>

Untraced == [at |-> "idle"]
NewSpan == [tags |-> 0, capacity |-> 0, finished |-> 0, memory |-> "none"]

TraceInit ==
    /\ active = <<>>
    /\ span = [s \in Spans |-> NewSpan]
    /\ metadata = [s \in Spans |-> 0]
    /\ exportFunc = NULL
    /\ exportData = NULL
    /\ traceLock = NULL
    /\ tracing = [t \in Threads |-> Untraced]
    /\ owner = [s \in Spans |-> NULL]
    /\ export = NULL

Live(s) == span[s].memory = "held"

-----------------------------------------------------------------------------
\* grpc_trace_start_span; without memory nothing happens.
StartSpan(t, s) ==
    /\ tracing[t] = Untraced
    /\ traceLock = NULL
    /\ span[s].memory = "none"
    /\ active' = <<s>> \o active
    /\ span' = [span EXCEPT ![s].memory = "held"]
    /\ owner' = [owner EXCEPT ![s] = t]
    /\ UNCHANGED <<metadata, exportFunc, exportData, traceLock, tracing, export>>

\* grpc_trace_span_add_tag: the tags move out of a full array, which realloc
\* frees (if there is no memory the call returns -1) ...
GrownTags(c) == IF c = 0 THEN TagCapacity ELSE 2 * c

AddTag(t, s) ==
    /\ tracing[t] = Untraced
    /\ owner[s] = t /\ Live(s)
    /\ span[s].tags < MaxTags
    /\ span' = [span EXCEPT ![s].capacity = IF span[s].tags >= @ THEN GrownTags(@) ELSE @]
    /\ tracing' = [tracing EXCEPT ![t] = [at |-> "tagging", span |-> s]]
    /\ UNCHANGED <<active, metadata, exportFunc, exportData, traceLock, owner, export>>

\* ... and then the new array is pointed to, the tag stored and counted.
StoreTag(t) ==
    /\ tracing[t].at = "tagging"
    /\ metadata' = [metadata EXCEPT ![tracing[t].span] = span[tracing[t].span].capacity]
    /\ span' = [span EXCEPT ![tracing[t].span].tags = @ + 1]
    /\ tracing' = [tracing EXCEPT ![t] = Untraced]
    /\ UNCHANGED <<active, exportFunc, exportData, traceLock, owner, export>>

\* grpc_trace_finish_span: called, locked and marked, exported and unlocked.
\* due is what the call has to export: the tags that were added before it.
FinishSpan(t, s) ==
    /\ tracing[t] = Untraced
    /\ Live(s)
    /\ span[s].finished < MaxFinishes
    /\ tracing' = [tracing EXCEPT ![t] =
                     [at |-> "finishing", span |-> s, due |-> span[s].tags]]
    /\ UNCHANGED <<active, span, metadata, exportFunc, exportData, traceLock, owner, export>>

Bug_FinishLocks(t) ==
    /\ tracing[t].at = "finishing"
    /\ traceLock = NULL
    /\ span' = [span EXCEPT ![tracing[t].span].finished = @ + 1]
    /\ tracing' = [tracing EXCEPT ![t].at = "exporting"]
    /\ UNCHANGED <<active, metadata, exportFunc, exportData, traceLock, owner, export>>
FinishLocks(t) ==
    /\ tracing[t].at = "finishing"
    /\ traceLock = NULL
    /\ traceLock' = t
    /\ span' = [span EXCEPT ![tracing[t].span].finished = @ + 1]
    /\ tracing' = [tracing EXCEPT ![t].at = "exporting"]
    /\ UNCHANGED <<active, metadata, exportFunc, exportData, owner, export>>

\* The exporter takes the address of the tags, and reads them there; it
\* remembers whether the span's own thread has called it.
ExportBegins(t) ==
    LET s == tracing[t].span
    IN  /\ tracing[t].at = "exporting"
        /\ exportFunc # NULL
        /\ tracing' = [tracing EXCEPT ![t] = [at |-> "reading", span |-> s, due |-> @.due,
                                              array |-> metadata[s]]]
        /\ UNCHANGED <<active, span, metadata, exportFunc, exportData, traceLock, owner, export>>

ExportReads(t) ==
    LET s == tracing[t].span
    IN  export' = [func |-> exportFunc, data |-> exportData, span |-> span[s],
                   due |-> tracing[t].due, array |-> tracing[t].array, own |-> owner[s] = t]

FinishReturns(t) ==
    /\ \/ tracing[t].at = "exporting" /\ exportFunc = NULL /\ UNCHANGED export
       \/ tracing[t].at = "reading" /\ ExportReads(t)
    /\ traceLock' = NULL
    /\ tracing' = [tracing EXCEPT ![t] = Untraced]
    /\ UNCHANGED <<active, span, metadata, exportFunc, exportData, owner>>

\* grpc_trace_context_set_exporter: two assignments with the mutex held.
SetExporter(t, e) ==
    /\ tracing[t] = Untraced
    /\ traceLock = NULL
    /\ traceLock' = t
    /\ exportFunc' = e
    /\ tracing' = [tracing EXCEPT ![t] = [at |-> "setting", exporter |-> e]]
    /\ UNCHANGED <<active, span, metadata, exportData, owner, export>>

SetExporterData(t) ==
    /\ tracing[t].at = "setting"
    /\ exportData' = tracing[t].exporter
    /\ traceLock' = NULL
    /\ tracing' = [tracing EXCEPT ![t] = Untraced]
    /\ UNCHANGED <<active, span, metadata, exportFunc, owner, export>>

\* grpc_trace_context_destroy, when no thread uses the context: all spans of
\* the list are freed, finished or not.
DestroyContext ==
    /\ \A t \in Threads : tracing[t] = Untraced
    /\ traceLock = NULL
    /\ traceLock' = "destroyed"
    /\ span' = [s \in Spans |-> IF \E i \in 1 .. Len(active) : active[i] = s
                                  THEN [span[s] EXCEPT !.memory = "freed"] ELSE span[s]]
    /\ UNCHANGED <<active, metadata, exportFunc, exportData, tracing, owner, export>>

TraceNext ==
    \/ \E t \in Threads :
         \/ \E s \in Spans : StartSpan(t, s) \/ AddTag(t, s) \/ FinishSpan(t, s)
         \/ StoreTag(t) \/ FinishLocks(t) \/ ExportBegins(t) \/ FinishReturns(t)
         \/ \E e \in Exporters \union {NULL} : SetExporter(t, e)
         \/ SetExporterData(t)
    \/ DestroyContext

TraceSpec == TraceInit /\ [][TraceNext]_traceVars

-----------------------------------------------------------------------------
\* An exporter is called with the user_data that was set with it, for a span
\* that is marked finished and not freed, with all the tags that were added
\* before grpc_trace_finish_span was called.  If the thread that adds the tags
\* finishes the span itself, the exporter reads exactly those tags, from the
\* array that holds them; only if another thread does can the array be freed
\* while the exporter reads.  When the context is destroyed, no span it
\* started is left.
ExportsFaithful ==
    /\ export # NULL =>
         /\ export.data = export.func
         /\ export.span.finished > 0 /\ export.span.memory = "held"
         /\ export.span.tags \in export.due .. export.span.capacity
         /\ export.own => /\ export.array = export.span.capacity
                          /\ export.span.tags = export.due
    /\ traceLock = "destroyed" => \A s \in Spans : ~Live(s)
=============================================================================
