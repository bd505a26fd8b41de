---------------------------- MODULE ClientCalls ----------------------------
(***************************************************************************)
(* A client at work: the calls of a channel (module Channel), the batches  *)
(* started on them and the completion queue where those complete (module   *)
(* EventQueue, which CompletionQueue implements), and health checks, which *)
(* make a call with a queue of their own (grpc_channel.c,                  *)
(* enhanced_features.c).  The application keeps to the order of the        *)
(* examples: calls are destroyed before their queue, and both before the   *)
(* channel.  Calls of the streaming kinds are created in the same way.     *)
(***************************************************************************)
EXTENDS Channel, Lists

CONSTANTS
    Checks,       \* those of Calls that grpc_health_check makes
    Events,       \* the tags of the batches the application starts
    MaxBusy,      \* bound: calls of an application that starts batches
    Reader        \* the thread that takes events from the queue

ASSUME ClientAssumption == Checks \subseteq Calls /\ MaxBusy \in Nat

VARIABLES
    plan,         \* the calls the application makes, the batches it starts
    queue, closed, outcome,   \* the completion queue, as in EventQueue
    cq,           \* whether that queue exists
    started,      \* history: the batches started, on any call, in order
    lost,         \* the events for which there was no memory
    delivered,    \* history: the events handed out, in order
    check         \* check[c]: where the health check of c is

clientVars == <<plan, queue, closed, outcome, cq, started, lost, delivered,
                check>>
allVars == <<vars, clientVars>>

Q == INSTANCE EventQueue WITH Consumers <- {Reader}

\* Many calls and no batch, or few calls and every batch.
Plans == {[calls |-> Calls, tags |-> {}]} \union
         {[calls |-> s, tags |-> Events] : s \in {b \in SUBSET Calls : Cardinality(b) = MaxBusy}}

ClientInit ==
    /\ plan \in Plans
    /\ Init
    /\ Q!QInit
    /\ cq = "held"
    /\ started = <<>>
    /\ lost = {}
    /\ delivered = <<>>
    /\ check = [c \in Checks |-> "none"]

-----------------------------------------------------------------------------
\* grpc_call_start_batch: the event is pushed at once.  Its answer is
\* GRPC_CALL_OK, if completion_queue_push_event has no memory too.
Bug_StartBatch(c, e) ==
    /\ pc[c] = "live" /\ c \notin Checks
    /\ e \in plan.tags \ Elements(started)
    /\ started' = Append(started, e)
    /\ IF status[c] = "OK" THEN Q!Put(e) ELSE UNCHANGED <<queue, closed, outcome>>
    /\ UNCHANGED <<plan, vars, cq, lost, delivered, check>>
StartBatch(c, e) ==
    /\ pc[c] = "live" /\ c \notin Checks
    /\ e \in plan.tags \ Elements(started)
    /\ started' = Append(started, e)
    /\ \/ Q!Put(e) /\ UNCHANGED lost
       \/ lost' = lost \union {e} /\ UNCHANGED <<queue, closed, outcome>>
    /\ UNCHANGED <<plan, vars, cq, delivered, check>>

\* The application's reader calls grpc_completion_queue_next ...
Ask ==
    /\ cq = "held"
    /\ Q!Call(Reader)
    /\ UNCHANGED <<plan, vars, cq, started, lost, delivered, check>>

\* ... which returns an event, the notice of the shutdown, or a timeout.
Answer ==
    /\ \/ Q!Deliver(Reader) /\ delivered' = Append(delivered, Head(queue))
       \/ (Q!NotifyShutdown(Reader) \/ Q!GiveUp(Reader)) /\ UNCHANGED delivered
    /\ UNCHANGED <<plan, vars, cq, started, lost, check>>

\* grpc_completion_queue_shutdown.  The code still accepts batches after it.
ShutdownQueue ==
    /\ cq = "held" /\ ~closed
    /\ Q!Close
    /\ UNCHANGED <<plan, vars, cq, started, lost, delivered, check>>

\* grpc_completion_queue_destroy, when the reader has left and the calls that
\* complete on the queue are gone.
Gone(c) == pc[c] \in {"none", "failed", "gone"}

DestroyQueue ==
    /\ closed /\ cq = "held"
    /\ outcome[Reader] # "pending"
    /\ \A c \in Calls \ Checks : Gone(c)
    /\ cq' = "freed"
    /\ Q!Drop
    /\ UNCHANGED <<plan, vars, started, lost, delivered, check>>

-----------------------------------------------------------------------------
\* grpc_health_check: a queue is created, or the check returns -1 ...
CheckStarts(c) ==
    /\ c \in plan.calls
    /\ check[c] = "none" /\ destroyer = "no"
    /\ \E a \in {"queue", "failed"} : check' = [check EXCEPT ![c] = a]
    /\ UNCHANGED <<plan, vars, queue, closed, outcome, cq, started, lost,
                   delivered>>

\* ... a call is created on it ...
CheckCalls(c) ==
    /\ check[c] = "queue"
    /\ CreateCall(c)
    /\ check' = [check EXCEPT ![c] = "calling"]
    /\ UNCHANGED <<plan, queue, closed, outcome, cq, started, lost, delivered>>

\* ... and, with no batch started, destroyed again ...
CheckDestroysCall(c) ==
    /\ check[c] = "calling"
    /\ DestroyCall(c)
    /\ UNCHANGED clientVars

\* ... then the queue is; the check returns 0 if there was a call.
CheckReturns(c) ==
    /\ check[c] = "calling"
    /\ pc[c] \in {"gone", "failed"}
    /\ check' = [check EXCEPT ![c] = IF pc[c] = "gone" THEN "healthy"
                                                        ELSE "failed"]
    /\ UNCHANGED <<plan, vars, queue, closed, outcome, cq, started, lost,
                   delivered>>

CheckStep(c) == CheckCalls(c) \/ CheckDestroysCall(c) \/ CheckReturns(c)

-----------------------------------------------------------------------------
\* The operations of Channel, as the application uses them.
ApplicationStep(c) ==
    /\ c \in plan.calls \ Checks
    /\ (CreateCall(c) /\ cq = "held") \/ Cancel(c) \/ DestroyCall(c)
    /\ UNCHANGED clientVars

CallContinues(c) == CallStep(c) /\ UNCHANGED clientVars

CloseChannel ==
    /\ \A c \in Checks : check[c] \notin {"queue", "calling"}
    /\ cq = "freed"
    /\ DestroyChannel
    /\ UNCHANGED clientVars

CloseContinues == DestroyStep /\ UNCHANGED clientVars

ClientNext ==
    \/ \E c \in Calls : ApplicationStep(c) \/ CallContinues(c)
    \/ \E c \in Calls, e \in Events : StartBatch(c, e)
    \/ \E c \in Checks : CheckStarts(c) \/ CheckStep(c)
    \/ Ask \/ Answer \/ ShutdownQueue \/ DestroyQueue
    \/ CloseChannel \/ CloseContinues

\* The operating system keeps running a thread that can run; a health check is
\* sequential code.  The application is not obliged to do anything.
ClientSpec ==
    /\ ClientInit /\ [][ClientNext]_allVars
    /\ \A c \in Calls : WF_allVars(CallContinues(c))
    /\ \A c \in Checks : WF_allVars(CheckStep(c))
    /\ WF_allVars(CloseContinues)

-----------------------------------------------------------------------------
\* Every batch that grpc_call_start_batch accepted, on whatever call, cancelled
\* or gone by now, has its event in exactly one place: queued, handed out, lost
\* for want of memory, or dropped with the queue.  Events come out in the order
\* in which their batches were started.  A batch accepted after the shutdown of
\* the queue, whose event docs/API.md rules out (the property
\* NothingAddedAfterShutdown of CompletionQueue, which the code does not have),
\* has one as well, behind all the others.
BatchesAccounted ==
    LET pushed == Filter(started, Events \ lost)
    IN  /\ Len(delivered) <= Len(pushed) /\ delivered = SubSeq(pushed, 1, Len(delivered))
        /\ cq = "held" => delivered \o queue = pushed

\* Every operation returns: the threads of calls, health checks and the
\* destruction of the channel do not block each other for ever on the two
\* mutexes, and no stream is left in the table, whose sweep by
\* grpc_channel_destroy under streams_mutex would not end.
OperationsReturn ==
    /\ \A c \in Calls :
         /\ pc[c] = "allocated" ~> pc[c] \in {"live", "failed"}
         /\ pc[c] = "detached" ~> pc[c] = "gone"
    /\ \A c \in Checks : check[c] = "queue" ~> check[c] \in {"healthy", "failed"}
    /\ destroyer = "called" ~> destroyer = "done"
=============================================================================
