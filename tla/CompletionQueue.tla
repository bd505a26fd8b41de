-------------------------- MODULE CompletionQueue --------------------------
(***************************************************************************)
(* The completion queue of grpc_core.c: a singly linked list of events     *)
(* with head and tail pointers, a mutex and one condition variable.        *)
(*                                                                         *)
(* Every access to the list, to the shutdown flag and to the condition     *)
(* variable happens with cq->mutex held, so one action is one critical     *)
(* section: from pthread_mutex_lock (or from the return of                 *)
(* pthread_cond_timedwait) to the unlock (or to the next wait).  The steps *)
(* taken without the mutex are separate: entering a call, and the malloc   *)
(* of a node before the lock.                                              *)
(*                                                                         *)
(* A node is identified with the event it carries: an event is pushed by   *)
(* one call of completion_queue_push_event, which allocates one node.      *)
(***************************************************************************)
EXTENDS Null, Integers, Sequences, FiniteSets

CONSTANTS
    Events,                \* one per call of completion_queue_push_event
    Consumers,             \* threads calling grpc_completion_queue_next
    QuiesceBeforeDestroy   \* does the application wait for every call on the
                           \* queue to return before it destroys the queue?

ASSUME CQAssumption ==
    /\ NULL \notin Events
    /\ Events \cap {"none", "pending", "timeout", "shutdown"} = {}
    /\ IsFiniteSet(Consumers)
    /\ QuiesceBeforeDestroy \in BOOLEAN

VARIABLES
    head, tail,    \* cq->head, cq->tail
    next,          \* next[e]: the next pointer of e's node
    stage,         \* stage[e]: how far the push of e has come
    shutdown,      \* cq->shutdown
    freed,         \* cq has been passed to free
    pc,            \* pc[c]: where c is inside grpc_completion_queue_next
    outcome,       \* what c's latest call returned, as in EventQueue
    pushed,        \* history: the events linked into the list, in order
    delivered,     \* history: the events handed to consumers, in order
    mark           \* history: Len(pushed) when shutdown was first called

list == <<head, tail, next, stage, pushed>>
vars == <<head, tail, next, stage, shutdown, freed, pc, outcome, pushed,
          delivered, mark>>

Stages == {"none", "lost", "alloc", "listed", "freed"}
PCs == {"idle", "entering", "sleeping", "signalled", "timedout"}
Outcomes == Events \cup {"none", "pending", "timeout", "shutdown"}
Pointers == Events \cup {NULL}

Sleeping == {c \in Consumers : pc[c] = "sleeping"}
Signalled == {c \in Consumers : pc[c] = "signalled"}

-----------------------------------------------------------------------------
\* grpc_completion_queue_create
Init ==
    /\ head = NULL
    /\ tail = NULL
    /\ next = [e \in Events |-> NULL]
    /\ stage = [e \in Events |-> "none"]
    /\ shutdown = FALSE
    /\ freed = FALSE
    /\ pc = [c \in Consumers |-> "idle"]
    /\ outcome = [c \in Consumers |-> "none"]
    /\ pushed = <<>>
    /\ delivered = <<>>
    /\ mark = 0

\* pthread_cond_signal releases one waiter, chosen by the implementation.
\* POSIX allows it to release more; SpuriousWakeup covers that.
\* (Bug_ operators are deliberately wrong variants of the definition that
\* follows them; nothing uses them except the tests of the properties.)
Bug_SignalIfWasEmpty ==
    \/ (Sleeping = {} \/ tail # NULL) /\ pc' = pc
    \/ tail = NULL /\ \E c \in Sleeping : pc' = [pc EXCEPT ![c] = "signalled"]
CondSignal ==
    \/ Sleeping = {} /\ pc' = pc
    \/ \E c \in Sleeping : pc' = [pc EXCEPT ![c] = "signalled"]

Bug_SignalInsteadOfBroadcast == CondSignal
CondBroadcast ==
    pc' = [c \in Consumers |-> IF pc[c] = "sleeping" THEN "signalled" ELSE pc[c]]

\* completion_queue_push_event up to the lock: the node, or no memory.
PushAlloc(e) ==
    /\ ~freed
    /\ stage[e] = "none"
    /\ \E s \in {"alloc", "lost"} : stage' = [stage EXCEPT ![e] = s]
    /\ next' = [next EXCEPT ![e] = NULL]
    /\ UNCHANGED <<head, tail, shutdown, freed, pc, outcome, pushed, delivered, mark>>

\* The critical section of completion_queue_push_event.  It does not look at
\* cq->shutdown (NothingAddedAfterShutdown).
PushLink(e) ==
    /\ ~freed
    /\ stage[e] = "alloc"
    /\ stage' = [stage EXCEPT ![e] = "listed"]
    /\ IF tail # NULL
         THEN next' = [next EXCEPT ![tail] = e] /\ UNCHANGED head
         ELSE head' = e /\ UNCHANGED next
    /\ tail' = e
    /\ pushed' = Append(pushed, e)
    /\ CondSignal
    /\ UNCHANGED <<shutdown, freed, outcome, delivered, mark>>

-----------------------------------------------------------------------------
\* grpc_completion_queue_next, up to the lock.
NextCall(c) ==
    /\ ~freed
    /\ pc[c] = "idle"
    /\ pc' = [pc EXCEPT ![c] = "entering"]
    /\ outcome' = [outcome EXCEPT ![c] = "pending"]
    /\ UNCHANGED <<list, shutdown, freed, delivered, mark>>

\* c holds the mutex and evaluates the loop condition.
InLoop(c) == ~freed /\ pc[c] \in {"entering", "signalled"}

\* Unlock and return the event (its type, for a timeout or the shutdown).
ReturnFromNext(c, r) ==
    /\ pc' = [pc EXCEPT ![c] = "idle"]
    /\ outcome' = [outcome EXCEPT ![c] = r]

\* pthread_cond_timedwait: join the waiters and release the mutex.
NextWait(c) ==
    /\ InLoop(c)
    /\ head = NULL
    /\ ~shutdown
    /\ pc' = [pc EXCEPT ![c] = "sleeping"]
    /\ UNCHANGED <<list, shutdown, freed, outcome, delivered, mark>>

\* A deadline with tv_nsec out of range makes pthread_cond_timedwait fail at
\* once; the code returns that as a timeout.
NextBadDeadline(c) ==
    /\ ~freed
    /\ pc[c] = "entering"
    /\ head = NULL
    /\ ~shutdown
    /\ ReturnFromNext(c, "timeout")
    /\ UNCHANGED <<list, shutdown, freed, delivered, mark>>

Bug_ShutdownFirst(c) ==
    /\ InLoop(c)
    /\ shutdown
    /\ ReturnFromNext(c, "shutdown")
    /\ UNCHANGED <<list, shutdown, freed, delivered, mark>>
NextShutdown(c) ==
    /\ InLoop(c)
    /\ shutdown
    /\ head = NULL
    /\ ReturnFromNext(c, "shutdown")
    /\ UNCHANGED <<list, shutdown, freed, delivered, mark>>

\* The node taken off the list is freed; tail is reset with the last one.
Bug_KeepTail == tail' = tail
ResetTail == tail' = IF next[head] = NULL THEN NULL ELSE tail

NextPop(c) ==
    /\ InLoop(c)
    /\ head # NULL
    /\ head' = next[head]
    /\ ResetTail
    /\ stage' = [stage EXCEPT ![head] = "freed"]
    /\ delivered' = Append(delivered, head)
    /\ ReturnFromNext(c, head)
    /\ UNCHANGED <<next, shutdown, freed, pushed, mark>>

\* The deadline passes while c waits: it leaves the waiters and then has to
\* take the mutex again.
Expire(c) ==
    /\ ~freed
    /\ pc[c] = "sleeping"
    /\ pc' = [pc EXCEPT ![c] = "timedout"]
    /\ UNCHANGED <<list, shutdown, freed, outcome, delivered, mark>>

\* ret # 0: return a timeout without looking at the list again.
Bug_WaitAgain(c) ==
    /\ ~freed
    /\ pc[c] = "timedout"
    /\ pc' = [pc EXCEPT ![c] = "signalled"]
    /\ UNCHANGED <<list, shutdown, freed, outcome, delivered, mark>>
NextTimeout(c) ==
    /\ ~freed
    /\ pc[c] = "timedout"
    /\ ReturnFromNext(c, "timeout")
    /\ UNCHANGED <<list, shutdown, freed, delivered, mark>>

SpuriousWakeup(c) ==
    /\ ~freed
    /\ pc[c] = "sleeping"
    /\ pc' = [pc EXCEPT ![c] = "signalled"]
    /\ UNCHANGED <<list, shutdown, freed, outcome, delivered, mark>>

-----------------------------------------------------------------------------
\* grpc_completion_queue_shutdown
Shutdown ==
    /\ ~freed
    /\ shutdown' = TRUE
    /\ mark' = IF shutdown THEN mark ELSE Len(pushed)
    /\ CondBroadcast
    /\ UNCHANGED <<list, freed, outcome, delivered>>

\* No thread is inside a call on the queue.
Quiescent ==
    /\ \A c \in Consumers : pc[c] = "idle"
    /\ \A e \in Events : stage[e] # "alloc"

\* grpc_completion_queue_destroy, called as docs/API.md requires after
\* shutdown: the nodes and the queue itself are freed.
Destroy ==
    /\ ~freed
    /\ shutdown
    /\ QuiesceBeforeDestroy => Quiescent
    /\ freed' = TRUE
    /\ stage' = [e \in Events |-> IF stage[e] = "listed" THEN "freed" ELSE stage[e]]
    /\ UNCHANGED <<head, tail, next, shutdown, pc, outcome, pushed, delivered, mark>>

NextSteps(c) ==
    \/ NextWait(c)
    \/ NextBadDeadline(c)
    \/ NextShutdown(c)
    \/ NextPop(c)
    \/ NextTimeout(c)

Next ==
    \/ \E e \in Events : PushAlloc(e) \/ PushLink(e)
    \/ \E c \in Consumers : NextCall(c) \/ NextSteps(c) \/ Expire(c) \/ SpuriousWakeup(c)
    \/ Shutdown
    \/ Destroy

Spec == Init /\ [][Next]_vars

\* A thread that has called into the queue is scheduled until it sleeps or
\* returns; whether a deadline ever passes is left open.
FairSpec ==
    /\ Spec
    /\ \A e \in Events : WF_vars(PushLink(e))
    /\ \A c \in Consumers : WF_vars(NextSteps(c))

-----------------------------------------------------------------------------
DataOK ==
    /\ head \in Pointers
    /\ tail \in Pointers
    /\ next \in [Events -> Pointers]
    /\ stage \in [Events -> Stages]
    /\ pc \in [Consumers -> PCs]
    /\ outcome \in [Consumers -> Outcomes]
    /\ pushed \in Seq(Events)
    /\ delivered \in Seq(Events)
    /\ mark \in Nat

\* The types of the variables.
TypeOK == DataOK /\ shutdown \in BOOLEAN /\ freed \in BOOLEAN

\* Events are delivered in the order they were pushed, each once, and the
\* linked list that push and next maintain through head, tail and the next
\* pointers holds exactly the rest, in order and in live nodes.
ListIntact ==
    LET n == Len(delivered)
        m == Len(pushed)
    IN  /\ n <= m
        /\ \A i \in 1..n : delivered[i] = pushed[i]
        /\ ~freed =>
             /\ head = IF n = m THEN NULL ELSE pushed[n + 1]
             /\ tail = IF n = m THEN NULL ELSE pushed[m]
             /\ \A i \in (n + 1)..m :
                  /\ stage[pushed[i]] = "listed"
                  /\ next[pushed[i]] = IF i = m THEN NULL ELSE pushed[i + 1]

\* No lost wake-up: while a consumer sleeps on the condition variable, every
\* queued event has a consumer that was signalled and is on its way to it.
NoStrandedWaiter ==
    ~freed /\ Sleeping # {} =>
        Len(pushed) - Len(delivered) <= Cardinality(Signalled)

\* A consumer is told of the shutdown only when every event pushed before
\* grpc_completion_queue_shutdown has been handed out.
DrainedBeforeShutdownNotice ==
    (\E c \in Consumers : outcome[c] = "shutdown") => Len(delivered) >= mark

\* docs/API.md, grpc_completion_queue_shutdown: "After calling this, no new
\* events can be added to the queue."
NothingAddedAfterShutdown == [][shutdown => pushed' = pushed]_vars

\* The queue as its callers see it: the events found by following the next
\* pointers from head (no further than there are events pushed).
Chain ==
    LET at[k \in 0..Len(pushed)] ==
          IF k = 0 THEN head ELSE IF at[k - 1] = NULL THEN NULL ELSE next[at[k - 1]]
    IN  IF freed THEN <<>>
        ELSE [i \in 1..Cardinality({k \in 0..Len(pushed) : at[k] # NULL}) |-> at[i - 1]]

Abstract == INSTANCE EventQueue WITH queue <- Chain, closed <- shutdown

\* The list, the mutex and the condition variable implement the FIFO queue
\* of module EventQueue.
ImplementsEventQueue == Abstract!QSpec

\* With no deadline passing, grpc_completion_queue_shutdown gets every thread
\* out of grpc_completion_queue_next, and an event does not stay queued while
\* a consumer sleeps (docs/API.md, grpc_completion_queue_next: it blocks
\* "until an event is available or the deadline expires").
WaitersReleased ==
    /\ \A c \in Consumers : (shutdown /\ pc[c] # "idle") ~> (pc[c] = "idle")
    /\ (head # NULL /\ Sleeping # {}) ~> (head = NULL \/ Sleeping = {})

\* Deadlines are absolute times: one that is waited for again and again
\* passes.  Then every call of grpc_completion_queue_next returns, whatever
\* wake-ups it gets and whoever takes the events first.
CallReturns ==
    (\A c \in Consumers : SF_vars(Expire(c)))
      => \A c \in Consumers : (pc[c] # "idle") ~> (pc[c] = "idle")
=============================================================================
