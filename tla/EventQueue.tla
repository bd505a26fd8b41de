----------------------------- MODULE EventQueue -----------------------------
(***************************************************************************)
(* What a completion queue promises, with no lock, condition variable or   *)
(* linked list in sight: a FIFO queue of events shared by any number of    *)
(* consumers.  CompletionQueue is shown to implement this specification.   *)
(***************************************************************************)
EXTENDS Sequences

CONSTANTS Events,     \* the events pushed, each at most once
          Consumers   \* the threads that call grpc_completion_queue_next

VARIABLES queue,      \* the events pushed and not yet handed out, in order
          closed,     \* grpc_completion_queue_shutdown has been called
          outcome     \* per consumer, what its latest call returned

qvars == <<queue, closed, outcome>>

\* "none": never called, "pending": the call has not returned.
Outcomes == Events \cup {"none", "pending", "timeout", "shutdown"}

QInit ==
    /\ queue = <<>>
    /\ closed = FALSE
    /\ outcome = [c \in Consumers |-> "none"]

Put(e) ==
    /\ queue' = Append(queue, e)
    /\ UNCHANGED <<closed, outcome>>

Call(c) ==
    /\ outcome[c] # "pending"
    /\ outcome' = [outcome EXCEPT ![c] = "pending"]
    /\ UNCHANGED <<queue, closed>>

Return(c, r) ==
    /\ outcome[c] = "pending"
    /\ outcome' = [outcome EXCEPT ![c] = r]

\* The oldest event, and never the shutdown notice while one is queued.
Deliver(c) ==
    /\ queue # <<>>
    /\ Return(c, Head(queue))
    /\ queue' = Tail(queue)
    /\ UNCHANGED closed

NotifyShutdown(c) ==
    /\ closed
    /\ queue = <<>>
    /\ Return(c, "shutdown")
    /\ UNCHANGED <<queue, closed>>

\* A deadline may win against an event that arrives at the same time.
GiveUp(c) ==
    /\ Return(c, "timeout")
    /\ UNCHANGED <<queue, closed>>

Close ==
    /\ closed' = TRUE
    /\ UNCHANGED <<queue, outcome>>

\* Destruction, legal after Close, drops what is still queued.
Drop ==
    /\ closed
    /\ queue' = <<>>
    /\ UNCHANGED <<closed, outcome>>

QNext ==
    \/ \E e \in Events : Put(e)
    \/ \E c \in Consumers : Call(c) \/ Deliver(c) \/ NotifyShutdown(c) \/ GiveUp(c)
    \/ Close
    \/ Drop

QSpec == QInit /\ [][QNext]_qvars
=============================================================================
