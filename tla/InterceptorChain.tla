-------------------------- MODULE InterceptorChain --------------------------
(***************************************************************************)
(* The interceptor chains of interceptors.c: a linked list of callbacks    *)
(* that grows at its tail, and an execution that calls them in order until *)
(* one of them fails.  The client's and the server's chain are the same    *)
(* code on two types; a behaviour of this module is one of either kind.    *)
(*                                                                         *)
(* chain_execute holds chain->mutex while the callbacks run, so it is one  *)
(* step per callback here, and other threads run between the steps.  The   *)
(* callbacks are assumed not to use the chain they are called from: the    *)
(* mutex is a default one, and such a call would never return.             *)
(***************************************************************************)
EXTENDS Common, Integers, Sequences, FiniteSets

CONSTANT Nodes   \* grpc_interceptor_node: the interceptors that are added

ASSUME InterceptorAssumption == IsFiniteSet(Nodes) /\ NULL \notin Nodes

VARIABLES
    head, tail, count,   \* chain->head, chain->tail, chain->count
    next,                \* next[n]: node->next
    lock,                \* owner of chain->mutex
    pc,                  \* pc[t]: where thread t is in chain_execute
    node,                \* node[t]: its next interceptor
    result,              \* result[t]: what the latest callback returned
    freed,               \* the nodes freed by chain_destroy
    added,               \* history: the interceptors in the order of chain_add
    ran,                 \* history: ran[t]: those called by t's latest execution
    failed               \* history: failed[t]: those of them that failed

links == <<head, tail, count, next, added>>
runs == <<pc, node, result, ran, failed>>
chainVars == <<links, lock, runs, freed>>

Destroyed == pc = [t \in Threads |-> "destroyed"]

-----------------------------------------------------------------------------
\* chain_create
ChainInit ==
    /\ head = NULL /\ tail = NULL /\ count = 0
    /\ next = [n \in Nodes |-> NULL]
    /\ lock = NULL
    /\ pc = [t \in Threads |-> "idle"]
    /\ node = [t \in Threads |-> NULL]
    /\ result = [t \in Threads |-> 0]
    /\ freed = {}
    /\ added = <<>>
    /\ ran = [t \in Threads |-> <<>>]
    /\ failed = [t \in Threads |-> {}]

\* The new node goes behind the tail, or becomes the whole list.
Bug_ForgetTail(n) ==
    IF head = NULL
      THEN head' = n /\ tail' = n /\ UNCHANGED next
      ELSE next' = [next EXCEPT ![tail] = n] /\ UNCHANGED <<head, tail>>
Link(n) ==
    IF head = NULL
      THEN head' = n /\ tail' = n /\ UNCHANGED next
      ELSE next' = [next EXCEPT ![tail] = n] /\ tail' = n /\ UNCHANGED head

\* chain->count++
CountUp == count + 1

\* chain_add
Add(n) ==
    /\ ~Destroyed
    /\ \A i \in 1 .. Len(added) : added[i] # n
    /\ lock = NULL
    /\ Link(n)
    /\ count' = CountUp
    /\ added' = Append(added, n)
    /\ UNCHANGED <<lock, runs, freed>>

-----------------------------------------------------------------------------
\* A thread calls chain_execute ...
Execute(t) ==
    /\ pc[t] = "idle"
    /\ pc' = [pc EXCEPT ![t] = "calling"]
    /\ UNCHANGED <<links, lock, node, result, ran, failed, freed>>

\* ... locks the mutex and starts at the head ...
Bug_RunUnlocked(t) ==
    /\ pc[t] = "calling"
    /\ lock = NULL
    /\ node' = [node EXCEPT ![t] = head]
    /\ result' = [result EXCEPT ![t] = 0]
    /\ ran' = [ran EXCEPT ![t] = <<>>]
    /\ failed' = [failed EXCEPT ![t] = {}]
    /\ pc' = [pc EXCEPT ![t] = "running"]
    /\ UNCHANGED <<links, lock, freed>>
ExecuteLocks(t) ==
    /\ pc[t] = "calling"
    /\ lock = NULL
    /\ lock' = t
    /\ node' = [node EXCEPT ![t] = head]
    /\ result' = [result EXCEPT ![t] = 0]
    /\ ran' = [ran EXCEPT ![t] = <<>>]
    /\ failed' = [failed EXCEPT ![t] = {}]
    /\ pc' = [pc EXCEPT ![t] = "running"]
    /\ UNCHANGED <<links, freed>>

\* ... calls interceptors while there is one and none has failed ...
Continues(t) == node[t] # NULL /\ result[t] = 0

Intercept(t) ==
    /\ pc[t] = "running"
    /\ Continues(t)
    /\ \E r \in {0, 1} :
         /\ result' = [result EXCEPT ![t] = r]
         /\ failed' = [failed EXCEPT ![t] = IF r = 0 THEN @ ELSE @ \cup {node[t]}]
    /\ ran' = [ran EXCEPT ![t] = Append(@, node[t])]
    /\ node' = [node EXCEPT ![t] = next[node[t]]]
    /\ UNCHANGED <<links, lock, pc, freed>>

\* ... unlocks and returns the result.
Bug_KeepLockOnFailure(t) ==
    /\ pc[t] = "running"
    /\ ~Continues(t)
    /\ lock' = IF result[t] = 0 THEN NULL ELSE lock
    /\ pc' = [pc EXCEPT ![t] = "idle"]
    /\ UNCHANGED <<links, node, result, ran, failed, freed>>
ExecuteReturns(t) ==
    /\ pc[t] = "running"
    /\ ~Continues(t)
    /\ lock' = NULL
    /\ pc' = [pc EXCEPT ![t] = "idle"]
    /\ UNCHANGED <<links, node, result, ran, failed, freed>>

\* chain_destroy, when no thread uses the chain any more: the nodes reached
\* from the head are freed, and the chain.
Reachable ==
    LET walk[k \in 0 .. Cardinality(Nodes)] ==
          IF k = 0 THEN {head} \ {NULL}
          ELSE walk[k - 1] \cup ({next[n] : n \in walk[k - 1]} \ {NULL})
    IN  walk[Cardinality(Nodes)]

Destroy ==
    /\ pc = [t \in Threads |-> "idle"]
    /\ lock = NULL
    /\ freed' = Reachable
    /\ pc' = [t \in Threads |-> "destroyed"]
    /\ UNCHANGED <<links, lock, node, result, ran, failed>>

\* A thread that has the mutex goes on with its execution.
ExecuteRuns(t) == Intercept(t) \/ ExecuteReturns(t)

ChainNext ==
    \/ \E n \in Nodes : Add(n)
    \/ \E t \in Threads : Execute(t) \/ ExecuteLocks(t) \/ ExecuteRuns(t)
    \/ Destroy

ChainSpec == ChainInit /\ [][ChainNext]_chainVars

-----------------------------------------------------------------------------
\* V1.3.0_RELEASE_NOTES: "Multiple interceptors executed in order".  However
\* chain_add and executions of other threads interleave, an execution calls
\* the interceptors in the order they were added, leaving none out; one that
\* fails is the last it calls, and the execution reports the failure.
\* chain_destroy frees every interceptor ever added, chain->count of them.
ChainIntact ==
    /\ \A t \in Threads :
         /\ ran[t] = SubSeq(added, 1, Len(ran[t]))
         /\ failed[t] # {} => result[t] # 0 /\ failed[t] = {ran[t][Len(ran[t])]}
    /\ Destroyed =>
         /\ freed = {added[i] : i \in 1 .. Len(added)}
         /\ count = Cardinality(freed)

\* An execution that returns 0 has called every interceptor the chain has
\* when it returns: none can be added behind its back.
SuccessIsComplete ==
    [][\A t \in Threads :
         pc[t] = "running" /\ pc'[t] = "idle" /\ result[t] = 0
         => Len(ran[t]) = Len(added)]_chainVars

\* Every chain_execute returns, whichever of its interceptors fails.
ExecutionReturns == \A t \in Threads : pc[t] = "calling" ~> pc[t] = "idle"
=============================================================================
