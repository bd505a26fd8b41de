------------------------ MODULE ObservabilityProofs -------------------------
(***************************************************************************)
(* Proofs about what surrounds the calls of a process: loggers, trace      *)
(* contexts, metrics and chains of interceptors, each behind a mutex of    *)
(* its own; for any number of threads and any values of the constants.     *)
(***************************************************************************)
EXTENDS Tracing, Metrics, Logger, InterceptorChain, Induction

-----------------------------------------------------------------------------
\* The list built by chain_add: its pointers, from head to tail, are the
\* interceptors in the order they were added, each of them once.
LinksInv ==
    /\ added \in Seq(Nodes)
    /\ \A i, j \in 1 .. Len(added) : added[i] = added[j] => i = j
    /\ next \in [Nodes -> Nodes \cup {NULL}]
    /\ head = IF added = <<>> THEN NULL ELSE added[1]
    /\ added # <<>> => tail = added[Len(added)]
    /\ \A i \in 1 .. Len(added) :
         next[added[i]] = IF i = Len(added) THEN NULL ELSE added[i + 1]
    /\ \A n \in Nodes : n \notin Elements(added) => next[n] = NULL
    /\ count = Len(added)

\* An execution holds the mutex, and stands at the interceptor that follows
\* those it has called, the first interceptors of the list; a failure is that
\* of the latest call.
RunsInv ==
    /\ pc \in [Threads -> {"idle", "calling", "running", "destroyed"}]
    /\ node \in [Threads -> Nodes \cup {NULL}]
    /\ result \in [Threads -> {0, 1}]
    /\ ran \in [Threads -> Seq(Nodes)]
    /\ failed \in [Threads -> SUBSET Nodes]
    /\ \A t \in Threads :
         /\ Len(ran[t]) <= Len(added)
         /\ \A i \in 1 .. Len(ran[t]) : ran[t][i] = added[i]
         /\ result[t] = 0 => failed[t] = {}
         /\ result[t] # 0 => ran[t] # <<>> /\ failed[t] = {ran[t][Len(ran[t])]}
         /\ pc[t] = "running" =>
              /\ lock = t
              /\ node[t] = IF Len(ran[t]) = Len(added) THEN NULL ELSE added[Len(ran[t]) + 1]

\* What chain_destroy has freed.
FreedInv ==
    IF Destroyed THEN freed = Elements(added) ELSE freed = {}

ChainInv == LinksInv /\ RunsInv /\ FreedInv

-----------------------------------------------------------------------------
\* The nodes chain_destroy meets when it follows the next pointers.
LEMMA ReachableIsAdded ==
    ASSUME LinksInv
    PROVE  Reachable = Elements(added)
<1> DEFINE n == Cardinality(Nodes)
           D == SUBSET Nodes
           c == {head} \ {NULL}
           More(W) == W \cup ({next[m] : m \in W} \ {NULL})
           step == [p \in D \X (1 .. n) |-> More(p[1])]
           Body(f) == [k \in 0 .. Cardinality(Nodes) |->
                         IF k = 0 THEN {head} \ {NULL}
                         ELSE f[k - 1] \cup ({next[m] : m \in f[k - 1]} \ {NULL})]
           walk == CHOOSE f : f = Body(f)
<1>1. n \in Nat
  BY InterceptorAssumption, FS_CardinalityType, Zenon
<1>2. c \in D
  <2>1. CASE added = <<>>
    BY <2>1, Zenon DEF LinksInv
  <2>2. CASE added # <<>>
    <3>1. 1 \in 1 .. Len(added)
      BY <2>2 DEF LinksInv
    <3>2. head \in Nodes
      BY <2>2, <3>1 DEF LinksInv
    <3> QED BY <3>2, Zenon
  <2> QED BY <2>1, <2>2, Zenon
<1>3. \A W \in D : More(W) \in D
  BY DEF LinksInv
<1>4. step \in [D \X (1 .. n) -> D]
  <2> HIDE DEF D, More, n
  <2> QED BY <1>3, Zenon
<1>5. PICK g \in [0 .. n -> D] : Computes(g, n, c, step)
  <2> HIDE DEF D, step, n, c
  <2> QED BY <1>1, <1>2, <1>4, RecursionExists, Zenon
<1>6. g[0] = c /\ \A i \in 1 .. n : g[i] = More(g[i - 1])
  <2> SUFFICES ASSUME NEW i \in 1 .. n PROVE g[i] = More(g[i - 1])
    BY <1>5, Zenon DEF Computes
  <2>1. g[i - 1] \in D
    BY <1>1
  <2>2. step[<<g[i - 1], i>>] = More(g[i - 1])
    <3> HIDE DEF D, More, n
    <3> QED BY <2>1, Zenon
  <2> QED BY <1>5, <2>2, Zenon DEF Computes
<1> HIDE DEF step
<1>7. g = Body(g)
  <2>1. \A i \in 0 .. n : i = 0 \/ i \in 1 .. n
    BY <1>1
  <2>2. \A i \in 0 .. n : g[i] = Body(g)[i]
    BY <1>6, <2>1, Zenon
  <2> QED BY <2>2, Zenon
<1>8. walk = Body(walk)
  <2> HIDE DEF Body
  <2> QED BY <1>7, Zenon
<1>9. Reachable = walk[n]
  BY Zenon DEF Reachable
<1> HIDE DEF walk
<1>10. walk[0] = c /\ \A i \in 1 .. n : walk[i] = More(walk[i - 1])
  <2>1. \A i \in 0 .. n : walk[i] = Body(walk)[i]
    BY <1>8, Zenon
  <2>2. \A i \in 1 .. n : i \in 0 .. n /\ i # 0
    BY <1>1
  <2>3. 0 \in 0 .. n
    BY <1>1
  <2> QED BY <2>1, <2>2, <2>3, Zenon
<1> HIDE DEF Body
<1> DEFINE First(k) == {added[i] : i \in 1 .. (IF k < Len(added) THEN k + 1 ELSE Len(added))}
           T == {k \in 0 .. n : walk[k] = First(k)}
<1>11. 0 \in T
  <2>1. CASE added = <<>>
    BY <1>1, <1>10, <2>1 DEF LinksInv
  <2>2. CASE added # <<>>
    <3>1. Len(added) \in Nat /\ 0 < Len(added) /\ added[1] \in Nodes
      BY <2>2 DEF LinksInv
    <3>2. First(0) = {added[1]}
      BY <3>1
    <3>3. c = {added[1]}
      BY <2>2, <3>1, InterceptorAssumption, Zenon DEF LinksInv
    <3>4. walk[0] = First(0)
      <4> HIDE DEF First, c, More
      <4> QED BY <1>10, <3>2, <3>3, Zenon
    <3>5. 0 \in 0 .. n
      BY <1>1
    <3> HIDE DEF First
    <3> QED BY <3>4, <3>5, Zenon
  <2> QED BY <2>1, <2>2, Zenon
<1>12. ASSUME NEW k \in 0 .. n - 1, k \in T PROVE k + 1 \in T
  <2>1. k + 1 \in 1 .. n /\ (k + 1) - 1 = k /\ Len(added) \in Nat /\ k \in Nat
    BY <1>1 DEF LinksInv
  <2>2. walk[k + 1] = More(First(k))
    BY <1>10, <1>12, <2>1, Zenon
  <2>3. More(First(k)) = First(k + 1)
    <3>1. ASSUME NEW x \in First(k + 1) PROVE x \in More(First(k))
      <4>0. PICK i \in 1 .. (IF k + 1 < Len(added) THEN (k + 1) + 1 ELSE Len(added)) : x = added[i]
        BY Zenon
      <4>1. i \in 1 .. Len(added) /\ x = added[i] /\ i <= k + 2
        BY <2>1, <4>0
      <4>2. CASE i <= k + 1
        BY <2>1, <4>1, <4>2
      <4>3. CASE i = k + 2
        <5>1. i - 1 \in 1 .. Len(added) /\ i - 1 # Len(added) /\ (i - 1) + 1 = i
          BY <2>1, <4>1, <4>3
        <5>2. next[added[i - 1]] = added[i]
          BY <5>1, Zenon DEF LinksInv
        <5>3. added[i - 1] \in First(k)
          BY <2>1, <4>3, <5>1
        <5>4. added[i] # NULL
          BY InterceptorAssumption DEF LinksInv
        <5> QED BY <4>1, <5>2, <5>3, <5>4, Zenon
      <4> QED BY <2>1, <4>1, <4>2, <4>3
    <3>2. ASSUME NEW x \in More(First(k)) PROVE x \in First(k + 1)
      <4>1. CASE x \in First(k)
        BY <2>1, <4>1
      <4>2. CASE x \notin First(k)
        <5>1. PICK i \in 1 .. Len(added) : x = next[added[i]] /\ x # NULL /\ i <= k + 1
          BY <2>1, <3>2, <4>2
        <5>2. i # Len(added) /\ x = added[i + 1]
          BY <5>1, Zenon DEF LinksInv
        <5>3. i + 1 \in 1 .. (IF k + 1 < Len(added) THEN (k + 1) + 1 ELSE Len(added))
          BY <2>1, <5>1, <5>2
        <5> QED BY <5>2, <5>3, Zenon
      <4> QED BY <4>1, <4>2, Zenon
    <3> QED BY <3>1, <3>2, Zenon
  <2> HIDE DEF First, More
  <2>4. k + 1 \in 0 .. n
    BY <1>1
  <2> QED BY <2>2, <2>3, <2>4, Zenon
<1>13. \A k \in 0 .. n - 1 : k \in T => k + 1 \in T
  BY <1>12, Zenon
<1>14. \A k \in 0 .. n : k \in T
  <2> HIDE DEF T, n
  <2> QED BY <1>1, <1>11, <1>13, InductionUpTo, Zenon
<1>15. walk[n] = First(n)
  BY <1>1, <1>14
<1>16. Len(added) <= n /\ Len(added) \in Nat
  <2>1. Elements(added) \in SUBSET Nodes /\ Len(added) \in Nat
    BY DEF LinksInv, Elements
  <2>2. Cardinality(Elements(added)) = Len(added)
    BY DistinctElements, Zenon DEF LinksInv
  <2> QED BY <2>1, <2>2, InterceptorAssumption, FS_Subset, Zenon
<1>17. First(n) = Elements(added)
  BY <1>1, <1>16 DEF Elements
<1> QED BY <1>9, <1>15, <1>17, Zenon

-----------------------------------------------------------------------------
\* A destroyed chain is left alone, and chain_add keeps the list in order.
LEMMA LinksStep == ChainInv /\ [ChainNext]_chainVars => LinksInv'
<1> SUFFICES ASSUME ChainInv, [ChainNext]_chainVars PROVE LinksInv'
  BY Zenon
<1>1. ASSUME UNCHANGED links PROVE LinksInv'
  BY <1>1, Zenon DEF ChainInv, LinksInv, links
<1>2. ASSUME NEW n \in Nodes, Add(n) PROVE LinksInv'
  <2> USE InterceptorAssumption
  <2>1. /\ added' = Append(added, n) /\ count' = count + 1
        /\ n \notin Elements(added) /\ Link(n)
    BY <1>2, Zenon DEF Add, CountUp, Elements
  <2>2. /\ added \in Seq(Nodes) /\ Len(added) \in Nat
        /\ \A i \in 1 .. Len(added) : added[i] \in Nodes
    BY DEF ChainInv, LinksInv
  <2>3. /\ added' \in Seq(Nodes) /\ Len(added') = Len(added) + 1 /\ added' # <<>>
        /\ \A i \in 1 .. Len(added) : added'[i] = added[i]
        /\ added'[Len(added) + 1] = n
    BY <2>1, <2>2
  <2>4. \A i \in 1 .. Len(added) : added[i] # n
    BY <2>1, Zenon DEF Elements
  <2>5. \A i, j \in 1 .. Len(added') : added'[i] = added'[j] => i = j
    BY <2>2, <2>3, <2>4 DEF ChainInv, LinksInv
  <2>6. Elements(added') = Elements(added) \cup {n}
    BY <2>1, <2>2, ElementsAppend
  <2>7. CASE added = <<>>
    <3>1. head = NULL /\ head' = n /\ tail' = n /\ next' = next /\ Len(added) = 0
      BY <2>1, <2>7, Zenon DEF ChainInv, LinksInv, Link
    <3>2. \A m \in Nodes : next[m] = NULL
      BY <2>7 DEF ChainInv, LinksInv, Elements
    <3> QED BY <2>1, <2>2, <2>3, <2>5, <2>6, <3>1, <3>2 DEF ChainInv, LinksInv
  <2>8. CASE added # <<>>
    <3>1. Len(added) >= 1 /\ tail = added[Len(added)] /\ tail \in Nodes /\ head = added[1]
      BY <2>2, <2>8 DEF ChainInv, LinksInv
    <3>2. head # NULL
      BY <2>2, <3>1
    <3>3. head' = head /\ tail' = n /\ next' = [next EXCEPT ![tail] = n]
      BY <2>1, <3>2, Zenon DEF Link
    <3>4. next' \in [Nodes -> Nodes \cup {NULL}]
      BY <3>3, Zenon DEF ChainInv, LinksInv
    <3>5. head' = added'[1] /\ tail' = added'[Len(added')]
      BY <2>2, <2>3, <3>1, <3>3
    <3>6. ASSUME NEW i \in 1 .. Len(added')
          PROVE  next'[added'[i]] = IF i = Len(added') THEN NULL ELSE added'[i + 1]
      <4>1. CASE i = Len(added) + 1
        <5>1. next[n] = NULL /\ n # tail
          BY <2>1, <2>4, <2>2, <3>1 DEF ChainInv, LinksInv
        <5>2. next'[n] = NULL
          BY <3>3, <5>1, Zenon DEF ChainInv, LinksInv
        <5> QED BY <2>2, <2>3, <4>1, <5>2, Zenon
      <4>2. CASE i = Len(added)
        <5>1. added'[i] = tail /\ next'[tail] = n
          BY <2>3, <3>1, <3>3, <4>2 DEF ChainInv, LinksInv
        <5> QED BY <2>2, <2>3, <4>2, <5>1
      <4>3. CASE i \in 1 .. Len(added) - 1
        <5>1. i \in 1 .. Len(added) /\ i + 1 \in 1 .. Len(added) /\ i # Len(added)
          BY <2>2, <4>3
        <5>2. added[i] # tail
          BY <2>2, <3>1, <5>1 DEF ChainInv, LinksInv
        <5>3. next'[added[i]] = next[added[i]]
          BY <2>2, <3>3, <5>1, <5>2, Zenon DEF ChainInv, LinksInv
        <5>4. next[added[i]] = added[i + 1]
          BY <5>1, Zenon DEF ChainInv, LinksInv
        <5> QED BY <2>2, <2>3, <5>1, <5>3, <5>4
      <4> QED BY <2>2, <2>3, <4>1, <4>2, <4>3
    <3>7. \A m \in Nodes : m \notin Elements(added') => next'[m] = NULL
      <4>1. tail \in Elements(added)
        BY <2>2, <3>1 DEF Elements
      <4> QED BY <2>6, <3>3, <4>1, Zenon DEF ChainInv, LinksInv
    <3>8. count' = Len(added')
      BY <2>1, <2>3, Zenon DEF ChainInv, LinksInv
    <3> QED BY <2>3, <2>5, <3>4, <3>5, <3>6, <3>7, <3>8, Zenon DEF LinksInv
  <2> QED BY <2>7, <2>8, Zenon
<1>3. ASSUME NEW t \in Threads, Execute(t) \/ ExecuteLocks(t) \/ ExecuteRuns(t)
      PROVE  LinksInv'
  BY <1>1, <1>3, Zenon DEF Execute, ExecuteLocks, ExecuteRuns, Intercept, ExecuteReturns
<1>4. CASE Destroy
  BY <1>1, <1>4, Zenon DEF Destroy
<1>5. CASE UNCHANGED chainVars
  BY <1>1, <1>5, Zenon DEF chainVars
<1> QED BY <1>2, <1>3, <1>4, <1>5, Zenon DEF ChainNext

\* The executions; lock is only taken while it is free.
LEMMA RunsStep == ChainInv /\ [ChainNext]_chainVars => RunsInv'
<1> SUFFICES ASSUME ChainInv, [ChainNext]_chainVars PROVE RunsInv'
  OBVIOUS
<1> USE CommonAssumption, InterceptorAssumption
<1>a. /\ added \in Seq(Nodes) /\ Len(added) \in Nat /\ RunsInv
      /\ \A i \in 1 .. Len(added) : added[i] \in Nodes
  BY DEF ChainInv, LinksInv
<1>b. \A t \in Threads : ran[t] \in Seq(Nodes) /\ Len(ran[t]) \in Nat
  BY <1>a DEF RunsInv
<1>1. ASSUME UNCHANGED <<added, lock, runs>> PROVE RunsInv'
  BY <1>1 DEF ChainInv, RunsInv, runs
<1>2. ASSUME NEW n \in Nodes, Add(n) PROVE RunsInv'
  <2>1. /\ lock = NULL /\ UNCHANGED <<lock, pc, node, result, ran, failed>>
        /\ added' = Append(added, n)
    BY <1>2, Zenon DEF Add, runs
  <2>2. \A t \in Threads : pc[t] # "running"
    BY <1>a, <2>1, Zenon DEF RunsInv
  <2>3. Len(added') = Len(added) + 1 /\ \A i \in 1 .. Len(added) : added'[i] = added[i]
    BY <1>a, <2>1
  <2>4. ASSUME NEW t \in Threads
        PROVE  Len(ran[t]) <= Len(added') /\ \A i \in 1 .. Len(ran[t]) : ran[t][i] = added'[i]
    BY <1>a, <1>b, <2>3 DEF RunsInv
  <2> QED BY <1>a, <2>1, <2>2, <2>4, Zenon DEF RunsInv
<1>3. ASSUME NEW t \in Threads, Execute(t) PROVE RunsInv'
  BY <1>a, <1>3 DEF Execute, RunsInv, links
<1>4. ASSUME NEW t \in Threads, ExecuteLocks(t) PROVE RunsInv'
  <2>1. \A u \in Threads : pc[u] # "running"
    BY <1>a, <1>4, Zenon DEF RunsInv, ExecuteLocks
  <2>2. /\ head = IF Len(added) = 0 THEN NULL ELSE added[0 + 1]
        /\ head \in Nodes \cup {NULL}
    BY <1>a DEF ChainInv, LinksInv
  <2> QED BY <1>a, <1>4, <2>1, <2>2 DEF RunsInv, ExecuteLocks, links
<1>5. ASSUME NEW t \in Threads, Intercept(t) PROVE RunsInv'
  <2> DEFINE k == Len(ran[t])
  <2>1. /\ pc[t] = "running" /\ node[t] # NULL /\ result[t] = 0
        /\ ran' = [ran EXCEPT ![t] = Append(@, node[t])]
        /\ node' = [node EXCEPT ![t] = next[node[t]]]
        /\ UNCHANGED <<added, lock, pc>>
    BY <1>5, Zenon DEF Intercept, Continues, links
  <2>2. PICK r \in {0, 1} :
          /\ result' = [result EXCEPT ![t] = r]
          /\ failed' = [failed EXCEPT ![t] = IF r = 0 THEN @ ELSE @ \cup {node[t]}]
    BY <1>5, Zenon DEF Intercept
  <2>3. /\ k \in Nat /\ k < Len(added) /\ k + 1 \in 1 .. Len(added)
        /\ node[t] = added[k + 1] /\ node[t] \in Nodes
    BY <1>a, <1>b, <2>1 DEF RunsInv
  <2>4. next[node[t]] = IF k + 1 = Len(added) THEN NULL ELSE added[(k + 1) + 1]
    BY <2>3, Zenon DEF ChainInv, LinksInv
  <2>5. next[node[t]] \in Nodes \cup {NULL}
    BY <2>3, Zenon DEF ChainInv, LinksInv
  <2> DEFINE rt == Append(ran[t], node[t])
  <2>6. /\ rt \in Seq(Nodes) /\ Len(rt) = k + 1 /\ rt # <<>>
        /\ \A i \in 1 .. k : rt[i] = ran[t][i]
        /\ rt[k + 1] = node[t]
    BY <1>b, <2>3
  <2>7. Len(rt) <= Len(added) /\ \A i \in 1 .. Len(rt) : rt[i] = added[i]
    BY <1>a, <2>3, <2>6 DEF RunsInv
  <2>8. /\ ran'[t] = rt /\ ran' \in [Threads -> Seq(Nodes)]
        /\ node'[t] = next[node[t]] /\ node' \in [Threads -> Nodes \cup {NULL}]
        /\ result'[t] = r /\ result' \in [Threads -> {0, 1}]
        /\ \A u \in Threads \ {t} : /\ ran'[u] = ran[u] /\ node'[u] = node[u]
                                     /\ result'[u] = result[u] /\ failed'[u] = failed[u]
    BY <1>a, <2>1, <2>2, <2>5, <2>6 DEF RunsInv
  <2>9. /\ failed'[t] = IF r = 0 THEN {} ELSE {node[t]}
        /\ failed' \in [Threads -> SUBSET Nodes]
    <3>1. failed \in [Threads -> SUBSET Nodes] /\ failed[t] = {}
      BY <1>a, <2>1, Zenon DEF RunsInv
    <3>2. (IF r = 0 THEN failed[t] ELSE failed[t] \cup {node[t]}) = IF r = 0 THEN {} ELSE {node[t]}
      BY <3>1, Zenon
    <3>3. (IF r = 0 THEN {} ELSE {node[t]}) \in SUBSET Nodes
      BY <2>3, Zenon
    <3>4. failed' = [failed EXCEPT ![t] = IF r = 0 THEN {} ELSE {node[t]}]
      BY <2>2, <3>2, Zenon
    <3> QED BY <3>1, <3>3, <3>4, Zenon
  <2> HIDE DEF rt
  <2>10. node'[t] = IF Len(ran'[t]) = Len(added) THEN NULL ELSE added[Len(ran'[t]) + 1]
    BY <2>4, <2>6, <2>8, Zenon
  <2>11. ASSUME NEW u \in Threads
         PROVE  /\ Len(ran'[u]) <= Len(added)
                /\ \A i \in 1 .. Len(ran'[u]) : ran'[u][i] = added[i]
                /\ result'[u] = 0 => failed'[u] = {}
                /\ result'[u] # 0 => ran'[u] # <<>> /\ failed'[u] = {ran'[u][Len(ran'[u])]}
                /\ pc[u] = "running" =>
                     /\ lock = u
                     /\ node'[u] = IF Len(ran'[u]) = Len(added) THEN NULL ELSE added[Len(ran'[u]) + 1]
    <3>1. CASE u = t
      <4>1. lock = t
        BY <1>a, <2>1, Zenon DEF RunsInv
      <4>2. failed'[t] = IF result'[t] = 0 THEN {} ELSE {ran'[t][Len(ran'[t])]}
        BY <2>3, <2>6, <2>8, <2>9, Zenon
      <4>3. ran'[t] # <<>>
        BY <2>6, <2>8, Zenon
      <4> QED BY <2>7, <2>8, <2>10, <3>1, <4>1, <4>2, <4>3, Zenon
    <3>2. CASE u # t
      BY <1>a, <2>8, <3>2 DEF RunsInv
    <3> QED BY <3>1, <3>2, Zenon
  <2>12. pc' = pc /\ lock' = lock /\ added' = added
    BY <2>1, Zenon
  <2>13. pc \in [Threads -> {"idle", "calling", "running", "destroyed"}]
    BY <1>a, Zenon DEF RunsInv
  <2>14. ASSUME NEW u \in Threads
         PROVE  /\ Len(ran'[u]) <= Len(added')
                /\ \A i \in 1 .. Len(ran'[u]) : ran'[u][i] = added'[i]
                /\ pc'[u] = "running" =>
                     /\ lock' = u
                     /\ node'[u] = IF Len(ran'[u]) = Len(added') THEN NULL ELSE added'[Len(ran'[u]) + 1]
    BY <2>11, <2>12, Zenon
  <2> QED BY <2>8, <2>9, <2>11, <2>12, <2>13, <2>14, Zenon DEF RunsInv
<1>6. ASSUME NEW t \in Threads, ExecuteReturns(t) PROVE RunsInv'
  <2>1. \A u \in Threads \ {t} : pc[u] # "running"
    BY <1>a, <1>6, Zenon DEF RunsInv, ExecuteReturns
  <2> QED BY <1>a, <1>6, <2>1 DEF RunsInv, ExecuteReturns, links
<1>7. CASE Destroy
  BY <1>a, <1>7 DEF Destroy, RunsInv, links
<1>8. CASE UNCHANGED chainVars
  BY <1>1, <1>8, Zenon DEF chainVars, links
<1> QED BY <1>2, <1>3, <1>4, <1>5, <1>6, <1>7, <1>8, Zenon DEF ChainNext, ExecuteRuns

\* ChainInv is inductive.
LEMMA ChainStep == ChainInv /\ [ChainNext]_chainVars => ChainInv'
<1> SUFFICES ASSUME ChainInv, [ChainNext]_chainVars PROVE FreedInv'
  BY LinksStep, RunsStep, Zenon DEF ChainInv
<1> USE CommonAssumption, InterceptorAssumption DEF FreedInv, ChainInv
<1>1. ASSUME UNCHANGED <<added, pc, freed>> PROVE FreedInv'
  BY <1>1, Zenon DEF Destroyed
<1>2. ASSUME NEW n \in Nodes, Add(n) PROVE FreedInv'
  BY <1>2, Zenon DEF Add, Destroyed, runs
<1>3. ASSUME NEW t \in Threads, Execute(t) \/ ExecuteLocks(t) \/ ExecuteReturns(t)
      PROVE  FreedInv'
  <2>1. pc[t] # "destroyed" /\ pc'[t] # "destroyed" /\ UNCHANGED <<added, freed>>
    BY <1>3, Zenon DEF Execute, ExecuteLocks, ExecuteReturns, links, RunsInv
  <2>2. ~Destroyed /\ ~(Destroyed')
    BY <2>1, Zenon DEF Destroyed
  <2> QED BY <2>1, <2>2, Zenon
<1>4. ASSUME NEW t \in Threads, Intercept(t) PROVE FreedInv'
  BY <1>1, <1>4, Zenon DEF Intercept, links
<1>5. CASE Destroy
  <2>1. added' = added /\ freed' = Elements(added) /\ Destroyed'
    BY <1>5, ReachableIsAdded, Zenon DEF Destroy, links, Destroyed
  <2> QED BY <2>1, Zenon
<1>6. CASE UNCHANGED chainVars
  BY <1>1, <1>6, Zenon DEF chainVars, links, runs
<1> QED BY <1>2, <1>3, <1>4, <1>5, <1>6, Zenon DEF ChainNext, ExecuteRuns

\* A new chain.
LEMMA ChainStart == ChainInit => ChainInv
<1> SUFFICES ASSUME ChainInit PROVE ChainInv
  BY Zenon
<1>1. added = <<>> /\ Elements(added) = {}
  BY DEF ChainInit, Elements
<1>2. LinksInv
  BY <1>1, CommonAssumption, InterceptorAssumption DEF LinksInv, ChainInit
<1>3. RunsInv
  BY <1>1, CommonAssumption, InterceptorAssumption DEF RunsInv, ChainInit
<1>4. FreedInv
  BY <1>1, Zenon DEF FreedInv, ChainInit
<1> QED BY <1>2, <1>3, <1>4, Zenon DEF ChainInv

\* An execution calls the interceptors in the order of chain_add and stops at
\* the first failure, and chain_destroy frees them all: for any number of
\* interceptors and threads.
THEOREM ChainCorrect == ChainSpec => []ChainIntact
<1>1. ChainInv => ChainIntact
  <2> SUFFICES ASSUME ChainInv PROVE ChainIntact
    BY Zenon
  <2>1. added \in Seq(Nodes) /\ RunsInv
    BY Zenon DEF ChainInv, LinksInv
  <2>2. ASSUME NEW t \in Threads
        PROVE  /\ ran[t] = SubSeq(added, 1, Len(ran[t]))
               /\ failed[t] # {} => result[t] # 0 /\ failed[t] = {ran[t][Len(ran[t])]}
    <3>1. ran[t] \in Seq(Nodes) /\ Len(ran[t]) <= Len(added) /\ Len(ran[t]) \in Nat
      BY <2>1 DEF RunsInv
    <3>2. \A i \in 1 .. Len(ran[t]) : ran[t][i] = added[i]
      BY <2>1, Zenon DEF RunsInv
    <3>3. ran[t] = SubSeq(added, 1, Len(ran[t]))
      BY <2>1, <3>1, <3>2
    <3> QED BY <2>1, <3>3, Zenon DEF RunsInv
  <2>3. ASSUME Destroyed PROVE freed = Elements(added) /\ count = Cardinality(freed)
    <3>1. freed = Elements(added) /\ count = Len(added)
      BY <2>3, Zenon DEF ChainInv, FreedInv, LinksInv
    <3>2. Cardinality(Elements(added)) = Len(added)
      BY DistinctElements, Zenon DEF ChainInv, LinksInv
    <3> QED BY <3>1, <3>2, Zenon
  <2> QED BY <2>2, <2>3, Zenon DEF ChainIntact, Elements
<1> QED BY <1>1, ChainStart, ChainStep, PTL DEF ChainSpec

\* chain_execute returns 0 only when it has called every interceptor that is
\* in the chain at that moment.
THEOREM SuccessCorrect == ChainSpec => SuccessIsComplete
<1> DEFINE Complete == \A t \in Threads :
                         pc[t] = "running" /\ pc'[t] = "idle" /\ result[t] = 0
                         => Len(ran[t]) = Len(added)
<1>1. ChainInv /\ [ChainNext]_chainVars => [Complete]_chainVars
  <2> SUFFICES ASSUME ChainInv, ChainNext, NEW t \in Threads,
                      pc[t] = "running", pc'[t] = "idle", result[t] = 0
               PROVE  Len(ran[t]) = Len(added)
    BY Zenon DEF ChainInv
  <2>1. RunsInv /\ added \in Seq(Nodes) /\ \A i \in 1 .. Len(added) : added[i] # NULL
    BY InterceptorAssumption DEF ChainInv, LinksInv
  <2>2. ExecuteReturns(t)
    BY <2>1 DEF ChainNext, Add, Execute, ExecuteLocks, ExecuteRuns, Intercept,
                ExecuteReturns, Destroy, runs, RunsInv
  <2>3. node[t] = NULL
    BY <2>2, Zenon DEF ExecuteReturns, Continues
  <2>4. Len(ran[t]) \in Nat /\ Len(ran[t]) <= Len(added) /\ Len(added) \in Nat
    BY <2>1 DEF RunsInv
  <2> QED BY <2>1, <2>3, <2>4 DEF RunsInv
<1> QED BY <1>1, ChainStart, ChainStep, PTL DEF ChainSpec, SuccessIsComplete

-----------------------------------------------------------------------------
Doing ==
    [at : {"idle"}] \union
    [at : {"setting"}, handler : Handlers \union {NULL}] \union
    [at : {"logging", "locked"}, level : {l \in Levels : l >= MinLevel}]

\* A thread between the two assignments, or inside the handler, has the mutex,
\* and without such a thread function and data belong together.
LoggerInv ==
    /\ logging \in [Threads -> Doing]
    /\ \A t \in Threads : logging[t].at \in {"setting", "locked"} => loggerLock = t
    /\ \A t \in Threads : logging[t].at = "setting" => logging[t].handler = logFunc
    /\ logData = logFunc \/ \E t \in Threads : logging[t].at = "setting"
    /\ LogFaithful

\* Every step of the logger keeps its invariant.
LEMMA LoggerStep == LoggerInv /\ [LoggerNext]_loggerVars => LoggerInv'
<1> SUFFICES ASSUME LoggerInv, [LoggerNext]_loggerVars PROVE LoggerInv'
  BY Zenon
<1> USE CommonAssumption, LoggerAssumption DEF LoggerInv, Doing, Away, LogFaithful
<1>1. CASE UNCHANGED loggerVars
  BY <1>1, Zenon DEF loggerVars
<1>2. ASSUME NEW t \in Threads, NEW h \in Handlers \union {NULL}, SetFunc(t, h)
      PROVE  LoggerInv'
  BY <1>2, Zenon DEF SetFunc
<1>3. ASSUME NEW t \in Threads, SetData(t)
      PROVE  LoggerInv'
  BY <1>3, Zenon DEF SetData
<1>4. ASSUME NEW t \in Threads, NEW level \in Levels, Log(t, level)
      PROVE  LoggerInv'
  BY <1>4 DEF Log
<1>5. ASSUME NEW t \in Threads, LogLocks(t)
      PROVE  LoggerInv'
  BY <1>5 DEF LogLocks
<1>6. ASSUME NEW t \in Threads, LogReturns(t)
      PROVE  LoggerInv'
  BY <1>6, Zenon DEF LogReturns
<1>7. CASE DestroyLogger
  BY <1>7, Zenon DEF DestroyLogger
<1> QED BY <1>1, <1>2, <1>3, <1>4, <1>5, <1>6, <1>7, Zenon DEF LoggerNext

\* A handler is called with the user_data set with it and only from the
\* logger's level on, however many threads replace handlers and log.
THEOREM LoggerCorrect == LoggerSpec => []LogFaithful
<1>1. LoggerInit => LoggerInv
  BY DEF LoggerInit, LoggerInv, Doing, Away, LogFaithful
<1>2. LoggerInv => LogFaithful
  BY Zenon DEF LoggerInv
<1> QED BY <1>1, <1>2, LoggerStep, PTL DEF LoggerSpec

-----------------------------------------------------------------------------
SpanStates ==
    [tags : Nat, capacity : Nat, finished : Nat,
     memory : {"none", "held", "freed"}]

Steps ==
    [at : {"idle"}] \union
    [at : {"tagging"}, span : Spans] \union
    [at : {"finishing", "exporting"}, span : Spans, due : Nat] \union
    [at : {"reading"}, span : Spans, due : Nat, array : Nat] \union
    [at : {"setting"}, exporter : Exporters \union {NULL}]

TracingTypeOK ==
    /\ span \in [Spans -> SpanStates]
    /\ tracing \in [Threads -> Steps]
    /\ owner \in [Spans -> Threads \union {NULL}]
    /\ active \in Seq(Spans)
    /\ metadata \in [Spans -> Nat]

\* Between the two assignments of set_exporter, and inside an exporter, the
\* mutex is held; without a thread there, function and data belong together.
ExporterInv ==
    /\ \A t \in Threads : tracing[t].at \in {"setting", "exporting", "reading"} => traceLock = t
    /\ \A t \in Threads : tracing[t].at = "setting" => tracing[t].exporter = exportFunc
    /\ exportData = exportFunc \/ \E t \in Threads : tracing[t].at = "setting"

\* A span has room for its tags, and for the one its owner is about to store;
\* nobody else stores one.
TagsInv ==
    /\ \A s \in Spans : span[s].tags =< span[s].capacity
    /\ \A t \in Threads : tracing[t].at = "tagging" =>
         LET s == tracing[t].span
         IN  owner[s] = t /\ span[s].tags < span[s].capacity

\* A span that a thread works on is there, has at least the tags it had when
\* the thread began, and is marked when it is exported.
WorkInv ==
    \A t \in Threads : tracing[t].at \in {"tagging", "finishing", "exporting", "reading"} =>
      LET s == tracing[t].span
      IN  /\ Live(s)
          /\ tracing[t].at # "tagging" => tracing[t].due =< span[s].tags
          /\ tracing[t].at \in {"exporting", "reading"} => span[s].finished > 0

\* The spans that are there are in the list of the context.
ActiveInv == \A s \in Spans : Live(s) => \E i \in 1 .. Len(active) : active[i] = s

\* What holds of every export, and of what grpc_trace_context_destroy leaves.
ExportInv ==
    /\ export # NULL =>
         /\ export.data = export.func
         /\ export.span.finished > 0 /\ export.span.memory = "held"
         /\ export.span.tags \in export.due .. export.span.capacity
    /\ traceLock = "destroyed" => \A s \in Spans : ~Live(s)

TraceInv == TracingTypeOK /\ ExporterInv /\ TagsInv /\ WorkInv /\ ActiveInv /\ ExportInv

\* Only while its owner adds a tag does a span point to another array than the
\* one allocated; an owner that finishes its span has added no tag since.
OwnerInv ==
    /\ \A s \in Spans :
         metadata[s] # span[s].capacity =>
             \E t \in Threads : tracing[t].at = "tagging" /\ tracing[t].span = s
    /\ \A t \in Threads :
         tracing[t].at \in {"finishing", "exporting", "reading"} /\ owner[tracing[t].span] = t =>
             /\ span[tracing[t].span].tags = tracing[t].due
             /\ tracing[t].at = "reading" => tracing[t].array = span[tracing[t].span].capacity
    /\ export # NULL /\ export.own =>
         export.array = export.span.capacity /\ export.span.tags = export.due

\* A new trace context.
LEMMA TracingInit == TraceInit => TraceInv
BY DEF TraceInit, TraceInv, TracingTypeOK, ExporterInv, TagsInv, WorkInv, ActiveInv,
       ExportInv, SpanStates, Steps, Untraced, NewSpan, Live

\* What the assignments to fields of a span leave.
LEMMA SpanFields ==
  ASSUME NEW r \in SpanStates
  PROVE  /\ \A n \in Nat :
              [r EXCEPT !.tags = n] =
                [tags |-> n, capacity |-> r.capacity, finished |-> r.finished, memory |-> r.memory]
         /\ \A n \in Nat :
              [r EXCEPT !.capacity = n] =
                [tags |-> r.tags, capacity |-> n, finished |-> r.finished, memory |-> r.memory]
         /\ \A n \in Nat :
              [r EXCEPT !.finished = n] =
                [tags |-> r.tags, capacity |-> r.capacity, finished |-> n, memory |-> r.memory]
         /\ \A w \in {"none", "held", "freed"} :
              [r EXCEPT !.memory = w] =
                [tags |-> r.tags, capacity |-> r.capacity, finished |-> r.finished, memory |-> w]
BY DEF SpanStates

\* grpc_span_start keeps the invariant,
LEMMA StartStep ==
  ASSUME TraceInv, NEW t \in Threads, NEW s \in Spans, StartSpan(t, s)
  PROVE  TraceInv'
<1> DEFINE new == [tags |-> span[s].tags, capacity |-> span[s].capacity,
                   finished |-> span[s].finished, memory |-> "held"]
<1>1. span[s] \in SpanStates /\ new \in SpanStates
  BY Zenon DEF TraceInv, TracingTypeOK, SpanStates
<1>2. span' = [span EXCEPT ![s] = new]
  BY <1>1, SpanFields, Zenon DEF StartSpan
<1>3. new.tags = span[s].tags /\ new.capacity = span[s].capacity
      /\ new.finished = span[s].finished /\ new.memory = "held"
  BY Zenon
<1> HIDE DEF new
<1>4. TracingTypeOK'
  <2>1. active' = <<s>> \o active /\ active \in Seq(Spans)
    BY Zenon DEF StartSpan, TraceInv, TracingTypeOK
  <2>2. active' \in Seq(Spans)
    BY ONLY <2>1, s \in Spans
  <2> QED BY <1>1, <1>2, <2>2, Zenon DEF StartSpan, TraceInv, TracingTypeOK
<1>5. ExporterInv' /\ ExportInv'
  BY <1>1, <1>2, CommonAssumption, Zenon DEF StartSpan, TraceInv, ExporterInv, ExportInv, Live
<1>6. TagsInv' /\ WorkInv'
  BY <1>1, <1>2, <1>3
     DEF StartSpan, TraceInv, TracingTypeOK, TagsInv, WorkInv, Live, Untraced, Steps
<1>7. ActiveInv'
  <2> SUFFICES ASSUME NEW r \in Spans, Live(r)'
               PROVE  \E i \in 1 .. Len(active') : active'[i] = r
    BY Zenon DEF ActiveInv
  <2>1. active \in Seq(Spans) /\ active' = <<s>> \o active
    BY Zenon DEF StartSpan, TraceInv, TracingTypeOK
  <2>2. CASE r = s
    BY <2>1, <2>2
  <2>3. CASE r # s
    <3>1. PICK i \in 1 .. Len(active) : active[i] = r
      BY <1>2, <2>3, Zenon DEF TraceInv, TracingTypeOK, ActiveInv, Live
    <3>2. i + 1 \in 1 .. Len(active') /\ active'[i + 1] = r
      BY <2>1, <3>1
    <3> QED BY <3>2, Zenon
  <2> QED BY <2>2, <2>3, Zenon
<1> QED BY <1>4, <1>5, <1>6, <1>7, Zenon DEF TraceInv

\* and so does making room for a tag,
LEMMA AddTagStep ==
  ASSUME TraceInv, NEW t \in Threads, NEW s \in Spans, AddTag(t, s)
  PROVE  TraceInv'
<1> DEFINE room == IF span[s].tags >= span[s].capacity THEN GrownTags(span[s].capacity)
                                                       ELSE span[s].capacity
           new  == [tags |-> span[s].tags, capacity |-> room,
                    finished |-> span[s].finished, memory |-> span[s].memory]
<1>0. span[s] \in SpanStates /\ span[s].tags \in Nat /\ span[s].capacity \in Nat
      /\ span[s].tags =< span[s].capacity
  BY Zenon DEF TraceInv, TracingTypeOK, TagsInv, SpanStates
<1>1. room \in Nat /\ room > span[s].tags
  BY <1>0, TracingAssumption DEF GrownTags
<1>2. new \in SpanStates
  BY <1>0, <1>1, Zenon DEF SpanStates
<1>3. span' = [span EXCEPT ![s] = new]
  BY <1>0, <1>1, SpanFields DEF AddTag
<1>4. new.tags = span[s].tags /\ new.capacity = room
      /\ new.finished = span[s].finished /\ new.memory = span[s].memory
  BY Zenon
<1> HIDE DEF new, room
<1>5. TracingTypeOK'
  BY <1>2, <1>3, Zenon DEF AddTag, TraceInv, TracingTypeOK, Steps
<1>6. ExporterInv' /\ ActiveInv'
  BY <1>2, <1>3, <1>4 DEF AddTag, TraceInv, TracingTypeOK, ExporterInv, ActiveInv, Live, Untraced
<1>7. ExportInv'
  BY <1>3, <1>4, Zenon DEF AddTag, TraceInv, TracingTypeOK, ExportInv, Live
<1>8. TagsInv'
  BY <1>0, <1>1, <1>3, <1>4 DEF AddTag, TraceInv, TracingTypeOK, TagsInv, Steps, SpanStates
<1>9. WorkInv'
  BY <1>3, <1>4 DEF AddTag, TraceInv, TracingTypeOK, WorkInv, Live, Steps
<1> QED BY <1>5, <1>6, <1>7, <1>8, <1>9, Zenon DEF TraceInv

\* storing the tag there,
LEMMA StoreTagStep ==
  ASSUME TraceInv, NEW t \in Threads, StoreTag(t)
  PROVE  TraceInv'
<1> DEFINE s   == tracing[t].span
           new == [tags |-> span[s].tags + 1, capacity |-> span[s].capacity,
                   finished |-> span[s].finished, memory |-> span[s].memory]
<1>0. /\ s \in Spans /\ owner[s] = t /\ span[s].tags < span[s].capacity /\ Live(s)
      /\ span[s] \in SpanStates /\ span[s].tags \in Nat /\ span[s].capacity \in Nat
  <2>1. tracing[t] \in Steps /\ tracing[t].at = "tagging"
    BY Zenon DEF StoreTag, TraceInv, TracingTypeOK
  <2>2. s \in Spans
    BY <2>1, Zenon DEF Steps
  <2>3. owner[s] = t /\ span[s].tags < span[s].capacity /\ Live(s)
    BY <2>1, Zenon DEF TraceInv, TagsInv, WorkInv
  <2>4. span[s] \in SpanStates
    BY <2>2, Zenon DEF TraceInv, TracingTypeOK
  <2> QED BY <2>2, <2>3, <2>4, Zenon DEF SpanStates
<1>1. new \in SpanStates
  BY <1>0 DEF SpanStates
<1>2. span' = [span EXCEPT ![s] = new] /\ tracing' = [tracing EXCEPT ![t] = Untraced]
  <2>1. [span[s] EXCEPT !.tags = span[s].tags + 1] = new
    <3>1. span[s].tags + 1 \in Nat
      BY <1>0
    <3> HIDE DEF s
    <3> QED BY <1>0, <3>1, SpanFields, Zenon
  <2> QED BY <2>1, Zenon DEF StoreTag
<1>3. new.tags = span[s].tags + 1 /\ new.capacity = span[s].capacity
      /\ new.finished = span[s].finished /\ new.memory = span[s].memory
  BY Zenon
<1>4. \A u \in Threads \ {t} : tracing[u].at = "tagging" => tracing[u].span # s
  BY <1>0, Zenon DEF TraceInv, TagsInv
<1> HIDE DEF new, s
<1>5. TracingTypeOK'
  <2>1. metadata' = [metadata EXCEPT ![s] = span[s].capacity] /\ Untraced \in Steps
    BY Zenon DEF StoreTag, Steps, Untraced, s
  <2>2. metadata' \in [Spans -> Nat] /\ tracing' \in [Threads -> Steps]
    BY <1>0, <1>2, <2>1, Zenon DEF TraceInv, TracingTypeOK
  <2>3. span' \in [Spans -> SpanStates]
    BY <1>0, <1>1, <1>2, Zenon DEF TraceInv, TracingTypeOK
  <2> QED BY <2>2, <2>3, Zenon DEF StoreTag, TraceInv, TracingTypeOK
<1>6. ExporterInv' /\ ActiveInv'
  BY <1>0, <1>2, <1>3 DEF StoreTag, TraceInv, TracingTypeOK, ExporterInv, ActiveInv, Live, Untraced
<1>7. ExportInv'
  BY <1>0, <1>2, <1>3, Zenon DEF StoreTag, TraceInv, TracingTypeOK, ExportInv, Live
<1>8. TagsInv'
  <2>1. span \in [Spans -> SpanStates] /\ tracing \in [Threads -> Steps] /\ owner' = owner
    BY Zenon DEF StoreTag, TraceInv, TracingTypeOK
  <2>2. span'[s] = new /\ \A r \in Spans : r # s => span'[r] = span[r]
    BY <1>0, <1>2, <2>1, Zenon
  <2>3. tracing'[t].at # "tagging" /\ \A u \in Threads : u # t => tracing'[u] = tracing[u]
    BY <1>2, <2>1, Zenon DEF Untraced
  <2>4. new.tags =< new.capacity
    BY ONLY <1>0, <1>3
  <2>5. \A r \in Spans : span'[r].tags =< span'[r].capacity
    BY <2>2, <2>4, Zenon DEF TraceInv, TagsInv
  <2>6. ASSUME NEW u \in Threads, tracing'[u].at = "tagging"
        PROVE  /\ owner'[tracing'[u].span] = u
               /\ span'[tracing'[u].span].tags < span'[tracing'[u].span].capacity
    <3>1. u # t /\ tracing'[u] = tracing[u]
      BY <2>3, <2>6, Zenon
    <3>2. tracing[u].span # s /\ tracing[u].span \in Spans
      <4>1. tracing[u].span # s
        BY <1>4, <2>6, <3>1, Zenon
      <4>2. tracing[u] \in Steps /\ tracing[u].at = "tagging"
        BY <2>1, <2>6, <3>1, Zenon
      <4> QED BY <4>1, <4>2, Zenon DEF Steps
    <3>3. owner[tracing[u].span] = u
          /\ span[tracing[u].span].tags < span[tracing[u].span].capacity
      BY <2>6, <3>1, Zenon DEF TraceInv, TagsInv
    <3>4. span'[tracing[u].span] = span[tracing[u].span] /\ owner' = owner
      BY <2>1, <2>2, <3>2, Zenon
    <3> QED BY ONLY <3>1, <3>3, <3>4, Zenon
  <2> QED BY <2>5, <2>6, Zenon DEF TagsInv
<1>9. WorkInv'
  <2> SUFFICES ASSUME NEW u \in Threads,
                      tracing'[u].at \in {"tagging", "finishing", "exporting", "reading"}
               PROVE  /\ span'[tracing'[u].span].memory = "held"
                      /\ tracing'[u].at # "tagging" =>
                           tracing'[u].due =< span'[tracing'[u].span].tags
                      /\ tracing'[u].at \in {"exporting", "reading"} => span'[tracing'[u].span].finished > 0
    BY Zenon DEF WorkInv, Live
  <2>1. u # t /\ tracing'[u] = tracing[u] /\ tracing[u] \in Steps
    BY <1>2, Zenon DEF TraceInv, TracingTypeOK, Untraced
  <2>2. tracing[u].span \in Spans /\ (tracing[u].at # "tagging" => tracing[u].due \in Nat)
    BY <2>1, Zenon DEF Steps
  <2>3. /\ Live(tracing[u].span)
        /\ tracing[u].at # "tagging" => tracing[u].due =< span[tracing[u].span].tags
        /\ tracing[u].at \in {"exporting", "reading"} => span[tracing[u].span].finished > 0
    BY <2>1, Zenon DEF TraceInv, WorkInv
  <2> QED BY <1>0, <1>2, <1>3, <2>1, <2>2, <2>3 DEF TraceInv, TracingTypeOK, Live, SpanStates
<1> QED BY <1>5, <1>6, <1>7, <1>8, <1>9, Zenon DEF TraceInv

\* beginning to finish a span,
LEMMA FinishSpanStep ==
  ASSUME TraceInv, NEW t \in Threads, NEW s \in Spans, FinishSpan(t, s)
  PROVE  TraceInv'
<1>1. span[s].tags \in Nat
  BY Zenon DEF TraceInv, TracingTypeOK, SpanStates
<1>2. TracingTypeOK'
  BY <1>1, Zenon DEF FinishSpan, TraceInv, TracingTypeOK, Steps
<1>3. ExporterInv' /\ ActiveInv' /\ ExportInv'
  BY DEF FinishSpan, TraceInv, TracingTypeOK, ExporterInv, ActiveInv, ExportInv,
         Live, Untraced
<1>4. TagsInv' /\ WorkInv'
  BY <1>1 DEF FinishSpan, TraceInv, TracingTypeOK, TagsInv, WorkInv, Live, Steps
<1> QED BY <1>2, <1>3, <1>4, Zenon DEF TraceInv

\* taking the mutex to export it,
LEMMA FinishLocksStep ==
  ASSUME TraceInv, NEW t \in Threads, FinishLocks(t)
  PROVE  TraceInv'
<1> DEFINE s   == tracing[t].span
           d   == tracing[t].due
           new == [tags |-> span[s].tags, capacity |-> span[s].capacity,
                   finished |-> span[s].finished + 1, memory |-> span[s].memory]
           now == [at |-> "exporting", span |-> s, due |-> d]
<1>0. /\ s \in Spans /\ d \in Nat /\ Live(s) /\ d =< span[s].tags
      /\ span[s] \in SpanStates /\ span[s].finished \in Nat
      /\ traceLock = NULL
      /\ [tracing[t] EXCEPT !.at = "exporting"] = now
  <2>1. tracing[t] \in Steps /\ tracing[t].at = "finishing" /\ traceLock = NULL
    BY Zenon DEF FinishLocks, TraceInv, TracingTypeOK
  <2>2. /\ s \in Spans /\ d \in Nat
        /\ [tracing[t] EXCEPT !.at = "exporting"] = now
    BY <2>1 DEF Steps
  <2>3. Live(s) /\ d =< span[s].tags
    BY <2>1, Zenon DEF TraceInv, WorkInv
  <2>4. span[s] \in SpanStates
    BY <2>2, Zenon DEF TraceInv, TracingTypeOK
  <2> QED BY <2>1, <2>2, <2>3, <2>4, Zenon DEF SpanStates
<1>1. new \in SpanStates /\ now \in Steps
  BY <1>0 DEF SpanStates, Steps
<1>2. /\ span' = [span EXCEPT ![s] = new] /\ tracing' = [tracing EXCEPT ![t] = now]
      /\ traceLock' = t /\ UNCHANGED <<active, metadata, exportFunc, exportData, owner, export>>
  <2>1. [span[s] EXCEPT !.finished = span[s].finished + 1] = new
    <3>1. span[s].finished + 1 \in Nat
      BY <1>0
    <3> HIDE DEF s
    <3> QED BY <1>0, <3>1, SpanFields, Zenon
  <2> QED BY <1>0, <2>1, Zenon DEF FinishLocks
<1>3. /\ new.tags = span[s].tags /\ new.capacity = span[s].capacity
      /\ new.finished = span[s].finished + 1 /\ new.memory = span[s].memory
      /\ now.at = "exporting" /\ now.span = s /\ now.due = d
  BY Zenon
<1> HIDE DEF new, now, s, d
<1>4. TracingTypeOK'
  BY <1>0, <1>1, <1>2, Zenon DEF TraceInv, TracingTypeOK
<1>5. ExporterInv' /\ ActiveInv'
  BY <1>0, <1>2, <1>3, CommonAssumption
     DEF TraceInv, TracingTypeOK, ExporterInv, ActiveInv, Live
<1>6. ExportInv'
  BY <1>0, <1>2, CommonAssumption, Zenon DEF TraceInv, ExportInv
<1>7. TagsInv'
  BY <1>0, <1>2, <1>3 DEF TraceInv, TracingTypeOK, TagsInv, Steps
<1>8. WorkInv'
  <2> SUFFICES ASSUME NEW u \in Threads,
                      tracing'[u].at \in {"tagging", "finishing", "exporting", "reading"}
               PROVE  /\ span'[tracing'[u].span].memory = "held"
                      /\ tracing'[u].at # "tagging" =>
                           tracing'[u].due =< span'[tracing'[u].span].tags
                      /\ tracing'[u].at \in {"exporting", "reading"} => span'[tracing'[u].span].finished > 0
    BY DEF WorkInv, Live
  <2>1. CASE u = t
    BY <1>0, <1>2, <1>3, <2>1 DEF TraceInv, TracingTypeOK, Live
  <2>2. CASE u # t
    <3>1. tracing'[u] = tracing[u] /\ tracing[u] \in Steps
      BY <1>2, <2>2, Zenon DEF TraceInv, TracingTypeOK
    <3>2. tracing[u].span \in Spans
      BY <3>1, Zenon DEF Steps
    <3>3. /\ Live(tracing[u].span)
          /\ tracing[u].at # "tagging" => tracing[u].due =< span[tracing[u].span].tags
          /\ tracing[u].at \in {"exporting", "reading"} => span[tracing[u].span].finished > 0
      BY <3>1, Zenon DEF TraceInv, WorkInv
    <3>4. span \in [Spans -> SpanStates]
      BY Zenon DEF TraceInv, TracingTypeOK
    <3>5. CASE tracing[u].span = s
      <4>1. span'[s] = new /\ new.finished > 0
        BY ONLY <1>0, <1>2, <1>3, <3>4
      <4> QED BY ONLY <1>0, <1>3, <3>1, <3>3, <3>5, <4>1 DEF Live
    <3>6. CASE tracing[u].span # s
      <4>1. span'[tracing[u].span] = span[tracing[u].span]
        BY <1>2, <3>2, <3>4, <3>6, Zenon
      <4> QED BY ONLY <3>1, <3>3, <4>1 DEF Live
    <3> QED BY <3>5, <3>6, Zenon
  <2> QED BY <2>1, <2>2, Zenon
<1> QED BY <1>4, <1>5, <1>6, <1>7, <1>8 DEF TraceInv

\* calling the exporter,
LEMMA ExportBeginsStep ==
  ASSUME TraceInv, NEW t \in Threads, ExportBegins(t)
  PROVE  TraceInv'
<1> DEFINE s == tracing[t].span
           d == tracing[t].due
           now == [at |-> "reading", span |-> s, due |-> d, array |-> metadata[s]]
<1>1. s \in Spans /\ d \in Nat /\ traceLock = t /\ Live(s) /\ d =< span[s].tags /\ span[s].finished > 0
  <2>1. tracing[t] \in Steps /\ tracing[t].at = "exporting"
    BY Zenon DEF ExportBegins, TraceInv, TracingTypeOK
  <2>2. s \in Spans /\ d \in Nat
    BY <2>1, Zenon DEF Steps
  <2> QED BY <2>1, <2>2, Zenon DEF TraceInv, ExporterInv, WorkInv
<1>2. tracing' = [tracing EXCEPT ![t] = now]
      /\ UNCHANGED <<active, span, metadata, exportFunc, exportData, traceLock, owner, export>>
  BY Zenon DEF ExportBegins
<1>3. now \in Steps /\ now.at = "reading" /\ now.span = s /\ now.due = d
  <2>1. metadata[s] \in Nat
    BY <1>1, Zenon DEF TraceInv, TracingTypeOK
  <2> QED BY <1>1, <2>1, Zenon DEF Steps
<1> HIDE DEF now, s, d
<1>4. tracing'[t] = now /\ \A u \in Threads : u # t => tracing'[u] = tracing[u]
  BY <1>2, Zenon DEF TraceInv, TracingTypeOK
<1>5. tracing[t].at = "exporting"
  BY Zenon DEF ExportBegins
<1>6. TracingTypeOK' /\ ActiveInv' /\ ExportInv'
  BY <1>2, <1>3, Zenon DEF TraceInv, TracingTypeOK, ActiveInv, ExportInv, Live
<1>7. ExporterInv'
  BY <1>1, <1>2, <1>3, <1>4, <1>5, Zenon DEF TraceInv, ExporterInv
<1>8. TagsInv'
  BY <1>2, <1>3, <1>4, Zenon DEF TraceInv, TagsInv
<1>9. WorkInv'
  BY <1>1, <1>2, <1>3, <1>4, Zenon DEF TraceInv, WorkInv, Live
<1> QED BY <1>6, <1>7, <1>8, <1>9, Zenon DEF TraceInv

\* returning from it,
LEMMA FinishReturnsStep ==
  ASSUME TraceInv, NEW t \in Threads, FinishReturns(t)
  PROVE  TraceInv'
<1> DEFINE s == tracing[t].span
<1>1. /\ s \in Spans /\ span[s] \in SpanStates /\ tracing[t].due \in Nat
      /\ tracing[t].at \in {"exporting", "reading"} /\ traceLock = t
  <2>1. tracing[t] \in Steps /\ tracing[t].at \in {"exporting", "reading"}
    BY Zenon DEF FinishReturns, TraceInv, TracingTypeOK
  <2>2. s \in Spans /\ tracing[t].due \in Nat
    BY <2>1, Zenon DEF Steps
  <2> QED BY <2>1, <2>2, Zenon DEF TraceInv, TracingTypeOK, ExporterInv
<1>2. TracingTypeOK'
  BY Zenon DEF FinishReturns, TraceInv, TracingTypeOK, Steps, Untraced
<1>3. ExporterInv' /\ TagsInv' /\ WorkInv' /\ ActiveInv'
  BY <1>1 DEF FinishReturns, TraceInv, TracingTypeOK, ExporterInv, TagsInv, WorkInv,
              ActiveInv, Live, Untraced
<1>4. exportData = exportFunc
  BY <1>1, Zenon DEF TraceInv, ExporterInv
<1>5. /\ span[s].finished > 0 /\ span[s].memory = "held"
      /\ span[s].tags \in tracing[t].due .. span[s].capacity
  BY <1>1 DEF TraceInv, TagsInv, WorkInv, Live, SpanStates
<1>6. ExportInv'
  <2>1. traceLock' # "destroyed"
    BY CommonAssumption, Zenon DEF FinishReturns
  <2>2. CASE UNCHANGED export
    BY <2>1, <2>2, Zenon DEF TraceInv, ExportInv
  <2>3. CASE ExportReads(t)
    <3>1. /\ export'.func = exportFunc /\ export'.data = exportData
          /\ export'.span = span[s] /\ export'.due = tracing[t].due
      BY <2>3, Zenon DEF ExportReads
    <3> HIDE DEF s
    <3> QED BY <1>4, <1>5, <2>1, <3>1, Zenon DEF ExportInv
  <2> QED BY <2>2, <2>3, Zenon DEF FinishReturns
<1> QED BY <1>2, <1>3, <1>6, Zenon DEF TraceInv

\* setting another exporter,
LEMMA SetExporterStep ==
  ASSUME TraceInv, NEW t \in Threads,
         \/ SetExporterData(t)
         \/ \E e \in Exporters \union {NULL} : SetExporter(t, e)
  PROVE  TraceInv'
<1>1. CASE SetExporterData(t)
  <2>1. /\ tracing[t].at = "setting" /\ tracing' = [tracing EXCEPT ![t] = Untraced]
        /\ exportData' = tracing[t].exporter /\ traceLock' = NULL
        /\ UNCHANGED <<active, span, metadata, exportFunc, owner, export>>
    BY <1>1, Zenon DEF SetExporterData
  <2>2. TracingTypeOK'
    BY <2>1, Zenon DEF TraceInv, TracingTypeOK, Steps, Untraced
  <2>3. tracing'[t].at = "idle" /\ \A u \in Threads : u # t => tracing'[u] = tracing[u]
    BY <2>1, Zenon DEF TraceInv, TracingTypeOK, Untraced
  <2>4. traceLock = t /\ exportData' = exportFunc
    BY <2>1, Zenon DEF TraceInv, ExporterInv
  <2>5. ExporterInv'
    BY <2>1, <2>3, <2>4 DEF TraceInv, ExporterInv
  <2>6. TagsInv' /\ WorkInv' /\ ActiveInv'
    BY <2>1, <2>3 DEF TraceInv, TagsInv, WorkInv, ActiveInv, Live
  <2>7. ExportInv'
    BY <2>1, CommonAssumption, Zenon DEF TraceInv, ExportInv
  <2> QED BY <2>2, <2>5, <2>6, <2>7, Zenon DEF TraceInv
<1>2. ASSUME NEW e \in Exporters \union {NULL}, SetExporter(t, e) PROVE TraceInv'
  <2> DEFINE now == [at |-> "setting", exporter |-> e]
  <2>1. /\ traceLock = NULL /\ tracing' = [tracing EXCEPT ![t] = now]
        /\ traceLock' = t /\ exportFunc' = e
        /\ UNCHANGED <<active, span, metadata, exportData, owner, export>>
    BY <1>2, Zenon DEF SetExporter
  <2>2. now \in Steps /\ now.at = "setting" /\ now.exporter = e
    BY Zenon DEF Steps
  <2> HIDE DEF now
  <2>3. TracingTypeOK'
    BY <2>1, <2>2, Zenon DEF TraceInv, TracingTypeOK
  <2>4. tracing'[t] = now /\ \A u \in Threads : u # t => tracing'[u] = tracing[u]
    BY <2>1, Zenon DEF TraceInv, TracingTypeOK
  <2>5. ExporterInv'
    BY <2>1, <2>2, <2>4, CommonAssumption DEF TraceInv, ExporterInv
  <2>6. TagsInv' /\ WorkInv' /\ ActiveInv'
    BY <2>1, <2>2, <2>4 DEF TraceInv, TagsInv, WorkInv, ActiveInv, Live
  <2>7. ExportInv'
    BY <2>1, CommonAssumption, Zenon DEF TraceInv, ExportInv
  <2> QED BY <2>3, <2>5, <2>6, <2>7, Zenon DEF TraceInv
<1> QED BY <1>1, <1>2, Zenon

\* and destroying the context.
LEMMA DestroyStep ==
  ASSUME TraceInv, DestroyContext
  PROVE  TraceInv'
<1>1. \A s \in Spans : span'[s] \in SpanStates /\ span'[s].memory # "held"
                       /\ span'[s].tags = span[s].tags /\ span'[s].capacity = span[s].capacity
  <2> SUFFICES ASSUME NEW s \in Spans
               PROVE  span'[s] \in SpanStates /\ span'[s].memory # "held"
                      /\ span'[s].tags = span[s].tags /\ span'[s].capacity = span[s].capacity
    BY Zenon
  <2>1. span[s] \in SpanStates
    BY Zenon DEF TraceInv, TracingTypeOK
  <2>2. CASE \E i \in 1 .. Len(active) : active[i] = s
    <3>1. span'[s] = [span[s] EXCEPT !.memory = "freed"]
      BY <2>2, Zenon DEF DestroyContext
    <3>2. span'[s] = [tags |-> span[s].tags, capacity |-> span[s].capacity,
                      finished |-> span[s].finished, memory |-> "freed"]
      BY <2>1, <3>1, SpanFields, Zenon
    <3> QED BY <2>1, <3>2 DEF SpanStates
  <2>3. CASE ~\E i \in 1 .. Len(active) : active[i] = s
    BY <2>1, <2>3, Zenon DEF DestroyContext, TraceInv, ActiveInv, Live
  <2> QED BY <2>2, <2>3, Zenon
<1>2. TracingTypeOK'
  BY <1>1, Zenon DEF DestroyContext, TraceInv, TracingTypeOK
<1>3. ExporterInv' /\ TagsInv' /\ WorkInv' /\ ActiveInv'
  BY <1>1 DEF DestroyContext, TraceInv, ExporterInv, TagsInv, WorkInv, ActiveInv, Live, Untraced
<1>4. ExportInv'
  BY <1>1, Zenon DEF DestroyContext, TraceInv, ExportInv, Live
<1> QED BY <1>2, <1>3, <1>4, Zenon DEF TraceInv

\* Every step of tracing keeps the invariant.
LEMMA TraceStep == TraceInv /\ [TraceNext]_traceVars => TraceInv'
<1> SUFFICES ASSUME TraceInv, [TraceNext]_traceVars PROVE TraceInv'
  OBVIOUS
<1>1. CASE UNCHANGED traceVars
  BY <1>1, Zenon DEF traceVars, TraceInv, TracingTypeOK, ExporterInv, TagsInv, WorkInv, ActiveInv,
              ExportInv, Live
<1> QED BY <1>1, StartStep, AddTagStep, StoreTagStep, FinishSpanStep, FinishLocksStep,
           ExportBeginsStep, FinishReturnsStep, SetExporterStep, DestroyStep, Zenon DEF TraceNext

\* A new trace context has no spans.
LEMMA OwnerStart == TraceInit => OwnerInv
BY DEF TraceInit, OwnerInv, NewSpan, Untraced

\* The thread of a step that leaves the tags alone need only account for
\* itself.
LEMMA TagsAlone ==
  ASSUME TraceInv, OwnerInv, NEW t \in Threads, tracing[t].at # "tagging",
         \A u \in Threads : u # t => tracing'[u] = tracing[u],
         metadata' = metadata,
         \A r \in Spans : span'[r].tags = span[r].tags /\ span'[r].capacity = span[r].capacity,
         \A r \in Spans : Live(r) => owner'[r] = owner[r],
         tracing'[t].at \in {"finishing", "exporting", "reading"}
           /\ owner'[tracing'[t].span] = t =>
             /\ span'[tracing'[t].span].tags = tracing'[t].due
             /\ tracing'[t].at = "reading" =>
                  tracing'[t].array = span'[tracing'[t].span].capacity,
         export' # NULL /\ export'.own =>
             export'.array = export'.span.capacity /\ export'.span.tags = export'.due
  PROVE  OwnerInv'
<1>1. ASSUME NEW r \in Spans, metadata'[r] # span'[r].capacity
      PROVE  \E u \in Threads : tracing'[u].at = "tagging" /\ tracing'[u].span = r
  <2>1. metadata[r] # span[r].capacity
    BY <1>1, Zenon
  <2>2. PICK u \in Threads : tracing[u].at = "tagging" /\ tracing[u].span = r
    BY <2>1, Zenon DEF OwnerInv
  <2> QED BY <2>2, Zenon
<1>2. ASSUME NEW u \in Threads, u # t,
             tracing'[u].at \in {"finishing", "exporting", "reading"},
             owner'[tracing'[u].span] = u
      PROVE  /\ span'[tracing'[u].span].tags = tracing'[u].due
             /\ tracing'[u].at = "reading" =>
                  tracing'[u].array = span'[tracing'[u].span].capacity
  <2>1. tracing'[u] = tracing[u] /\ tracing[u] \in Steps
    BY <1>2, Zenon DEF TraceInv, TracingTypeOK
  <2>2. tracing[u].span \in Spans
    BY <1>2, <2>1, Zenon DEF Steps
  <2>3. owner[tracing[u].span] = u
    BY <1>2, <2>1, <2>2, Zenon DEF TraceInv, WorkInv
  <2>4. /\ span[tracing[u].span].tags = tracing[u].due
        /\ tracing[u].at = "reading" => tracing[u].array = span[tracing[u].span].capacity
    BY <1>2, <2>1, <2>3, Zenon DEF OwnerInv
  <2> QED BY ONLY <2>1, <2>2, <2>4,
             \A r \in Spans : span'[r].tags = span[r].tags /\ span'[r].capacity = span[r].capacity
<1> QED BY <1>1, <1>2, Zenon DEF OwnerInv

\* Every step of tracing keeps what is known of owners.
LEMMA OwnerStep == TraceInv /\ OwnerInv /\ [TraceNext]_traceVars => OwnerInv'
<1> SUFFICES ASSUME TraceInv, OwnerInv, [TraceNext]_traceVars PROVE OwnerInv'
  OBVIOUS
<1>a. /\ span \in [Spans -> SpanStates] /\ tracing \in [Threads -> Steps]
      /\ owner \in [Spans -> Threads \union {NULL}] /\ metadata \in [Spans -> Nat]
  BY Zenon DEF TraceInv, TracingTypeOK
<1>1. CASE UNCHANGED traceVars
  BY <1>1, Zenon DEF traceVars, OwnerInv
<1>2. ASSUME NEW t \in Threads, NEW s \in Spans, StartSpan(t, s) PROVE OwnerInv'
  <2>1. span' = [span EXCEPT ![s].memory = "held"] /\ ~Live(s)
    BY <1>2, Zenon DEF StartSpan, Live
  <2>2. \A r \in Spans : span'[r].tags = span[r].tags /\ span'[r].capacity = span[r].capacity
    BY <1>a, <2>1 DEF SpanStates
  <2>3. \A r \in Spans : Live(r) => owner'[r] = owner[r]
    BY <1>2, <1>a, <2>1, Zenon DEF StartSpan
  <2>4. tracing' = tracing /\ metadata' = metadata /\ export' = export
    BY <1>2, Zenon DEF StartSpan
  <2>5. tracing[t].at \notin {"tagging", "finishing", "exporting", "reading"}
    BY <1>2 DEF StartSpan, Untraced
  <2> QED BY <2>2, <2>3, <2>4, <2>5, TagsAlone, Zenon DEF OwnerInv
<1>3. ASSUME NEW t \in Threads, NEW s \in Spans, AddTag(t, s) PROVE OwnerInv'
  <2>0. tracing[t].at = "idle"
    BY <1>3 DEF AddTag, Untraced
  <2>1. /\ owner[s] = t
        /\ tracing'[t].at = "tagging" /\ tracing'[t].span = s
        /\ \A u \in Threads : u # t => tracing'[u] = tracing[u]
        /\ metadata' = metadata /\ owner' = owner /\ export' = export
        /\ \A r \in Spans : r # s => span'[r] = span[r]
    BY <1>3, <1>a, Zenon DEF AddTag
  <2>2. ASSUME NEW r \in Spans, metadata'[r] # span'[r].capacity
        PROVE  \E u \in Threads : tracing'[u].at = "tagging" /\ tracing'[u].span = r
    <3>1. CASE r = s
      BY <2>1, <3>1, Zenon
    <3>2. CASE r # s
      <4>1. PICK u \in Threads : tracing[u].at = "tagging" /\ tracing[u].span = r
        BY <2>1, <2>2, <3>2, Zenon DEF OwnerInv
      <4>2. u # t
        BY <2>0, <4>1
      <4> QED BY <2>1, <4>1, <4>2, Zenon
    <3> QED BY <3>1, <3>2, Zenon
  <2>3. ASSUME NEW u \in Threads, tracing'[u].at \in {"finishing", "exporting", "reading"},
               owner'[tracing'[u].span] = u
        PROVE  /\ span'[tracing'[u].span].tags = tracing'[u].due
               /\ tracing'[u].at = "reading" =>
                    tracing'[u].array = span'[tracing'[u].span].capacity
    <3>1. u # t
      BY <2>1, <2>3
    <3>2. tracing'[u] = tracing[u] /\ tracing[u] \in Steps
      BY <1>a, <2>1, <3>1, Zenon
    <3>3. tracing[u].span \in Spans
      BY <2>3, <3>2, Zenon DEF Steps
    <3>4. tracing[u].span # s
      BY <2>1, <2>3, <3>1, <3>2, Zenon
    <3>5. owner[tracing[u].span] = u
      BY <2>1, <2>3, <3>2, Zenon
    <3>6. /\ span[tracing[u].span].tags = tracing[u].due
          /\ tracing[u].at = "reading" => tracing[u].array = span[tracing[u].span].capacity
      BY <2>3, <3>2, <3>5, Zenon DEF OwnerInv
    <3>7. span'[tracing[u].span] = span[tracing[u].span]
      BY <2>1, <3>3, <3>4, Zenon
    <3> QED BY ONLY <3>2, <3>6, <3>7
  <2> QED BY <2>1, <2>2, <2>3, Zenon DEF OwnerInv
<1>4. ASSUME NEW t \in Threads, StoreTag(t) PROVE OwnerInv'
  <2> DEFINE s == tracing[t].span
  <2>1. tracing[t].at = "tagging" /\ s \in Spans /\ owner[s] = t
    <3>1. tracing[t].at = "tagging" /\ tracing[t] \in Steps
      BY <1>4, <1>a, Zenon DEF StoreTag
    <3>2. s \in Spans
      BY <3>1, Zenon DEF Steps
    <3> QED BY <3>1, <3>2, Zenon DEF TraceInv, TagsInv
  <2>2. /\ tracing' = [tracing EXCEPT ![t] = Untraced]
        /\ metadata' = [metadata EXCEPT ![s] = span[s].capacity]
        /\ span' = [span EXCEPT ![s].tags = @ + 1]
        /\ owner' = owner /\ export' = export
    BY <1>4, Zenon DEF StoreTag
  <2> HIDE DEF s
  <2>3. /\ tracing'[t] = Untraced /\ \A u \in Threads : u # t => tracing'[u] = tracing[u]
        /\ metadata'[s] = span[s].capacity
        /\ \A r \in Spans : r # s => metadata'[r] = metadata[r] /\ span'[r] = span[r]
    BY <1>a, <2>1, <2>2, Zenon
  <2>4. span'[s].capacity = span[s].capacity
    BY <1>a, <2>1, <2>2 DEF SpanStates
  <2>5. ASSUME NEW r \in Spans, metadata'[r] # span'[r].capacity
        PROVE  \E u \in Threads : tracing'[u].at = "tagging" /\ tracing'[u].span = r
    <3>1. r # s
      BY <2>3, <2>4, <2>5, Zenon
    <3>2. PICK u \in Threads : tracing[u].at = "tagging" /\ tracing[u].span = r
      BY <2>3, <2>5, <3>1, Zenon DEF OwnerInv
    <3>3. u # t
      BY <3>1, <3>2, Zenon DEF s
    <3> QED BY <2>3, <3>2, <3>3, Zenon
  <2>6. ASSUME NEW u \in Threads, tracing'[u].at \in {"finishing", "exporting", "reading"},
               owner'[tracing'[u].span] = u
        PROVE  /\ span'[tracing'[u].span].tags = tracing'[u].due
               /\ tracing'[u].at = "reading" =>
                    tracing'[u].array = span'[tracing'[u].span].capacity
    <3>1. u # t
      BY <2>3, <2>6 DEF Untraced
    <3>2. tracing'[u] = tracing[u] /\ tracing[u] \in Steps
      BY <1>a, <2>3, <3>1, Zenon
    <3>3. tracing[u].span \in Spans
      BY <2>6, <3>2, Zenon DEF Steps
    <3>4. tracing[u].span # s
      BY <2>1, <2>2, <2>6, <3>1, <3>2, Zenon
    <3>5. owner[tracing[u].span] = u
      BY <2>2, <2>6, <3>2, Zenon
    <3>6. /\ span[tracing[u].span].tags = tracing[u].due
          /\ tracing[u].at = "reading" => tracing[u].array = span[tracing[u].span].capacity
      BY <2>6, <3>2, <3>5, Zenon DEF OwnerInv
    <3>7. span'[tracing[u].span] = span[tracing[u].span]
      BY <2>3, <3>3, <3>4, Zenon
    <3> QED BY ONLY <3>2, <3>6, <3>7
  <2> QED BY <2>2, <2>5, <2>6, Zenon DEF OwnerInv
<1>5. ASSUME NEW t \in Threads, NEW s \in Spans, FinishSpan(t, s) PROVE OwnerInv'
  <2>1. /\ tracing' = [tracing EXCEPT ![t] = [at |-> "finishing", span |-> s, due |-> span[s].tags]]
        /\ UNCHANGED <<span, metadata, owner, export>>
    BY <1>5, Zenon DEF FinishSpan
  <2>2. /\ tracing'[t] = [at |-> "finishing", span |-> s, due |-> span[s].tags]
        /\ \A u \in Threads : u # t => tracing'[u] = tracing[u]
    BY <1>a, <2>1, Zenon
  <2>3. tracing'[t].at # "reading" /\ tracing'[t].span = s /\ tracing'[t].due = span[s].tags
    BY <2>2
  <2>4. tracing[t].at # "tagging"
    BY <1>5 DEF FinishSpan, Untraced
  <2>5. span'[tracing'[t].span].tags = tracing'[t].due
    BY ONLY <2>1, <2>3
  <2> QED BY <2>1, <2>2, <2>3, <2>4, <2>5, TagsAlone, Zenon DEF OwnerInv
<1>6. ASSUME NEW t \in Threads, FinishLocks(t) PROVE OwnerInv'
  <2> DEFINE s == tracing[t].span
  <2>1. tracing[t].at = "finishing" /\ tracing[t] \in Steps
    BY <1>6, <1>a, Zenon DEF FinishLocks
  <2>2. s \in Spans /\ [tracing[t] EXCEPT !.at = "exporting"] =
                         [at |-> "exporting", span |-> s, due |-> tracing[t].due]
    BY <2>1 DEF Steps
  <2>3. /\ tracing' = [tracing EXCEPT ![t] = [at |-> "exporting", span |-> s, due |-> tracing[t].due]]
        /\ span' = [span EXCEPT ![s].finished = @ + 1]
        /\ UNCHANGED <<metadata, owner, export>>
    BY <1>6, <2>2, Zenon DEF FinishLocks
  <2>4. /\ tracing'[t].at = "exporting" /\ tracing'[t].span = s /\ tracing'[t].due = tracing[t].due
        /\ \A u \in Threads : u # t => tracing'[u] = tracing[u]
    BY <1>a, <2>3, Zenon
  <2> HIDE DEF s
  <2>5. \A r \in Spans : span'[r].tags = span[r].tags /\ span'[r].capacity = span[r].capacity
    BY <1>a, <2>2, <2>3 DEF SpanStates
  <2>6. owner[s] = t => span[s].tags = tracing[t].due
    BY <2>1, Zenon DEF OwnerInv, s
  <2>7. tracing[t].at # "tagging" /\ tracing'[t].at # "reading"
    BY <2>1, <2>4
  <2>8. owner'[tracing'[t].span] = t => span'[tracing'[t].span].tags = tracing'[t].due
    BY ONLY <2>2, <2>3, <2>4, <2>5, <2>6
  <2> QED BY <2>3, <2>4, <2>5, <2>7, <2>8, TagsAlone, Zenon DEF OwnerInv
<1>7. ASSUME NEW t \in Threads, ExportBegins(t) PROVE OwnerInv'
  <2> DEFINE s == tracing[t].span
  <2>1. tracing[t].at = "exporting" /\ tracing[t] \in Steps
    BY <1>7, <1>a, Zenon DEF ExportBegins
  <2>2. s \in Spans
    BY <2>1, Zenon DEF Steps
  <2>3. /\ tracing' = [tracing EXCEPT ![t] = [at |-> "reading", span |-> s, due |-> tracing[t].due,
                                              array |-> metadata[s]]]
        /\ UNCHANGED <<span, metadata, owner, export>>
    BY <1>7, Zenon DEF ExportBegins
  <2>4. /\ tracing'[t].at = "reading" /\ tracing'[t].span = s /\ tracing'[t].due = tracing[t].due
        /\ tracing'[t].array = metadata[s]
        /\ \A u \in Threads : u # t => tracing'[u] = tracing[u]
    BY <1>a, <2>3, Zenon
  <2>5. owner[s] = t => metadata[s] = span[s].capacity
    <3>1. \A u \in Threads : tracing[u].at = "tagging" /\ tracing[u].span = s => owner[s] = u
      BY Zenon DEF TraceInv, TagsInv
    <3>2. tracing[t].at # "tagging"
      BY <2>1
    <3>3. metadata[s] # span[s].capacity =>
            \E u \in Threads : tracing[u].at = "tagging" /\ tracing[u].span = s
      BY <2>2, Zenon DEF OwnerInv
    <3> QED BY ONLY <3>1, <3>2, <3>3
  <2>6. owner[s] = t => span[s].tags = tracing[t].due
    BY <2>1, Zenon DEF OwnerInv
  <2>7. tracing[t].at # "tagging"
    BY <2>1
  <2> HIDE DEF s
  <2>8. owner'[tracing'[t].span] = t => /\ span'[tracing'[t].span].tags = tracing'[t].due
                                         /\ tracing'[t].array = span'[tracing'[t].span].capacity
    BY ONLY <2>3, <2>4, <2>5, <2>6
  <2> QED BY <2>3, <2>4, <2>7, <2>8, TagsAlone, Zenon DEF OwnerInv
<1>8. ASSUME NEW t \in Threads, FinishReturns(t) PROVE OwnerInv'
  <2> DEFINE s == tracing[t].span
  <2>1. /\ tracing[t].at \in {"exporting", "reading"}
        /\ tracing' = [tracing EXCEPT ![t] = Untraced]
        /\ UNCHANGED <<span, metadata, owner>>
    BY <1>8, Zenon DEF FinishReturns
  <2>2. tracing'[t].at = "idle" /\ \A u \in Threads : u # t => tracing'[u] = tracing[u]
    BY <1>a, <2>1, Zenon DEF Untraced
  <2>3. export' # NULL /\ export'.own =>
          export'.array = export'.span.capacity /\ export'.span.tags = export'.due
    <3>1. CASE export' = export
      BY <3>1, Zenon DEF OwnerInv
    <3>2. CASE tracing[t].at = "reading" /\ ExportReads(t)
      <4>1. owner[s] = t => tracing[t].array = span[s].capacity /\ span[s].tags = tracing[t].due
        BY <3>2, Zenon DEF OwnerInv
      <4>2. /\ export'.own = (owner[s] = t) /\ export'.span = span[s]
            /\ export'.array = tracing[t].array /\ export'.due = tracing[t].due
        BY <3>2, Zenon DEF ExportReads
      <4> HIDE DEF s
      <4> QED BY <4>1, <4>2, Zenon
    <3> QED BY <1>8, <3>1, <3>2, Zenon DEF FinishReturns
  <2>4. tracing[t].at # "tagging" /\ tracing'[t].at \notin {"finishing", "exporting", "reading"}
    BY <2>1, <2>2
  <2> QED BY <2>1, <2>2, <2>3, <2>4, TagsAlone, Zenon
<1>9. ASSUME NEW t \in Threads,
             SetExporterData(t) \/ \E e \in Exporters \union {NULL} : SetExporter(t, e)
      PROVE  OwnerInv'
  <2>1. /\ \A u \in Threads : u # t => tracing'[u] = tracing[u]
        /\ UNCHANGED <<span, metadata, owner, export>>
    BY <1>9, <1>a, Zenon DEF SetExporter, SetExporterData
  <2>2. tracing[t].at # "tagging" /\ tracing'[t].at \notin {"finishing", "exporting", "reading"}
    BY <1>9, <1>a DEF SetExporter, SetExporterData, Untraced
  <2> QED BY <2>1, <2>2, TagsAlone, Zenon DEF OwnerInv
<1>10. CASE DestroyContext
  <2>1. UNCHANGED <<tracing, metadata, owner, export>>
    BY <1>10, Zenon DEF DestroyContext
  <2>2. \A r \in Spans : span'[r].capacity = span[r].capacity
    <3> SUFFICES ASSUME NEW r \in Spans PROVE span'[r].capacity = span[r].capacity
      OBVIOUS
    <3>1. span'[r] = span[r] \/ span'[r] = [span[r] EXCEPT !.memory = "freed"]
      BY <1>10, Zenon DEF DestroyContext
    <3>2. span[r] \in SpanStates
      BY <1>a, Zenon
    <3> QED BY <3>1, <3>2 DEF SpanStates
  <2>3. \A u \in Threads : tracing'[u].at \notin {"finishing", "exporting", "reading"}
    BY <1>10 DEF DestroyContext, Untraced
  <2> QED BY <2>1, <2>2, <2>3, Zenon DEF OwnerInv
<1> QED BY <1>1, <1>2, <1>3, <1>4, <1>5, <1>6, <1>7, <1>8, <1>9, <1>10, Zenon DEF TraceNext

\* However many threads trace, an exporter is called with its own user_data and
\* a finished span with the tags it is due, which it reads from the array that
\* holds them if their owner finishes the span; and grpc_trace_context_destroy
\* leaves no span behind.
THEOREM TracingCorrect == TraceSpec => []ExportsFaithful
<1>1. TraceInv /\ OwnerInv => ExportsFaithful
  BY Zenon DEF TraceInv, ExportInv, OwnerInv, ExportsFaithful
<1> QED BY <1>1, TracingInit, OwnerStart, TraceStep, OwnerStep, PTL DEF TraceSpec

-----------------------------------------------------------------------------
\* What is remembered of an increment or a set.
Entries == {"add", "set"} \X Amounts

\* What a history adds up to after one more entry.
Follow(e, v) == IF e[1] = "set" THEN e[2] ELSE v + e[2]

\* The function by whose recursion Total is defined.
Totalling(s, f) ==
    /\ f[0] = 0
    /\ \A i \in 1 .. Len(s) : f[i] = Follow(s[i], f[i - 1])
    /\ Total(s) = f[Len(s)]

\* The recursion of Total has a solution, and Total is its last value.
LEMMA TotalRecursion ==
    ASSUME NEW s \in Seq(Entries)
    PROVE  \E f \in [0 .. Len(s) -> Int] : Totalling(s, f)
<1> DEFINE n == Len(s)
           step == [p \in Int \X (1 .. n) |-> Follow(s[p[2]], p[1])]
           Body(f) == [i \in 0 .. Len(s) |->
                         IF i = 0 THEN 0
                         ELSE IF s[i][1] = "set" THEN s[i][2]
                         ELSE f[i - 1] + s[i][2]]
           upTo == CHOOSE f : f = Body(f)
<1>1. n \in Nat /\ 0 \in Int
  OBVIOUS
<1>a. ASSUME NEW k \in 1 .. n, NEW v \in Int PROVE Follow(s[k], v) \in Int
  <2>1. s[k] \in Entries
    OBVIOUS
  <2>2. s[k][2] \in Int
    BY <2>1, MetricsAssumption, Zenon DEF Entries
  <2> QED BY <2>2 DEF Follow
<1>2. step \in [Int \X (1 .. n) -> Int]
  <2> HIDE DEF n
  <2>1. \A p \in Int \X (1 .. n) : p[1] \in Int /\ p[2] \in 1 .. n
    BY Zenon
  <2>2. \A p \in Int \X (1 .. n) : Follow(s[p[2]], p[1]) \in Int
    BY <1>a, <2>1, Zenon
  <2> QED BY <2>2, Zenon
<1>3. PICK g \in [0 .. n -> Int] : Computes(g, n, 0, step)
  <2> HIDE DEF step, n
  <2> QED BY <1>1, <1>2, RecursionExists, Zenon
<1>4. ASSUME NEW i \in 1 .. n PROVE g[i] = Follow(s[i], g[i - 1])
  <2>1. i - 1 \in 0 .. n
    OBVIOUS
  <2>2. <<g[i - 1], i>> \in Int \X (1 .. n)
    BY <2>1, Zenon
  <2>3. step[<<g[i - 1], i>>] = Follow(s[i], g[i - 1])
    <3> HIDE DEF n
    <3> QED BY <2>2, Zenon
  <2> QED BY <1>3, <2>3, Zenon DEF Computes
<1> HIDE DEF step
<1>5. g = Body(g)
  <2>1. \A i \in 0 .. n : i = 0 \/ i \in 1 .. n
    OBVIOUS
  <2>2. \A i \in 0 .. n : g[i] = Body(g)[i]
    BY <1>3, <1>4, <2>1, Zenon DEF Computes, Follow
  <2> QED BY <2>2, Zenon
<1>6. upTo = Body(upTo)
  <2> HIDE DEF Body
  <2> QED BY <1>5, Zenon
<1>7. Total(s) = upTo[n]
  BY Zenon DEF Total
<1> HIDE DEF upTo
<1>8. upTo[0] = 0 /\ \A i \in 1 .. n : upTo[i] = Follow(s[i], upTo[i - 1])
  <2>1. \A i \in 0 .. n : upTo[i] = Body(upTo)[i]
    BY <1>6, Zenon
  <2>2. \A i \in 1 .. n : i \in 0 .. n /\ i # 0
    OBVIOUS
  <2>3. 0 \in 0 .. n
    OBVIOUS
  <2> QED BY <2>1, <2>2, <2>3, Zenon DEF Follow
<1>9. \A k \in 0 .. n : k \in {i \in 0 .. n : upTo[i] \in Int}
  <2> DEFINE E == {i \in 0 .. n : upTo[i] \in Int}
  <2>1. 0 \in E
    BY <1>8
  <2>2. ASSUME NEW k \in 0 .. n - 1, k \in E PROVE k + 1 \in E
    <3>1. k + 1 \in 1 .. n /\ (k + 1) - 1 = k /\ k + 1 \in 0 .. n
      OBVIOUS
    <3>2. upTo[k + 1] = Follow(s[k + 1], upTo[k]) /\ upTo[k] \in Int
      BY <1>8, <2>2, <3>1, Zenon
    <3> QED BY <1>a, <3>1, <3>2, Zenon
  <2>3. \A k \in 0 .. n - 1 : k \in E => k + 1 \in E
    BY <2>2, Zenon
  <2> HIDE DEF E, n
  <2> QED BY <1>1, <2>1, <2>3, InductionUpTo, Zenon DEF E
<1>10. upTo \in [0 .. n -> Int]
  BY <1>6, <1>9, Zenon
<1> QED BY <1>7, <1>8, <1>10, Zenon DEF Totalling

\* An empty history adds up to nothing.
LEMMA TotalEmpty == Total(<<>>) = 0
<1>1. <<>> \in Seq(Entries) /\ Len(<<>>) = 0
  OBVIOUS
<1> QED BY <1>1, TotalRecursion, Zenon DEF Totalling

\* One more change sets the total or adds to it.
LEMMA TotalAppend ==
    ASSUME NEW s \in Seq(Entries), NEW e \in Entries
    PROVE  Total(s) \in Int /\ Total(Append(s, e)) = Follow(e, Total(s))
<1> DEFINE n == Len(s)
           t == Append(s, e)
<1>1. n \in Nat /\ t \in Seq(Entries) /\ Len(t) = n + 1 /\ t[n + 1] = e
      /\ \A i \in 1 .. n : t[i] = s[i]
  OBVIOUS
<1>2. PICK f \in [0 .. n -> Int] : Totalling(s, f)
  BY TotalRecursion, Zenon
<1> HIDE DEF t
<1>3. PICK g \in [0 .. Len(t) -> Int] : Totalling(t, g)
  BY <1>1, TotalRecursion, Zenon
<1> DEFINE E == {k \in 0 .. n : f[k] = g[k]}
<1>4. 0 \in E
  BY <1>1, <1>2, <1>3 DEF Totalling
<1>5. ASSUME NEW k \in 0 .. n - 1, k \in E PROVE k + 1 \in E
  <2>1. k + 1 \in 1 .. n /\ k + 1 \in 1 .. Len(t) /\ (k + 1) - 1 = k
    BY <1>1
  <2>2. f[k + 1] = Follow(s[k + 1], f[k]) /\ g[k + 1] = Follow(t[k + 1], g[k])
    BY <1>2, <1>3, <2>1, Zenon DEF Totalling
  <2> QED BY <1>1, <1>5, <2>1, <2>2
<1>6. \A k \in 0 .. n : k \in E
  <2>1. \A k \in 0 .. n - 1 : k \in E => k + 1 \in E
    BY <1>5, Zenon
  <2> HIDE DEF E, n
  <2> QED BY <1>1, <1>4, <2>1, InductionUpTo, Zenon
<1>7. f[n] = g[n]
  BY <1>1, <1>6
<1>8. g[n + 1] = Follow(e, g[n])
  <2>1. n + 1 \in 1 .. Len(t) /\ (n + 1) - 1 = n
    BY <1>1
  <2> QED BY <1>1, <1>3, <2>1, Zenon DEF Totalling
<1> QED BY <1>1, <1>2, <1>3, <1>7, <1>8 DEF Totalling, t

\* The increments in a history after one more entry.
LEMMA AdditionsAppend ==
    ASSUME NEW s \in Seq(Entries), NEW e \in Entries
    PROVE  /\ Additions(s) \in Seq(Entries)
           /\ Additions(Append(s, e)) = IF e[1] = "add" THEN Append(Additions(s), e)
                                                        ELSE Additions(s)
<1> DEFINE A == {"add"} \X Amounts
<1>1. e \in A <=> e[1] = "add"
  BY Zenon DEF Entries
<1> HIDE DEF A
<1>2. Filter(s, A) \in Seq(Entries)
  BY FilterElements, Zenon
<1>3. Filter(Append(s, e), A) = IF e \in A THEN Append(Filter(s, A), e) ELSE Filter(s, A)
  <2>1. \A x \in Elements(s) : x \in A <=> x \in A
    BY Zenon
  <2> QED BY <2>1, FilterAppend
<1> QED BY <1>1, <1>2, <1>3, Zenon DEF Additions, A

-----------------------------------------------------------------------------
MetricSet == [name : MetricNames, value : Int, count : Int, sum : Int, min : Int, max : Int]

\* The amounts that a history adds.
Summands(s) == {e[2] : e \in Elements(Additions(s))}

\* A metric counts the increments of a history, and c more that add up to v.
Counts(m, s, c, v) ==
    /\ m.count = Len(Additions(s)) + c
    /\ m.sum = Total(Additions(s)) + v
    /\ m.value = Total(s) + v

\* Its minimum and maximum are those of the increments.
Bounds(m, s) ==
    Summands(s) # {} =>
        /\ m.min \in Summands(s) /\ \A v \in Summands(s) : m.min <= v
        /\ m.max \in Summands(s) /\ \A v \in Summands(s) : m.max >= v

\* An empty history has no increments.
LEMMA AdditionsEmpty == Additions(<<>>) = <<>> /\ Summands(<<>>) = {}
<1>1. Additions(<<>>) = <<>>
  BY FilterEmpty, Zenon DEF Additions
<1>2. Elements(<<>>) = {}
  BY DEF Elements
<1> QED BY <1>1, <1>2, Zenon DEF Summands

\* A new metric has the statistics of an empty history.
LEMMA NewCounts ==
    ASSUME NEW n \in MetricNames
    PROVE  /\ NewMetric(n) \in MetricSet /\ NewMetric(n).name = n
           /\ Counts(NewMetric(n), <<>>, 0, 0) /\ Bounds(NewMetric(n), <<>>)
<1>1. Len(<<>>) = 0
  BY Zenon
<1>2. NewMetric(n) \in MetricSet /\ NewMetric(n).name = n /\ NewMetric(n).count = 0
      /\ NewMetric(n).sum = 0 /\ NewMetric(n).value = 0
  BY DEF NewMetric, MetricSet
<1> QED BY <1>1, <1>2, AdditionsEmpty, TotalEmpty DEF Counts, Bounds

\* Half-way through an increment a metric is one ahead of its history,
LEMMA AddedCounts ==
    ASSUME NEW m \in MetricSet, NEW s \in Seq(Entries), NEW v \in Amounts,
           Counts(m, s, 0, 0), Bounds(m, s)
    PROVE  /\ Added(m, v) \in MetricSet /\ Added(m, v).name = m.name
           /\ Counts(Added(m, v), s, 1, v) /\ Bounds(Added(m, v), s)
<1> DEFINE a == Added(m, v)
<1>0. v \in Int
  BY MetricsAssumption, Zenon
<1>1. a \in MetricSet /\ a.name = m.name /\ a.min = m.min /\ a.max = m.max
      /\ a.count = m.count + 1 /\ a.sum = m.sum + v /\ a.value = m.value + v
  <2>1. /\ m = [name |-> m.name, value |-> m.value, count |-> m.count, sum |-> m.sum,
                min |-> m.min, max |-> m.max]
        /\ m.name \in MetricNames /\ m.min \in Int /\ m.max \in Int
        /\ m.count \in Int /\ m.sum \in Int /\ m.value \in Int
    BY Zenon DEF MetricSet
  <2>2. a = [name |-> m.name, value |-> m.value + v, count |-> m.count + 1,
             sum |-> m.sum + v, min |-> m.min, max |-> m.max]
    <3> DEFINE x == [m EXCEPT !.value = m.value + v]
               y == [x EXCEPT !.count = m.count + 1]
               z == [y EXCEPT !.sum = m.sum + v]
    <3>1. x = [name |-> m.name, value |-> m.value + v, count |-> m.count, sum |-> m.sum,
               min |-> m.min, max |-> m.max]
      BY <2>1
    <3> HIDE DEF x
    <3>2. y = [name |-> m.name, value |-> m.value + v, count |-> m.count + 1, sum |-> m.sum,
               min |-> m.min, max |-> m.max]
      BY <3>1
    <3> HIDE DEF y
    <3>3. z = [name |-> m.name, value |-> m.value + v, count |-> m.count + 1,
               sum |-> m.sum + v, min |-> m.min, max |-> m.max]
      BY <3>2
    <3>4. a = z
      BY Zenon DEF Added, x, y
    <3> QED BY <3>3, <3>4, Zenon
  <2> HIDE DEF a
  <2>3. m.value + v \in Int /\ m.count + 1 \in Int /\ m.sum + v \in Int
    BY <1>0, <2>1
  <2> QED BY <2>1, <2>2, <2>3, Zenon DEF MetricSet
<1>2. m.count \in Int /\ m.sum \in Int /\ m.value \in Int
  BY Zenon DEF MetricSet
<1> DEFINE e == <<"set", v>>
<1>a. e \in Entries
  BY Zenon DEF Entries
<1>3. Additions(s) \in Seq(Entries)
  BY <1>a, AdditionsAppend, Zenon
<1>4. Len(Additions(s)) \in Int /\ Total(Additions(s)) \in Int /\ Total(s) \in Int
  BY <1>a, <1>3, TotalAppend
<1> HIDE DEF a
<1>5. Counts(a, s, 1, v)
  BY <1>0, <1>1, <1>2, <1>4 DEF Counts
<1>6. Bounds(a, s)
  BY <1>1, Zenon DEF Bounds
<1> QED BY <1>1, <1>5, <1>6, Zenon DEF a

\* and at the end of it, with the bounds, it agrees with it again.
LEMMA BoundedCounts ==
    ASSUME NEW m \in MetricSet, NEW s \in Seq(Entries), NEW v \in Amounts,
           Counts(m, s, 1, v), Bounds(m, s)
    PROVE  /\ Bounded(m, v) \in MetricSet /\ Bounded(m, v).name = m.name
           /\ Append(s, <<"add", v>>) \in Seq(Entries)
           /\ Counts(Bounded(m, v), Append(s, <<"add", v>>), 0, 0)
           /\ Bounds(Bounded(m, v), Append(s, <<"add", v>>))
<1> DEFINE a == Bounded(m, v)
           e == <<"add", v>>
           t == Append(s, e)
           old == Additions(s)
           new == Additions(t)
<1>0. v \in Int
  BY MetricsAssumption, Zenon
<1>1. m.min \in Int /\ m.max \in Int /\ m.count \in Int /\ m.sum \in Int /\ m.value \in Int
  BY Zenon DEF MetricSet
<1>2. a \in MetricSet /\ a.name = m.name /\ a.count = m.count /\ a.sum = m.sum /\ a.value = m.value
      /\ a.min = (IF m.count = 1 \/ v < m.min THEN v ELSE m.min)
      /\ a.max = (IF m.count = 1 \/ v > m.max THEN v ELSE m.max)
  BY <1>0, <1>1, Zenon DEF Bounded, MetricSet
<1>3. e \in Entries /\ e[1] = "add" /\ e[2] = v
  BY Zenon DEF Entries
<1>4. t \in Seq(Entries)
  BY <1>3
<1> HIDE DEF a, e
<1>5. old \in Seq(Entries) /\ new = Append(old, e)
  BY <1>3, AdditionsAppend, Zenon
<1>6. Total(s) \in Int /\ Total(t) = Total(s) + v
  BY <1>3, TotalAppend, Zenon DEF Follow
<1> HIDE DEF old, new, t
<1>7. Total(old) \in Int /\ Total(new) = Total(old) + v
  BY <1>3, <1>5, TotalAppend, Zenon DEF Follow
<1>8. Len(old) \in Nat /\ Len(new) = Len(old) + 1
  BY <1>3, <1>5
<1>9. m.count = Len(old) + 1 /\ m.sum = Total(old) + v /\ m.value = Total(s) + v
  BY Zenon DEF Counts, old
<1>10. Counts(a, t, 0, 0)
  BY <1>0, <1>2, <1>6, <1>7, <1>8, <1>9 DEF Counts, new
<1>11. Elements(new) = Elements(old) \cup {e}
  BY <1>3, <1>5, ElementsAppend
<1>12. Summands(t) = Summands(s) \cup {v}
  BY <1>3, <1>11, Zenon DEF Summands, old, new
<1>13. Summands(s) \subseteq Int
  <2>1. \A i \in 1 .. Len(old) : old[i][2] \in Int
    <3>1. \A i \in 1 .. Len(old) : old[i] \in Entries
      BY <1>5
    <3>2. \A x \in Entries : x[2] \in Int
      BY MetricsAssumption, Zenon DEF Entries
    <3> QED BY <3>1, <3>2, Zenon
  <2> QED BY <2>1, Zenon DEF Summands, old, Elements
<1>14. m.count = 1 <=> Summands(s) = {}
  <2>1. m.count = 1 <=> Len(old) = 0
    BY <1>8, <1>9
  <2>2. Len(old) = 0 => Elements(old) = {}
    BY DEF Elements
  <2>3. Len(old) # 0 => old[1] \in Elements(old)
    BY <1>8 DEF Elements
  <2> QED BY <2>1, <2>2, <2>3, Zenon DEF Summands, old
<1>15. Bounds(a, t)
  <2>1. CASE Summands(s) = {}
    <3>1. a.min = v /\ a.max = v /\ Summands(t) = {v}
      BY <1>2, <1>12, <1>14, <2>1, Zenon
    <3> QED BY <1>0, <3>1 DEF Bounds
  <2>2. CASE Summands(s) # {}
    <3>1. /\ m.min \in Summands(s) /\ \A w \in Summands(s) : m.min <= w
          /\ m.max \in Summands(s) /\ \A w \in Summands(s) : m.max >= w
      BY <2>2, Zenon DEF Bounds
    <3>2. a.min \in Summands(t) /\ a.max \in Summands(t)
      BY <1>2, <1>12, <3>1, Zenon
    <3>3. \A w \in Summands(s) : a.min <= w /\ a.max >= w
      BY <1>0, <1>1, <1>2, <1>13, <1>14, <2>2, <3>1
    <3>4. a.min <= v /\ a.max >= v
      BY <1>0, <1>1, <1>2
    <3> QED BY <1>12, <3>2, <3>3, <3>4, Zenon DEF Bounds
  <2> QED BY <2>1, <2>2, Zenon
<1> QED BY <1>2, <1>4, <1>10, <1>15, Zenon DEF a, t, e

\* Setting a value keeps the statistics of the increments.
LEMMA SetCounts ==
    ASSUME NEW m \in MetricSet, NEW s \in Seq(Entries), NEW v \in Amounts,
           Counts(m, s, 0, 0), Bounds(m, s)
    PROVE  /\ [m EXCEPT !.value = v] \in MetricSet /\ [m EXCEPT !.value = v].name = m.name
           /\ Append(s, <<"set", v>>) \in Seq(Entries)
           /\ Counts([m EXCEPT !.value = v], Append(s, <<"set", v>>), 0, 0)
           /\ Bounds([m EXCEPT !.value = v], Append(s, <<"set", v>>))
<1> DEFINE a == [m EXCEPT !.value = v]
           e == <<"set", v>>
           t == Append(s, e)
<1>0. v \in Int
  BY MetricsAssumption
<1>1. a \in MetricSet /\ a.name = m.name /\ a.min = m.min /\ a.max = m.max
      /\ a.count = m.count /\ a.sum = m.sum /\ a.value = v
  BY <1>0, Zenon DEF MetricSet
<1>2. e \in Entries /\ e[1] = "set" /\ e[2] = v
  BY Zenon DEF Entries
<1>3. t \in Seq(Entries)
  BY <1>2
<1> HIDE DEF a, e
<1>4. Additions(t) = Additions(s)
  BY <1>2, AdditionsAppend, Zenon
<1>5. Total(t) = v
  BY <1>2, TotalAppend, Zenon DEF Follow
<1> HIDE DEF t
<1>6. Summands(t) = Summands(s)
  BY <1>4, Zenon DEF Summands
<1>7. Counts(a, t, 0, 0)
  BY <1>0, <1>1, <1>4, <1>5 DEF Counts
<1>8. Bounds(a, t)
  BY <1>1, <1>6, Zenon DEF Bounds
<1> QED BY <1>1, <1>3, <1>7, <1>8, Zenon DEF a, t, e

-----------------------------------------------------------------------------
\* The search by name in any list of metrics.
FindIn(s, n) ==
    LET found == {i \in 1 .. Len(s) : s[i].name = n}
    IN  IF found = {} THEN 0 ELSE CHOOSE i \in found : \A j \in found : j <= i

\* A set of numbers up to n has a greatest element.
LEMMA GreatestNumber ==
    ASSUME NEW n \in Nat, NEW T \in SUBSET (1 .. n), T # {}
    PROVE  \E i \in T : \A j \in T : j <= i
<1> DEFINE U == {n - i : i \in T}
<1>1. U \in SUBSET Nat /\ U # {}
  <2>1. \A i \in T : n - i \in Nat
    OBVIOUS
  <2> QED BY <2>1, Zenon
<1>2. PICK u \in U : \A w \in U : u <= w
  <2> HIDE DEF U
  <2> QED BY <1>1, LeastNumber, Zenon
<1>3. PICK i \in T : u = n - i
  BY <1>2, Zenon
<1>4. ASSUME NEW j \in T PROVE j <= i
  <2>1. n - i <= n - j
    BY <1>2, <1>3, Zenon
  <2>2. i \in 1 .. n /\ j \in 1 .. n
    BY Zenon
  <2> HIDE DEF U
  <2> QED BY <2>1, <2>2
<1> HIDE DEF U
<1> QED BY <1>4, Zenon

\* A search finds the newest metric of a name, if there is one.
LEMMA FindFacts ==
    ASSUME NEW s \in Seq(MetricSet), NEW n
    PROVE  /\ FindIn(s, n) \in 0 .. Len(s)
           /\ FindIn(s, n) # 0 => FindIn(s, n) \in 1 .. Len(s) /\ s[FindIn(s, n)].name = n
           /\ \A i \in 1 .. Len(s) : s[i].name = n => FindIn(s, n) # 0 /\ i <= FindIn(s, n)
<1> DEFINE found == {i \in 1 .. Len(s) : s[i].name = n}
           best == CHOOSE i \in found : \A j \in found : j <= i
<1>1. FindIn(s, n) = IF found = {} THEN 0 ELSE best
  BY Zenon DEF FindIn
<1>2. Len(s) \in Nat
  OBVIOUS
<1>3. CASE found = {}
  BY <1>1, <1>2, <1>3
<1>4. CASE found # {}
  <2>1. found \in SUBSET (1 .. Len(s))
    BY Zenon
  <2>2. best \in found /\ \A j \in found : j <= best
    <3>1. \E i \in found : \A j \in found : j <= i
      <4> HIDE DEF found
      <4> QED BY <1>2, <1>4, <2>1, GreatestNumber, Zenon
    <3> HIDE DEF found
    <3> QED BY <3>1, Zenon
  <2> HIDE DEF best
  <2>3. FindIn(s, n) = best
    BY <1>1, <1>4, Zenon
  <2> QED BY <1>2, <2>2, <2>3
<1> QED BY <1>3, <1>4, Zenon

\* The search depends on the names only.
LEMMA FindSame ==
    ASSUME NEW s, NEW t, Len(s) = Len(t), \A i \in 1 .. Len(s) : s[i].name = t[i].name, NEW n
    PROVE  FindIn(s, n) = FindIn(t, n)
<1> DEFINE a == {i \in 1 .. Len(s) : s[i].name = n}
           b == {i \in 1 .. Len(t) : t[i].name = n}
<1>1. a = b
  BY Zenon
<1>2. FindIn(s, n) = IF a = {} THEN 0 ELSE CHOOSE i \in a : \A j \in a : j <= i
  BY Zenon DEF FindIn
<1>3. FindIn(t, n) = IF b = {} THEN 0 ELSE CHOOSE i \in b : \A j \in b : j <= i
  BY Zenon DEF FindIn
<1> HIDE DEF a, b
<1> QED BY <1>1, <1>2, <1>3

\* A metric registered last is the one found.
LEMMA FindAppend ==
    ASSUME NEW s \in Seq(MetricSet), NEW m \in MetricSet, NEW n
    PROVE  FindIn(Append(s, m), n) = IF m.name = n THEN Len(s) + 1 ELSE FindIn(s, n)
<1> DEFINE t == Append(s, m)
           L == Len(s)
           x == FindIn(t, n)
           y == FindIn(s, n)
<1>1. L \in Nat /\ t \in Seq(MetricSet) /\ Len(t) = L + 1 /\ t[L + 1] = m
      /\ \A i \in 1 .. L : t[i] = s[i]
  OBVIOUS
<1> HIDE DEF t
<1>2. /\ x \in 0 .. L + 1
      /\ x # 0 => x \in 1 .. L + 1 /\ t[x].name = n
      /\ \A i \in 1 .. L + 1 : t[i].name = n => x # 0 /\ i <= x
  BY <1>1, FindFacts, Zenon
<1>3. /\ y \in 0 .. L
      /\ y # 0 => y \in 1 .. L /\ s[y].name = n
      /\ \A i \in 1 .. L : s[i].name = n => y # 0 /\ i <= y
  BY FindFacts, Zenon
<1> HIDE DEF x, y, L
<1>4. CASE m.name = n
  <2>1. L + 1 <= x
    BY <1>1, <1>2, <1>4
  <2> QED BY <1>1, <1>2, <1>4, <2>1 DEF x, t, L
<1>5. CASE m.name # n
  <2>1. x # L + 1
    BY <1>1, <1>2, <1>5
  <2>2. x # 0 => x \in 1 .. L /\ s[x].name = n
    BY <1>1, <1>2, <2>1
  <2>3. y # 0 => y \in 1 .. L + 1 /\ t[y].name = n
    BY <1>1, <1>3
  <2>4. x = y
    <3>1. CASE x = 0
      BY <1>2, <2>3, <3>1, Zenon
    <3>2. CASE x # 0
      <4>1. y # 0 /\ x <= y
        BY <1>3, <2>2, <3>2, Zenon
      <4>2. y <= x
        BY <1>2, <2>3, <4>1, Zenon
      <4> QED BY <1>1, <1>2, <1>3, <4>1, <4>2
    <3> QED BY <3>1, <3>2, Zenon
  <2> QED BY <1>5, <2>4, Zenon DEF x, y, t
<1> QED BY <1>4, <1>5, Zenon

-----------------------------------------------------------------------------
\* A thread has added to metric i and not yet to its minimum and maximum.
Adding(c, i) == c.at = "bounding" /\ c.metric = i

\* The metric found by n counts what the history of n says, and what such a
\* thread has added.
NameExact(n, ms, lg, ch) ==
    LET i == FindIn(ms, n)
    IN  i # 0 =>
          /\ Bounds(ms[i], lg[n])
          /\ (\A t \in Threads : ~ Adding(ch[t], i)) => Counts(ms[i], lg[n], 0, 0)
          /\ \A t \in Threads : Adding(ch[t], i) => Counts(ms[i], lg[n], 1, ch[t].amount)

\* Only the owner of the mutex changes a metric, and the metric it changes is
\* still the one found by its name.
ChangeIsCurrent(t) ==
    change[t] # NoChange =>
        /\ metricsLock = t
        /\ change[t].at \in {"adding", "bounding"} /\ change[t].amount \in Amounts
        /\ change[t].metric \in 1 .. Len(metrics)
        /\ change[t].metric = FindIn(metrics, metrics[change[t].metric].name)

MetricsInv ==
    /\ metrics \in Seq(MetricSet)
    /\ log \in [MetricNames -> Seq(Entries)]
    /\ DOMAIN change = Threads
    /\ \A t \in Threads :
         change[t] = NoChange \/ change[t] = [at |-> change[t].at, metric |-> change[t].metric,
                                              amount |-> change[t].amount]
    /\ \A t \in Threads : ChangeIsCurrent(t)
    /\ \A n \in MetricNames : NameExact(n, metrics, log, change)

\* A new registry.
LEMMA MetricsStart == MetricsInit => MetricsInv
<1> SUFFICES ASSUME MetricsInit PROVE MetricsInv
  BY Zenon
<1>1. <<>> \in Seq(MetricSet) /\ <<>> \in Seq(Entries) /\ Len(<<>>) = 0
  OBVIOUS
<1>2. \A n \in MetricNames : FindIn(metrics, n) = 0
  <2>1. metrics = <<>>
    BY Zenon DEF MetricsInit
  <2>2. \A n : FindIn(<<>>, n) \in 0 .. 0
    BY <1>1, FindFacts, Zenon
  <2> QED BY <2>1, <2>2
<1> QED BY <1>1, <1>2, Zenon DEF MetricsInit, MetricsInv, NameExact, ChangeIsCurrent

\* List t is list s with m in place of its entry i.
Replaced(s, i, m, t) == t = [s EXCEPT ![i] = m]

\* A metric that is changed and keeps its name is still found by it.
LEMMA ChangedInPlace ==
    ASSUME NEW s \in Seq(MetricSet), NEW i \in 1 .. Len(s), NEW m \in MetricSet,
           m.name = s[i].name, NEW t, Replaced(s, i, m, t)
    PROVE  /\ t \in Seq(MetricSet) /\ Len(t) = Len(s)
           /\ t[i] = m /\ \A j \in 1 .. Len(s) : j # i => t[j] = s[j]
           /\ \A j \in 1 .. Len(s) : t[j].name = s[j].name
           /\ \A n : FindIn(t, n) = FindIn(s, n)
<1>1. /\ t \in Seq(MetricSet) /\ Len(t) = Len(s)
      /\ t[i] = m /\ \A j \in 1 .. Len(s) : j # i => t[j] = s[j]
  BY DEF Replaced
<1>2. \A j \in 1 .. Len(s) : t[j].name = s[j].name
  BY <1>1, Zenon
<1>3. \A n : FindIn(t, n) = FindIn(s, n)
  BY <1>1, <1>2, FindSame, Zenon
<1> QED BY <1>1, <1>2, <1>3, Zenon

\* While no thread has the mutex, no thread is changing a metric,
LEMMA NoneChanging ==
    ASSUME MetricsInv, metricsLock \notin Threads
    PROVE  \A t \in Threads : change[t] = NoChange /\ \A i : ~ Adding(change[t], i)
<1>1. \A t \in Threads : change[t] = NoChange
  BY Zenon DEF MetricsInv, ChangeIsCurrent
<1>2. \A i : ~ Adding(NoChange, i)
  BY Zenon DEF Adding, NoChange
<1> QED BY <1>1, <1>2, Zenon

\* and while one is changing a metric, no other thread is.
LEMMA OthersIdle ==
    ASSUME MetricsInv, NEW t \in Threads, change[t] # NoChange
    PROVE  \A u \in Threads : u # t => change[u] = NoChange /\ \A i : ~ Adding(change[u], i)
BY DEF MetricsInv, ChangeIsCurrent, Adding, NoChange

\* grpc_metrics_register keeps the invariant,
LEMMA RegisterStep ==
    ASSUME MetricsInv, NEW n \in MetricNames, Register(n)
    PROVE  MetricsInv'
<1>1. metrics \in Seq(MetricSet) /\ log \in [MetricNames -> Seq(Entries)] /\ Len(metrics) \in Nat
  BY DEF MetricsInv
<1>2. \A t \in Threads : change[t] = NoChange /\ \A i : ~ Adding(change[t], i)
  BY NoneChanging, CommonAssumption, Zenon DEF Register
<1>3. metrics' = Append(metrics, NewMetric(n)) /\ log' = [log EXCEPT ![n] = <<>>]
      /\ change' = change
  BY Zenon DEF Register
<1> DEFINE m == NewMetric(n)
<1>4. m \in MetricSet /\ m.name = n /\ Counts(m, <<>>, 0, 0) /\ Bounds(m, <<>>)
  BY NewCounts, Zenon
<1> HIDE DEF m
<1>5. metrics' = Append(metrics, m)
  BY <1>3, Zenon DEF m
<1>6. metrics' \in Seq(MetricSet) /\ metrics'[Len(metrics) + 1] = m
      /\ \A i \in 1 .. Len(metrics) : metrics'[i] = metrics[i]
  BY <1>1, <1>4, <1>5
<1>7. <<>> \in Seq(Entries)
  OBVIOUS
<1>8. log' \in [MetricNames -> Seq(Entries)] /\ log'[n] = <<>>
      /\ \A k \in MetricNames : k # n => log'[k] = log[k]
  BY <1>1, <1>3, <1>7, Zenon
<1>9. ASSUME NEW k \in MetricNames PROVE NameExact(k, metrics', log', change')
  <2>1. FindIn(metrics', k) = IF n = k THEN Len(metrics) + 1 ELSE FindIn(metrics, k)
    BY <1>1, <1>4, <1>5, FindAppend, Zenon
  <2>2. CASE k = n
    BY <1>2, <1>3, <1>4, <1>6, <1>8, <2>1, <2>2 DEF NameExact
  <2>3. CASE k # n
    <3>1. FindIn(metrics, k) # 0 => FindIn(metrics, k) \in 1 .. Len(metrics)
      BY <1>1, FindFacts, Zenon
    <3>2. NameExact(k, metrics, log, change)
      BY Zenon DEF MetricsInv
    <3> QED BY <1>2, <1>3, <1>6, <1>8, <2>1, <2>3, <3>1, <3>2, Zenon DEF NameExact
  <2> QED BY <2>2, <2>3, Zenon
<1>10. \A t \in Threads : ChangeIsCurrent(t)'
  BY <1>2, <1>3, Zenon DEF ChangeIsCurrent
<1>11. DOMAIN change' = Threads /\ \A t \in Threads : change'[t] = NoChange
  BY <1>2, <1>3, Zenon DEF MetricsInv
<1> QED BY <1>6, <1>8, <1>9, <1>10, <1>11, Zenon DEF MetricsInv

\* and so does the search of grpc_metrics_increment,
LEMMA IncrementStep ==
    ASSUME MetricsInv, NEW t \in Threads, NEW n \in MetricNames, NEW v \in Amounts,
           Increment(t, n, v)
    PROVE  MetricsInv'
<1>1. metrics \in Seq(MetricSet) /\ DOMAIN change = Threads
  BY Zenon DEF MetricsInv
<1>2. \A u \in Threads : change[u] = NoChange /\ \A i : ~ Adding(change[u], i)
  BY NoneChanging, CommonAssumption, Zenon DEF Increment
<1> DEFINE i == FindIn(metrics, n)
           c == [at |-> "adding", metric |-> i, amount |-> v]
<1>3. Find(n) = i
  BY Zenon DEF Find, FindIn
<1>4. i # 0 /\ change' = [change EXCEPT ![t] = c] /\ metricsLock' = t
      /\ metrics' = metrics /\ log' = log
  BY <1>3, Zenon DEF Increment
<1>5. i \in 1 .. Len(metrics) /\ metrics[i].name = n
  BY <1>1, <1>4, FindFacts, Zenon
<1>6. c.at = "adding" /\ c.metric = i /\ c.amount = v /\ c = [at |-> c.at, metric |-> c.metric, amount |-> c.amount]
  BY Zenon
<1> HIDE DEF c
<1>7. DOMAIN change' = Threads /\ change'[t] = c /\ \A u \in Threads : u # t => change'[u] = NoChange
  BY <1>1, <1>2, <1>4, Zenon
<1>8. \A u \in Threads : \A k : ~ Adding(change'[u], k)
  BY <1>6, <1>7 DEF Adding, NoChange
<1>9. ASSUME NEW k \in MetricNames PROVE NameExact(k, metrics', log', change')
  <2>1. NameExact(k, metrics, log, change)
    BY Zenon DEF MetricsInv
  <2> QED BY <1>2, <1>4, <1>8, <2>1, Zenon DEF NameExact
<1>10. \A u \in Threads : ChangeIsCurrent(u)'
  BY <1>4, <1>5, <1>6, <1>7, Zenon DEF ChangeIsCurrent, i
<1>11. \A u \in Threads :
          change'[u] = NoChange \/ change'[u] = [at |-> change'[u].at, metric |-> change'[u].metric,
                                                 amount |-> change'[u].amount]
  BY <1>6, <1>7, Zenon
<1> QED BY <1>4, <1>7, <1>9, <1>10, <1>11 DEF MetricsInv

\* its first half,
LEMMA IncrementAddsStep ==
    ASSUME MetricsInv, NEW t \in Threads, IncrementAdds(t)
    PROVE  MetricsInv'
<1> DEFINE i == change[t].metric
           v == change[t].amount
           n == metrics[i].name
           m == Added(metrics[i], v)
           c == [change[t] EXCEPT !.at = "bounding"]
<1>1. metrics \in Seq(MetricSet) /\ log \in [MetricNames -> Seq(Entries)] /\ DOMAIN change = Threads
  BY Zenon DEF MetricsInv
<1>2. change[t] # NoChange /\ change[t].at = "adding"
  BY DEF IncrementAdds, NoChange
<1>3. metricsLock = t /\ v \in Amounts /\ i \in 1 .. Len(metrics) /\ i = FindIn(metrics, n)
      /\ change[t] = [at |-> "adding", metric |-> i, amount |-> v]
  BY <1>2, Zenon DEF MetricsInv, ChangeIsCurrent
<1>4. \A u \in Threads : u # t => change[u] = NoChange /\ \A k : ~ Adding(change[u], k)
  BY <1>2, OthersIdle, Zenon
<1>5. metrics' = [metrics EXCEPT ![i] = m] /\ log' = log /\ metricsLock' = metricsLock
      /\ change' = [change EXCEPT ![t] = c]
  BY Zenon DEF IncrementAdds
<1>6. c = [at |-> "bounding", metric |-> i, amount |-> v] /\ c.at = "bounding" /\ c.metric = i /\ c.amount = v
  BY <1>3
<1> HIDE DEF c
<1>7. metrics[i] \in MetricSet /\ n \in MetricNames /\ log[n] \in Seq(Entries) /\ i # 0
  <2>1. metrics[i] \in MetricSet
    BY <1>1, <1>3
  <2>2. n \in MetricNames
    BY <2>1, Zenon DEF MetricSet
  <2> QED BY <1>1, <1>3, <2>1, <2>2
<1>8. Counts(metrics[i], log[n], 0, 0) /\ Bounds(metrics[i], log[n])
  <2>1. NameExact(n, metrics, log, change)
    BY <1>7, Zenon DEF MetricsInv
  <2>2. \A u \in Threads : ~ Adding(change[u], i)
    BY <1>2, <1>4, Zenon DEF Adding
  <2> HIDE DEF n, i
  <2> QED BY <1>3, <1>7, <2>1, <2>2, Zenon DEF NameExact
<1>9. m \in MetricSet /\ m.name = n /\ Counts(m, log[n], 1, v) /\ Bounds(m, log[n])
  BY <1>3, <1>7, <1>8, AddedCounts
<1> HIDE DEF m, n, v, i
<1>10. /\ metrics' \in Seq(MetricSet) /\ Len(metrics') = Len(metrics)
       /\ metrics'[i] = m /\ \A j \in 1 .. Len(metrics) : j # i => metrics'[j] = metrics[j]
       /\ \A j \in 1 .. Len(metrics) : metrics'[j].name = metrics[j].name
       /\ \A k : FindIn(metrics', k) = FindIn(metrics, k)
  <2>1. metrics \in Seq(MetricSet) /\ i \in 1 .. Len(metrics) /\ m \in MetricSet
        /\ m.name = metrics[i].name /\ Replaced(metrics, i, m, metrics')
    BY <1>1, <1>3, <1>5, <1>9, Zenon DEF n, Replaced
  <2> QED BY ONLY <2>1, ChangedInPlace
<1>11. DOMAIN change' = Threads /\ change'[t] = c /\ \A u \in Threads : u # t => change'[u] = change[u]
  BY <1>1, <1>5, Zenon
<1>12. ASSUME NEW k \in MetricNames PROVE NameExact(k, metrics', log', change')
  <2>1. NameExact(k, metrics, log, change)
    BY Zenon DEF MetricsInv
  <2> DEFINE j == FindIn(metrics, k)
  <2>2. j # 0 => j \in 1 .. Len(metrics) /\ metrics[j].name = k
    BY <1>1, FindFacts, Zenon
  <2>3. CASE k = n
    <3>1. j = i
      BY <1>3, <2>3, Zenon
    <3>2. \A u \in Threads : Adding(change'[u], i) <=> u = t
      BY <1>4, <1>6, <1>11, Zenon DEF Adding
    <3>3. FindIn(metrics', k) = i /\ metrics'[i] = m /\ log'[k] = log[n] /\ change'[t].amount = v
      BY <1>5, <1>6, <1>10, <1>11, <2>3, <3>1
    <3>4. ~ \A u \in Threads : ~ Adding(change'[u], i)
      BY <3>2, Zenon
    <3> QED BY <1>9, <3>2, <3>3, <3>4, Zenon DEF NameExact
  <2>4. CASE k # n
    <3>1. j # 0 => j # i
      BY <2>2, <2>4, Zenon DEF n
    <3>2. \A u \in Threads : j # 0 => ~ Adding(change[u], j) /\ ~ Adding(change'[u], j)
      BY <1>2, <1>4, <1>6, <1>11, <3>1 DEF Adding
    <3> HIDE DEF j
    <3> QED BY <1>5, <1>10, <2>1, <2>2, <3>1, <3>2 DEF NameExact, j
  <2> QED BY <2>3, <2>4, Zenon
<1>13. \A u \in Threads : ChangeIsCurrent(u)'
  <2>1. metrics'[i].name = n
    BY <1>9, <1>10, Zenon
  <2>2. i = FindIn(metrics', n)
    BY <1>3, <1>10, Zenon
  <2> QED BY <1>3, <1>4, <1>5, <1>6, <1>10, <1>11, <2>1, <2>2 DEF ChangeIsCurrent
<1>14. \A u \in Threads :
          change'[u] = NoChange \/ change'[u] = [at |-> change'[u].at, metric |-> change'[u].metric,
                                                 amount |-> change'[u].amount]
  BY <1>4, <1>6, <1>11, Zenon
<1>15. log' \in [MetricNames -> Seq(Entries)]
  BY <1>1, <1>5, Zenon
<1> QED BY <1>10, <1>11, <1>12, <1>13, <1>14, <1>15, Zenon DEF MetricsInv

\* and its second half;
LEMMA IncrementReturnsStep ==
    ASSUME MetricsInv, NEW t \in Threads, IncrementReturns(t)
    PROVE  MetricsInv'
<1> DEFINE i == change[t].metric
           v == change[t].amount
           n == metrics[i].name
           m == Bounded(metrics[i], v)
           s == Append(log[n], <<"add", v>>)
<1>1. metrics \in Seq(MetricSet) /\ log \in [MetricNames -> Seq(Entries)] /\ DOMAIN change = Threads
  BY DEF MetricsInv
<1>2. change[t] # NoChange /\ change[t].at = "bounding"
  <2>1. change[t].at = "bounding"
    BY Zenon DEF IncrementReturns
  <2>2. NoChange.at = "idle"
    BY Zenon DEF NoChange
  <2> HIDE DEF NoChange
  <2>3. "bounding" # "idle"
    BY Zenon
  <2> QED BY ONLY <2>1, <2>2, <2>3, Zenon
<1>3. v \in Amounts /\ i \in 1 .. Len(metrics) /\ i = FindIn(metrics, n)
  BY <1>2, Zenon DEF MetricsInv, ChangeIsCurrent
<1>4. \A u \in Threads : u # t => change[u] = NoChange /\ \A k : ~ Adding(change[u], k)
  BY <1>2, OthersIdle, Zenon
<1>5. metrics' = [metrics EXCEPT ![i] = m] /\ log' = [log EXCEPT ![n] = s]
      /\ change' = [change EXCEPT ![t] = NoChange]
  BY Zenon DEF IncrementReturns
<1>6. metrics[i] \in MetricSet /\ n \in MetricNames /\ log[n] \in Seq(Entries) /\ i # 0
  <2>1. metrics[i] \in MetricSet
    BY <1>1, <1>3
  <2>2. n \in MetricNames
    BY <2>1 DEF MetricSet
  <2> QED BY <1>1, <1>3, <2>1, <2>2
<1>7. Counts(metrics[i], log[n], 1, v) /\ Bounds(metrics[i], log[n])
  <2>1. NameExact(n, metrics, log, change)
    BY <1>6 DEF MetricsInv
  <2>2. Adding(change[t], i)
    BY <1>2, Zenon DEF Adding
  <2> HIDE DEF n, i
  <2> QED BY <1>3, <1>6, <2>1, <2>2, Zenon DEF NameExact
<1>8. m \in MetricSet /\ m.name = n /\ s \in Seq(Entries) /\ Counts(m, s, 0, 0) /\ Bounds(m, s)
  BY <1>3, <1>6, <1>7, BoundedCounts, Zenon
<1> HIDE DEF m, n, v, i, s
<1>9. /\ metrics' \in Seq(MetricSet) /\ Len(metrics') = Len(metrics)
      /\ metrics'[i] = m /\ \A j \in 1 .. Len(metrics) : j # i => metrics'[j] = metrics[j]
      /\ \A k : FindIn(metrics', k) = FindIn(metrics, k)
  <2>1. metrics \in Seq(MetricSet) /\ i \in 1 .. Len(metrics) /\ m \in MetricSet
        /\ m.name = metrics[i].name /\ Replaced(metrics, i, m, metrics')
    BY <1>1, <1>3, <1>5, <1>8, Zenon DEF n, Replaced
  <2> QED BY ONLY <2>1, ChangedInPlace
<1>10. DOMAIN change' = Threads /\ \A u \in Threads : change'[u] = NoChange
  BY <1>1, <1>4, <1>5, Zenon
<1>11. \A u \in Threads : \A k : ~ Adding(change'[u], k)
  <2>1. \A k : ~ Adding(NoChange, k)
    BY Zenon DEF Adding, NoChange
  <2> QED BY <1>10, <2>1, Zenon
<1>12. log' \in [MetricNames -> Seq(Entries)] /\ log'[n] = s
       /\ \A k \in MetricNames : k # n => log'[k] = log[k]
  BY <1>1, <1>5, <1>6, <1>8
<1>13. ASSUME NEW k \in MetricNames PROVE NameExact(k, metrics', log', change')
  <2>1. NameExact(k, metrics, log, change)
    BY DEF MetricsInv
  <2> DEFINE j == FindIn(metrics, k)
  <2>2. j # 0 => j \in 1 .. Len(metrics) /\ metrics[j].name = k
    BY <1>1, FindFacts
  <2>3. CASE k = n
    <3>1. j = i
      BY <1>3, <2>3, Zenon
    <3> HIDE DEF j
    <3> QED BY <1>8, <1>9, <1>11, <1>12, <2>3, <3>1, Zenon DEF NameExact, j
  <2>4. CASE k # n
    <3>1. j # 0 => j # i
      BY <2>2, <2>4 DEF n
    <3>2. \A u \in Threads : j # 0 => ~ Adding(change[u], j)
      BY <1>4, <3>1, Zenon DEF Adding, i
    <3> HIDE DEF j
    <3> QED BY <1>9, <1>11, <1>12, <2>1, <2>2, <2>4, <3>1, <3>2 DEF NameExact, j
  <2> QED BY <2>3, <2>4
<1>14. \A u \in Threads : ChangeIsCurrent(u)'
  BY <1>10, Zenon DEF ChangeIsCurrent
<1> QED BY <1>9, <1>10, <1>12, <1>13, <1>14, Zenon DEF MetricsInv

\* so does grpc_metrics_set,
LEMMA SetStep ==
    ASSUME MetricsInv, NEW n \in MetricNames, NEW v \in Amounts, Set(n, v)
    PROVE  MetricsInv'
<1> DEFINE i == FindIn(metrics, n)
           m == [metrics[i] EXCEPT !.value = v]
           s == Append(log[n], <<"set", v>>)
<1>1. metrics \in Seq(MetricSet) /\ log \in [MetricNames -> Seq(Entries)] /\ DOMAIN change = Threads
  BY Zenon DEF MetricsInv
<1>2. \A u \in Threads : change[u] = NoChange /\ \A k : ~ Adding(change[u], k)
  BY NoneChanging, CommonAssumption, Zenon DEF Set
<1>3. Find(n) = i
  BY Zenon DEF Find, FindIn
<1>4. i # 0 /\ metrics' = [metrics EXCEPT ![i] = m] /\ log' = [log EXCEPT ![n] = s] /\ change' = change
  BY <1>3, Zenon DEF Set
<1>5. i \in 1 .. Len(metrics) /\ metrics[i].name = n
  BY <1>1, <1>4, FindFacts, Zenon
<1>6. metrics[i] \in MetricSet /\ log[n] \in Seq(Entries)
  BY <1>1, <1>5
<1>7. Counts(metrics[i], log[n], 0, 0) /\ Bounds(metrics[i], log[n])
  <2>1. NameExact(n, metrics, log, change)
    BY Zenon DEF MetricsInv
  <2> QED BY <1>2, <1>4, <2>1, Zenon DEF NameExact
<1>8. m \in MetricSet /\ m.name = n /\ s \in Seq(Entries) /\ Counts(m, s, 0, 0) /\ Bounds(m, s)
  <2> HIDE DEF i
  <2> QED BY <1>5, <1>6, <1>7, SetCounts, Zenon
<1> HIDE DEF m, s
<1>9. /\ metrics' \in Seq(MetricSet) /\ Len(metrics') = Len(metrics)
      /\ metrics'[i] = m /\ \A j \in 1 .. Len(metrics) : j # i => metrics'[j] = metrics[j]
      /\ \A k : FindIn(metrics', k) = FindIn(metrics, k)
  <2>1. metrics \in Seq(MetricSet) /\ i \in 1 .. Len(metrics) /\ m \in MetricSet
        /\ m.name = metrics[i].name /\ Replaced(metrics, i, m, metrics')
    BY <1>1, <1>4, <1>5, <1>8, Zenon DEF Replaced
  <2> HIDE DEF i
  <2> QED BY ONLY <2>1, ChangedInPlace
<1>10. log' \in [MetricNames -> Seq(Entries)] /\ log'[n] = s
       /\ \A k \in MetricNames : k # n => log'[k] = log[k]
  BY <1>1, <1>4, <1>8, Zenon
<1>11. ASSUME NEW k \in MetricNames PROVE NameExact(k, metrics', log', change')
  <2>1. NameExact(k, metrics, log, change)
    BY Zenon DEF MetricsInv
  <2> DEFINE j == FindIn(metrics, k)
  <2>2. j # 0 => j \in 1 .. Len(metrics) /\ metrics[j].name = k
    BY <1>1, FindFacts, Zenon
  <2>3. CASE k = n
    BY <1>2, <1>4, <1>8, <1>9, <1>10, <2>3, Zenon DEF NameExact
  <2>4. CASE k # n
    <3>1. j # 0 => j # i
      BY <1>5, <2>2, <2>4, Zenon
    <3> HIDE DEF i
    <3> QED BY <1>2, <1>4, <1>9, <1>10, <2>1, <2>2, <2>4, <3>1 DEF NameExact
  <2> QED BY <2>3, <2>4, Zenon
<1>12. \A u \in Threads : ChangeIsCurrent(u)'
  BY <1>2, <1>4, Zenon DEF ChangeIsCurrent
<1>13. DOMAIN change' = Threads /\ \A u \in Threads : change'[u] = NoChange
  BY <1>1, <1>2, <1>4, Zenon
<1> QED BY <1>9, <1>10, <1>11, <1>12, <1>13, Zenon DEF MetricsInv

\* and destroying the registry.
LEMMA DestroyMetricsStep ==
    ASSUME MetricsInv, DestroyMetrics
    PROVE  MetricsInv'
<1>1. <<>> \in Seq(MetricSet) /\ <<>> \in Seq(Entries) /\ Len(<<>>) = 0
  OBVIOUS
<1>2. metrics' = <<>> /\ log' = [n \in MetricNames |-> <<>>] /\ change' = change
      /\ \A t \in Threads : change[t] = NoChange
  BY Zenon DEF DestroyMetrics
<1>3. \A n \in MetricNames : FindIn(metrics', n) = 0
  <2>1. \A n : FindIn(<<>>, n) \in 0 .. 0
    BY <1>1, FindFacts, Zenon
  <2> QED BY <1>2, <2>1
<1>4. \A n \in MetricNames : NameExact(n, metrics', log', change')
  BY <1>3, Zenon DEF NameExact
<1>5. \A t \in Threads : ChangeIsCurrent(t)'
  BY <1>2, Zenon DEF ChangeIsCurrent
<1>6. DOMAIN change' = Threads /\ \A t \in Threads : change'[t] = NoChange
  BY <1>2, Zenon DEF MetricsInv
<1> QED BY <1>1, <1>2, <1>4, <1>5, <1>6, Zenon DEF MetricsInv

\* Whenever the mutex is free, the metric found by a name has the count, sum,
\* minimum, maximum and value of what was done to it, for any number of
\* threads, metrics, registrations of the same name and changes.
THEOREM StatisticsCorrect == MetricsSpec => []StatisticsExact
<1>1. MetricsInv /\ [MetricsNext]_metricsVars => MetricsInv'
  <2> SUFFICES ASSUME MetricsInv, [MetricsNext]_metricsVars PROVE MetricsInv'
    OBVIOUS
  <2>1. CASE UNCHANGED metricsVars
    BY <2>1, Zenon DEF metricsVars, MetricsInv, ChangeIsCurrent
  <2>2. CASE MetricsNext
    BY <2>2, RegisterStep, IncrementStep, IncrementAddsStep, IncrementReturnsStep, SetStep,
       DestroyMetricsStep, Zenon DEF MetricsNext
  <2> QED BY <2>1, <2>2, Zenon
<1>2. MetricsInv => StatisticsExact
  <2> SUFFICES ASSUME MetricsInv, metricsLock = NULL, NEW n \in MetricNames, Find(n) # 0
               PROVE  LET m == metrics[Find(n)]
                          adds == Additions(log[n])
                          amounts == {e[2] : e \in Elements(adds)}
                      IN  /\ m.count = Len(adds)
                          /\ m.sum = Total(adds)
                          /\ m.value = Total(log[n])
                          /\ amounts # {} =>
                               /\ m.min \in amounts /\ \A v \in amounts : m.min <= v
                               /\ m.max \in amounts /\ \A v \in amounts : m.max >= v
    BY Zenon DEF StatisticsExact
  <2> DEFINE i == FindIn(metrics, n)
             m == metrics[i]
             adds == Additions(log[n])
  <2>1. Find(n) = i
    BY Zenon DEF Find, FindIn
  <2>2. \A u \in Threads : ~ Adding(change[u], i)
    BY NoneChanging, CommonAssumption, Zenon
  <2>3. NameExact(n, metrics, log, change)
    BY Zenon DEF MetricsInv
  <2>4. Counts(m, log[n], 0, 0) /\ Bounds(m, log[n])
    BY <2>1, <2>2, <2>3, Zenon DEF NameExact
  <2>5. log[n] \in Seq(Entries)
    BY Zenon DEF MetricsInv
  <2>6. Len(adds) \in Nat /\ Total(adds) \in Int /\ Total(log[n]) \in Int
    <3>1. CASE Amounts = {}
      <4>1. Entries = {}
        BY <3>1, Zenon DEF Entries
      <4>2. log[n] = <<>>
        BY <2>5, <4>1
      <4> QED BY <4>2, AdditionsEmpty, TotalEmpty
    <3>2. ASSUME NEW v \in Amounts PROVE Len(adds) \in Nat /\ Total(adds) \in Int /\ Total(log[n]) \in Int
      <4> DEFINE e == <<"set", v>>
      <4>1. e \in Entries
        BY Zenon DEF Entries
      <4> HIDE DEF e
      <4>2. adds \in Seq(Entries) /\ Total(log[n]) \in Int
        BY <2>5, <4>1, AdditionsAppend, TotalAppend, Zenon
      <4> HIDE DEF adds
      <4> QED BY <4>1, <4>2, TotalAppend
    <3> QED BY <3>1, <3>2, Zenon
  <2> HIDE DEF i
  <2>7. m.count = Len(adds) /\ m.sum = Total(adds) /\ m.value = Total(log[n])
    BY <2>4, <2>6 DEF Counts
  <2> QED BY <2>1, <2>4, <2>7, Zenon DEF Bounds, Summands
<1> QED BY <1>1, <1>2, MetricsStart, PTL DEF MetricsSpec
=============================================================================
