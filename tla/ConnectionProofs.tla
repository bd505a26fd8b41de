-------------------------- MODULE ConnectionProofs --------------------------
(***************************************************************************)
(* Proofs about connections: the pool in which a client keeps them, both   *)
(* halves of the flow control of their streams, and TLS on them; for any   *)
(* number of threads, connections and streams, any window size, any width  *)
(* of the integers, and any lengths and increments.                        *)
(***************************************************************************)
EXTENDS ConnectionPool, SendWindow, RecvWindow, Tls, Induction

\* The state the invariants depend on.
PoolTypeOK ==
    /\ connections \in Seq(Conns)
    /\ state \in [Conns -> {"unused", "pooled", "freed"}]
    /\ target \in [Conns -> Targets \cup {NULL}]
    /\ active \in [Conns -> Nat]
    /\ healthy \in [Conns -> BOOLEAN]
    /\ count \in Nat
    /\ held \in [Users -> Conns \cup {NULL}]
    /\ destroyer \in {"no", "joining", "joined", "undefined", "done"}

\* What makes HeldIsSafe and PoolBounded inductive: no open connection has
\* been dropped from the list, so that a search of the list misses none, and
\* nothing is held once grpc_connection_pool_destroy has been called.
PoolInv ==
    /\ PoolTypeOK
    /\ \A n \in Pooled : InList(n)
    /\ destroyer # "no" => \A u \in Users : held[u] = NULL
    /\ HeldIsSafe
    /\ PoolBounded

\* The users of a connection.
Holders(n) == {u \in Users : held[u] = n}

-----------------------------------------------------------------------------
\* The sets that the counters of the pool count are finite.
LEMMA Finite ==
    /\ \A n : IsFiniteSet({u \in Users : held[u] = n})
    /\ IsFiniteSet(Pooled)
<1>1. \A n : {u \in Users : held[u] = n} \subseteq Users
  BY Zenon
<1>2. Pooled \subseteq Conns
  BY Zenon DEF Pooled
<1> QED BY <1>1, <1>2, PoolAssumption, FS_Subset, Zenon

\* A connection with no active call has no user.
LEMMA IdleIsFree ==
    ASSUME PoolInv, NEW n \in Pooled, active[n] = 0
    PROVE  \A u \in Users : held[u] # n
<1>1. Cardinality(Holders(n)) = 0 /\ IsFiniteSet(Holders(n))
  BY Finite, Zenon DEF PoolInv, HeldIsSafe, Holders
<1>2. Holders(n) = {}
  BY <1>1, FS_EmptySet, Zenon
<1> QED BY <1>2, Zenon DEF Holders

\* The holders of a connection after u got m.
LEMMA Got ==
    ASSUME PoolInv, NEW u \in Users, NEW m \in Conns, held[u] = NULL,
           held' = [held EXCEPT ![u] = m]
    PROVE  /\ Cardinality(Holders(m)') = Cardinality(Holders(m)) + 1
           /\ \A n \in Conns \ {m} : Holders(n)' = Holders(n)
<1>1. held \in [Users -> Conns \cup {NULL}] /\ NULL \notin Conns
  BY PoolAssumption, Zenon DEF PoolInv, PoolTypeOK
<1>2. Holders(m)' = Holders(m) \cup {u} /\ u \notin Holders(m)
  BY <1>1, Zenon DEF Holders
<1>3. IsFiniteSet(Holders(m))
  BY Finite, Zenon DEF Holders
<1>4. \A n \in Conns \ {m} : Holders(n)' = Holders(n)
  BY <1>1, Zenon DEF Holders
<1> QED BY <1>2, <1>3, <1>4, FS_AddElement

\* The holders of a connection after u returned m.
LEMMA GaveBack ==
    ASSUME PoolInv, NEW u \in Users, NEW m \in Conns, held[u] = m,
           held' = [held EXCEPT ![u] = NULL]
    PROVE  /\ Cardinality(Holders(m)') = Cardinality(Holders(m)) - 1
           /\ \A n \in Conns \ {m} : Holders(n)' = Holders(n)
<1>1. held \in [Users -> Conns \cup {NULL}] /\ NULL \notin Conns
  BY PoolAssumption, Zenon DEF PoolInv, PoolTypeOK
<1>2. Holders(m)' = Holders(m) \ {u} /\ u \in Holders(m)
  BY <1>1, Zenon DEF Holders
<1>3. IsFiniteSet(Holders(m))
  BY Finite, Zenon DEF Holders
<1>4. \A n \in Conns \ {m} : Holders(n)' = Holders(n)
  BY <1>1, Zenon DEF Holders
<1> QED BY <1>2, <1>3, <1>4, FS_RemoveElement, Zenon

-----------------------------------------------------------------------------
\* A new connection n for u, linked by grpc_connection_pool_get after it has
\* freed the idle connections in out (the oldest one, or none).
Linked(u, t, n, out) ==
    /\ held[u] = NULL
    /\ NoReusable(t)
    /\ LinkConn(u, t, n)
    /\ \A m \in out : active[m] = 0
    /\ state' = [m \in Conns |-> IF m = n THEN "pooled"
                                 ELSE IF m \in out THEN "freed" ELSE state[m]]
    /\ count' = Cardinality(Pooled \ out) + 1
    /\ count' <= MaxConnections
    /\ destroyer = "no" /\ destroyer' = "no"

\* Linking a new node, after evicting those of out, keeps the invariant of
\* the pool.
LEMMA LinkStep ==
    ASSUME PoolInv, NEW u \in Users, NEW t \in Targets, NEW n \in Conns,
           NEW out \in SUBSET Pooled, Linked(u, t, n, out)
    PROVE  PoolInv'
<1> USE PoolAssumption DEF Linked
<1>1. PoolTypeOK /\ (\A m \in Pooled : InList(m)) /\ n \notin Pooled
  BY Zenon DEF PoolInv, LinkConn, Pooled
<1>2. Pooled' = (Pooled \ out) \cup {n}
  BY <1>1 DEF Pooled, PoolTypeOK
<1>3. /\ connections' \in Seq(Conns)
      /\ Elements(connections') = Elements(connections) \cup {n}
  BY <1>1, ElementsCons DEF LinkConn, PoolTypeOK
<1>4. IsFiniteSet(Pooled \ out) /\ Cardinality(Pooled') = Cardinality(Pooled \ out) + 1
  <2>1. IsFiniteSet(Pooled \ out) /\ n \notin Pooled \ out
    BY <1>1, Finite, FS_Difference, Zenon
  <2> QED BY <1>2, <2>1, FS_AddElement, Zenon
<1>5. \A m \in Pooled' : InList(m)'
  BY <1>1, <1>2, <1>3, Zenon DEF InList
<1>6. PoolTypeOK'
  <2>1. count' \in Nat
    BY <1>4, FS_CardinalityType
  <2>2. state' \in [Conns -> {"unused", "pooled", "freed"}]
    BY <1>1, Zenon DEF PoolTypeOK
  <2> QED BY <1>1, <1>3, <2>1, <2>2, Zenon DEF PoolTypeOK, LinkConn
<1>7. /\ held \in [Users -> Conns \cup {NULL}]
      /\ held' = [held EXCEPT ![u] = n]
      /\ \A v \in Users : held[v] # NULL => state[held[v]] = "pooled" /\ healthy[held[v]]
      /\ \A v \in Users : held[v] # n
  BY <1>1 DEF PoolInv, PoolTypeOK, HeldIsSafe, LinkConn, Pooled
<1>8. ASSUME NEW v \in Users, held'[v] # NULL
      PROVE  state'[held'[v]] = "pooled" /\ healthy'[held'[v]]
  <2>1. CASE v = u
    BY <1>1, <1>7, <2>1 DEF LinkConn, PoolTypeOK
  <2>2. CASE v # u
    <3>1. held'[v] = held[v] /\ held[v] \in Pooled /\ held[v] # n
      BY <1>7, <1>8, <2>2, Zenon DEF Pooled
    <3>2. held[v] \notin out
      BY <3>1, IdleIsFree, Zenon
    <3> QED BY <1>1, <1>7, <3>1, <3>2, Zenon DEF LinkConn, PoolTypeOK, Pooled
  <2> QED BY <2>1, <2>2, Zenon
<1>9. ASSUME NEW m \in Pooled'
      PROVE  active'[m] = Cardinality(Holders(m)')
  <2>1. Cardinality(Holders(n)') = Cardinality(Holders(n)) + 1
        /\ \A k \in Conns \ {n} : Holders(k)' = Holders(k)
    BY <1>7, Got, Zenon
  <2>2. CASE m = n
    <3>1. Holders(n) = {}
      BY <1>7, Zenon DEF Holders
    <3>2. Cardinality(Holders(n)) = 0
      BY <3>1, FS_EmptySet, Zenon
    <3> QED BY <1>1, <2>1, <2>2, <3>2 DEF LinkConn, PoolTypeOK
  <2>3. CASE m # n
    <3>1. m \in Pooled /\ m \in Conns
      BY <1>2, <2>3, Zenon DEF Pooled
    <3>2. active[m] = Cardinality(Holders(m)) /\ active'[m] = active[m]
      BY <1>1, <2>3, <3>1 DEF PoolInv, HeldIsSafe, Holders, LinkConn, PoolTypeOK
    <3> QED BY <2>1, <2>3, <3>1, <3>2, Zenon
  <2> QED BY <2>2, <2>3, Zenon
<1>10. ASSUME NEW m \in Pooled', NEW k \in Pooled',
              healthy'[m], healthy'[k], target'[m] = target'[k]
       PROVE  m = k
  <2>1. \A j \in Pooled' \ {n} : /\ j \in Pooled /\ j \in Conns
                                 /\ healthy'[j] = healthy[j] /\ target'[j] = target[j]
    BY <1>1, <1>2 DEF LinkConn, Pooled, PoolTypeOK
  <2>2. target'[n] = t
    BY <1>1, Zenon DEF LinkConn, PoolTypeOK
  <2>3. \A j \in Pooled : ~(healthy[j] /\ target[j] = t)
    BY <1>1, Zenon DEF NoReusable, Reusable
  <2>4. \A i, j \in Pooled : healthy[i] /\ healthy[j] /\ target[i] = target[j] => i = j
    BY Zenon DEF PoolInv, PoolBounded
  <2> QED BY <1>10, <2>1, <2>2, <2>3, <2>4
<1>11. HeldIsSafe'
  BY <1>8, <1>9, Zenon DEF HeldIsSafe, Holders
<1>12. PoolBounded'
  BY <1>4, <1>10, Zenon DEF PoolBounded
<1> QED BY <1>5, <1>6, <1>11, <1>12, Zenon DEF PoolInv

\* PoolInv depends on these variables only.
LEMMA PoolStutter ==
    ASSUME PoolInv, UNCHANGED <<connections, state, target, active, healthy, count, held>>,
           destroyer' = destroyer \/ (\A u \in Users : held[u] = NULL),
           destroyer' \in {"no", "joining", "joined", "undefined", "done"}
    PROVE  PoolInv'
BY DEF PoolInv, PoolTypeOK, HeldIsSafe, PoolBounded, Pooled, InList

\* PoolInv is inductive.
LEMMA PoolStep == PoolInv /\ [PoolNext]_poolVars => PoolInv'
<1> SUFFICES ASSUME PoolInv, [PoolNext]_poolVars PROVE PoolInv'
  BY Zenon
<1> USE PoolAssumption
<1>a. PoolTypeOK /\ (\A n \in Pooled : InList(n) /\ n \in Conns)
  BY Zenon DEF PoolInv, Pooled
<1>b. \A n \in Pooled : active[n] = Cardinality(Holders(n))
  BY Zenon DEF PoolInv, HeldIsSafe, Holders
<1>c. \A u \in Users : held[u] # NULL => held[u] \in Pooled /\ healthy[held[u]]
  BY <1>a, Zenon DEF PoolInv, HeldIsSafe, Pooled, PoolTypeOK
<1>d. count = Cardinality(Pooled) /\ count \in Nat /\ count <= MaxConnections
  BY <1>a, Zenon DEF PoolInv, PoolBounded, PoolTypeOK
<1>1. ASSUME NEW u \in Users, NEW t \in Targets, GetReuse(u, t) PROVE PoolInv'
  <2>1. PICK n \in Pooled : /\ FirstReusable(n, t)
                           /\ active' = [active EXCEPT ![n] = @ + 1]
                           /\ held' = [held EXCEPT ![u] = n]
    BY <1>1, Zenon DEF GetReuse
  <2>2. n \in Conns /\ healthy[n] /\ held[u] = NULL
    BY <1>a, <1>1, <2>1, Zenon DEF FirstReusable, Reusable, GetReuse
  <2>3. UNCHANGED <<connections, state, target, healthy, count, destroyer>> /\ destroyer = "no"
    BY <1>1, Zenon DEF GetReuse, poolThreads, Usable
  <2>4. Cardinality(Holders(n)') = Cardinality(Holders(n)) + 1
        /\ \A k \in Conns \ {n} : Holders(k)' = Holders(k)
    BY <2>1, <2>2, Got, Zenon
  <2>5. Pooled' = Pooled
    BY <2>3, Zenon DEF Pooled
  <2>6. \A k \in Pooled : active'[k] = Cardinality(Holders(k)')
    BY <1>a, <1>b, <2>1, <2>2, <2>4, Zenon DEF PoolTypeOK
  <2>7. \A v \in Users : held'[v] # NULL => held'[v] \in Pooled /\ healthy[held'[v]]
    BY <1>a, <1>c, <2>1, <2>2, Zenon DEF PoolTypeOK
  <2>8. HeldIsSafe'
    BY <2>3, <2>5, <2>6, <2>7, Zenon DEF HeldIsSafe, Holders, Pooled
  <2>9. PoolBounded'
    BY <2>3, <2>5, Zenon DEF PoolInv, PoolBounded
  <2>10. PoolTypeOK'
    BY <1>a, <2>1, <2>2, <2>3 DEF PoolTypeOK
  <2> QED BY <1>a, <2>3, <2>5, <2>8, <2>9, <2>10, Zenon DEF PoolInv, InList
<1>2. ASSUME NEW u \in Users, NEW t \in Targets, GetCreate(u, t) PROVE PoolInv'
  <2>1. PICK n \in Conns : LinkConn(u, t, n) /\ state' = [state EXCEPT ![n] = "pooled"]
    BY <1>2, Zenon DEF GetCreate
  <2>2. /\ held[u] = NULL /\ NoReusable(t) /\ destroyer = "no" /\ destroyer' = "no"
        /\ count' = count + 1 /\ count < MaxConnections
    BY <1>2, Zenon DEF GetCreate, Usable, Room, poolThreads
  <2> DEFINE out == {}
  <2>3. Pooled \ out = Pooled
    BY Zenon
  <2>4. state' = [m \in Conns |-> IF m = n THEN "pooled" ELSE IF m \in out THEN "freed" ELSE state[m]]
    BY <1>a, <2>1, Zenon DEF PoolTypeOK
  <2>5. count' = Cardinality(Pooled \ out) + 1 /\ count' <= MaxConnections
    BY <1>d, <2>2, <2>3
  <2>6. out \in SUBSET Pooled /\ \A m \in out : active[m] = 0
    BY Zenon
  <2> HIDE DEF out
  <2>7. Linked(u, t, n, out)
    BY <2>1, <2>2, <2>4, <2>5, <2>6, Zenon DEF Linked
  <2> QED BY <2>6, <2>7, LinkStep, Zenon
<1>3. ASSUME NEW u \in Users, NEW t \in Targets, GetEvict(u, t) PROVE PoolInv'
  <2>1. /\ held[u] = NULL /\ NoReusable(t) /\ destroyer = "no" /\ destroyer' = "no"
    BY <1>3, Zenon DEF GetEvict, Usable, poolThreads
  <2>2. PICK old \in Pooled :
          /\ Oldest(old)
          /\ \/ \E n \in Conns :
                  /\ LinkConn(u, t, n)
                  /\ state' = [state EXCEPT ![old] = "freed", ![n] = "pooled"]
                  /\ count' = (count - 1) + 1
             \/ /\ state' = [state EXCEPT ![old] = "freed"]
                /\ count' = count - 1
                /\ UNCHANGED <<connections, target, lastUsed, active, healthy, held>>
    BY <1>3, Zenon DEF GetEvict
  <2>3. active[old] = 0 /\ old \in Conns /\ state[old] = "pooled"
    BY <1>a, <2>2, Zenon DEF Oldest, Pooled
  <2>4. Cardinality(Pooled \ {old}) = count - 1 /\ IsFiniteSet(Pooled \ {old})
    BY <1>d, Finite, FS_RemoveElement, Zenon
  <2>5. ASSUME NEW n \in Conns, LinkConn(u, t, n), count' = (count - 1) + 1,
               state' = [state EXCEPT ![old] = "freed", ![n] = "pooled"]
        PROVE  PoolInv'
    <3> DEFINE out == {old}
    <3>1. state' = [m \in Conns |-> IF m = n THEN "pooled" ELSE IF m \in out THEN "freed" ELSE state[m]]
      BY <1>a, <2>3, <2>5, Zenon DEF PoolTypeOK
    <3>2. count' = Cardinality(Pooled \ out) + 1 /\ count' <= MaxConnections
      BY <1>d, <2>4, <2>5
    <3>3. out \in SUBSET Pooled /\ \A m \in out : active[m] = 0
      BY <2>3, Zenon
    <3> HIDE DEF out
    <3>4. Linked(u, t, n, out)
      BY <2>1, <2>5, <3>1, <3>2, <3>3, Zenon DEF Linked
    <3> QED BY <3>3, <3>4, LinkStep, Zenon
  <2>6. ASSUME state' = [state EXCEPT ![old] = "freed"], count' = count - 1,
               UNCHANGED <<connections, target, lastUsed, active, healthy, held>>
        PROVE  PoolInv'
    <3>1. Pooled' = Pooled \ {old}
      BY <1>a, <2>3, <2>6, Zenon DEF Pooled, PoolTypeOK
    <3>2. \A v \in Users : held[v] # old
      BY <2>3, IdleIsFree, Zenon
    <3>3. count' \in Nat
      BY <2>4, <2>6, FS_CardinalityType, Zenon
    <3>4. PoolTypeOK'
      BY <1>a, <2>1, <2>6, <3>3, Zenon DEF PoolTypeOK
    <3>5. HeldIsSafe'
      BY <1>a, <1>b, <1>c, <2>6, <3>1, <3>2 DEF HeldIsSafe, Holders, Pooled, PoolTypeOK
    <3>6. PoolBounded'
      BY <1>d, <2>4, <2>6, <3>1 DEF PoolInv, PoolBounded
    <3> QED BY <1>a, <2>1, <2>6, <3>1, <3>4, <3>5, <3>6, Zenon DEF PoolInv, InList
  <2> QED BY <2>2, <2>5, <2>6, Zenon
<1>4. ASSUME NEW u \in Users, ReturnConn(u) PROVE PoolInv'
  <2>0. PICK m \in Conns : m = held[u]
    BY <1>a, <1>c, <1>4, Zenon DEF ReturnConn
  <2>1. m \in Pooled /\ held' = [held EXCEPT ![u] = NULL]
    BY <1>c, <1>4, <2>0, Zenon DEF ReturnConn
  <2>2. UNCHANGED <<connections, state, target, healthy, count, destroyer>> /\ destroyer = "no"
    BY <1>4, Zenon DEF ReturnConn, poolThreads, Usable
  <2>3. Cardinality(Holders(m)') = Cardinality(Holders(m)) - 1
        /\ \A k \in Conns \ {m} : Holders(k)' = Holders(k)
    BY <2>0, <2>1, GaveBack, Zenon
  <2>4. active[m] > 0
    <3>1. active[m] \in Nat
      BY <1>a, <2>1, Zenon DEF PoolTypeOK
    <3>2. active[m] # 0
      BY <2>0, <2>1, IdleIsFree, Zenon
    <3> QED BY <3>1, <3>2
  <2>5. active' = [active EXCEPT ![m] = @ - 1]
    BY <1>4, <2>0, <2>4, Zenon DEF ReturnConn, ReleaseConn
  <2>6. Pooled' = Pooled
    BY <2>2, Zenon DEF Pooled
  <2>7. \A k \in Pooled : active'[k] = Cardinality(Holders(k)')
    BY <1>a, <1>b, <2>1, <2>3, <2>5, Zenon DEF PoolTypeOK
  <2>8. \A v \in Users : held'[v] # NULL => held'[v] \in Pooled /\ healthy[held'[v]]
    BY <1>a, <1>c, <2>1, Zenon DEF PoolTypeOK
  <2>9. HeldIsSafe'
    BY <2>2, <2>6, <2>7, <2>8, Zenon DEF HeldIsSafe, Holders, Pooled
  <2>10. PoolBounded'
    BY <2>2, <2>6, Zenon DEF PoolInv, PoolBounded
  <2>11. PoolTypeOK'
    BY <1>a, <2>1, <2>2, <2>4, <2>5 DEF PoolTypeOK
  <2> QED BY <1>a, <2>2, <2>6, <2>9, <2>10, <2>11, Zenon DEF PoolInv, InList
<1>5. CASE CleanupIdle
  <2> DEFINE removed == {n \in Conns : InList(n) /\ Removable(n)}
  <2>1. /\ Usable
        /\ connections' = Filter(connections, Conns \ removed)
        /\ state' = [n \in Conns |-> IF n \in removed THEN "freed" ELSE state[n]]
        /\ count' = count - Cardinality(removed)
        /\ UNCHANGED <<target, active, healthy, held, destroyer>>
    BY <1>5, Zenon DEF CleanupIdle, poolThreads
  <2>2. removed \in SUBSET Pooled /\ \A n \in removed : active[n] = 0
    BY <2>1, Zenon DEF Usable, Intact, Pooled, Removable
  <2> HIDE DEF removed
  <2>3. Pooled' = Pooled \ removed
    BY <1>a, <2>1, Zenon DEF Pooled, PoolTypeOK
  <2>4. connections' \in Seq(Conns) /\ Elements(connections') = Elements(connections) \cap (Conns \ removed)
    BY <1>a, <2>1, FilterElements DEF PoolTypeOK
  <2>5. Pooled \cap removed = removed
    BY <2>2, Zenon
  <2>6. IsFiniteSet(Pooled') /\ count' = Cardinality(Pooled')
    BY <1>d, <2>1, <2>3, <2>5, Finite, FS_Difference, Zenon
  <2>7. count' \in Nat /\ count' <= count
    <3>1. IsFiniteSet(removed)
      BY <2>2, Finite, FS_Subset, Zenon
    <3>2. Cardinality(removed) \in Nat /\ Cardinality(Pooled') \in Nat
      BY <2>6, <3>1, FS_CardinalityType, Zenon
    <3> QED BY <1>d, <2>1, <2>6, <3>2
  <2>8. \A n \in Pooled' : InList(n)'
    BY <1>a, <2>3, <2>4, Zenon DEF InList
  <2>9. \A v \in Users : held[v] \notin removed
    BY <2>2, IdleIsFree, Zenon
  <2>10. PoolTypeOK'
    BY <1>a, <2>1, <2>4, <2>7, Zenon DEF PoolTypeOK
  <2>11. HeldIsSafe'
    BY <1>a, <1>b, <1>c, <2>1, <2>3, <2>9 DEF HeldIsSafe, Holders, Pooled, PoolTypeOK
  <2>12. PoolBounded'
    BY <1>d, <2>1, <2>3, <2>6, <2>7 DEF PoolInv, PoolBounded
  <2> QED BY <2>1, <2>8, <2>10, <2>11, <2>12, Zenon DEF PoolInv
<1>6. CASE KeepalivePass
  <2>1. /\ UNCHANGED <<connections, state, target, active, count, held, destroyer>>
        /\ Intact
        /\ healthy' = [n \in Conns |-> healthy[n] /\ ~(InList(n) /\ TimedOut(n))]
    BY <1>6, Zenon DEF KeepalivePass, poolThreads
  <2>2. Pooled' = Pooled
    BY <2>1, Zenon DEF Pooled
  <2>3. \A n \in Pooled : healthy'[n] => healthy[n]
    BY <1>a, <2>1, Zenon
  <2>4. ASSUME NEW u \in Users, held[u] # NULL PROVE healthy'[held[u]]
    <3>1. held[u] \in Pooled /\ healthy[held[u]] /\ held[u] \in Conns
      BY <1>a, <1>c, <2>4, Zenon
    <3>2. active[held[u]] # 0
      BY <3>1, IdleIsFree, Zenon
    <3> QED BY <2>1, <3>1, <3>2, Zenon DEF TimedOut
  <2>5. PoolTypeOK'
    <3>1. healthy' \in [Conns -> BOOLEAN]
      BY <1>a, <2>1, Zenon DEF PoolTypeOK
    <3> QED BY <1>a, <2>1, <3>1, Zenon DEF PoolTypeOK
  <2>6. HeldIsSafe'
    BY <1>b, <1>c, <2>1, <2>2, <2>4, Zenon DEF HeldIsSafe, Holders, Pooled
  <2>7. PoolBounded'
    BY <2>1, <2>2, <2>3, Zenon DEF PoolInv, PoolBounded
  <2> QED BY <1>a, <2>1, <2>2, <2>5, <2>6, <2>7, Zenon DEF PoolInv, InList
<1>7. CASE KeepaliveExit
  BY <1>a, <1>7, PoolStutter, Zenon DEF KeepaliveExit, nodes, PoolTypeOK
<1>8. CASE Tick
  BY <1>a, <1>8, PoolStutter, Zenon DEF Tick, nodes, poolThreads, PoolTypeOK
<1>9. CASE DestroyPool
  BY <1>9, PoolStutter, Zenon DEF DestroyPool, nodes
<1>10. CASE JoinKeeper
  <2>1. \A u \in Users : held[u] = NULL
    BY <1>10, Zenon DEF JoinKeeper, PoolInv
  <2> QED BY <1>10, <2>1, PoolStutter, Zenon DEF JoinKeeper, nodes
<1>11. CASE FreePool
  <2>1. \A u \in Users : held[u] = NULL
    BY <1>11, Zenon DEF FreePool, PoolInv
  <2>2. Pooled' = {}
    BY <1>a, <1>11, Zenon DEF FreePool, Pooled, PoolTypeOK
  <2>3. PoolTypeOK' /\ held' = held /\ count' = 0
    BY <1>a, <1>11 DEF FreePool, PoolTypeOK
  <2> QED BY <2>1, <2>2, <2>3, FS_EmptySet DEF PoolInv, HeldIsSafe, PoolBounded
<1>12. CASE UNCHANGED poolVars
  BY <1>a, <1>12, PoolStutter, Zenon DEF poolVars, PoolTypeOK
<1> QED BY <1>1, <1>2, <1>3, <1>4, <1>5, <1>6, <1>7, <1>8, <1>9, <1>10, <1>11, <1>12, Zenon
        DEF PoolNext

\* A new pool.
LEMMA PoolStart == PoolInit => PoolInv
<1> SUFFICES ASSUME PoolInit PROVE PoolInv
  BY Zenon
<1>1. Pooled = {}
  BY Zenon DEF PoolInit, Pooled
<1>2. PoolTypeOK
  BY DEF PoolInit, PoolTypeOK
<1> QED BY <1>1, <1>2, PoolAssumption, FS_EmptySet
        DEF PoolInit, PoolInv, HeldIsSafe, PoolBounded

\* A connection in use is never closed or marked unhealthy, whatever the
\* keep-alive thread, cleanup_idle and evictions by other threads do, and
\* active_calls counts its users.
THEOREM HeldCorrect == PoolSpec => []HeldIsSafe
<1>1. PoolInv => HeldIsSafe
  BY Zenon DEF PoolInv
<1> QED BY <1>1, PoolStart, PoolStep, PTL DEF PoolSpec

\* The pool never exceeds its limit, counts its open connections, and never
\* has two healthy ones to the same target.
THEOREM PoolCorrect == PoolSpec => []PoolBounded
<1>1. PoolInv => PoolBounded
  BY Zenon DEF PoolInv
<1> QED BY <1>1, PoolStart, PoolStep, PTL DEF PoolSpec

-----------------------------------------------------------------------------
\* A converted sum is an int32_t; converting loses nothing that a later sum
\* would need; and it changes no number that an int32_t holds, nor makes any
\* number from 0 on larger.
LEMMA WrapPlus ==
    ASSUME NEW x \in Int, NEW c \in Int
    PROVE  Wrap(Wrap(x) + c) = Wrap(x + c)
<1> DEFINE h == IntMax + 1
           m == 2 * (IntMax + 1)
           y == x + IntMax + 1
<1>1. m \in Nat \ {0} /\ y \in Int /\ h \in Int
  BY SendWindowAssumption
<1>2. ((y % m) + c) % m = (y + c) % m
  BY <1>1, RemainderPlus, Zenon
<1>3. Wrap(x) + c + IntMax + 1 = (y % m) + c
  <2>1. y % m \in Int
    BY <1>1, Remainder
  <2>2. Wrap(x) = (y % m) - h
    BY Zenon DEF Wrap
  <2> HIDE DEF y, m
  <2> QED BY <2>1, <2>2, SendWindowAssumption
<1>4. (x + c) + IntMax + 1 = y + c
  BY SendWindowAssumption
<1>5. Wrap(x) + c + IntMax + 1 = (Wrap(x) + c) + IntMax + 1
  BY Zenon
<1> QED BY <1>2, <1>3, <1>4, <1>5, Zenon DEF Wrap

\* A converted sum is an int32_t.
LEMMA WrapRange ==
    ASSUME NEW x \in Int
    PROVE  Wrap(x) \in -(IntMax + 1) .. IntMax
<1>1. 2 * (IntMax + 1) \in Nat \ {0} /\ x + IntMax + 1 \in Int
  BY SendWindowAssumption
<1>2. (x + IntMax + 1) % (2 * (IntMax + 1)) \in 0 .. 2 * (IntMax + 1) - 1
  BY <1>1, Remainder, Zenon
<1> QED BY <1>2, SendWindowAssumption DEF Wrap

\* Converting changes no number that an int32_t holds,
LEMMA WrapSmall ==
    ASSUME NEW x \in 0 .. IntMax
    PROVE  Wrap(x) = x
<1> DEFINE m == 2 * (IntMax + 1)
           y == x + IntMax + 1
<1>1. m \in Nat \ {0} /\ y \in 0 .. m - 1
  BY SendWindowAssumption
<1>2. (0 * m + y) % m = y
  BY <1>1, RemainderUnique
<1>3. 0 * m + y = y
  BY SendWindowAssumption
<1>4. Wrap(x) = y - (IntMax + 1)
  BY <1>2, <1>3, Zenon DEF Wrap
<1> QED BY <1>4, SendWindowAssumption

\* and makes no number larger.
LEMMA WrapBelow ==
    ASSUME NEW x \in Nat
    PROVE  Wrap(x) <= x
<1>1. CASE x <= IntMax
  BY <1>1, WrapSmall, SendWindowAssumption
<1>2. CASE x > IntMax
  BY <1>2, WrapRange, SendWindowAssumption
<1> QED BY <1>1, <1>2, SendWindowAssumption

-----------------------------------------------------------------------------
\* The state of the send half.
SendTypeOK ==
    /\ connRemote \in Int
    /\ streamRemote \in [Streams -> Int]
    /\ registered \subseteq Streams
    /\ writer \in [Streams -> [at : {"idle", "asking", "sending", "charging", "storing"},
                               len : Int, seen : Int]]
    /\ reader \in [at : {"idle", "storing"}, stream : Streams \cup {NoStream},
                   inc : Int, seen : Int]
    /\ spent \in [Streams \cup {"conn"} -> Int]
    /\ granted \in [Streams \cup {"conn"} -> Int]
    /\ overlapped \in BOOLEAN

\* What the connection may still send, in unbounded integers.
Credit == WindowSize + granted["conn"] - spent["conn"]

\* ConnWindowExact and NoUpdateOfFreedStream are inductive with the types.
SendInv == SendTypeOK /\ ConnWindowExact /\ NoUpdateOfFreedStream

\* The threads between the start of can_send and consume_send_window.
InCheck(s) == writer[s].at \in {"asking", "sending"}

\* While no two threads have been there at once, the credit is not exceeded,
\* the only thread there has seen no more than the credit, and once it is
\* let through its message fits into what it saw.
Solitary ==
    /\ Credit >= 0
    /\ \A s, r \in Streams : InCheck(s) /\ InCheck(r) => s = r
    /\ \A s \in Streams : InCheck(s) => writer[s].len \in Sizes /\ writer[s].seen <= Credit
    /\ \A s \in Streams : writer[s].at = "sending" => writer[s].len <= writer[s].seen
CreditInv == overlapped \/ Solitary

\* SendTypeOK, ConnWindowExact and NoUpdateOfFreedStream are preserved.
LEMMA SendStep == SendInv /\ [SendNext]_sendVars => SendInv'
<1> SUFFICES ASSUME SendInv, [SendNext]_sendVars PROVE SendInv'
  BY Zenon
<1>c. Sizes \subseteq Int /\ Increments \subseteq Int
  BY SendWindowAssumption
<1>d. \A s \in Streams : writer[s].len \in Int /\ writer[s].seen \in Int
  BY Zenon DEF SendInv, SendTypeOK
<1>e. reader.seen \in Int /\ reader.inc \in Int
  BY Zenon DEF SendInv, SendTypeOK
<1> USE WindowsAssumption, SendWindowAssumption
        DEF SendInv, SendTypeOK, NoUpdateOfFreedStream
<1> DEFINE Exact == connRemote = Wrap(Credit)
<1>0. Exact /\ Credit \in Int /\ (ConnWindowExact <=> Exact)
  BY DEF ConnWindowExact, Credit
<1>a. ASSUME UNCHANGED <<connRemote, spent, granted>> PROVE ConnWindowExact'
  BY <1>a, Zenon DEF ConnWindowExact
<1>b. \A x \in Int : Wrap(x) \in Int
  BY WrapRange
<1>1. ASSUME NEW s \in Streams, NEW n \in Sizes, CanSend(s, n) PROVE SendInv'
  BY <1>1, <1>a, <1>c, Zenon DEF CanSend
<1>2. ASSUME NEW s \in Streams, CanSendReturns(s) PROVE SendInv'
  BY <1>2, <1>a DEF CanSendReturns, Idle
<1>3. ASSUME NEW s \in Streams, ConsumeSendConn(s) PROVE SendInv'
  <2> DEFINE k == writer[s].len
  <2>1. k \in Int
    BY <1>d, Zenon
  <2>2. connRemote' = Wrap(Wrap(Credit) + (-k))
    <3>1. connRemote' = Wrap(connRemote - k)
      BY <1>3, Zenon DEF ConsumeSendConn, ChargeConnWindow
    <3>2. connRemote - k = connRemote + (-k)
      BY <2>1, Zenon
    <3> QED BY <3>1, <3>2, <1>0, Zenon
  <2>3. spent' = [spent EXCEPT ![s] = @ + k, !["conn"] = @ + k] /\ granted' = granted
    BY <1>3, Zenon DEF ConsumeSendConn
  <2>4. WindowSize + granted'["conn"] - spent'["conn"] = Credit + (-k)
    BY <2>1, <2>3 DEF Credit
  <2>5. connRemote' = Wrap(Credit + (-k))
    <3>1. -k \in Int
      BY <2>1
    <3> HIDE DEF k
    <3> QED BY <2>2, <3>1, <1>0, WrapPlus, Zenon
  <2>6. ConnWindowExact'
    BY <2>4, <2>5, Zenon DEF ConnWindowExact
  <2>7. connRemote' \in Int
    BY <2>1, <2>5, <1>0, <1>b
  <2> QED BY <1>3, <2>1, <2>3, <2>6, <2>7 DEF ConsumeSendConn
<1>4. ASSUME NEW s \in Streams, ConsumeSendLoad(s) PROVE SendInv'
  <2>1. streamRemote[s] \in Int
    BY Zenon
  <2>2. writer' = [writer EXCEPT ![s] = [@ EXCEPT !.at = "storing", !.seen = streamRemote[s]]]
    BY <1>4, Zenon DEF ConsumeSendLoad
  <2> QED BY <1>4, <1>a, <2>1, <2>2 DEF ConsumeSendLoad
<1>5. ASSUME NEW s \in Streams, ConsumeSendStore(s) PROVE SendInv'
  <2>1. Wrap(writer[s].seen - writer[s].len) \in Int
    BY <1>b, <1>d
  <2> QED BY <1>5, <1>a, <2>1 DEF ConsumeSendStore, Idle
<1>6. ASSUME NEW s \in Streams, StreamDestroy(s) PROVE SendInv'
  BY <1>6, <1>a, Zenon DEF StreamDestroy
<1>7. ASSUME NEW s \in Streams, NEW n \in Increments, ReceiveUnknownUpdate(s, n)
      PROVE SendInv'
  BY <1>7, <1>a, Zenon DEF ReceiveUnknownUpdate
<1>8. ASSUME NEW s \in Streams, NEW n \in Increments, ReceiveStreamLoad(s, n)
      PROVE SendInv'
  <2>1. ConnWindowExact'
    BY <1>8, Zenon DEF ReceiveStreamLoad, ConnWindowExact
  <2> QED BY <1>8, <2>1 DEF ReceiveStreamLoad
<1>9. ASSUME NEW n \in Increments, ReceiveBadUpdate(n) PROVE SendInv'
  BY <1>9, <1>a, Zenon DEF ReceiveBadUpdate
<1>10. ASSUME NEW n \in Increments, ReceiveConnUpdate(n) PROVE SendInv'
  <2>1. n \in Int
    BY <1>c, Zenon
  <2>2. connRemote' = Wrap(Wrap(Credit) + n)
    BY <1>10, <1>0, Zenon DEF ReceiveConnUpdate, RaiseConnWindow
  <2>3. granted' = [granted EXCEPT !["conn"] = @ + n] /\ spent' = spent
    BY <1>10, Zenon DEF ReceiveConnUpdate
  <2>4. WindowSize + granted'["conn"] - spent'["conn"] = Credit + n
    BY <2>1, <2>3 DEF Credit
  <2>5. connRemote' = Wrap(Credit + n)
    BY <2>1, <2>2, <1>0, WrapPlus, Zenon
  <2>6. ConnWindowExact'
    BY <2>4, <2>5, Zenon DEF ConnWindowExact
  <2>7. connRemote' \in Int
    BY <2>1, <2>5, <1>0, <1>b
  <2> QED BY <1>10, <2>1, <2>3, <2>6, <2>7 DEF ReceiveConnUpdate
<1>11. CASE ReceiveStreamStore
  <2>1. Wrap(reader.seen + reader.inc) \in Int
    BY <1>b, <1>e
  <2> QED BY <1>11, <1>a, <2>1 DEF ReceiveStreamStore, AtRest
<1>12. CASE UNCHANGED sendVars
  BY <1>12, <1>a, Zenon DEF sendVars
<1> QED BY <1>1, <1>2, <1>3, <1>4, <1>5, <1>6, <1>7, <1>8, <1>9, <1>10, <1>11, <1>12, Zenon
        DEF SendNext

\* A new connection.
LEMMA SendStart == SendInit => SendInv
<1> SUFFICES ASSUME SendInit PROVE SendInv
  BY Zenon
<1>1. WindowSize + granted["conn"] - spent["conn"] = WindowSize
  BY WindowsAssumption DEF SendInit
<1>2. Wrap(WindowSize) = WindowSize
  BY WindowsAssumption, SendWindowAssumption, WrapSmall
<1>3. ConnWindowExact
  BY <1>1, <1>2, Zenon DEF ConnWindowExact, SendInit
<1>4. SendTypeOK
  <2>1. Idle \in [at : {"idle", "asking", "sending", "charging", "storing"}, len : Int, seen : Int]
    BY DEF Idle
  <2>2. AtRest \in [at : {"idle", "storing"}, stream : Streams \cup {NoStream}, inc : Int, seen : Int]
    BY DEF AtRest
  <2>3. spent \in [Streams \cup {"conn"} -> Int] /\ granted \in [Streams \cup {"conn"} -> Int]
    BY DEF SendInit
  <2>4. writer \in [Streams -> [at : {"idle", "asking", "sending", "charging", "storing"},
                               len : Int, seen : Int]]
    BY <2>1, Zenon DEF SendInit
  <2>5. connRemote \in Int /\ streamRemote \in [Streams -> Int]
    BY WindowsAssumption DEF SendInit
  <2>6. registered \subseteq Streams /\ overlapped \in BOOLEAN
    BY Zenon DEF SendInit
  <2> QED BY <2>2, <2>3, <2>4, <2>5, <2>6, Zenon DEF SendInit, SendTypeOK
<1>5. NoUpdateOfFreedStream
  BY Zenon DEF NoUpdateOfFreedStream, SendInit, AtRest
<1> QED BY <1>3, <1>4, <1>5, Zenon DEF SendInv

\* No update of the connection's send window is lost, whatever the order of
\* consume_send_window on the streams and receive_window_update, and however
\* often the int32_t wraps around.
THEOREM ConnWindowCorrect == SendSpec => []ConnWindowExact
<1>1. SendInv => ConnWindowExact
  BY Zenon DEF SendInv
<1> QED BY <1>1, SendStart, SendStep, PTL DEF SendSpec

\* http2_flow_control_receive_window_update never stores into a stream that
\* http2_stream_destroy has taken from the table.
THEOREM NoFreedStream == SendSpec => []NoUpdateOfFreedStream
<1>1. SendInv => NoUpdateOfFreedStream
  BY Zenon DEF SendInv
<1> QED BY <1>1, SendStart, SendStep, PTL DEF SendSpec

\* CreditInv is preserved, for messages whose length an int32_t holds.
LEMMA CreditStep ==
    ASSUME Sizes \subseteq 0 .. IntMax
    PROVE  SendInv /\ CreditInv /\ [SendNext]_sendVars => CreditInv'
<1> SUFFICES ASSUME SendInv, CreditInv, [SendNext]_sendVars, ~overlapped' PROVE Solitary'
  BY Zenon DEF CreditInv
<1> USE WindowsAssumption, SendWindowAssumption DEF InCheck
<1>a. /\ writer \in [Streams -> [at : {"idle", "asking", "sending", "charging", "storing"},
                                len : Int, seen : Int]]
      /\ spent \in [Streams \cup {"conn"} -> Int] /\ granted \in [Streams \cup {"conn"} -> Int]
      /\ Credit \in Int /\ overlapped \in BOOLEAN
      /\ connRemote = Wrap(Credit)
  BY DEF SendInv, SendTypeOK, ConnWindowExact, Credit
<1>b. Solitary
  <2>1. overlapped => overlapped'
    BY Zenon DEF SendNext, CanSend, CanSendReturns, ConsumeSendConn, ConsumeSendLoad,
           ConsumeSendStore, StreamDestroy, ReceiveUnknownUpdate, ReceiveStreamLoad,
           ReceiveBadUpdate, ReceiveConnUpdate, ReceiveStreamStore, sendVars
  <2> QED BY <2>1, Zenon DEF CreditInv
<1>c. ASSUME UNCHANGED writer, Credit' >= Credit, Credit' \in Int
      PROVE  Solitary'
  <2> HIDE DEF InCheck
  <2>2. \A s \in Streams : InCheck(s)' <=> InCheck(s)
    BY <1>c, Zenon DEF InCheck
  <2>3. \A s \in Streams : writer'[s] = writer[s] /\ writer[s].seen \in Int
    BY <1>a, <1>c, Zenon
  <2> QED BY <1>a, <1>b, <1>c, <2>2, <2>3 DEF Solitary
<1>e. ASSUME UNCHANGED <<writer, spent, granted>> PROVE Solitary'
  <2>1. Credit' = Credit
    BY <1>e, Zenon DEF Credit
  <2> QED BY <1>a, <1>c, <1>e, <2>1
<1>d. ASSUME NEW s \in Streams, UNCHANGED <<spent, granted>>,
             writer'[s].at \notin {"asking", "sending"},
             \A r \in Streams \ {s} : writer'[r] = writer[r]
      PROVE  Solitary'
  <2>1. Credit' = Credit
    BY <1>d, Zenon DEF Credit
  <2> QED BY <1>a, <1>b, <1>d, <2>1, Zenon DEF Solitary
<1>1. ASSUME NEW s \in Streams, NEW n \in Sizes, CanSend(s, n) PROVE Solitary'
  <2>1. Credit' = Credit /\ writer' = [writer EXCEPT ![s] = [at |-> "asking", len |-> n, seen |-> connRemote]]
    BY <1>1, Zenon DEF CanSend, Credit
  <2>2. \A r \in Streams \ {s} : ~InCheck(r)
    BY <1>1, Zenon DEF CanSend
  <2>3. connRemote <= Credit
    BY <1>a, <1>b, WrapBelow DEF Solitary
  <2> QED BY <1>a, <1>b, <2>1, <2>2, <2>3 DEF Solitary
<1>2. ASSUME NEW s \in Streams, CanSendReturns(s) PROVE Solitary'
  <2>1. CASE EnoughSpace(s)
    <3>1. Wrap(writer[s].len) = writer[s].len
      BY <1>a, <1>b, <1>2, WrapSmall, Zenon DEF Solitary, CanSendReturns
    <3>2. writer[s].len <= writer[s].seen
      BY <2>1, <3>1, Zenon DEF EnoughSpace
    <3>3. Credit' = Credit /\ writer' = [writer EXCEPT ![s] = [@ EXCEPT !.at = "sending"]]
      BY <1>2, <2>1, Zenon DEF CanSendReturns, Credit
    <3>4. /\ writer'[s].at = "sending" /\ writer'[s].len = writer[s].len
          /\ writer'[s].seen = writer[s].seen
          /\ \A r \in Streams \ {s} : writer'[r] = writer[r]
      BY <1>a, <3>3
    <3>5. writer[s].at = "asking"
      BY <1>2, Zenon DEF CanSendReturns
    <3> QED BY <1>a, <1>b, <3>2, <3>3, <3>4, <3>5 DEF Solitary
  <2>2. CASE ~EnoughSpace(s)
    BY <1>a, <1>2, <1>d, <2>2, Zenon DEF CanSendReturns, Idle
  <2> QED BY <2>1, <2>2, Zenon
<1>3. ASSUME NEW s \in Streams, ConsumeSendConn(s) PROVE Solitary'
  <2>1. writer[s].at = "sending" /\ writer[s].len <= Credit /\ writer[s].len \in Int
    BY <1>a, <1>b, <1>3 DEF ConsumeSendConn, Solitary
  <2>2. Credit' = Credit - writer[s].len
    BY <1>a, <1>3 DEF ConsumeSendConn, Credit
  <2>3. writer'[s].at = "charging" /\ \A r \in Streams \ {s} : writer'[r] = writer[r]
    BY <1>a, <1>3, Zenon DEF ConsumeSendConn
  <2>4. \A r \in Streams : ~(InCheck(r)')
    BY <1>b, <2>1, <2>3, Zenon DEF Solitary
  <2> QED BY <1>a, <2>1, <2>2, <2>3, <2>4 DEF Solitary
<1>4. ASSUME NEW s \in Streams, ConsumeSendLoad(s) PROVE Solitary'
  BY <1>a, <1>4, <1>d, Zenon DEF ConsumeSendLoad
<1>5. ASSUME NEW s \in Streams, ConsumeSendStore(s) PROVE Solitary'
  BY <1>a, <1>5, <1>d, Zenon DEF ConsumeSendStore, Idle
<1>6. ASSUME NEW s \in Streams, StreamDestroy(s) PROVE Solitary'
  BY <1>e, <1>6, Zenon DEF StreamDestroy
<1>7. ASSUME NEW s \in Streams, NEW n \in Increments, ReceiveUnknownUpdate(s, n)
      PROVE Solitary'
  BY <1>e, <1>7, Zenon DEF ReceiveUnknownUpdate
<1>8. ASSUME NEW s \in Streams, NEW n \in Increments, ReceiveStreamLoad(s, n)
      PROVE Solitary'
  <2>1. Credit' = Credit
    BY <1>a, <1>8, Zenon DEF ReceiveStreamLoad, Credit
  <2> QED BY <1>a, <1>c, <1>8, <2>1 DEF ReceiveStreamLoad
<1>9. ASSUME NEW n \in Increments, ReceiveBadUpdate(n) PROVE Solitary'
  BY <1>e, <1>9, Zenon DEF ReceiveBadUpdate
<1>10. ASSUME NEW n \in Increments, ReceiveConnUpdate(n) PROVE Solitary'
  <2>1. Credit' = Credit + n /\ n \in Nat
    BY <1>a, <1>10 DEF ReceiveConnUpdate, Credit
  <2> QED BY <1>a, <1>c, <1>10, <2>1 DEF ReceiveConnUpdate
<1>11. CASE ReceiveStreamStore
  BY <1>e, <1>11, Zenon DEF ReceiveStreamStore
<1>12. CASE UNCHANGED sendVars
  BY <1>e, <1>12, Zenon DEF sendVars
<1> QED BY <1>1, <1>2, <1>3, <1>4, <1>5, <1>6, <1>7, <1>8, <1>9, <1>10, <1>11, <1>12
        DEF SendNext

\* As long as no two threads were between can_send and consume_send_window at
\* once, the connection never sends more than the peer granted, even if
\* updates have wrapped the window around.  A message longer than the largest
\* int32_t is excluded: can_send compares (int32_t)data_len, which is then
\* negative, and lets it through.
THEOREM CreditRespected ==
    ASSUME Sizes \subseteq 0 .. IntMax
    PROVE  SendSpec => []CreditRespectedUnlessOverlap
<1>1. SendInit => CreditInv
  BY WindowsAssumption, SendWindowAssumption
     DEF SendInit, CreditInv, Solitary, Credit, InCheck, Idle
<1>2. SendInv /\ CreditInv => CreditRespectedUnlessOverlap
  <2> SUFFICES ASSUME SendInv, Solitary PROVE spent["conn"] <= WindowSize + granted["conn"]
    BY Zenon DEF CreditInv, CreditRespectedUnlessOverlap
  <2>1. spent["conn"] \in Int /\ granted["conn"] \in Int
    BY Zenon DEF SendInv, SendTypeOK
  <2> QED BY <2>1, WindowsAssumption DEF Solitary, Credit
<1>3. SendInv /\ CreditInv /\ [SendNext]_sendVars => CreditInv'
  BY CreditStep, Zenon
<1> QED BY <1>1, <1>2, <1>3, SendStart, SendStep, PTL DEF SendSpec

-----------------------------------------------------------------------------
\* The part of the state the windows depend on.
DataOK ==
    /\ connWindow \in Int
    /\ streamWindow \in [Streams -> Int]
    /\ writeLock \in Streams \cup {NoStream}
    /\ pc \in [Streams -> {"idle", "conn", "update", "stream"}]
    /\ len \in [Streams -> Int]

\* What makes WindowsReplenished inductive: only the owner of write_mutex is
\* refilling the window, and a thread past the first check has an admitted
\* length.
WindowInv ==
    /\ DataOK
    /\ \A s \in Streams : pc[s] = "update" => writeLock = s
    /\ \A s \in Streams : pc[s] # "idle" => len[s] \in 0 .. WindowSize
    /\ WindowsReplenished

\* Half of the window size, rounded down.
LEMMA ThresholdInRange == Threshold \in 0 .. WindowSize
BY WindowsAssumption, RecvWindowAssumption DEF Threshold

\* WindowInv is inductive, one step of the proof for each action.
LEMMA WindowStep == WindowInv /\ [RecvNext]_recvVars => WindowInv'
<1> SUFFICES ASSUME WindowInv, [RecvNext]_recvVars PROVE WindowInv'
  OBVIOUS
<1> USE WindowsAssumption, RecvWindowAssumption, ThresholdInRange DEF WindowInv, DataOK, WindowsReplenished
<1>1. ASSUME NEW s \in Streams, NEW n \in DataLengths, Call(s, n) PROVE WindowInv'
  <2>1. n \in Int
    BY Zenon
  <2>2. CASE n < 0 \/ n > WindowSize
    <3>1. UNCHANGED <<connWindow, streamWindow, writeLock, pc>> /\ pc[s] = "idle"
          /\ len' = [len EXCEPT ![s] = n]
      BY <1>1, <2>2, Zenon DEF Call
    <3> QED BY <2>1, <3>1, Zenon
  <2>3. CASE ~(n < 0 \/ n > WindowSize)
    <3>1. UNCHANGED <<connWindow, streamWindow, writeLock>> /\ pc[s] = "idle"
          /\ len' = [len EXCEPT ![s] = n] /\ pc' = [pc EXCEPT ![s] = "conn"]
      BY <1>1, <2>3, Zenon DEF Call
    <3> QED BY <2>1, <2>3, <3>1
  <2> QED BY <2>2, <2>3, Zenon
<1>2. ASSUME NEW s \in Streams, ConnRefuses(s) PROVE WindowInv'
  BY <1>2, Zenon DEF ConnRefuses
<1>3. ASSUME NEW s \in Streams, ConnCharges(s) PROVE WindowInv'
  <2>1. CASE connWindow' < Threshold
    BY <1>3, <2>1 DEF ConnCharges
  <2>2. CASE ~(connWindow' < Threshold)
    BY <1>3, <2>2 DEF ConnCharges
  <2> QED BY <2>1, <2>2, Zenon
<1>4. ASSUME NEW s \in Streams, ConnRefills(s) PROVE WindowInv'
  BY <1>4 DEF ConnRefills
<1>5. ASSUME NEW s \in Streams, StreamRefuses(s) PROVE WindowInv'
  BY <1>5, Zenon DEF StreamRefuses
<1>6. ASSUME NEW s \in Streams, StreamCharges(s) PROVE WindowInv'
  <2>1. Charged(streamWindow[s] - len[s]) \in Threshold .. WindowSize
    BY <1>6 DEF StreamCharges, Charged
  <2> QED BY <1>6, <2>1 DEF StreamCharges
<1>7. CASE UNCHANGED recvVars
  BY <1>7, Zenon DEF recvVars
<1> QED BY <1>1, <1>2, <1>3, <1>4, <1>5, <1>6, <1>7, Zenon DEF RecvNext, Steps

\* Charging received data leaves no window negative or unreplenished, and this
\* for every window size: the check before each subtraction, and the refill
\* under the mutex, are enough.
THEOREM WindowsCorrect == RecvSpec => []WindowsReplenished
<1>1. RecvInit => WindowInv
  BY WindowsAssumption, RecvWindowAssumption, ThresholdInRange
     DEF RecvInit, WindowInv, DataOK, WindowsReplenished
<1>2. WindowInv => WindowsReplenished
  BY Zenon DEF WindowInv
<1> QED BY <1>1, <1>2, WindowStep, PTL DEF RecvSpec

-----------------------------------------------------------------------------
\* Which step of the creation of a context follows which.
LEMMA Follows ==
    /\ side = "client" =>
         /\ at = "new" => Then = "roots"
         /\ at = "roots" => Then = "cert"
         /\ at = "cert" => Then = "key"
         /\ at = "key" => Then = "ready"
    /\ side = "server" =>
         /\ at = "new" => Then = "cert"
         /\ at = "cert" => Then = "key"
         /\ at = "key" => Then = "check"
         /\ at = "check" => Then = "roots"
         /\ at = "roots" => Then = "ready"
<1> DEFINE place == CHOOSE i \in 1 .. Len(Order) : Order[i] = at
<1>1. CASE side = "client"
  <2>1. Order = <<"new", "roots", "cert", "key", "ready">>
    BY <1>1, Zenon DEF Order
  <2>2. 1 .. Len(Order) = 1 .. 5
    BY <2>1, Zenon
  <2>3. \A i \in 1 .. 5 : i = 1 \/ i = 2 \/ i = 3 \/ i = 4 \/ i = 5
    OBVIOUS
  <2>4. Order[1] = "new" /\ Order[2] = "roots" /\ Order[3] = "cert" /\ Order[4] = "key"
        /\ Order[5] = "ready"
    BY <2>1, Zenon
  <2>5. /\ at = "new" => place = 1
        /\ at = "roots" => place = 2
        /\ at = "cert" => place = 3
        /\ at = "key" => place = 4
    BY <2>2, <2>3, <2>4
  <2>6. 1 + 1 = 2 /\ 1 + 2 = 3 /\ 1 + 3 = 4 /\ 1 + 4 = 5
    OBVIOUS
  <2> HIDE DEF place
  <2>7. Then = Order[1 + place]
    BY Zenon DEF Then, place
  <2> QED BY <1>1, <2>4, <2>5, <2>6, <2>7
<1>2. CASE side = "server"
  <2>1. Order = <<"new", "cert", "key", "check", "roots", "ready">>
    BY <1>2, Zenon DEF Order
  <2>2. 1 .. Len(Order) = 1 .. 6
    BY <2>1, Zenon
  <2>3. \A i \in 1 .. 6 : i = 1 \/ i = 2 \/ i = 3 \/ i = 4 \/ i = 5 \/ i = 6
    OBVIOUS
  <2>4. Order[1] = "new" /\ Order[2] = "cert" /\ Order[3] = "key" /\ Order[4] = "check"
        /\ Order[5] = "roots" /\ Order[6] = "ready"
    BY <2>1, Zenon
  <2>5. /\ at = "new" => place = 1
        /\ at = "cert" => place = 2
        /\ at = "key" => place = 3
        /\ at = "check" => place = 4
        /\ at = "roots" => place = 5
    BY <2>2, <2>3, <2>4
  <2>6. 1 + 1 = 2 /\ 1 + 2 = 3 /\ 1 + 3 = 4 /\ 1 + 4 = 5 /\ 1 + 5 = 6
    OBVIOUS
  <2> HIDE DEF place
  <2>7. Then = Order[1 + place]
    BY DEF Then, place
  <2> QED BY <1>2, <2>4, <2>5, <2>6, <2>7
<1> QED BY <1>1, <1>2, Zenon

\* What is allocated, and what a server's context has been given, at each step
\* of its creation.
ObjectsInv ==
    /\ side \in {"client", "server"}
    /\ at \in {"new", "cert", "key", "check", "roots", "ready", "null"}
    /\ at = "check" => side = "server"
    /\ at \in {"new", "null"} => objects = {}
    /\ at \in {"check", "roots"} => objects = {"ctx"}
    /\ at \in {"cert", "key"} =>
         /\ objects \in {{"ctx"}, {"ctx", "bio"}, {"ctx", "bio", "object"}}
         /\ "bio" \in objects => creds[at] # "absent"
    /\ at = "ready" => objects \in {{"ctx"}, {"ctx", "ssl"}}
    /\ side = "server" =>
         /\ at \in {"key", "check", "roots", "ready"} => "cert" \in loaded
         /\ at \in {"check", "roots", "ready"} => "key" \in loaded
         /\ at \in {"roots", "ready"} => creds.match
    /\ ssl \in {"null", "open"}
    /\ ssl = "open" => at = "ready" /\ "ssl" \in objects

\* Every step of a context and of its connections accounts for the objects.
LEMMA ObjectsStep == ObjectsInv /\ [TlsNext]_tlsVars => ObjectsInv'
<1> SUFFICES ASSUME ObjectsInv, [TlsNext]_tlsVars PROVE ObjectsInv'
  OBVIOUS
<1> USE DEF ObjectsInv
<1>1. CASE NewContext
  BY <1>1, Follows, Zenon DEF NewContext, Null
<1>2. CASE NoText
  BY <1>2, Follows, Zenon DEF NoText, CannotLoad, Null
<1>3. CASE OpenBio
  BY <1>3, Follows, Zenon DEF OpenBio, CannotLoad, Null
<1>4. CASE ReadPem
  BY <1>4, Follows, Zenon DEF ReadPem, CannotLoad, Null
<1>5. CASE UseObject
  BY <1>5, Follows, Zenon DEF UseObject, CannotLoad, Null
<1>6. CASE CheckKey
  BY <1>6, Follows, Zenon DEF CheckKey, Null
<1>7. CASE LoadRoots
  BY <1>7, Follows, Zenon DEF LoadRoots, Null
<1>8. CASE SslNew
  BY <1>8, Zenon DEF SslNew
<1>9. CASE Connect
  BY <1>9, Zenon DEF Connect
<1>10. ASSUME NEW names \in Offers, Accept(names) PROVE ObjectsInv'
  BY <1>10 DEF Accept
<1>11. CASE SslShutdown
  BY <1>11, Zenon DEF SslShutdown
<1>12. CASE DestroyContext
  BY <1>12, Zenon DEF DestroyContext, Null
<1>13. CASE UNCHANGED tlsVars
  BY <1>13 DEF tlsVars
<1> QED BY <1>1, <1>2, <1>3, <1>4, <1>5, <1>6, <1>7, <1>8, <1>9, <1>10, <1>11, <1>12, <1>13
       DEF TlsNext

\* Whatever call of OpenSSL fails, no object is left behind, and a server's
\* context has its certificate and the key that belongs to it.
THEOREM ObjectsCorrect == TlsSpec => []SslObjectsAccounted
<1>1. TlsInit => ObjectsInv
  BY Zenon DEF TlsInit, ObjectsInv
<1>2. ObjectsInv => SslObjectsAccounted
  BY Zenon DEF ObjectsInv, SslObjectsAccounted
<1> QED BY <1>1, <1>2, ObjectsStep, PTL DEF TlsSpec

-----------------------------------------------------------------------------
\* A recursion that goes up: from i to nxt[i] > i unless it stops at i.
Upward(n, stop, nxt) == \A i \in 0 .. n : i \notin stop => nxt[i] \in i + 1 .. n

\* g is computed by it, with the values val where it stops.
Climbs(g, n, stop, val, nxt) ==
    \A i \in 0 .. n : g[i] = IF i \in stop THEN val[i] ELSE g[nxt[i]]

\* Such a recursion has a solution.
LEMMA UpwardRecursionExists ==
    ASSUME NEW n \in Nat, NEW D, NEW c \in D, NEW stop, NEW val \in [0 .. n -> D],
           NEW nxt, Upward(n, stop, nxt)
    PROVE  \E g \in [0 .. n -> D] : Climbs(g, n, stop, val, nxt)
<1> USE DEF Upward
<1> DEFINE Right(g, i) == g[i] = IF i \in stop THEN val[i] ELSE g[nxt[i]]
           E == {k \in 0 .. n + 1 : \E g \in [0 .. n -> D] : \A i \in 0 .. n : i > n - k => Right(g, i)}
<1>1. 0 \in E
  <2> DEFINE g == [i \in 0 .. n |-> c]
  <2>1. g \in [0 .. n -> D]
    BY Zenon
  <2>2. \A i \in 0 .. n : ~(i > n - 0)
    OBVIOUS
  <2> HIDE DEF g, Right
  <2> QED BY <2>1, <2>2
<1>2. ASSUME NEW k \in 0 .. (n + 1) - 1, k \in E PROVE k + 1 \in E
  <2>1. PICK g \in [0 .. n -> D] : \A i \in 0 .. n : i > n - k => Right(g, i)
    BY <1>2, Zenon
  <2> DEFINE p == n - k
             v == IF p \in stop THEN val[p] ELSE g[nxt[p]]
             h == [i \in 0 .. n |-> IF i = p THEN v ELSE g[i]]
  <2>2. p \in 0 .. n
    OBVIOUS
  <2>3. v \in D
    <3>1. p \notin stop => nxt[p] \in 0 .. n
      BY <2>2
    <3> HIDE DEF p
    <3> QED BY <2>2, <3>1, Zenon
  <2> HIDE DEF v
  <2>4. h \in [0 .. n -> D] /\ h[p] = v /\ \A i \in 0 .. n : i # p => h[i] = g[i]
    <3> HIDE DEF p
    <3> QED BY <2>2, <2>3, Zenon
  <2> HIDE DEF h
  <2>5. ASSUME NEW i \in 0 .. n, i > n - (k + 1) PROVE Right(h, i)
    <3>1. i = p \/ i > p
      BY <2>5
    <3>2. i \notin stop => nxt[i] \in 0 .. n /\ nxt[i] # p
      <4>1. i \notin stop => nxt[i] \in i + 1 .. n
        BY Zenon
      <4> QED BY <2>2, <3>1, <4>1
    <3>3. CASE i = p
      BY <2>4, <3>2, <3>3, Zenon DEF v
    <3>4. CASE i > p
      <4>1. Right(g, i) /\ i # p
        BY <2>1, <2>2, <3>4
      <4> QED BY <2>4, <3>2, <4>1, Zenon
    <3> QED BY <3>1, <3>3, <3>4, Zenon
  <2>6. k + 1 \in 0 .. n + 1
    OBVIOUS
  <2> HIDE DEF Right
  <2> QED BY <2>4, <2>5, <2>6, Zenon
<1>3. n + 1 \in Nat
  OBVIOUS
<1>4. \A k \in 0 .. n + 1 : k \in E
  <2> DEFINE m == n + 1
  <2>1. \A k \in 0 .. m - 1 : k \in E => k + 1 \in E
    BY <1>2, Zenon
  <2>2. m \in Nat
    BY <1>3, Zenon
  <2> HIDE DEF E, m
  <2>3. \A k \in 0 .. m : k \in E
    BY <1>1, <2>1, <2>2, InductionUpTo, Zenon
  <2> QED BY <2>3, Zenon DEF m
<1>5. n + 1 \in E
  <2>1. n + 1 \in 0 .. n + 1
    BY <1>3
  <2> HIDE DEF E
  <2> QED BY <1>4, <2>1, Zenon
<1>6. PICK g \in [0 .. n -> D] : \A i \in 0 .. n : i > n - (n + 1) => Right(g, i)
  BY <1>5, Zenon
<1>7. \A i \in 0 .. n : i > n - (n + 1)
  OBVIOUS
<1>8. Climbs(g, n, stop, val, nxt)
  BY <1>6, <1>7, Zenon DEF Climbs
<1> QED BY <1>8, Zenon

-----------------------------------------------------------------------------
\* The function by whose recursion Written is defined.
Writing(names, w) ==
    /\ w[0] = <<>>
    /\ \A i \in 1 .. Len(names) : w[i] = w[i - 1] \o <<Len(names[i])>> \o names[i]
    /\ Written(names) = w[Len(names)]

\* The recursion of Written has a solution, and Written is its last value.
LEMMA WritingExists ==
    ASSUME NEW names \in Seq(Seq(Nat))
    PROVE  \E w \in [0 .. Len(names) -> Seq(Nat)] : Writing(names, w)
<1> DEFINE n == Len(names)
           D == Seq(Nat)
           Put(s, i) == s \o <<Len(names[i])>> \o names[i]
           step == [p \in D \X (1 .. n) |-> Put(p[1], p[2])]
           Body(f) == [i \in 0 .. Len(names) |->
                         IF i = 0 THEN <<>> ELSE f[i - 1] \o <<Len(names[i])>> \o names[i]]
           w == CHOOSE f : f = Body(f)
<1>1. n \in Nat /\ <<>> \in D
  OBVIOUS
<1>2. ASSUME NEW s \in D, NEW i \in 1 .. n PROVE Put(s, i) \in D
  <2>1. names[i] \in Seq(Nat) /\ Len(names[i]) \in Nat
    OBVIOUS
  <2>2. <<Len(names[i])>> \in Seq(Nat)
    BY <2>1
  <2> QED BY <2>1, <2>2
<1> HIDE DEF Put
<1>3. step \in [D \X (1 .. n) -> D]
  <2> HIDE DEF n, D
  <2>1. \A p \in D \X (1 .. n) : p[1] \in D /\ p[2] \in 1 .. n
    BY Zenon
  <2>2. \A p \in D \X (1 .. n) : Put(p[1], p[2]) \in D
    BY <1>2, <2>1, Zenon
  <2> QED BY <2>2, Zenon
<1>4. PICK g \in [0 .. n -> D] : Computes(g, n, <<>>, step)
  <2> HIDE DEF D, step, n
  <2> QED BY <1>1, <1>3, RecursionExists, Zenon
<1>5. ASSUME NEW i \in 1 .. n PROVE g[i] = Put(g[i - 1], i)
  <2>1. i - 1 \in 0 .. n
    OBVIOUS
  <2>2. g[i - 1] \in D
    BY <2>1, Zenon
  <2>3. <<g[i - 1], i>> \in D \X (1 .. n)
    BY <2>2, Zenon
  <2>4. step[<<g[i - 1], i>>] = Put(g[i - 1], i)
    <3> HIDE DEF D, n
    <3> QED BY <2>3, Zenon
  <2> QED BY <1>4, <2>4, Zenon DEF Computes
<1> HIDE DEF step
<1>6. g = Body(g)
  <2>1. \A i \in 0 .. n : i = 0 \/ i \in 1 .. n
    OBVIOUS
  <2>2. \A i \in 0 .. n : g[i] = Body(g)[i]
    BY <1>4, <1>5, <2>1, Zenon DEF Computes, Put
  <2> QED BY <2>2, Zenon
<1>7. w = Body(w)
  <2> HIDE DEF Body
  <2> QED BY <1>6, Zenon
<1>8. Written(names) = w[n]
  BY Zenon DEF Written
<1> HIDE DEF w
<1>9. w[0] = <<>> /\ \A i \in 1 .. n : w[i] = Put(w[i - 1], i)
  <2>1. \A i \in 0 .. n : w[i] = Body(w)[i]
    BY <1>7, Zenon
  <2>2. \A i \in 1 .. n : i \in 0 .. n /\ i # 0
    OBVIOUS
  <2>3. 0 \in 0 .. n
    OBVIOUS
  <2> QED BY <2>1, <2>2, <2>3, Zenon DEF Put
<1>10. \A k \in 0 .. n : k \in {i \in 0 .. n : w[i] \in D}
  <2> DEFINE E == {i \in 0 .. n : w[i] \in D}
  <2>1. 0 \in E
    <3>1. 0 \in 0 .. n /\ w[0] \in D
      BY <1>1, <1>9
    <3> HIDE DEF D, n
    <3> QED BY <3>1, Zenon
  <2>2. ASSUME NEW k \in 0 .. n - 1, k \in E PROVE k + 1 \in E
    <3>1. k + 1 \in 1 .. n /\ (k + 1) - 1 = k /\ k + 1 \in 0 .. n
      OBVIOUS
    <3>2. w[k + 1] = Put(w[k], k + 1) /\ w[k] \in D
      BY <1>9, <2>2, <3>1, Zenon
    <3> HIDE DEF D
    <3> QED BY <1>2, <3>1, <3>2, Zenon
  <2>3. \A k \in 0 .. n - 1 : k \in E => k + 1 \in E
    BY <2>2, Zenon
  <2> HIDE DEF E, n
  <2> QED BY <1>1, <2>1, <2>3, InductionUpTo, Zenon DEF E
<1>11. w \in [0 .. n -> D]
  BY <1>7, <1>10, Zenon
<1>12. Writing(names, w)
  BY <1>8, <1>9, Zenon DEF Writing, Put
<1> HIDE DEF D
<1> QED BY <1>11, <1>12, Zenon DEF D

\* One list of bytes begins another.
Begins(s, t) == Len(s) <= Len(t) /\ \A k \in 1 .. Len(s) : t[k] = s[k]

\* A name behind its length, at the end of a list.
LEMMA OneMoreName ==
    ASSUME NEW s \in Seq(Nat), NEW name \in Seq(Nat), NEW t,
           t = s \o <<Len(name)>> \o name
    PROVE  /\ t \in Seq(Nat) /\ Len(t) = Len(s) + 1 + Len(name)
           /\ Begins(s, t)
           /\ t[Len(s) + 1] = Len(name)
           /\ \A k \in 1 .. Len(name) : t[Len(s) + 1 + k] = name[k]
<1> DEFINE one == <<Len(name)>>
           u == s \o one
           x == u \o name
<1>1. one \in Seq(Nat) /\ Len(one) = 1 /\ one[1] = Len(name) /\ Len(s) \in Nat /\ Len(name) \in Nat
  OBVIOUS
<1> HIDE DEF one
<1>2. /\ u \in Seq(Nat) /\ Len(u) = Len(s) + Len(one)
      /\ \A k \in 1 .. Len(s) : u[k] = s[k]
      /\ \A k \in 1 .. Len(one) : u[Len(s) + k] = one[k]
  <2>1. s \in Seq(Nat) /\ one \in Seq(Nat)
    BY <1>1, Zenon
  <2> QED BY ONLY <2>1, JoinFacts
<1> HIDE DEF u
<1>3. /\ x \in Seq(Nat) /\ Len(x) = Len(u) + Len(name)
      /\ \A k \in 1 .. Len(u) : x[k] = u[k]
      /\ \A k \in 1 .. Len(name) : x[Len(u) + k] = name[k]
  <2>1. u \in Seq(Nat) /\ name \in Seq(Nat)
    BY <1>2, Zenon
  <2> QED BY ONLY <2>1, JoinFacts
<1>4. t = x
  BY Zenon DEF u, one
<1> HIDE DEF x
<1>5. Len(u) = Len(s) + 1 /\ u[Len(s) + 1] = Len(name)
  <2>1. 1 \in 1 .. Len(one)
    BY <1>1
  <2>2. u[Len(s) + 1] = one[1]
    BY <1>2, <2>1, Zenon
  <2> QED BY <1>1, <1>2, <2>2, Zenon
<1>6. Len(x) = Len(s) + 1 + Len(name) /\ Len(s) <= Len(x)
  BY <1>1, <1>3, <1>5
<1>7. \A k \in 1 .. Len(s) : k \in 1 .. Len(u)
  BY <1>1, <1>5
<1>8. \A k \in 1 .. Len(s) : x[k] = s[k]
  BY <1>2, <1>3, <1>7, Zenon
<1>9. Begins(s, x)
  BY <1>6, <1>8, Zenon DEF Begins
<1>10. x[Len(s) + 1] = Len(name)
  <2>1. Len(s) + 1 \in 1 .. Len(u)
    BY <1>1, <1>5
  <2> QED BY <1>3, <1>5, <2>1, Zenon
<1>11. \A k \in 1 .. Len(name) : x[Len(s) + 1 + k] = name[k]
  BY <1>3, <1>5, Zenon
<1> QED BY <1>3, <1>4, <1>6, <1>9, <1>10, <1>11, Zenon

\* The beginning of a beginning.
LEMMA BeginsTrans ==
    ASSUME NEW a \in Seq(Nat), NEW b \in Seq(Nat), NEW c \in Seq(Nat), Begins(a, b), Begins(b, c)
    PROVE  Begins(a, c)
<1>1. Len(a) \in Nat /\ Len(b) \in Nat /\ Len(c) \in Nat /\ Len(a) <= Len(b) /\ Len(b) <= Len(c)
  BY DEF Begins
<1>2. \A k \in 1 .. Len(a) : k \in 1 .. Len(b)
  BY <1>1
<1>3. \A k \in 1 .. Len(a) : c[k] = a[k]
  BY <1>2, Zenon DEF Begins
<1> QED BY <1>1, <1>3 DEF Begins

\* What was written first stays in front.
LEMMA WritingGrows ==
    ASSUME NEW names \in Seq(Seq(Nat)), NEW w \in [0 .. Len(names) -> Seq(Nat)],
           Writing(names, w), NEW i \in 0 .. Len(names)
    PROVE  Begins(w[i], Written(names))
<1> DEFINE n == Len(names)
           m == n - i
           E == {d \in 0 .. m : Begins(w[i], w[i + d])}
<1>1. n \in Nat /\ m \in Nat
  OBVIOUS
<1>2. 0 \in E
  <2>1. i + 0 = i /\ w[i] \in Seq(Nat) /\ 0 \in 0 .. m
    BY <1>1
  <2> QED BY <2>1 DEF Begins
<1>3. ASSUME NEW d \in 0 .. m - 1, d \in E PROVE d + 1 \in E
  <2> DEFINE j == i + d
  <2>1. j + 1 \in 1 .. n /\ (j + 1) - 1 = j /\ j \in 0 .. n /\ j + 1 \in 0 .. n /\ i + (d + 1) = j + 1
        /\ d + 1 \in 0 .. m
    BY <1>1
  <2> HIDE DEF j
  <2>2. names[j + 1] \in Seq(Nat)
    BY <2>1
  <2>3. w[j + 1] = w[j] \o <<Len(names[j + 1])>> \o names[j + 1]
    BY <2>1, Zenon DEF Writing
  <2>4. w[j] \in Seq(Nat) /\ w[j + 1] \in Seq(Nat) /\ w[i] \in Seq(Nat)
    BY <2>1, Zenon
  <2>5. Begins(w[j], w[j + 1])
    BY ONLY <2>2, <2>3, <2>4, OneMoreName
  <2>6. Begins(w[i], w[j])
    BY <1>3, Zenon DEF j
  <2>7. Begins(w[i], w[j + 1])
    BY ONLY <2>4, <2>5, <2>6, BeginsTrans, Zenon
  <2> QED BY <2>1, <2>7, Zenon
<1>4. \A d \in 0 .. m : d \in E
  <2>1. \A d \in 0 .. m - 1 : d \in E => d + 1 \in E
    BY <1>3, Zenon
  <2> HIDE DEF E, m
  <2> QED BY <1>1, <1>2, <2>1, InductionUpTo, Zenon
<1>5. m \in 0 .. m /\ i + m = n
  BY <1>1
<1>6. Begins(w[i], w[n])
  BY <1>4, <1>5, Zenon
<1> QED BY <1>6, Zenon DEF Writing

\* A name and its length are in a list behind position p.
NameAt(in, p, name) ==
    /\ p + 1 + Len(name) <= Len(in)
    /\ in[p + 1] = Len(name)
    /\ \A k \in 1 .. Len(name) : in[p + 1 + k] = name[k]

\* Where name i is in the list that was written.
LEMMA WrittenAt ==
    ASSUME NEW names \in Seq(Seq(Nat)), NEW w \in [0 .. Len(names) -> Seq(Nat)],
           Writing(names, w), NEW i \in 1 .. Len(names)
    PROVE  /\ Len(w[i]) = Len(w[i - 1]) + 1 + Len(names[i])
           /\ NameAt(Written(names), Len(w[i - 1]), names[i])
<1> DEFINE n == Len(names)
           in == Written(names)
           p == Len(w[i - 1])
           L == Len(names[i])
<1>1. i - 1 \in 0 .. n /\ i \in 0 .. n /\ names[i] \in Seq(Nat)
  OBVIOUS
<1>2. w[i - 1] \in Seq(Nat) /\ w[i] \in Seq(Nat)
  BY <1>1, Zenon
<1>3. p \in Nat /\ L \in Nat
  BY <1>1, <1>2
<1>4. w[i] = w[i - 1] \o <<Len(names[i])>> \o names[i]
  BY Zenon DEF Writing
<1>5. /\ Len(w[i]) = p + 1 + L
      /\ w[i][p + 1] = L
      /\ \A k \in 1 .. L : w[i][p + 1 + k] = names[i][k]
  <2> DEFINE a == w[i - 1]
             t == w[i]
             name == names[i]
  <2>1. a \in Seq(Nat) /\ name \in Seq(Nat) /\ t = a \o <<Len(name)>> \o name
    BY <1>1, <1>2, <1>4, Zenon
  <2> HIDE DEF a, t, name
  <2>2. /\ Len(t) = Len(a) + 1 + Len(name)
        /\ t[Len(a) + 1] = Len(name)
        /\ \A k \in 1 .. Len(name) : t[Len(a) + 1 + k] = name[k]
    BY ONLY <2>1, OneMoreName
  <2> QED BY <2>2, Zenon DEF a, t, name
<1>6. Begins(w[i], in)
  BY <1>1, WritingGrows, Zenon
<1>7. Len(w[i]) <= Len(in) /\ \A k \in 1 .. Len(w[i]) : in[k] = w[i][k]
  BY <1>6, Zenon DEF Begins
<1> HIDE DEF p, L
<1>8. p + 1 \in 1 .. Len(w[i]) /\ \A k \in 1 .. L : p + 1 + k \in 1 .. Len(w[i])
  BY <1>3, <1>5
<1>9. in[p + 1] = L /\ \A k \in 1 .. L : in[p + 1 + k] = names[i][k]
  BY <1>5, <1>7, <1>8, Zenon
<1> QED BY <1>5, <1>7, <1>9, Zenon DEF p, L, NameAt

-----------------------------------------------------------------------------
\* The loop of the callback at position i ends there, or takes h2 there.
AtEnd(in, i) == i = Len(in) \/ i + 1 + in[i + 1] > Len(in)
TakesH2(in, i) == in[i + 1] = 2 /\ SubSeq(in, i + 2, i + 3) = h2

\* The function by whose recursion AlpnSelect is defined.
Selecting(in, from) ==
    /\ \A i \in 0 .. Len(in) :
         from[i] = IF AtEnd(in, i) THEN <<>>
                   ELSE IF TakesH2(in, i) THEN h2 ELSE from[i + 1 + in[i + 1]]
    /\ AlpnSelect(in) = from[0]

\* The recursion of AlpnSelect has a solution, and AlpnSelect is its first
\* value.
LEMMA SelectingExists ==
    ASSUME NEW in \in Seq(Nat)
    PROVE  \E from : Selecting(in, from)
<1> DEFINE n == Len(in)
           D == {<<>>, h2}
           stop == {i \in 0 .. n : AtEnd(in, i) \/ TakesH2(in, i)}
           val == [i \in 0 .. n |-> IF AtEnd(in, i) THEN <<>> ELSE h2]
           nxt == [i \in 0 .. n |-> i + 1 + in[i + 1]]
           Body(f) == [i \in 0 .. Len(in) |->
              IF i = Len(in) \/ i + 1 + in[i + 1] > Len(in) THEN <<>>
              ELSE IF in[i + 1] = 2 /\ SubSeq(in, i + 2, i + 3) = h2 THEN h2
              ELSE f[i + 1 + in[i + 1]]]
           from == CHOOSE f : f = Body(f)
<1>1. n \in Nat
  OBVIOUS
<1>2. ASSUME NEW i \in 0 .. n, i \notin stop PROVE nxt[i] \in i + 1 .. n
  <2>1. i # n /\ ~(i + 1 + in[i + 1] > n)
    BY <1>2, Zenon DEF AtEnd
  <2>2. in[i + 1] \in Nat
    BY <1>1, <2>1
  <2> QED BY <1>1, <2>1, <2>2
<1>3. val \in [0 .. n -> D] /\ <<>> \in D
  <2> HIDE DEF n
  <2> QED BY Zenon
<1>4. PICK g \in [0 .. n -> D] : Climbs(g, n, stop, val, nxt)
  <2>1. Upward(n, stop, nxt)
    BY <1>2, Zenon DEF Upward
  <2> DEFINE c == <<>>
  <2>2. c \in D
    BY <1>3, Zenon
  <2> HIDE DEF n, D, stop, val, nxt, c
  <2> QED BY <1>1, <1>3, <2>1, <2>2, UpwardRecursionExists, Zenon
<1>5. g = Body(g)
  <2>1. ASSUME NEW i \in 0 .. n PROVE g[i] = Body(g)[i]
    <3>1. val[i] = (IF AtEnd(in, i) THEN <<>> ELSE h2) /\ nxt[i] = i + 1 + in[i + 1]
      BY Zenon
    <3>2. g[i] = IF AtEnd(in, i) THEN <<>> ELSE IF TakesH2(in, i) THEN h2 ELSE g[i + 1 + in[i + 1]]
      <4> HIDE DEF val, nxt
      <4> QED BY <1>4, <3>1, Zenon DEF Climbs
    <3>3. Body(g)[i] = IF AtEnd(in, i) THEN <<>> ELSE IF TakesH2(in, i) THEN h2 ELSE g[i + 1 + in[i + 1]]
      <4> HIDE DEF h2
      <4> QED BY Zenon DEF AtEnd, TakesH2
    <3> QED BY <3>2, <3>3, Zenon
  <2> QED BY <2>1, Zenon
<1>6. from = Body(from)
  <2> HIDE DEF Body
  <2> QED BY <1>5, Zenon
<1>7. AlpnSelect(in) = from[0]
  BY Zenon DEF AlpnSelect
<1> HIDE DEF from
<1>8. ASSUME NEW i \in 0 .. n
      PROVE  from[i] = IF AtEnd(in, i) THEN <<>>
                       ELSE IF TakesH2(in, i) THEN h2 ELSE from[i + 1 + in[i + 1]]
  <2>1. from[i] = Body(from)[i]
    BY <1>6, Zenon
  <2>2. Body(from)[i] = IF AtEnd(in, i) THEN <<>>
                        ELSE IF TakesH2(in, i) THEN h2 ELSE from[i + 1 + in[i + 1]]
    <3> HIDE DEF h2
    <3> QED BY Zenon DEF AtEnd, TakesH2
  <2> QED BY <2>1, <2>2, Zenon
<1>9. Selecting(in, from)
  BY <1>7, <1>8, Zenon DEF Selecting
<1> QED BY <1>9, Zenon

\* At the beginning of a name the loop takes h2 if the name is h2.
LEMMA TakesName ==
    ASSUME NEW in \in Seq(Nat), NEW p \in Nat, NEW name \in Seq(Nat), NameAt(in, p, name)
    PROVE  ~ AtEnd(in, p) /\ (TakesH2(in, p) <=> name = h2)
<1> USE DEF NameAt
<1>1. Len(name) \in Nat /\ Len(in) \in Nat
  OBVIOUS
<1>2. ~ AtEnd(in, p)
  BY <1>1 DEF AtEnd
<1>3. h2 \in Seq(Nat) /\ Len(h2) = 2 /\ h2[1] = 104 /\ h2[2] = 50
  BY DEF h2
<1>4. CASE Len(name) # 2
  BY <1>2, <1>3, <1>4, Zenon DEF TakesH2
<1>5. CASE Len(name) = 2
  <2> DEFINE a == SubSeq(in, p + 2, p + 3)
  <2>1. p + 2 \in 1 .. Len(in) /\ p + 3 \in (p + 2) .. Len(in) /\ (p + 3) - (p + 2) + 1 = 2
    BY <1>1, <1>5
  <2>2. a \in Seq(Nat) /\ Len(a) = 2 /\ \A k \in 1 .. 2 : a[k] = in[(p + 2) + k - 1]
    BY <2>1, SubSeqFacts
  <2>3. a[1] = in[p + 2] /\ a[2] = in[p + 3]
    <3>1. (p + 2) + 1 - 1 = p + 2 /\ (p + 2) + 2 - 1 = p + 3 /\ 1 \in 1 .. 2 /\ 2 \in 1 .. 2
      OBVIOUS
    <3> HIDE DEF a
    <3> QED BY <2>2, <3>1, Zenon
  <2>4. name[1] = in[p + 2] /\ name[2] = in[p + 3]
    <3>1. p + 1 + 1 = p + 2 /\ p + 1 + 2 = p + 3 /\ 1 \in 1 .. Len(name) /\ 2 \in 1 .. Len(name)
      BY <1>5
    <3> QED BY <3>1, Zenon
  <2> HIDE DEF a
  <2>5. a = name
    <3>1. \A k \in 1 .. 2 : k = 1 \/ k = 2
      OBVIOUS
    <3>2. \A k \in 1 .. Len(a) : a[k] = name[k]
      BY <2>2, <2>3, <2>4, <3>1, Zenon
    <3> QED BY <1>5, <2>2, <3>2, SameSeq, Zenon
  <2>6. TakesH2(in, p) <=> a = h2
    BY <1>5, Zenon DEF TakesH2, a
  <2> QED BY <1>2, <2>5, <2>6, Zenon
<1> QED BY <1>2, <1>4, <1>5, Zenon

\* The callback finds h2 in a list exactly if it is in the list.
LEMMA SelectsH2 ==
    ASSUME NEW names \in Seq(Seq(Nat))
    PROVE  AlpnSelect(Written(names)) = h2 <=> \E i \in 1 .. Len(names) : names[i] = h2
<1> DEFINE n == Len(names)
           in == Written(names)
<1>1. n \in Nat
  OBVIOUS
<1>2. PICK w \in [0 .. n -> Seq(Nat)] : Writing(names, w)
  BY WritingExists, Zenon
<1>3. in \in Seq(Nat) /\ in = w[n] /\ w[0] = <<>>
  BY <1>1, <1>2 DEF Writing
<1>4. PICK from : Selecting(in, from)
  BY <1>3, SelectingExists, Zenon
<1> DEFINE After(k) == from[Len(w[n - k])] = h2 <=> \E i \in (n - k) + 1 .. n : names[i] = h2
           E == {k \in 0 .. n : After(k)}
<1>5. 0 \in E
  <2>1. n - 0 = n /\ (n - 0) + 1 .. n = {} /\ Len(in) \in 0 .. Len(in) /\ 0 \in 0 .. n
    BY <1>1, <1>3
  <2>2. from[Len(in)] = <<>>
    BY <1>4, <2>1, Zenon DEF Selecting, AtEnd
  <2>3. <<>> # h2
    BY Zenon DEF h2
  <2> HIDE DEF n, in
  <2> QED BY <1>3, <2>1, <2>2, <2>3, Zenon
<1>6. ASSUME NEW k \in 0 .. n - 1, k \in E PROVE k + 1 \in E
  <2> DEFINE i == n - k
             p == Len(w[i - 1])
             L == Len(names[i])
  <2>1. i \in 1 .. n /\ n - (k + 1) = i - 1 /\ (i - 1) + 1 = i /\ k + 1 \in 0 .. n
    BY <1>1
  <2> HIDE DEF i
  <2>2. names[i] \in Seq(Nat) /\ w[i - 1] \in Seq(Nat)
    <3>1. names[i] \in Seq(Nat)
      BY ONLY <2>1, names \in Seq(Seq(Nat))
    <3>2. i - 1 \in 0 .. n
      BY <1>1, <2>1
    <3>3. w[i - 1] \in Seq(Nat)
      <4> HIDE DEF n
      <4> QED BY ONLY <3>2, w \in [0 .. n -> Seq(Nat)], Zenon
    <3> QED BY <3>1, <3>3, Zenon
  <2>10. Len(w[i]) = p + 1 + L /\ NameAt(in, p, names[i])
    BY <1>2, <2>1, WrittenAt, Zenon
  <2>11. p \in Nat /\ L \in Nat /\ Len(in) \in Nat
    BY <1>3, <2>2
  <2>3. ~ AtEnd(in, p) /\ (TakesH2(in, p) <=> names[i] = h2)
    <3> HIDE DEF in, p, L
    <3> QED BY <1>3, <2>2, <2>10, <2>11, TakesName, Zenon
  <2>4. p \in 0 .. Len(in) /\ in[p + 1] = L
    <3>1. p + 1 + L <= Len(in) /\ in[p + 1] = L
      BY <2>10, Zenon DEF NameAt
    <3> HIDE DEF in, p, L
    <3> QED BY <2>11, <3>1
  <2>5. from[p] = IF names[i] = h2 THEN h2 ELSE from[p + 1 + L]
    <3> HIDE DEF in, p, L
    <3> QED BY <1>4, <2>3, <2>4, Zenon DEF Selecting
  <2>6. from[p + 1 + L] = h2 <=> \E j \in i + 1 .. n : names[j] = h2
    <3>1. from[Len(w[i])] = h2 <=> \E j \in i + 1 .. n : names[j] = h2
      BY <1>6, Zenon DEF i
    <3> HIDE DEF in, p, L
    <3> QED BY <2>10, <3>1, Zenon
  <2>7. (\E j \in i .. n : names[j] = h2) <=> names[i] = h2 \/ \E j \in i + 1 .. n : names[j] = h2
    <3>1. i \in i .. n /\ (\A j \in i .. n : j = i \/ j \in i + 1 .. n)
          /\ (\A j \in i + 1 .. n : j \in i .. n)
      BY <1>1, <2>1
    <3> HIDE DEF n
    <3> QED BY <3>1, Zenon
  <2>8. from[p] = h2 <=> \E j \in i .. n : names[j] = h2
    <3> HIDE DEF p, L, n
    <3> QED BY <2>5, <2>6, <2>7, Zenon
  <2>9. After(k + 1)
    <3> HIDE DEF n
    <3> QED BY <2>1, <2>8, Zenon
  <2> HIDE DEF After
  <2> QED BY <2>1, <2>9, Zenon
<1>7. \A k \in 0 .. n : k \in E
  <2>1. \A k \in 0 .. n - 1 : k \in E => k + 1 \in E
    BY <1>6, Zenon
  <2> HIDE DEF E, n
  <2> QED BY <1>1, <1>5, <2>1, InductionUpTo, Zenon
<1>8. After(n)
  <2>1. n \in 0 .. n
    BY <1>1
  <2> HIDE DEF After, n
  <2> QED BY <1>7, <2>1, Zenon
<1>9. n - n = 0 /\ 0 + 1 = 1 /\ Len(w[0]) = 0
  BY <1>1, <1>3
<1>10. AlpnSelect(in) = from[0]
  BY <1>4, Zenon DEF Selecting
<1> HIDE DEF n
<1>11. from[0] = h2 <=> \E i \in 1 .. n : names[i] = h2
  BY <1>8, <1>9, Zenon
<1> QED BY <1>10, <1>11, Zenon DEF n

\* A connection is HTTP/2 on both ends, for any lists of names of any length.
THEOREM AlpnCorrect == TlsSpec => []AlpnAgrees
<1>1. TlsInit => AlpnAgrees
  BY Zenon DEF TlsInit, AlpnAgrees
<1>2. AlpnAgrees /\ [TlsNext]_tlsVars => AlpnAgrees'
  <2> SUFFICES ASSUME AlpnAgrees, [TlsNext]_tlsVars PROVE AlpnAgrees'
    OBVIOUS
  <2>1. CASE UNCHANGED <<side, ssl, offered, selected>>
    BY <2>1, Zenon DEF AlpnAgrees
  <2>2. CASE NewContext \/ NoText \/ OpenBio \/ ReadPem \/ UseObject \/ CheckKey \/ LoadRoots
             \/ DestroyContext \/ UNCHANGED tlsVars
    BY <2>1, <2>2, Zenon DEF NewContext, NoText, OpenBio, ReadPem, UseObject, CheckKey, LoadRoots,
                      DestroyContext, tlsVars
  <2>3. CASE SslNew \/ SslShutdown
    BY <2>3, Zenon DEF SslNew, SslShutdown, AlpnAgrees
  <2>4. CASE Connect
    BY <2>4, Zenon DEF Connect, AlpnAgrees
  <2>5. ASSUME NEW names \in Offers, Accept(names) PROVE AlpnAgrees'
    <3>1. names \in Seq(Seq(Nat))
      <4>1. PICK n \in 1 .. MaxOffered : names \in [1 .. n -> Protocols]
        BY Zenon DEF Offers
      <4>2. n \in Nat /\ names \in [1 .. n -> Seq(Nat)]
        BY <4>1, TlsAssumption
      <4> QED BY <4>2, FunctionIsSeq, Zenon
    <3>2. CASE ssl' = "open"
      <4>1. selected' = AlpnSelect(Written(names)) /\ offered' = names /\ side' = "server"
        BY <2>5, <3>2, Zenon DEF Accept
      <4>2. AlpnSelect(Written(names)) = h2 <=> \E i \in 1 .. Len(names) : names[i] = h2
        BY <3>1, SelectsH2, Zenon
      <4>3. selected' = h2 <=> \E i \in 1 .. Len(offered') : offered'[i] = h2
        BY <4>1, <4>2, Zenon
      <4> QED BY <4>1, <4>3, Zenon DEF AlpnAgrees
    <3>3. CASE ssl' # "open"
      BY <3>3, Zenon DEF AlpnAgrees
    <3> QED BY <3>2, <3>3, Zenon
  <2> QED BY <2>2, <2>3, <2>4, <2>5, Zenon DEF TlsNext
<1> QED BY <1>1, <1>2, PTL DEF TlsSpec
=============================================================================
