----------------------------- MODULE ListProofs -----------------------------
(***************************************************************************)
(* Proofs about the linked lists that threads share behind a mutex: the    *)
(* events of a completion queue, for any set of events and any finite set  *)
(* of consumers, and the services of the reflection registry, for any      *)
(* number of threads, services and methods.                                *)
(***************************************************************************)
EXTENDS CompletionQueue, Reflection, Induction

\* No step takes a pointer, a program counter or a history out of its type.
LEMMA DataCorrect == DataOK /\ [Next]_vars => DataOK'
<1> SUFFICES ASSUME DataOK, [Next]_vars PROVE DataOK'
  BY Zenon
<1> USE DEF DataOK, Pointers, Stages, PCs, Outcomes
<1>1. ASSUME NEW e \in Events, PushAlloc(e) PROVE DataOK'
  BY <1>1, Zenon DEF PushAlloc
<1>2. ASSUME NEW e \in Events, PushLink(e) PROVE DataOK'
  <2>1. pc' \in [Consumers -> PCs]
    BY <1>2, Zenon DEF PushLink, CondSignal, Sleeping
  <2>2. /\ head' \in Pointers
        /\ tail' \in Pointers
        /\ next' \in [Events -> Pointers]
        /\ stage' \in [Events -> Stages]
    BY <1>2, Zenon DEF PushLink
  <2>3. pushed' \in Seq(Events)
    BY <1>2 DEF PushLink
  <2> QED
    BY <1>2, <2>1, <2>2, <2>3, Zenon DEF PushLink
<1>3. ASSUME NEW c \in Consumers, NextCall(c) PROVE DataOK'
  BY <1>3, Zenon DEF NextCall, list
<1>4. ASSUME NEW c \in Consumers, NextWait(c) PROVE DataOK'
  BY <1>4, Zenon DEF NextWait, list
<1>5. ASSUME NEW c \in Consumers, NextBadDeadline(c) PROVE DataOK'
  BY <1>5, Zenon DEF NextBadDeadline, ReturnFromNext, list
<1>6. ASSUME NEW c \in Consumers, NextShutdown(c) PROVE DataOK'
  BY <1>6, Zenon DEF NextShutdown, ReturnFromNext, list
<1>7. ASSUME NEW c \in Consumers, NextPop(c) PROVE DataOK'
  BY <1>7 DEF NextPop, InLoop, ReturnFromNext, ResetTail
<1>8. ASSUME NEW c \in Consumers, NextTimeout(c) PROVE DataOK'
  BY <1>8, Zenon DEF NextTimeout, ReturnFromNext, list
<1>9. ASSUME NEW c \in Consumers, Expire(c) PROVE DataOK'
  BY <1>9, Zenon DEF Expire, list
<1>10. ASSUME NEW c \in Consumers, SpuriousWakeup(c) PROVE DataOK'
  BY <1>10, Zenon DEF SpuriousWakeup, list
<1>11. CASE Shutdown
  BY <1>11 DEF Shutdown, CondBroadcast, list
<1>12. CASE Destroy
  BY <1>12, Zenon DEF Destroy
<1>13. CASE UNCHANGED vars
  BY <1>13, Zenon DEF vars
<1> QED
  BY <1>1, <1>2, <1>3, <1>4, <1>5, <1>6, <1>7, <1>8, <1>9, <1>10, <1>11,
     <1>12, <1>13 DEF Next, NextSteps

\* The two flags of the queue stay Booleans.
LEMMA FlagsCorrect ==
    shutdown \in BOOLEAN /\ freed \in BOOLEAN /\ [Next]_vars
        => shutdown' \in BOOLEAN /\ freed' \in BOOLEAN
BY Zenon DEF Next, NextSteps, PushAlloc, PushLink, NextCall, NextWait, NextBadDeadline,
   NextShutdown, NextPop, NextTimeout, Expire, SpuriousWakeup, Shutdown,
   Destroy, vars

\* Every variable of the completion queue keeps its type in every behaviour.
THEOREM TypeCorrect == Spec => []TypeOK
<1>1. Init => DataOK
  BY DEF Init, DataOK, Pointers, Stages, PCs, Outcomes
<1>2. Init => TypeOK
  BY <1>1, Zenon DEF Init, TypeOK
<1>3. TypeOK /\ [Next]_vars => TypeOK'
  BY DataCorrect, FlagsCorrect, Zenon DEF TypeOK
<1> QED
  BY <1>2, <1>3, PTL DEF Spec

-----------------------------------------------------------------------------
\* ListIntact is not inductive: a push must know that its node is not in the
\* list yet and is not linked to anything, a pop that no node is in it twice.
ListInv ==
    /\ ListIntact
    /\ \A i, j \in 1..Len(pushed) : pushed[i] = pushed[j] => i = j
    /\ \A i \in 1..Len(pushed) : stage[pushed[i]] \in {"listed", "freed"}
    /\ \A e \in Events : stage[e] = "alloc" => next[e] = NULL

\* A push appends its node behind the last one and disturbs nothing else.
LEMMA PushKeepsList ==
    ASSUME NEW e \in Events, DataOK, ListInv, PushLink(e)
    PROVE  ListInv'
<1> DEFINE n == Len(delivered)
           m == Len(pushed)
<1>1. /\ pushed' = Append(pushed, e)
      /\ Len(pushed') = m + 1
      /\ pushed'[m + 1] = e
      /\ \A i \in 1..m : pushed'[i] = pushed[i]
  BY DEF PushLink, DataOK
<1>2. delivered' = delivered /\ ~freed /\ freed' = freed /\ n \in Nat /\ m \in Nat
  BY DEF PushLink, DataOK
<1>3. \A i \in 1..m : pushed[i] # e /\ pushed[i] \in Events
  BY DEF PushLink, ListInv, DataOK
<1>4. n <= m /\ \A i \in 1..n : delivered[i] = pushed[i]
  BY Zenon DEF ListInv, ListIntact
<1>5. tail = IF n = m THEN NULL ELSE pushed[m]
  BY <1>2, Zenon DEF ListInv, ListIntact
<1>6. head' = IF n = m THEN e ELSE pushed[n + 1]
  BY <1>2, <1>3, <1>4, <1>5, CQAssumption DEF ListInv, ListIntact, PushLink
<1>7. next' = IF n = m THEN next ELSE [next EXCEPT ![pushed[m]] = e]
  BY <1>2, <1>3, <1>4, <1>5, CQAssumption DEF PushLink
<1>8. next[e] = NULL
  BY Zenon DEF ListInv, PushLink
<1>9. \A i \in (n + 1)..(m + 1) :
        /\ stage'[pushed'[i]] = "listed"
        /\ next'[pushed'[i]] = IF i = m + 1 THEN NULL ELSE pushed'[i + 1]
  <2> SUFFICES ASSUME NEW i \in (n + 1)..(m + 1)
               PROVE  /\ stage'[pushed'[i]] = "listed"
                      /\ next'[pushed'[i]] = IF i = m + 1 THEN NULL ELSE pushed'[i + 1]
    BY Zenon
  <2>1. CASE i = m + 1
    <3>1. next'[e] = NULL
      BY <1>2, <1>3, <1>4, <1>7, <1>8 DEF DataOK
    <3> QED
      BY <2>1, <3>1, <1>1, Zenon DEF PushLink, DataOK
  <2>2. CASE i < m + 1
    <3>1. i \in 1..m /\ i \in (n + 1)..m /\ pushed'[i] = pushed[i] /\ m \in 1..m
      BY <2>2, <1>1, <1>2
    <3>2. stage[pushed[i]] = "listed" /\ next[pushed[i]] = IF i = m THEN NULL ELSE pushed[i + 1]
      BY <3>1, <1>2, Zenon DEF ListInv, ListIntact
    <3>3. i # m => pushed[i] # pushed[m]
      BY <3>1, Zenon DEF ListInv
    <3>4. n # m
      BY <3>1, <1>2
    <3> QED
      BY <2>2, <3>1, <3>2, <3>3, <3>4, <1>1, <1>2, <1>3, <1>7 DEF PushLink, DataOK
  <2> QED
    BY <2>1, <2>2, <1>2
<1>10. ListIntact'
  <2>1. tail' = e
    BY Zenon DEF PushLink
  <2>2. \A i \in 1..n : delivered'[i] = pushed'[i]
    BY <1>1, <1>2, <1>4
  <2>3. head' = pushed'[n + 1]
    BY <1>1, <1>2, <1>4, <1>6
  <2> QED
    BY <1>1, <1>2, <1>4, <1>9, <2>1, <2>2, <2>3 DEF ListIntact
<1>11. (\A i, j \in 1..Len(pushed) : pushed[i] = pushed[j] => i = j)'
  BY <1>1, <1>2, <1>3 DEF ListInv
<1>12. (\A i \in 1..Len(pushed) : stage[pushed[i]] \in {"listed", "freed"})'
  BY <1>1, <1>2, <1>3 DEF ListInv, PushLink, DataOK
<1>13. (\A x \in Events : stage[x] = "alloc" => next[x] = NULL)'
  <2> SUFFICES ASSUME NEW x \in Events, stage'[x] = "alloc" PROVE next'[x] = NULL
    BY Zenon
  <2>1. x # e /\ stage[x] = "alloc" /\ next[x] = NULL
    BY Zenon DEF PushLink, DataOK, ListInv
  <2>2. \A i \in 1..m : pushed[i] # x
    BY <2>1, Zenon DEF ListInv
  <2> QED
    BY <2>1, <2>2, <1>2, <1>4, <1>7 DEF DataOK
<1> QED
  BY <1>10, <1>11, <1>12, <1>13, Zenon DEF ListInv

\* A pop removes the oldest node and leaves the rest of the list as it was.
LEMMA PopKeepsList ==
    ASSUME NEW c \in Consumers, DataOK, ListInv, NextPop(c)
    PROVE  ListInv'
<1> DEFINE n == Len(delivered)
           m == Len(pushed)
<1>1. ~freed /\ freed' = freed /\ pushed' = pushed /\ next' = next /\ n \in Nat /\ m \in Nat
  BY DEF NextPop, InLoop, DataOK
<1>2. n < m /\ head = pushed[n + 1] /\ head \in Events
  BY <1>1 DEF NextPop, ListInv, ListIntact, DataOK, Pointers
<1>3. /\ Len(delivered') = n + 1
      /\ delivered'[n + 1] = pushed[n + 1]
      /\ \A i \in 1..n : delivered'[i] = pushed[i]
  BY <1>1, <1>2 DEF NextPop, ListInv, ListIntact, DataOK
<1>4. next[head] = IF n + 1 = m THEN NULL ELSE pushed[n + 2]
  BY <1>1, <1>2 DEF ListInv, ListIntact
<1>5. \A i \in 1..m : pushed[i] \in Events /\ pushed[i] # NULL
  BY CQAssumption DEF DataOK
<1>6. head' = IF n + 1 = m THEN NULL ELSE pushed[n + 2]
  BY <1>4, Zenon DEF NextPop
<1>7. tail' = IF n + 1 = m THEN NULL ELSE pushed[m]
  BY <1>1, <1>2, <1>4, <1>5 DEF NextPop, ResetTail, ListInv, ListIntact
<1>8. \A i \in (n + 2)..m : stage'[pushed[i]] = "listed"
  <2> SUFFICES ASSUME NEW i \in (n + 2)..m PROVE stage'[pushed[i]] = "listed"
    BY Zenon
  <2>1. pushed[i] # pushed[n + 1]
    BY <1>1, <1>2 DEF ListInv
  <2>2. stage[pushed[i]] = "listed" /\ pushed[i] \in Events
    BY <1>1, <1>5 DEF ListInv, ListIntact
  <2>3. stage' = [stage EXCEPT ![pushed[n + 1]] = "freed"]
    BY <1>2, Zenon DEF NextPop
  <2> QED
    BY <2>1, <2>2, <2>3, Zenon DEF DataOK
<1>9. ListIntact'
  <2>1. \A i \in (n + 2)..m : next[pushed[i]] = IF i = m THEN NULL ELSE pushed[i + 1]
    BY <1>1 DEF ListInv, ListIntact
  <2>2. \A i \in 1..(n + 1) : delivered'[i] = pushed[i]
    BY <1>1, <1>3
  <2>3. (n + 1) + 1 = n + 2 /\ n + 1 <= m
    BY <1>1, <1>2
  <2> HIDE DEF n, m
  <2>4. Len(delivered') = n + 1 /\ Len(pushed') = m
    BY <1>1, <1>3, Zenon DEF m
  <2> QED
    BY <1>1, <1>6, <1>7, <1>8, <2>1, <2>2, <2>3, <2>4 DEF ListIntact
<1>10. (\A i \in 1..Len(pushed) : stage[pushed[i]] \in {"listed", "freed"})'
  BY <1>1, <1>2, <1>5, Zenon DEF ListInv, NextPop, DataOK
<1>11. (\A x \in Events : stage[x] = "alloc" => next[x] = NULL)'
  BY <1>1, <1>2, Zenon DEF ListInv, NextPop, DataOK
<1> QED
  BY <1>1, <1>9, <1>10, <1>11, Zenon DEF ListInv

\* Destruction and every other step keep the list as it is.
LEMMA ListInvariant == DataOK /\ ListInv /\ [Next]_vars => ListInv'
<1> SUFFICES ASSUME DataOK, ListInv, [Next]_vars PROVE ListInv'
  BY Zenon
<1>1. ASSUME NEW e \in Events, PushAlloc(e) PROVE ListInv'
  <2>1. \A i \in 1..Len(pushed) : pushed[i] # e /\ pushed[i] \in Events
    BY <1>1 DEF PushAlloc, ListInv, DataOK
  <2>2. \A x \in Events \ {e} : stage'[x] = stage[x] /\ next'[x] = next[x]
    BY <1>1, Zenon DEF PushAlloc, DataOK
  <2>3. next'[e] = NULL
    BY <1>1, Zenon DEF PushAlloc, DataOK
  <2>4. UNCHANGED <<head, tail, freed, pushed, delivered>>
    BY <1>1, Zenon DEF PushAlloc
  <2>5. Len(pushed) \in Nat /\ Len(delivered) \in Nat
    BY DEF DataOK
  <2>6. ListIntact'
    <3>1. \A i \in Len(delivered) + 1 .. Len(pushed) : i \in 1 .. Len(pushed)
      BY <2>5
    <3>2. \A i \in Len(delivered) + 1 .. Len(pushed) :
            stage'[pushed[i]] = stage[pushed[i]] /\ next'[pushed[i]] = next[pushed[i]]
      BY <2>1, <2>2, <3>1, Zenon
    <3>3. /\ Len(delivered) <= Len(pushed) /\ \A i \in 1 .. Len(delivered) : delivered[i] = pushed[i]
          /\ ~freed =>
               /\ head = IF Len(delivered) = Len(pushed) THEN NULL ELSE pushed[Len(delivered) + 1]
               /\ tail = IF Len(delivered) = Len(pushed) THEN NULL ELSE pushed[Len(pushed)]
               /\ \A i \in Len(delivered) + 1 .. Len(pushed) :
                    /\ stage'[pushed[i]] = "listed"
                    /\ next'[pushed[i]] = IF i = Len(pushed) THEN NULL ELSE pushed[i + 1]
      BY <3>2, Zenon DEF ListInv, ListIntact
    <3>4. /\ head' = head /\ tail' = tail /\ freed' = freed
          /\ pushed' = pushed /\ delivered' = delivered
      BY <2>4, Zenon
    <3> QED BY ONLY <3>3, <3>4, Zenon DEF ListIntact
  <2> QED
    BY <2>1, <2>2, <2>3, <2>4, <2>6, Zenon DEF ListInv
<1>2. ASSUME NEW e \in Events, PushLink(e) PROVE ListInv'
  BY <1>2, PushKeepsList, Zenon
<1>3. ASSUME NEW c \in Consumers, NextPop(c) PROVE ListInv'
  BY <1>3, PopKeepsList
<1>4. CASE Destroy
  <2>1. freed' /\ UNCHANGED <<pushed, delivered, next>>
    BY <1>4, Zenon DEF Destroy
  <2>2. \A e \in Events : stage'[e] = IF stage[e] = "listed" THEN "freed" ELSE stage[e]
    BY <1>4, Zenon DEF Destroy
  <2>3. \A i \in 1..Len(pushed) : pushed[i] \in Events
    BY DEF DataOK
  <2> QED
    BY <2>1, <2>2, <2>3 DEF ListInv, ListIntact
<1>5. CASE UNCHANGED <<list, freed, delivered>>
  BY <1>5 DEF ListInv, ListIntact, list
<1> QED
  BY <1>1, <1>2, <1>3, <1>4, <1>5, Zenon DEF Next, NextSteps, NextCall, NextWait,
     NextBadDeadline, NextShutdown, NextTimeout, Expire, SpuriousWakeup, Shutdown, vars, list

\* Events leave the queue in the order in which they entered it, none twice,
\* and the linked list always holds exactly those still to be delivered:
\* push (grpc_core.c:61) and next (grpc_core.c:85) never lose an event, leave
\* tail dangling or reach a freed node.
THEOREM ListCorrect == Spec => []ListIntact
<1>1. Init => ListInv
  BY DEF Init, ListInv, ListIntact
<1>2. ListInv => ListIntact
  BY Zenon DEF ListInv
<1>3. TypeOK => DataOK
  BY Zenon DEF TypeOK
<1> QED
  BY <1>1, <1>2, <1>3, TypeCorrect, ListInvariant, PTL DEF Spec

-----------------------------------------------------------------------------
\* The signalled consumers can be counted.
LEMMA SignalledFinite ==
    IsFiniteSet(Signalled) /\ Cardinality(Signalled) \in Nat
BY CQAssumption, FS_Subset, FS_CardinalityType, Zenon DEF Signalled

\* An empty list means that everything pushed has been delivered.
LEMMA EmptyList ==
    ASSUME DataOK, ListIntact, ~freed, head = NULL
    PROVE  Len(pushed) - Len(delivered) = 0
<1>1. \A i \in 1..Len(pushed) : pushed[i] # NULL
  BY CQAssumption DEF DataOK
<1>2. Len(pushed) \in Nat /\ Len(delivered) \in Nat
  BY DEF DataOK
<1> QED
  BY <1>1, <1>2 DEF ListIntact

\* The count behind "no lost wake-up": a push adds one event and, if anyone
\* sleeps, one signalled consumer; a consumer goes to sleep only when the list
\* is empty; a signalled consumer that stops being one has taken an event.
LEMMA NoStrandedStep ==
    DataOK /\ ListIntact /\ NoStrandedWaiter /\ [Next]_vars => NoStrandedWaiter'
<1> SUFFICES ASSUME DataOK, ListIntact, NoStrandedWaiter, [Next]_vars,
                    ~freed', Sleeping' # {}
             PROVE  (Len(pushed) - Len(delivered) <= Cardinality(Signalled))'
  BY Zenon DEF NoStrandedWaiter
<1>1. Len(pushed) \in Nat /\ Len(delivered) \in Nat
  BY DEF DataOK
<1>2. ASSUME NEW e \in Events, PushLink(e)
      PROVE  (Len(pushed) - Len(delivered) <= Cardinality(Signalled))'
  <2>1. Len(pushed') = Len(pushed) + 1 /\ delivered' = delivered /\ ~freed
    BY <1>2 DEF PushLink, DataOK
  <2>2. PICK c \in Sleeping : pc' = [pc EXCEPT ![c] = "signalled"]
    BY <1>2, Zenon DEF PushLink, CondSignal, Sleeping
  <2>3. Signalled' = Signalled \cup {c} /\ c \notin Signalled
    BY <2>2, Zenon DEF Signalled, Sleeping, DataOK
  <2>4. Cardinality(Signalled') = Cardinality(Signalled) + 1
    BY <2>3, SignalledFinite, FS_AddElement, Zenon
  <2>5. Len(pushed) - Len(delivered) <= Cardinality(Signalled)
    BY <2>1, <2>2, Zenon DEF NoStrandedWaiter
  <2> QED
    BY <2>1, <2>4, <2>5, <1>1, SignalledFinite
<1>3. ASSUME NEW c \in Consumers, NextPop(c)
      PROVE  (Len(pushed) - Len(delivered) <= Cardinality(Signalled))'
  <2>1. Len(delivered') = Len(delivered) + 1 /\ pushed' = pushed /\ ~freed
    BY <1>3 DEF NextPop, InLoop, DataOK
  <2>2. Sleeping' \subseteq Sleeping /\ Signalled' = Signalled \ {c}
    BY <1>3, Zenon DEF NextPop, InLoop, ReturnFromNext, Sleeping, Signalled, DataOK
  <2>3. Cardinality(Signalled') >= Cardinality(Signalled) - 1
    <3>1. Cardinality(Signalled \ {c}) =
            IF c \in Signalled THEN Cardinality(Signalled) - 1 ELSE Cardinality(Signalled)
      BY SignalledFinite, FS_RemoveElement, Zenon
    <3> QED
      BY <2>2, <3>1, SignalledFinite
  <2>4. Len(pushed) - Len(delivered) <= Cardinality(Signalled)
    BY <2>1, <2>2, Zenon DEF NoStrandedWaiter
  <2>5. Cardinality(Signalled') \in Nat
    BY <2>2, SignalledFinite, FS_Subset, FS_CardinalityType, Zenon
  <2> QED
    BY <2>1, <2>3, <2>4, <2>5, <1>1, SignalledFinite
<1>4. ASSUME NEW c \in Consumers, NextWait(c)
      PROVE  (Len(pushed) - Len(delivered) <= Cardinality(Signalled))'
  <2>1. Len(pushed) - Len(delivered) = 0
    BY <1>4, EmptyList, Zenon DEF NextWait, InLoop
  <2>2. Signalled' \subseteq Signalled
    BY <1>4, Zenon DEF NextWait, Signalled, DataOK
  <2>3. Cardinality(Signalled') \in Nat
    BY <2>2, SignalledFinite, FS_Subset, FS_CardinalityType, Zenon
  <2> QED
    BY <1>4, <2>1, <2>3 DEF NextWait, list
<1>5. ASSUME NEW c \in Consumers, SpuriousWakeup(c)
      PROVE  (Len(pushed) - Len(delivered) <= Cardinality(Signalled))'
  <2>1. Signalled' = Signalled \cup {c} /\ c \notin Signalled /\ c \in Sleeping
    BY <1>5, Zenon DEF SpuriousWakeup, Signalled, Sleeping, DataOK
  <2>2. Cardinality(Signalled') = Cardinality(Signalled) + 1
    BY <2>1, SignalledFinite, FS_AddElement, Zenon
  <2>3. Len(pushed) - Len(delivered) <= Cardinality(Signalled)
    BY <1>5, <2>1, Zenon DEF SpuriousWakeup, NoStrandedWaiter
  <2> QED
    BY <1>1, <1>5, <2>2, <2>3, SignalledFinite DEF SpuriousWakeup, list
<1>6. CASE Shutdown
  BY <1>6, Zenon DEF Shutdown, CondBroadcast, Sleeping
<1>7. ASSUME Sleeping' \subseteq Sleeping, Signalled' = Signalled, ~freed,
             UNCHANGED <<pushed, delivered>>
      PROVE  (Len(pushed) - Len(delivered) <= Cardinality(Signalled))'
  BY <1>7, Zenon DEF NoStrandedWaiter
<1>8. ASSUME NEW e \in Events, PushAlloc(e)
      PROVE  (Len(pushed) - Len(delivered) <= Cardinality(Signalled))'
  BY <1>7, <1>8, Zenon DEF PushAlloc, Sleeping, Signalled
<1>9. ASSUME NEW c \in Consumers, NextCall(c)
      PROVE  (Len(pushed) - Len(delivered) <= Cardinality(Signalled))'
  BY <1>7, <1>9, Zenon DEF NextCall, Sleeping, Signalled, DataOK, list
<1>10. ASSUME NEW c \in Consumers, NextBadDeadline(c)
      PROVE  (Len(pushed) - Len(delivered) <= Cardinality(Signalled))'
  BY <1>7, <1>10, Zenon DEF NextBadDeadline, ReturnFromNext, Sleeping, Signalled, DataOK, list
<1>11. ASSUME NEW c \in Consumers, NextShutdown(c)
      PROVE  (Len(pushed) - Len(delivered) <= Cardinality(Signalled))'
  <2>1. Len(pushed) - Len(delivered) = 0
    BY <1>11, EmptyList, Zenon DEF NextShutdown, InLoop
  <2>2. Signalled' \subseteq Signalled
    BY <1>11, Zenon DEF NextShutdown, ReturnFromNext, Signalled, DataOK
  <2>3. Cardinality(Signalled') \in Nat
    BY <2>2, SignalledFinite, FS_Subset, FS_CardinalityType
  <2> QED
    BY <1>11, <2>1, <2>3 DEF NextShutdown, list
<1>12. ASSUME NEW c \in Consumers, NextTimeout(c)
      PROVE  (Len(pushed) - Len(delivered) <= Cardinality(Signalled))'
  BY <1>7, <1>12, Zenon DEF NextTimeout, ReturnFromNext, Sleeping, Signalled, DataOK, list
<1>13. ASSUME NEW c \in Consumers, Expire(c)
      PROVE  (Len(pushed) - Len(delivered) <= Cardinality(Signalled))'
  BY <1>7, <1>13, Zenon DEF Expire, Sleeping, Signalled, DataOK, list
<1>14. CASE Destroy
  BY <1>14, Zenon DEF Destroy
<1>15. CASE UNCHANGED vars
  BY <1>7, <1>15, Zenon DEF vars, Sleeping, Signalled
<1> QED
  BY <1>2, <1>3, <1>4, <1>5, <1>6, <1>8, <1>9, <1>10, <1>11, <1>12, <1>13,
     <1>14, <1>15, Zenon DEF Next, NextSteps

\* One pthread_cond_signal per push (grpc_core.c:81) is enough: no consumer
\* sleeps in grpc_completion_queue_next while an event nobody was woken for
\* is in the queue.
THEOREM NoLostWakeup == Spec => []NoStrandedWaiter
<1>1. Init => NoStrandedWaiter
  BY Zenon DEF Init, NoStrandedWaiter, Sleeping
<1>2. TypeOK => DataOK
  BY DEF TypeOK
<1> QED
  BY <1>1, <1>2, TypeCorrect, ListCorrect, NoStrandedStep, PTL DEF Spec

-----------------------------------------------------------------------------
\* Nobody has been told of a shutdown that was not called, and shutdown does
\* not wait for events pushed after it.
ShutdownInv ==
    /\ DrainedBeforeShutdownNotice
    /\ ~shutdown => \A c \in Consumers : outcome[c] # "shutdown"
    /\ mark <= Len(pushed)

\* Every step keeps it: the notice is given on an empty list only.
LEMMA ShutdownStep == DataOK /\ ListIntact /\ ShutdownInv /\ [Next]_vars => ShutdownInv'
<1> SUFFICES ASSUME DataOK, ListIntact, ShutdownInv, [Next]_vars PROVE ShutdownInv'
  BY Zenon
<1> USE DEF ShutdownInv, DrainedBeforeShutdownNotice
<1>0. Len(pushed) \in Nat /\ Len(delivered) \in Nat /\ mark \in Nat
  BY DEF DataOK
<1>1. ASSUME NEW e \in Events, PushAlloc(e) PROVE ShutdownInv'
  BY <1>1, Zenon DEF PushAlloc
<1>2. ASSUME NEW e \in Events, PushLink(e) PROVE ShutdownInv'
  <2>1. Len(pushed') = Len(pushed) + 1
    BY <1>2 DEF PushLink, DataOK
  <2> QED
    BY <1>0, <1>2, <2>1 DEF PushLink
<1>3. ASSUME NEW c \in Consumers, NextShutdown(c) PROVE ShutdownInv'
  <2>1. Len(pushed) - Len(delivered) = 0
    BY <1>3, EmptyList, Zenon DEF NextShutdown, InLoop
  <2> QED
    BY <1>0, <1>3, <2>1 DEF NextShutdown, list
<1>4. ASSUME NEW c \in Consumers, NextPop(c) PROVE ShutdownInv'
  <2>1. Len(delivered') = Len(delivered) + 1
    BY <1>4 DEF NextPop, DataOK
  <2>2. head \in Events /\ head # "shutdown"
    BY <1>4, CQAssumption, Zenon DEF NextPop, DataOK, Pointers
  <2>3. \A d \in Consumers : outcome'[d] = "shutdown" => outcome[d] = "shutdown"
    BY <1>4, <2>2, Zenon DEF NextPop, ReturnFromNext, DataOK
  <2> QED
    BY <1>0, <1>4, <2>1, <2>3 DEF NextPop
<1>5. CASE Shutdown
  BY <1>0, <1>5 DEF Shutdown, list
<1>6. ASSUME UNCHANGED <<pushed, delivered, mark, shutdown>>,
             \A d \in Consumers : outcome'[d] = "shutdown" => outcome[d] = "shutdown"
      PROVE  ShutdownInv'
  BY <1>6, Zenon
<1>7. ASSUME NEW c \in Consumers,
             NextCall(c) \/ NextBadDeadline(c) \/ NextTimeout(c)
      PROVE ShutdownInv'
  <2>1. \A d \in Consumers : outcome'[d] = "shutdown" => outcome[d] = "shutdown"
    BY <1>7, Zenon DEF NextCall, NextBadDeadline, NextTimeout, ReturnFromNext, DataOK
  <2> QED
    BY <1>6, <1>7, <2>1, Zenon DEF NextCall, NextBadDeadline, NextTimeout, list
<1>8. ASSUME NEW c \in Consumers, NextWait(c) \/ Expire(c) \/ SpuriousWakeup(c)
      PROVE ShutdownInv'
  BY <1>6, <1>8, Zenon DEF NextWait, Expire, SpuriousWakeup, list
<1>9. CASE Destroy
  BY <1>6, <1>9, Zenon DEF Destroy
<1>10. CASE UNCHANGED vars
  BY <1>6, <1>10, Zenon DEF vars
<1> QED
  BY <1>1, <1>2, <1>3, <1>4, <1>5, <1>7, <1>8, <1>9, <1>10, Zenon DEF Next, NextSteps

\* grpc_completion_queue_next (grpc_core.c:110) reports the shutdown only after
\* every event pushed before grpc_completion_queue_shutdown was delivered.
THEOREM ShutdownDrains == Spec => []DrainedBeforeShutdownNotice
<1>1. Init => ShutdownInv
  BY DEF Init, ShutdownInv, DrainedBeforeShutdownNotice
<1>2. TypeOK => DataOK
  BY DEF TypeOK
<1>3. ShutdownInv => DrainedBeforeShutdownNotice
  BY Zenon DEF ShutdownInv
<1> QED
  BY <1>1, <1>2, <1>3, TypeCorrect, ListCorrect, ShutdownStep, PTL DEF Spec

-----------------------------------------------------------------------------
\* What is pushed and not delivered, in order.
Rest == [i \in 1..(Len(pushed) - Len(delivered)) |-> pushed[Len(delivered) + i]]

\* Following the next pointers from head finds exactly that.
LEMMA ChainIsRest ==
    DataOK /\ ListInv => Chain = IF freed THEN <<>> ELSE Rest
<1> SUFFICES ASSUME DataOK, ListInv, ~freed PROVE Chain = Rest
  BY Zenon DEF Chain
<1> DEFINE n == Len(delivered)
           m == Len(pushed)
           Body(f) == [k \in 0..Len(pushed) |->
                         IF k = 0 THEN head ELSE IF f[k - 1] = NULL THEN NULL ELSE next[f[k - 1]]]
           at == CHOOSE f : f = Body(f)
           G(k) == IF n + 1 + k <= m THEN pushed[n + 1 + k] ELSE NULL
           g == [k \in 0..m |-> G(k)]
<1>1. n \in Nat /\ m \in Nat /\ n <= m
  BY DEF DataOK, ListInv, ListIntact
<1>2. G(0) = head
  BY <1>1 DEF ListInv, ListIntact
<1>3. ASSUME NEW k \in Nat
      PROVE  G(k + 1) = IF G(k) = NULL THEN NULL ELSE next[G(k)]
  <2>1. CASE n + 1 + k <= m
    <3>1. n + 1 + k \in 1..m /\ n + 1 + k \in (n + 1)..m /\ n + 1 + (k + 1) = (n + 1 + k) + 1
      BY <1>1, <2>1
    <3>2. G(k) = pushed[n + 1 + k] /\ G(k) # NULL
      BY <2>1, <3>1, CQAssumption DEF DataOK
    <3>3. next[pushed[n + 1 + k]] = IF n + 1 + k = m THEN NULL ELSE pushed[(n + 1 + k) + 1]
      BY <3>1, Zenon DEF ListInv, ListIntact
    <3>4. n + 1 + k = m <=> ~(n + 1 + (k + 1) <= m)
      BY <1>1, <2>1
    <3> QED BY <3>1, <3>2, <3>3, <3>4, Zenon
  <2>2. CASE ~(n + 1 + k <= m)
    <3>1. ~(n + 1 + (k + 1) <= m)
      BY <1>1, <2>2
    <3> QED BY <2>2, <3>1, Zenon
  <2> QED BY <2>1, <2>2, Zenon
<1> HIDE DEF G
<1>4. g = Body(g)
  <2>1. ASSUME NEW k \in 0..m, k # 0
        PROVE  g[k] = IF g[k - 1] = NULL THEN NULL ELSE next[g[k - 1]]
    <3>1. k - 1 \in Nat /\ (k - 1) + 1 = k /\ k - 1 \in 0..m
      BY <1>1, <2>1
    <3>2. g[k] = G(k) /\ g[k - 1] = G(k - 1)
      BY <3>1, Zenon
    <3> HIDE DEF g
    <3> QED BY <1>3, <3>1, <3>2, Zenon
  <2>2. g[0] = head
    BY <1>1, <1>2
  <2> QED BY <1>1, <2>1, <2>2, Zenon
<1>5. at = Body(at)
  <2> HIDE DEF Body, g
  <2> QED BY <1>4, Zenon
<1>6. Chain = [i \in 1..Cardinality({k \in 0..m : at[k] # NULL}) |-> at[i - 1]]
  BY Zenon DEF Chain
<1> HIDE DEF at
<1>7. \A k \in 0..m : at[k] = Body(at)[k]
  BY <1>5, Zenon
<1>8. \A k \in 0..m : k \in {j \in 0..m : at[j] = g[j]}
  <2> DEFINE T == {j \in 0..m : at[j] = g[j]}
  <2>1. 0 \in T
    BY <1>1, <1>2, <1>7
  <2>2. ASSUME NEW k \in 0..m - 1, k \in T PROVE k + 1 \in T
    <3>1. k + 1 \in 0..m /\ k + 1 # 0 /\ (k + 1) - 1 = k /\ k \in 0..m
      BY <1>1
    <3>2. at[k] = g[k] /\ Body(g)[k + 1] = g[k + 1]
      BY <1>4, <2>2, <3>1, Zenon
    <3>3. Body(at)[k + 1] = Body(g)[k + 1]
      <4> HIDE DEF g
      <4> QED BY <3>1, <3>2, Zenon
    <3> HIDE DEF Body, g
    <3> QED BY <1>7, <3>1, <3>2, <3>3, Zenon
  <2>3. \A k \in 0..m - 1 : k \in T => k + 1 \in T
    BY <2>2, Zenon
  <2>4. \A k \in 0..m : k \in T
    <3> HIDE DEF T, m
    <3> QED BY <1>1, <2>1, <2>3, InductionUpTo, Zenon
  <2> QED BY <2>4, Zenon
<1>9. \A k \in 0..m : at[k] = G(k)
  BY <1>8, Zenon
<1>10. {k \in 0..m : at[k] # NULL} = 0..(m - n - 1)
  <2>1. ASSUME NEW k \in 0..m PROVE at[k] # NULL <=> k \in 0..(m - n - 1)
    <3>1. CASE n + 1 + k <= m
      <4>1. n + 1 + k \in 1..m
        BY <1>1, <3>1
      <4>2. G(k) # NULL
        BY <3>1, <4>1, CQAssumption DEF DataOK, G
      <4> QED BY <1>1, <1>9, <3>1, <4>2
    <3>2. CASE ~(n + 1 + k <= m)
      <4>1. G(k) = NULL
        BY <3>2, Zenon DEF G
      <4> QED BY <1>1, <1>9, <3>2, <4>1
    <3> QED BY <3>1, <3>2, Zenon
  <2>2. 0..(m - n - 1) \subseteq 0..m
    BY <1>1
  <2> QED BY <2>1, <2>2, Zenon
<1>11. Cardinality(0..(m - n - 1)) = m - n
  BY <1>1, FS_Interval
<1>12. Chain = [i \in 1..m - n |-> at[i - 1]]
  BY <1>6, <1>10, <1>11, Zenon
<1>13. ASSUME NEW i \in 1..m - n PROVE at[i - 1] = pushed[n + i]
  <2>1. i - 1 \in 0..m /\ n + 1 + (i - 1) = n + i /\ n + 1 + (i - 1) <= m
    BY <1>1
  <2> QED BY <1>9, <2>1, Zenon DEF G
<1> QED BY <1>12, <1>13, Zenon DEF Rest

\* The events still to be delivered are those pushed after the delivered
\* ones.
LEMMA RestFacts ==
    ASSUME DataOK, ListIntact
    PROVE  /\ Len(pushed) \in Nat /\ Len(delivered) \in Nat /\ Len(delivered) <= Len(pushed)
           /\ Rest \in Seq(Events) /\ Len(Rest) = Len(pushed) - Len(delivered)
           /\ \A i \in 1..Len(pushed) - Len(delivered) : Rest[i] = pushed[Len(delivered) + i]
<1>1. Len(pushed) \in Nat /\ Len(delivered) \in Nat /\ Len(delivered) <= Len(pushed)
      /\ Len(pushed) - Len(delivered) \in Nat
  BY DEF DataOK, ListIntact
<1>2. ASSUME NEW i \in 1..Len(pushed) - Len(delivered) PROVE pushed[Len(delivered) + i] \in Events
  <2>1. Len(delivered) + i \in 1..Len(pushed)
    BY <1>1
  <2> QED BY <2>1 DEF DataOK
<1> QED BY <1>1, <1>2 DEF Rest

\* A consumer is inside grpc_completion_queue_next exactly while its call is
\* pending.
InCall == \A c \in Consumers : pc[c] # "idle" <=> outcome[c] = "pending"

\* Every step keeps it so.
LEMMA InCallStep == DataOK /\ InCall /\ [Next]_vars => InCall'
<1> SUFFICES ASSUME DataOK, InCall, [Next]_vars PROVE InCall'
  OBVIOUS
<1> USE DEF InCall
<1>1. ASSUME NEW e \in Events, PushAlloc(e) PROVE InCall'
  BY <1>1, Zenon DEF PushAlloc
<1>2. ASSUME NEW e \in Events, PushLink(e) PROVE InCall'
  <2>1. outcome' = outcome
    BY <1>2, Zenon DEF PushLink
  <2>2. \A c \in Consumers : pc'[c] # "idle" <=> pc[c] # "idle"
    BY <1>2, Zenon DEF PushLink, CondSignal, Sleeping, DataOK
  <2> QED BY <2>1, <2>2, Zenon
<1>3. ASSUME NEW c \in Consumers, NextCall(c) PROVE InCall'
  BY <1>3, Zenon DEF NextCall, DataOK
<1>4. ASSUME NEW c \in Consumers, NextWait(c) PROVE InCall'
  BY <1>4, Zenon DEF NextWait, InLoop, DataOK
<1>5. ASSUME NEW c \in Consumers, NEW r \in Events \cup {"timeout", "shutdown"}, ReturnFromNext(c, r)
      PROVE InCall'
  <2>1. r # "pending"
    BY <1>5, CQAssumption, Zenon
  <2> QED BY <1>5, <2>1, Zenon DEF ReturnFromNext, DataOK
<1>6. ASSUME NEW c \in Consumers, NextBadDeadline(c) \/ NextTimeout(c) \/ NextShutdown(c) PROVE InCall'
  BY <1>5, <1>6, Zenon DEF NextBadDeadline, NextTimeout, NextShutdown
<1>7. ASSUME NEW c \in Consumers, NextPop(c) PROVE InCall'
  <2>1. head \in Events
    BY <1>7, Zenon DEF NextPop, DataOK, Pointers
  <2> QED BY <1>5, <1>7, <2>1, Zenon DEF NextPop
<1>8. ASSUME NEW c \in Consumers, Expire(c) \/ SpuriousWakeup(c) PROVE InCall'
  BY <1>8, Zenon DEF Expire, SpuriousWakeup, DataOK
<1>9. CASE Shutdown
  BY <1>9, Zenon DEF Shutdown, CondBroadcast, DataOK
<1>10. CASE Destroy \/ UNCHANGED vars
  BY <1>10, Zenon DEF Destroy, vars
<1> QED BY <1>1, <1>2, <1>3, <1>4, <1>6, <1>7, <1>8, <1>9, <1>10, Zenon DEF Next, NextSteps

\* Seen from outside, each critical section is one step of EventQueue or none:
\* linking a node is Put, taking one off the list Deliver, and so on.
LEMMA AbstractStep ==
    ASSUME DataOK, ListInv, InCall, DataOK', ListInv', [Next]_vars,
           Chain = IF freed THEN <<>> ELSE Rest, Chain' = IF freed' THEN <<>> ELSE Rest'
    PROVE  Abstract!QNext \/ UNCHANGED Abstract!qvars
<1> DEFINE n == Len(delivered)
           m == Len(pushed)
<1>1. /\ m \in Nat /\ n \in Nat /\ n <= m /\ Rest \in Seq(Events) /\ Len(Rest) = m - n
      /\ \A i \in 1..m - n : Rest[i] = pushed[n + i]
  BY RestFacts, Zenon DEF ListInv
<1>2. ASSUME UNCHANGED <<pushed, delivered, freed>> PROVE Chain' = Chain
  BY <1>2, Zenon DEF Rest
<1>3. ASSUME NEW e \in Events, PushAlloc(e) PROVE UNCHANGED Abstract!qvars
  BY <1>2, <1>3, Zenon DEF PushAlloc, Abstract!qvars
<1>4. ASSUME NEW e \in Events, PushLink(e) PROVE Abstract!Put(e)
  <2>1. pushed' = Append(pushed, e) /\ delivered' = delivered /\ ~freed /\ ~freed'
        /\ shutdown' = shutdown /\ outcome' = outcome
    BY <1>4, Zenon DEF PushLink
  <2>2. Rest' = Append(Rest, e)
    <3> DEFINE a == [i \in 1..m + 1 - n |-> Append(pushed, e)[n + i]]
               b == Append(Rest, e)
    <3>1. pushed \in Seq(Events)
      BY Zenon DEF DataOK
    <3>2. Append(pushed, e) \in Seq(Events) /\ Len(Append(pushed, e)) = m + 1
          /\ Append(pushed, e)[m + 1] = e /\ \A i \in 1..m : Append(pushed, e)[i] = pushed[i]
      BY <3>1
    <3>3. Rest' = a
      BY <2>1, <3>2 DEF Rest
    <3>4. b \in Seq(Events) /\ Len(b) = m - n + 1 /\ b[m - n + 1] = e
          /\ \A i \in 1..m - n : b[i] = pushed[n + i]
      <4>1. Rest \in Seq(Events)
        BY <1>1, Zenon
      <4>2. b \in Seq(Events) /\ Len(b) = Len(Rest) + 1 /\ b[Len(Rest) + 1] = e
            /\ \A i \in 1..Len(Rest) : b[i] = Rest[i]
        BY <4>1
      <4> HIDE DEF b
      <4> QED BY <1>1, <4>2, Zenon
    <3>5. ASSUME NEW i \in 1..m + 1 - n PROVE a[i] \in Events /\ a[i] = b[i]
      <4>1. CASE i = m + 1 - n
        <5>1. n + i = m + 1 /\ i = m - n + 1
          BY <1>1, <4>1
        <5>2. a[i] = Append(pushed, e)[m + 1] /\ b[i] = e
          <6> HIDE DEF b
          <6> QED BY <3>4, <5>1, Zenon
        <5> QED BY <3>2, <5>2, Zenon
      <4>2. CASE i # m + 1 - n
        <5>1. n + i \in 1..m /\ i \in 1..m - n
          BY <1>1, <4>2
        <5>2. a[i] = pushed[n + i] /\ b[i] = pushed[n + i]
          <6> HIDE DEF b
          <6> QED BY <3>2, <3>4, <5>1, Zenon
        <5> QED BY <3>1, <5>1, <5>2
      <4> QED BY <4>1, <4>2, Zenon
    <3>6. m + 1 - n \in Nat /\ m - n + 1 = m + 1 - n
      BY <1>1
    <3>7. a \in Seq(Events) /\ Len(a) = m + 1 - n
      <4>1. a \in [1..m + 1 - n -> Events]
        BY <3>5, Zenon
      <4> HIDE DEF a
      <4> QED BY ONLY <3>6, <4>1, FunctionIsSeq, Zenon
    <3> HIDE DEF a, b
    <3>8. a = b
      BY <3>4, <3>5, <3>6, <3>7, SameSeq, Zenon
    <3> QED BY <3>3, <3>8, Zenon DEF b
  <2> QED BY <2>1, <2>2, Zenon DEF Abstract!Put
<1>5. ASSUME NEW c \in Consumers, NextCall(c) PROVE Abstract!Call(c)
  <2>1. Chain' = Chain
    BY <1>2, <1>5, Zenon DEF NextCall, list
  <2>2. outcome[c] # "pending"
    BY <1>5, Zenon DEF NextCall, InCall
  <2> QED BY <1>5, <2>1, <2>2, Zenon DEF NextCall, Abstract!Call
<1>6. ASSUME NEW c \in Consumers, NextWait(c) \/ Expire(c) \/ SpuriousWakeup(c)
      PROVE  UNCHANGED Abstract!qvars
  BY <1>2, <1>6, Zenon DEF NextWait, Expire, SpuriousWakeup, list, Abstract!qvars
<1>7. ASSUME NEW c \in Consumers, NextBadDeadline(c) \/ NextTimeout(c) PROVE Abstract!GiveUp(c)
  <2>1. Chain' = Chain
    BY <1>2, <1>7, Zenon DEF NextBadDeadline, NextTimeout, list
  <2>2. outcome[c] = "pending"
    BY <1>7, Zenon DEF NextBadDeadline, NextTimeout, InCall
  <2> QED BY <1>7, <2>1, <2>2, Zenon DEF NextBadDeadline, NextTimeout, ReturnFromNext, Abstract!GiveUp, Abstract!Return
<1>8. ASSUME NEW c \in Consumers, NextShutdown(c) PROVE Abstract!NotifyShutdown(c)
  <2>1. Chain' = Chain
    BY <1>2, <1>8, Zenon DEF NextShutdown, list
  <2>2. outcome[c] = "pending" /\ ~freed /\ head = NULL
    BY <1>8, Zenon DEF NextShutdown, InLoop, InCall
  <2>3. m - n = 0
    BY <2>2, EmptyList, Zenon DEF ListInv
  <2>4. Rest = <<>>
    BY <1>1, <2>3
  <2> QED BY <1>8, <2>1, <2>2, <2>4, Zenon DEF NextShutdown, ReturnFromNext, Abstract!NotifyShutdown, Abstract!Return
<1>9. ASSUME NEW c \in Consumers, NextPop(c) PROVE Abstract!Deliver(c)
  <2>1. outcome[c] = "pending" /\ ~freed /\ ~freed' /\ head # NULL /\ pushed' = pushed
        /\ delivered' = Append(delivered, head) /\ shutdown' = shutdown
    BY <1>9, Zenon DEF NextPop, InLoop, InCall
  <2>2. n < m /\ head = pushed[n + 1]
    BY <1>1, <2>1 DEF ListInv, ListIntact
  <2>3. Rest # <<>> /\ 1 \in 1..m - n /\ Len(Rest) # 0
    BY <1>1, <2>2
  <2>4. Head(Rest) = head
    BY <1>1, <2>2, <2>3
  <2>5. Rest' = Tail(Rest)
    <3> DEFINE a == [i \in 1..m - (n + 1) |-> pushed[(n + 1) + i]]
               b == Tail(Rest)
    <3>1. Len(delivered') = n + 1
      <4>1. delivered \in Seq(Events) /\ head \in Events
        BY <2>1, Zenon DEF DataOK, Pointers
      <4> QED BY <2>1, <4>1
    <3>2. Rest' = a
      BY <2>1, <3>1, Zenon DEF Rest
    <3>3. b \in Seq(Events) /\ Len(b) = (m - n) - 1 /\ \A i \in 1..(m - n) - 1 : b[i] = Rest[i + 1]
      BY <1>1, <2>3
    <3>4. (m - n) - 1 \in Nat /\ m - (n + 1) = (m - n) - 1
      BY <1>1, <2>2
    <3>5. ASSUME NEW i \in 1..(m - n) - 1 PROVE pushed[(n + 1) + i] \in Events /\ b[i] = pushed[(n + 1) + i]
      <4>1. i + 1 \in 1..m - n /\ n + (i + 1) = (n + 1) + i /\ (n + 1) + i \in 1..m
        BY <1>1
      <4>2. Rest[i + 1] = pushed[n + (i + 1)]
        BY <1>1, <4>1, Zenon
      <4>3. pushed[(n + 1) + i] \in Events
        BY <4>1 DEF DataOK
      <4>4. b[i] = Rest[i + 1]
        BY <3>3, Zenon
      <4> HIDE DEF b
      <4> QED BY <4>1, <4>2, <4>3, <4>4, Zenon
    <3>6. a = [i \in 1..(m - n) - 1 |-> pushed[(n + 1) + i]]
      BY <3>4, Zenon
    <3>7. a \in Seq(Events) /\ Len(a) = (m - n) - 1 /\ \A i \in 1..(m - n) - 1 : a[i] = pushed[(n + 1) + i]
      <4>1. a \in [1..(m - n) - 1 -> Events]
        BY <3>5, <3>6, Zenon
      <4>2. \A i \in 1..(m - n) - 1 : a[i] = pushed[(n + 1) + i]
        BY <3>6, Zenon
      <4> HIDE DEF a
      <4>3. a \in Seq(Events) /\ Len(a) = (m - n) - 1
        <5> DEFINE k == (m - n) - 1
        <5>1. k \in Nat
          BY <3>4, Zenon
        <5>2. a \in [1 .. k -> Events]
          BY <4>1, Zenon
        <5> HIDE DEF k
        <5>3. a \in Seq(Events) /\ Len(a) = k
          BY ONLY <5>1, <5>2, FunctionIsSeq, Zenon
        <5> QED BY <5>3, Zenon DEF k
      <4> QED BY <4>2, <4>3, Zenon
    <3> HIDE DEF a, b
    <3>8. a = b
      BY <3>3, <3>5, <3>7, SameSeq, Zenon
    <3> QED BY <3>2, <3>8, Zenon DEF b
  <2>6. outcome' = [outcome EXCEPT ![c] = head]
    BY <1>9, Zenon DEF NextPop, ReturnFromNext
  <2> QED BY <2>1, <2>3, <2>4, <2>5, <2>6, Zenon DEF Abstract!Deliver, Abstract!Return
<1>10. ASSUME Shutdown PROVE Abstract!Close
  BY <1>2, <1>10, Zenon DEF Shutdown, list, Abstract!Close
<1>11. ASSUME Destroy PROVE Abstract!Drop
  BY <1>11, Zenon DEF Destroy, Abstract!Drop
<1>12. ASSUME UNCHANGED vars PROVE UNCHANGED Abstract!qvars
  BY <1>2, <1>12, Zenon DEF vars, Abstract!qvars
<1> QED
  BY <1>3, <1>4, <1>5, <1>6, <1>7, <1>8, <1>9, <1>10, <1>11, <1>12 DEF Next, NextSteps, Abstract!QNext

\* The completion queue implements the FIFO queue of EventQueue: to its callers
\* the mutex, the condition variable and the linked list are invisible, for any
\* events and consumers, whatever wakes up when and whichever deadline passes.
THEOREM QueueImplemented == Spec => ImplementsEventQueue
<1> DEFINE I == DataOK /\ ListInv /\ InCall
<1>1. Init => I
  BY DEF Init, DataOK, Pointers, Stages, PCs, Outcomes, ListInv, ListIntact, InCall
<1>2. I /\ [Next]_vars => I'
  BY DataCorrect, ListInvariant, InCallStep, Zenon
<1>3. Init => Abstract!QInit
  <2> SUFFICES ASSUME Init PROVE Abstract!QInit
    BY Zenon
  <2>1. Chain = Rest /\ Rest \in Seq(Events) /\ Len(Rest) = Len(pushed) - Len(delivered)
    BY <1>1, ChainIsRest, RestFacts, Zenon DEF Init, ListInv
  <2>2. Chain = <<>>
    BY <2>1 DEF Init
  <2> QED BY <2>2, Zenon DEF Init, Abstract!QInit
<1>4. I => Chain = IF freed THEN <<>> ELSE Rest
  BY ChainIsRest, Zenon
<1>5. /\ I /\ I' /\ [Next]_vars
      /\ (Chain = IF freed THEN <<>> ELSE Rest) /\ (Chain = IF freed THEN <<>> ELSE Rest)'
      => [Abstract!QNext]_(Abstract!qvars)
  BY AbstractStep, Zenon
<1> HIDE DEF I
<1> QED BY <1>1, <1>2, <1>3, <1>4, <1>5, PTL DEF Spec, ImplementsEventQueue, Abstract!QSpec

-----------------------------------------------------------------------------
\* The services from the head of the list on are those of registered, each
\* once; the others are not allocated.
ServicesInv ==
    /\ registered \in Seq(ServiceNodes)
    /\ \A i, j \in 1 .. Len(registered) : registered[i] = registered[j] => i = j
    /\ services = IF registered = <<>> THEN NULL ELSE registered[1]
    /\ serviceCount = Len(registered)
    /\ service \in [ServiceNodes -> [name : ServiceNames \cup {NULL}, methods : Seq(Methods),
                                     next : ServiceNodes \cup {NULL},
                                     memory : {"none", "held", "freed"}]]
    /\ \A i \in 1 .. Len(registered) :
         service[registered[i]].next = IF i = Len(registered) THEN NULL ELSE registered[i + 1]
    /\ \A n \in ServiceNodes : n \in Elements(registered) <=> service[n].memory # "none"

\* The service of that name that was registered last is the i-th of the list.
FirstOf(name, i) ==
    /\ service[registered[i]].name = name
    /\ \A j \in 1 .. i - 1 : service[registered[j]].name # name

MethodsInv ==
    /\ methodsOf \in [ServiceNames -> Seq(Methods)]
    /\ \A name \in ServiceNames, i \in 1 .. Len(registered) :
         FirstOf(name, i) => service[registered[i]].methods = methodsOf[name]

\* A walker has what it expects still before it, a part of the list now.
OnItsWay(w, all) ==
    IF w.at = NULL THEN w.seen = w.expected
    ELSE \E j \in 1 .. Len(all) :
           w.at = all[j] /\ w.expected = w.seen \o SubSeq(all, j, Len(all))

WalkersInv ==
    /\ walker \in [Threads -> [at : ServiceNodes \cup {NULL}, seen : Seq(ServiceNodes),
                               expected : Seq(ServiceNodes)]]
    /\ \A t \in Threads : OnItsWay(walker[t], registered)

\* A destroyed registry has freed every service, with no walker left.
DestroyedInv ==
    RegistryFreed => /\ \A n \in ServiceNodes : service[n].memory # "held"
                     /\ \A t \in Threads : walker[t].at = NULL

ReflectionInv == ServicesInv /\ MethodsInv /\ WalkersInv /\ DestroyedInv

-----------------------------------------------------------------------------
\* Following next from the i-th service on gives the rest of the list.
LEMMA ListFromIsRest ==
    ASSUME ServicesInv, NEW i \in 1 .. Len(registered)
    PROVE  ListFrom(registered[i]) = SubSeq(registered, i, Len(registered))
<1> DEFINE N == Cardinality(ServiceNodes)
           L == Len(registered)
           n == registered[i]
           Body(f) == [k \in 0 .. Cardinality(ServiceNodes) |->
                         IF k = 0 THEN <<n>>
                         ELSE LET last == f[k - 1][Len(f[k - 1])]
                              IN  IF last = NULL \/ service[last].next = NULL THEN f[k - 1]
                                  ELSE Append(f[k - 1], service[last].next)]
           from == CHOOSE f : f = Body(f)
           To(k) == IF i + k < L THEN i + k ELSE L
           G(k) == SubSeq(registered, i, To(k))
           g == [k \in 0 .. N |-> G(k)]
<1> USE CommonAssumption, ReflectionAssumption
<1>1. N \in Nat /\ L \in Nat /\ n \in ServiceNodes /\ n # NULL
  BY FS_CardinalityType DEF ServicesInv
<1>2. G(0) = <<n>>
  BY <1>1, SubSeqOne DEF ServicesInv
<1>3. ASSUME NEW k \in Nat
      PROVE  G(k + 1) = LET last == G(k)[Len(G(k))]
                        IN  IF last = NULL \/ service[last].next = NULL THEN G(k)
                            ELSE Append(G(k), service[last].next)
  <2>1. To(k) \in i .. L /\ To(k) \in 1 .. L
    BY <1>1
  <2>2. G(k) \in Seq(ServiceNodes) /\ Len(G(k)) = To(k) - i + 1
        /\ G(k)[Len(G(k))] = registered[To(k)]
    BY <1>1, <2>1 DEF ServicesInv
  <2>3. registered[To(k)] # NULL
    BY <2>1 DEF ServicesInv
  <2>4. CASE To(k) = L
    <3>1. To(k + 1) = L
      BY <1>1, <2>4
    <3>2. service[registered[To(k)]].next = NULL
      BY <2>1, <2>4, Zenon DEF ServicesInv
    <3> HIDE DEF To
    <3> QED BY <2>2, <2>4, <3>1, <3>2, Zenon
  <2>5. CASE To(k) # L
    <3>1. To(k + 1) = To(k) + 1 /\ To(k) + 1 \in 1 .. L /\ To(k) \in i .. Len(registered) - 1
      BY <1>1, <2>5
    <3>2. service[registered[To(k)]].next = registered[To(k) + 1]
      BY <2>1, <2>5, Zenon DEF ServicesInv
    <3>3. registered[To(k) + 1] # NULL
      BY <3>1 DEF ServicesInv
    <3> HIDE DEF To
    <3>4. G(k + 1) = Append(G(k), registered[To(k) + 1])
      <4>1. registered \in Seq(ServiceNodes)
        BY Zenon DEF ServicesInv
      <4>2. SubSeq(registered, i, To(k) + 1) = Append(SubSeq(registered, i, To(k)), registered[To(k) + 1])
        BY ONLY <3>1, <4>1, i \in 1 .. Len(registered), SubSeqAppend, Zenon
      <4> QED BY <3>1, <4>2, Zenon
    <3> HIDE DEF G
    <3> QED BY <2>2, <2>3, <3>2, <3>3, <3>4, Zenon
  <2> QED BY <2>4, <2>5, Zenon
<1> HIDE DEF G
<1>4. g = Body(g)
  <2>1. ASSUME NEW k \in 0 .. N, k # 0
        PROVE  g[k] = LET last == g[k - 1][Len(g[k - 1])]
                      IN  IF last = NULL \/ service[last].next = NULL THEN g[k - 1]
                          ELSE Append(g[k - 1], service[last].next)
    <3>1. k - 1 \in Nat /\ (k - 1) + 1 = k /\ k - 1 \in 0 .. N
      BY <1>1, <2>1
    <3>2. g[k] = G(k) /\ g[k - 1] = G(k - 1)
      BY <3>1, Zenon
    <3> HIDE DEF g
    <3> QED BY <1>3, <3>1, <3>2, Zenon
  <2>2. g[0] = <<n>>
    BY <1>1, <1>2
  <2> QED BY <1>1, <2>1, <2>2, Zenon
<1>5. from = Body(from)
  <2> HIDE DEF Body, g
  <2> QED BY <1>4, Zenon
<1>6. ListFrom(n) = from[N]
  BY <1>1, Zenon DEF ListFrom
<1> HIDE DEF from
<1>7. \A k \in 0 .. N : from[k] = Body(from)[k]
  BY <1>5, Zenon
<1>8. \A k \in 0 .. N : k \in {j \in 0 .. N : from[j] = g[j]}
  <2> DEFINE T == {j \in 0 .. N : from[j] = g[j]}
  <2>1. 0 \in T
    BY <1>1, <1>2, <1>7
  <2>2. ASSUME NEW k \in 0 .. N - 1, k \in T PROVE k + 1 \in T
    <3>1. k + 1 \in 0 .. N /\ k + 1 # 0 /\ (k + 1) - 1 = k /\ k \in 0 .. N
      BY <1>1
    <3>2. from[k] = g[k] /\ Body(g)[k + 1] = g[k + 1]
      BY <1>4, <2>2, <3>1, Zenon
    <3>3. Body(from)[k + 1] = Body(g)[k + 1]
      <4> HIDE DEF g
      <4> QED BY <3>1, <3>2, Zenon
    <3> HIDE DEF Body, g
    <3> QED BY <1>7, <3>1, <3>2, <3>3, Zenon
  <2>3. \A k \in 0 .. N - 1 : k \in T => k + 1 \in T
    BY <2>2, Zenon
  <2>4. \A k \in 0 .. N : k \in T
    <3> HIDE DEF T, N
    <3> QED BY <1>1, <2>1, <2>3, InductionUpTo, Zenon
  <2> QED BY <2>4, Zenon
<1>9. from[N] = G(N)
  BY <1>1, <1>8
<1>10. L <= N
  <2>1. Elements(registered) \in SUBSET ServiceNodes
    BY DEF ServicesInv, Elements
  <2>2. Cardinality(Elements(registered)) = Len(registered)
    BY DistinctElements, Zenon DEF ServicesInv
  <2> QED BY <2>1, <2>2, FS_Subset, Zenon
<1>11. To(N) = L
  BY <1>1, <1>10
<1> QED BY <1>6, <1>9, <1>11, Zenon DEF G

\* The list from its head on is the whole of it.
LEMMA WholeList ==
    ASSUME ServicesInv
    PROVE  ListFrom(services) = registered
<1>1. registered \in Seq(ServiceNodes) /\ Len(registered) \in Nat
  BY DEF ServicesInv
<1>2. CASE registered = <<>>
  BY <1>2, Zenon DEF ServicesInv, ListFrom
<1>3. CASE registered # <<>>
  <2>1. 1 \in 1 .. Len(registered) /\ Len(registered) \in 1 .. Len(registered)
    BY <1>1, <1>3
  <2>2. services = registered[1]
    BY <1>3, Zenon DEF ServicesInv
  <2>3. ListFrom(services) = SubSeq(registered, 1, Len(registered))
    BY <2>1, <2>2, ListFromIsRest, Zenon
  <2>4. SubSeq(registered, 1, Len(registered)) = registered
    BY ONLY <1>1, <2>1, SubSeqWhole, Zenon
  <2> QED BY <2>3, <2>4, Zenon
<1> QED BY <1>2, <1>3, Zenon

\* get_service finds the service of that name that was registered last.
LEMMA FindServiceFirst ==
    ASSUME ServicesInv, NEW name, FindService(name) # NULL
    PROVE  \E i \in 1 .. Len(registered) : FindService(name) = registered[i] /\ FirstOf(name, i)
<1> DEFINE found == {i \in 1 .. Len(registered) : service[registered[i]].name = name}
           first == CHOOSE i \in found : \A j \in found : i <= j
<1>1. FindService(name) = IF found = {} THEN NULL ELSE registered[first]
  BY WholeList DEF FindService
<1>2. Len(registered) \in Nat
  BY DEF ServicesInv
<1>3. \E i \in found : \A j \in found : i <= j
  <2>1. found \in SUBSET Nat /\ found # {}
    BY <1>1, <1>2
  <2> HIDE DEF found
  <2> QED BY <2>1, LeastNumber, Zenon
<1>4. first \in found /\ \A j \in found : first <= j
  <2> HIDE DEF found
  <2> QED BY <1>3, Zenon
<1>5. FindService(name) = registered[first]
  BY <1>1, Zenon
<1> HIDE DEF first
<1>6. first \in 1 .. Len(registered) /\ FirstOf(name, first)
  BY <1>2, <1>4 DEF FirstOf
<1> QED BY <1>5, <1>6, Zenon

\* A new registry.
LEMMA ReflectionStart == ReflectionInit => ReflectionInv
<1> SUFFICES ASSUME ReflectionInit PROVE ReflectionInv
  OBVIOUS
<1> USE DEF ReflectionInit
<1>1. ServicesInv
  BY DEF ServicesInv, NoService, Elements
<1>2. MethodsInv
  BY DEF MethodsInv
<1>3. WalkersInv
  BY DEF WalkersInv, OnItsWay, NotWalking
<1>4. DestroyedInv
  BY Zenon DEF DestroyedInv, NoService, RegistryFreed
<1> QED BY <1>1, <1>2, <1>3, <1>4, Zenon DEF ReflectionInv

\* add_service: what was at place k is at k + 1.
LEMMA AddServiceStep ==
    ASSUME ReflectionInv, NEW n \in ServiceNodes, NEW name \in ServiceNames, AddService(n, name)
    PROVE  ReflectionInv'
<1> USE CommonAssumption, ReflectionAssumption
<1> DEFINE L == Len(registered)
           Service == [name : ServiceNames \cup {NULL}, methods : Seq(Methods),
                       next : ServiceNodes \cup {NULL}, memory : {"none", "held", "freed"}]
<1>1. /\ registered \in Seq(ServiceNodes) /\ L \in Nat /\ n \notin Elements(registered)
      /\ \A k \in 1 .. L : registered[k] \in ServiceNodes /\ registered[k] # n
  BY DEF ReflectionInv, ServicesInv, AddService, Elements
<1>2. /\ registered' \in Seq(ServiceNodes) /\ Len(registered') = L + 1
      /\ registered'[1] = n
      /\ \A k \in 1 .. L : registered'[k + 1] = registered[k]
      /\ \A i \in 1 .. L + 1 : i = 1 \/ (i - 1 \in 1 .. L /\ registered'[i] = registered[i - 1])
  BY <1>1, NewHead DEF AddService
<1>3. /\ service' \in [ServiceNodes -> Service]
      /\ service'[n] = [name |-> name, methods |-> <<>>, next |-> services, memory |-> "held"]
      /\ \A m \in ServiceNodes : m # n => service'[m] = service[m]
  <2>1. services \in ServiceNodes \cup {NULL}
    BY <1>1 DEF ReflectionInv, ServicesInv
  <2>2. service' = [service EXCEPT ![n] = [name |-> name, methods |-> <<>>, next |-> services,
                                           memory |-> "held"]]
    BY Zenon DEF AddService, LinkService
  <2>3. service \in [ServiceNodes -> Service]
    BY Zenon DEF ReflectionInv, ServicesInv
  <2>4. [name |-> name, methods |-> <<>>, next |-> services, memory |-> "held"] \in Service
    BY <2>1
  <2> HIDE DEF Service
  <2> QED BY <2>2, <2>3, <2>4, Zenon
<1> HIDE DEF Service
<1>3a. /\ service'[n].name = name /\ service'[n].methods = <<>>
       /\ service'[n].next = services /\ service'[n].memory = "held"
  BY ONLY <1>3
<1>4. services' = n /\ serviceCount' = serviceCount + 1 /\ walker' = walker
  BY Zenon DEF AddService, LinkService
<1>5. \A k \in 1 .. L : service'[registered[k]] = service[registered[k]]
  BY <1>1, <1>3, Zenon
<1>6. ServicesInv'
  <2>1. \A i, j \in 1 .. L + 1 : registered'[i] = registered'[j] => i = j
    <3> SUFFICES ASSUME NEW i \in 1 .. L + 1, NEW j \in 1 .. L + 1, registered'[i] = registered'[j]
                 PROVE  i = j
      BY Zenon
    <3>1. CASE i = 1
      BY <1>1, <1>2, <3>1
    <3>2. CASE j = 1
      BY <1>1, <1>2, <3>2, Zenon
    <3>3. CASE i # 1 /\ j # 1
      <4>1. i - 1 \in 1 .. L /\ j - 1 \in 1 .. L /\ registered[i - 1] = registered[j - 1]
        BY <1>2, <3>3, Zenon
      <4>2. i - 1 = j - 1
        BY <4>1, Zenon DEF ReflectionInv, ServicesInv
      <4> QED BY <4>2
    <3> QED BY <3>1, <3>2, <3>3, Zenon
  <2>2. registered' # <<>> /\ serviceCount' = Len(registered') /\ services' = registered'[1]
    BY <1>1, <1>2, <1>4 DEF ReflectionInv, ServicesInv
  <2>3. ASSUME NEW i \in 1 .. L + 1
        PROVE  service'[registered'[i]].next = IF i = L + 1 THEN NULL ELSE registered'[i + 1]
    <3>1. CASE i = 1
      <4>1. service'[registered'[i]].next = services
        BY <1>2, <1>3a, <3>1, Zenon
      <4>2. services = IF L = 0 THEN NULL ELSE registered[1]
        BY <1>1 DEF ReflectionInv, ServicesInv
      <4>3. L # 0 => 1 \in 1 .. L /\ 1 + 1 = 2 /\ registered'[2] = registered[1]
        BY <1>1, <1>2
      <4> QED BY <1>1, <3>1, <4>1, <4>2, <4>3
    <3>2. CASE i # 1
      <4>1. i - 1 \in 1 .. L /\ registered'[i] = registered[i - 1] /\ (i - 1) + 1 = i
        <5>1. (i - 1) + 1 = i
          OBVIOUS
        <5> QED BY <1>2, <3>2, <5>1, Zenon
      <4>2. service'[registered'[i]].next = IF i - 1 = L THEN NULL ELSE registered[i]
        BY <1>5, <4>1 DEF ReflectionInv, ServicesInv
      <4>3. i # L + 1 => i \in 1 .. L /\ registered'[i + 1] = registered[i]
        BY <1>1, <1>2
      <4>4. CASE i = L + 1
        <5>1. i - 1 = L
          BY <1>1, <4>4
        <5> QED BY <4>2, <4>4, <5>1, Zenon
      <4>5. CASE i # L + 1
        <5>1. i - 1 # L
          BY <1>1, <4>5
        <5> QED BY <4>2, <4>3, <4>5, <5>1, Zenon
      <4> QED BY <4>4, <4>5, Zenon
    <3> QED BY <3>1, <3>2, Zenon
  <2>4. ASSUME NEW m \in ServiceNodes
        PROVE  m \in Elements(registered') <=> service'[m].memory # "none"
    <3>1. Elements(registered') = Elements(registered) \cup {n}
      BY <1>1, ElementsCons DEF AddService
    <3>2. m # n => (m \in Elements(registered) <=> service[m].memory # "none")
      BY Zenon DEF ReflectionInv, ServicesInv
    <3> QED BY <1>3, <3>1, <3>2
  <2> QED BY <1>2, <1>3, <2>1, <2>2, <2>3, <2>4, Zenon DEF ServicesInv, Service
<1>7. MethodsInv'
  <2>1. methodsOf' \in [ServiceNames -> Seq(Methods)] /\ methodsOf'[name] = <<>>
        /\ \A other \in ServiceNames : other # name => methodsOf'[other] = methodsOf[other]
    BY DEF ReflectionInv, MethodsInv, AddService
  <2>2. ASSUME NEW a \in ServiceNames, NEW i \in 1 .. L + 1, FirstOf(a, i)'
        PROVE  service'[registered'[i]].methods = methodsOf'[a]
    <3>1. CASE i = 1
      <4>1. a = name
        BY <1>2, <1>3a, <2>2, <3>1, Zenon DEF FirstOf
      <4> QED BY <1>2, <1>3a, <2>1, <3>1, <4>1, Zenon
    <3>2. CASE i # 1
      <4>1. i - 1 \in 1 .. L /\ registered'[i] = registered[i - 1] /\ 1 \in 1 .. i - 1
        <5>1. i - 1 \in 1 .. L /\ registered'[i] = registered[i - 1]
          BY <1>2, <3>2, Zenon
        <5> QED BY ONLY <5>1, <1>1
      <4>2. a # name
        BY <1>2, <1>3a, <2>2, <4>1, Zenon DEF FirstOf
      <4>3. ASSUME NEW j \in 1 .. (i - 1) - 1 PROVE service[registered[j]].name # a
        <5>1. j + 1 \in 1 .. i - 1 /\ j \in 1 .. L
          BY <1>1, <4>1
        <5>2. registered'[j + 1] = registered[j] /\ service'[registered[j]] = service[registered[j]]
          BY <1>2, <1>5, <5>1, Zenon
        <5>3. service'[registered'[j + 1]].name # a
          BY <2>2, <5>1, Zenon DEF FirstOf
        <5> QED BY <5>2, <5>3, Zenon
      <4>4. FirstOf(a, i - 1)
        BY <1>5, <2>2, <4>1, <4>3, Zenon DEF FirstOf
      <4>5. service[registered[i - 1]].methods = methodsOf[a]
        BY <4>1, <4>4, Zenon DEF ReflectionInv, MethodsInv
      <4> QED BY <1>5, <2>1, <4>1, <4>2, <4>5, Zenon
    <3> QED BY <3>1, <3>2, Zenon
  <2> QED BY <1>2, <2>1, <2>2, Zenon DEF MethodsInv
<1>8. WalkersInv'
  <2>1. ASSUME NEW t \in Threads, walker[t].at # NULL
        PROVE  \E j \in 1 .. L + 1 :
                 /\ walker[t].at = registered'[j]
                 /\ walker[t].expected = walker[t].seen \o SubSeq(registered', j, Len(registered'))
    <3>1. PICK j \in 1 .. L : /\ walker[t].at = registered[j]
                              /\ walker[t].expected = walker[t].seen \o SubSeq(registered, j, L)
      BY <2>1, Zenon DEF ReflectionInv, WalkersInv, OnItsWay
    <3>2. SubSeq(registered', j + 1, Len(registered')) = SubSeq(registered, j, L)
      BY <1>1, SubSeqShift, Zenon DEF AddService
    <3>3. j + 1 \in 1 .. L + 1 /\ registered'[j + 1] = registered[j]
      BY <1>1, <1>2
    <3> QED BY <3>1, <3>2, <3>3, Zenon
  <2> QED BY <1>2, <1>4, <2>1 DEF ReflectionInv, WalkersInv, OnItsWay
<1>9. DestroyedInv'
  <2>1. ~RegistryFreed'
    BY <1>3 DEF AddService, RegistryFreed
  <2> QED BY <2>1, Zenon DEF DestroyedInv
<1> QED BY <1>6, <1>7, <1>8, <1>9, Zenon DEF ReflectionInv

\* add_method: the first service of the name gets the method its name gets.
LEMMA AddMethodStep ==
    ASSUME ReflectionInv, NEW name \in ServiceNames, NEW m \in Methods, AddMethod(name, m)
    PROVE  ReflectionInv'
<1> USE CommonAssumption, ReflectionAssumption
<1> DEFINE L == Len(registered)
           n == FindService(name)
<1>1. registered \in Seq(ServiceNodes) /\ L \in Nat
  BY DEF ReflectionInv, ServicesInv
<1>2. PICK f \in 1 .. L : n = registered[f] /\ FirstOf(name, f)
  BY FindServiceFirst, Zenon DEF AddMethod, ReflectionInv
<1>3. n \in ServiceNodes
  BY <1>1, <1>2
<1>4. /\ service' = [service EXCEPT ![n].methods = <<m>> \o @]
      /\ methodsOf' = [methodsOf EXCEPT ![name] = <<m>> \o @]
      /\ UNCHANGED <<services, serviceCount, walker, registered>> /\ ~RegistryFreed
  BY Zenon DEF AddMethod
<1> HIDE DEF n
<1>5. service[n].methods \in Seq(Methods) /\ methodsOf[name] \in Seq(Methods)
  BY <1>3, Zenon DEF ReflectionInv, ServicesInv, MethodsInv
<1>6. <<m>> \o service[n].methods \in Seq(Methods) /\ <<m>> \o methodsOf[name] \in Seq(Methods)
  BY <1>5, NewHead, Zenon
<1>7. /\ service' \in [ServiceNodes -> [name : ServiceNames \cup {NULL}, methods : Seq(Methods),
                                         next : ServiceNodes \cup {NULL},
                                         memory : {"none", "held", "freed"}]]
      /\ \A k \in ServiceNodes : /\ service'[k].name = service[k].name
                                 /\ service'[k].next = service[k].next
                                 /\ service'[k].memory = service[k].memory
                                 /\ k # n => service'[k].methods = service[k].methods
      /\ service'[n].methods = <<m>> \o service[n].methods
  <2> DEFINE Service == [name : ServiceNames \cup {NULL}, methods : Seq(Methods),
                         next : ServiceNodes \cup {NULL}, memory : {"none", "held", "freed"}]
             new == [service[n] EXCEPT !.methods = <<m>> \o @]
  <2>1. service \in [ServiceNodes -> Service] /\ service[n] \in Service
    BY <1>3, Zenon DEF ReflectionInv, ServicesInv
  <2>2. new \in Service /\ new.name = service[n].name /\ new.next = service[n].next
        /\ new.memory = service[n].memory /\ new.methods = <<m>> \o service[n].methods
    BY <1>6, <2>1, Zenon
  <2>3. service' = [service EXCEPT ![n] = new]
    BY <1>4, Zenon
  <2> HIDE DEF Service, new
  <2>4. service' \in [ServiceNodes -> Service]
    BY <1>3, <2>1, <2>2, <2>3, Zenon
  <2>5. service'[n] = new /\ \A k \in ServiceNodes : k # n => service'[k] = service[k]
    BY <1>3, <2>1, <2>3, Zenon
  <2>6. service' \in [ServiceNodes -> [name : ServiceNames \cup {NULL}, methods : Seq(Methods),
                                       next : ServiceNodes \cup {NULL},
                                       memory : {"none", "held", "freed"}]]
    BY <2>4, Zenon DEF Service
  <2> QED BY <2>2, <2>5, <2>6, Zenon
<1>8. ServicesInv'
  BY <1>1, <1>4, <1>7 DEF ReflectionInv, ServicesInv
<1>9. MethodsInv'
  <2>1. /\ methodsOf' \in [ServiceNames -> Seq(Methods)]
        /\ methodsOf'[name] = <<m>> \o methodsOf[name]
        /\ \A other \in ServiceNames : other # name => methodsOf'[other] = methodsOf[other]
    BY <1>4, <1>6, Zenon DEF ReflectionInv, MethodsInv
  <2>2. ASSUME NEW a \in ServiceNames, NEW i \in 1 .. L, FirstOf(a, i)'
        PROVE  service'[registered[i]].methods = methodsOf'[a]
    <3>1. FirstOf(a, i)
      <4>1. registered' = registered /\ \A j \in 1 .. L : registered[j] \in ServiceNodes
        BY <1>1, <1>4
      <4>2. \A j \in 1 .. i - 1 : j \in 1 .. L
        BY <1>1
      <4> QED BY <1>7, <2>2, <4>1, <4>2, Zenon DEF FirstOf
    <3>2. service[registered[i]].methods = methodsOf[a] /\ service[n].methods = methodsOf[name]
      BY <1>2, <3>1, Zenon DEF ReflectionInv, MethodsInv
    <3>3. CASE a = name
      <4>1. i = f
        <5>1. i < f => i \in 1 .. f - 1
          BY <1>1
        <5>2. f < i => f \in 1 .. i - 1
          BY <1>1
        <5>3. ~(i < f) /\ ~(f < i)
          BY <1>2, <3>1, <3>3, <5>1, <5>2, Zenon DEF FirstOf
        <5> QED BY <1>1, <5>3
      <4> QED BY <1>2, <1>7, <2>1, <3>2, <3>3, <4>1, Zenon
    <3>4. CASE a # name
      <4>1. registered[i] # n
        BY <1>2, <3>1, <3>4, Zenon DEF FirstOf
      <4>2. registered[i] \in ServiceNodes
        BY <1>1
      <4> QED BY <1>7, <2>1, <3>2, <3>4, <4>1, <4>2, Zenon
    <3> QED BY <3>3, <3>4, Zenon
  <2> QED BY <1>4, <2>1, <2>2 DEF MethodsInv
<1>10. WalkersInv'
  BY <1>4, Zenon DEF ReflectionInv, WalkersInv
<1>11. DestroyedInv'
  BY <1>4, <1>7 DEF DestroyedInv, RegistryFreed
<1> QED BY <1>8, <1>9, <1>10, <1>11, Zenon DEF ReflectionInv

\* Services and methods are as they were after a step that changes neither.
LEMMA ServicesUnchanged ==
    ASSUME ServicesInv, MethodsInv,
           UNCHANGED <<services, serviceCount, service, registered, methodsOf>>
    PROVE  ServicesInv' /\ MethodsInv'
<1>1. services' = services /\ serviceCount' = serviceCount /\ service' = service
      /\ registered' = registered /\ methodsOf' = methodsOf
  BY Zenon
<1>2. ServicesInv'
  BY <1>1, Zenon DEF ServicesInv
<1>3. MethodsInv'
  <2>1. \A name, i : FirstOf(name, i)' <=> FirstOf(name, i)
    BY <1>1, Zenon DEF FirstOf
  <2> QED BY <1>1, <2>1, Zenon DEF MethodsInv
<1> QED BY <1>2, <1>3, Zenon

\* Asking for the list keeps the invariant,
LEMMA ListServicesStep ==
    ASSUME ReflectionInv, NEW t \in Threads, ListServices(t)
    PROVE  ReflectionInv'
<1> DEFINE L == Len(registered)
<1>1. registered \in Seq(ServiceNodes) /\ L \in Nat /\ services \in ServiceNodes \cup {NULL}
  BY DEF ReflectionInv, ServicesInv
<1>2. /\ UNCHANGED <<services, serviceCount, service, registered, methodsOf>> /\ ~RegistryFreed
      /\ walker' = [walker EXCEPT ![t] = [at |-> services, seen |-> <<>>, expected |-> registered]]
  BY Zenon DEF ListServices
<1>3. ServicesInv' /\ MethodsInv'
  BY <1>2, ServicesUnchanged, Zenon DEF ReflectionInv
<1>4. DestroyedInv'
  BY <1>2, Zenon DEF DestroyedInv, RegistryFreed
<1>5. WalkersInv'
  <2>1. /\ walker' \in [Threads -> [at : ServiceNodes \cup {NULL}, seen : Seq(ServiceNodes),
                                     expected : Seq(ServiceNodes)]]
        /\ walker'[t] = [at |-> services, seen |-> <<>>, expected |-> registered]
        /\ \A u \in Threads : u # t => walker'[u] = walker[u]
    <3> DEFINE Walker == [at : ServiceNodes \cup {NULL}, seen : Seq(ServiceNodes),
                          expected : Seq(ServiceNodes)]
               w == [at |-> services, seen |-> <<>>, expected |-> registered]
    <3>1. w \in Walker
      BY <1>1
    <3>2. walker \in [Threads -> Walker]
      BY Zenon DEF ReflectionInv, WalkersInv
    <3>3. walker' = [walker EXCEPT ![t] = w]
      BY <1>2, Zenon
    <3> HIDE DEF Walker, w
    <3>4. walker' \in [Threads -> Walker] /\ walker'[t] = w
          /\ \A u \in Threads : u # t => walker'[u] = walker[u]
      BY <3>1, <3>2, <3>3, Zenon
    <3> QED BY <3>4, Zenon DEF Walker, w
  <2>2. CASE registered = <<>>
    <3>1. services = NULL
      BY <2>2, Zenon DEF ReflectionInv, ServicesInv
    <3>2. OnItsWay(walker'[t], registered)
      BY <2>1, <2>2, <3>1 DEF OnItsWay
    <3> QED BY <1>2, <2>1, <3>2, Zenon DEF ReflectionInv, WalkersInv
  <2>3. CASE registered # <<>>
    <3>1. 1 \in 1 .. L /\ L \in 1 .. L /\ services = registered[1]
      BY <1>1, <2>3 DEF ReflectionInv, ServicesInv
    <3>2. SubSeq(registered, 1, L) = registered
      BY ONLY <1>1, <3>1, SubSeqWhole, Zenon
    <3>3. registered = <<>> \o SubSeq(registered, 1, L)
      BY <1>1, <3>2
    <3>4. OnItsWay(walker'[t], registered)
      <4>1. registered[1] # NULL
        BY <1>1, <3>1, ReflectionAssumption
      <4>2. walker'[t].at = registered[1] /\ walker'[t].seen = <<>> /\ walker'[t].expected = registered
        BY <2>1, <3>1
      <4>3. walker'[t].expected = walker'[t].seen \o SubSeq(registered, 1, Len(registered))
        BY <3>3, <4>2, Zenon
      <4> QED BY <3>1, <4>1, <4>2, <4>3, Zenon DEF OnItsWay
    <3> QED BY <1>2, <2>1, <3>4 DEF ReflectionInv, WalkersInv
  <2> QED BY <2>2, <2>3, Zenon
<1> QED BY <1>3, <1>4, <1>5, Zenon DEF ReflectionInv

\* and so does following it by one service,
LEMMA WalkStep ==
    ASSUME ReflectionInv, NEW t \in Threads, Walk(t)
    PROVE  ReflectionInv'
<1> USE CommonAssumption, ReflectionAssumption
<1> DEFINE L == Len(registered)
           w == walker[t]
<1>1. registered \in Seq(ServiceNodes) /\ L \in Nat
  BY DEF ReflectionInv, ServicesInv
<1>2. /\ UNCHANGED <<services, serviceCount, service, registered, methodsOf>> /\ w.at # NULL
      /\ walker' = [walker EXCEPT ![t].at = service[w.at].next, ![t].seen = Append(@, w.at)]
  BY Zenon DEF Walk
<1>3. ServicesInv' /\ MethodsInv'
  BY <1>2, ServicesUnchanged, Zenon DEF ReflectionInv
<1>4. DestroyedInv'
  BY <1>2, Zenon DEF ReflectionInv, DestroyedInv, RegistryFreed
<1>5. PICK j \in 1 .. L : w.at = registered[j] /\ w.expected = w.seen \o SubSeq(registered, j, L)
  BY <1>2, Zenon DEF ReflectionInv, WalkersInv, OnItsWay
<1>6. w.at \in ServiceNodes /\ w.seen \in Seq(ServiceNodes) /\ w.expected \in Seq(ServiceNodes)
      /\ service[w.at].next \in ServiceNodes \cup {NULL}
      /\ service[w.at].next = IF j = L THEN NULL ELSE registered[j + 1]
  BY <1>1, <1>2, <1>5, Zenon DEF ReflectionInv, WalkersInv, ServicesInv
<1>7. Append(w.seen, w.at) \in Seq(ServiceNodes)
  BY <1>6
<1>8. /\ walker' \in [Threads -> [at : ServiceNodes \cup {NULL}, seen : Seq(ServiceNodes),
                                   expected : Seq(ServiceNodes)]]
      /\ walker'[t].at = service[w.at].next /\ walker'[t].seen = Append(w.seen, w.at)
      /\ walker'[t].expected = w.expected
      /\ \A u \in Threads : u # t => walker'[u] = walker[u]
  BY <1>2, <1>6, <1>7, Zenon DEF ReflectionInv, WalkersInv
<1>9. CASE j = L
  <2>1. SubSeq(registered, j, L) = <<w.at>>
    BY <1>1, <1>5, <1>9, SubSeqOne, Zenon
  <2>2. walker'[t].at = NULL /\ walker'[t].seen = walker'[t].expected
    <3>1. Append(w.seen, w.at) = w.seen \o <<w.at>>
      BY <1>6, AppendJoin, Zenon
    <3> QED BY <1>5, <1>6, <1>8, <1>9, <2>1, <3>1, Zenon
  <2>3. WalkersInv'
    <3>1. OnItsWay(walker'[t], registered)
      BY <2>2, Zenon DEF OnItsWay
    <3> QED BY <1>2, <1>8, <3>1, Zenon DEF ReflectionInv, WalkersInv
  <2> QED BY <1>3, <1>4, <2>3, Zenon DEF ReflectionInv
<1>10. CASE j # L
  <2>1. j \in 1 .. L - 1 /\ j + 1 \in 1 .. L /\ registered[j + 1] # NULL
    BY <1>1, <1>10
  <2>2. w.seen \o SubSeq(registered, j, L) = Append(w.seen, registered[j]) \o SubSeq(registered, j + 1, L)
    BY ONLY <1>1, <1>6, <2>1, SubSeqFront, Zenon
  <2>3. walker'[t].at = registered[j + 1] /\ walker'[t].at # NULL
        /\ walker'[t].expected = walker'[t].seen \o SubSeq(registered, j + 1, L)
    BY <1>5, <1>6, <1>8, <1>10, <2>1, <2>2, Zenon
  <2>4. WalkersInv'
    <3>1. OnItsWay(walker'[t], registered)
      BY <2>1, <2>3, Zenon DEF OnItsWay
    <3> QED BY <1>2, <1>8, <3>1 DEF ReflectionInv, WalkersInv
  <2> QED BY <1>3, <1>4, <2>4 DEF ReflectionInv
<1> QED BY <1>9, <1>10, Zenon

\* and destroying the registry.
LEMMA DestroyRegistryStep ==
    ASSUME ReflectionInv, DestroyRegistry
    PROVE  ReflectionInv'
<1>1. registered \in Seq(ServiceNodes) /\ Len(registered) \in Nat
      /\ service \in [ServiceNodes -> [name : ServiceNames \cup {NULL}, methods : Seq(Methods),
                                        next : ServiceNodes \cup {NULL},
                                        memory : {"none", "held", "freed"}]]
  BY DEF ReflectionInv, ServicesInv
<1>2. ListFrom(services) = registered
  BY WholeList, Zenon DEF ReflectionInv
<1>3. /\ UNCHANGED <<services, serviceCount, walker, registered, methodsOf>>
      /\ \A t \in Threads : walker[t].at = NULL
      /\ service' = [n \in ServiceNodes |-> IF n \in Elements(registered)
                                              THEN [service[n] EXCEPT !.memory = "freed"]
                                              ELSE service[n]]
  BY <1>2, Zenon DEF DestroyRegistry, Elements
<1>4. /\ service' \in [ServiceNodes -> [name : ServiceNames \cup {NULL}, methods : Seq(Methods),
                                         next : ServiceNodes \cup {NULL},
                                         memory : {"none", "held", "freed"}]]
      /\ \A n \in ServiceNodes :
           /\ service'[n].name = service[n].name /\ service'[n].next = service[n].next
           /\ service'[n].methods = service[n].methods
           /\ service'[n].memory = IF n \in Elements(registered) THEN "freed" ELSE service[n].memory
  BY <1>1, <1>3
<1>5. \A n \in ServiceNodes : n \in Elements(registered) <=> service[n].memory # "none"
  BY Zenon DEF ReflectionInv, ServicesInv
<1>6. \A i \in 1 .. Len(registered) : registered[i] \in ServiceNodes
  BY <1>1
<1>7. ServicesInv'
  BY <1>3, <1>4, <1>5, <1>6 DEF ReflectionInv, ServicesInv
<1>8. MethodsInv'
  <2>1. ASSUME NEW a \in ServiceNames, NEW i \in 1 .. Len(registered), FirstOf(a, i)'
        PROVE  FirstOf(a, i)
    <3>1. \A j \in 1 .. i - 1 : j \in 1 .. Len(registered)
      BY <1>1
    <3> QED BY <1>3, <1>4, <1>6, <2>1, <3>1 DEF FirstOf
  <2> QED BY <1>3, <1>4, <1>6, <2>1 DEF ReflectionInv, MethodsInv
<1>9. WalkersInv'
  BY <1>3, Zenon DEF ReflectionInv, WalkersInv
<1>10. DestroyedInv'
  BY <1>3, <1>4, <1>5 DEF DestroyedInv
<1> QED BY <1>7, <1>8, <1>9, <1>10, Zenon DEF ReflectionInv

\* A caller that follows the list it was given meets the services registered
\* when it asked, in that order and each once, whatever is added meanwhile; the
\* count, the lookup by name and what destroying frees agree with the history:
\* for any number of services, names, methods and threads.
THEOREM RegistryCorrect == ReflectionSpec => []RegistryStable
<1> USE CommonAssumption, ReflectionAssumption
<1>1. ReflectionInv /\ [ReflectionNext]_reflectionVars => ReflectionInv'
  <2> SUFFICES ASSUME ReflectionInv, [ReflectionNext]_reflectionVars PROVE ReflectionInv'
    BY Zenon
  <2>1. CASE UNCHANGED reflectionVars
    <3>1. UNCHANGED <<services, serviceCount, service, registered, methodsOf, walker>>
      BY <2>1, Zenon DEF reflectionVars
    <3>2. ServicesInv' /\ MethodsInv'
      BY <3>1, ServicesUnchanged, Zenon DEF ReflectionInv
    <3>3. WalkersInv'
      BY <3>1, Zenon DEF ReflectionInv, WalkersInv
    <3>4. DestroyedInv'
      BY <2>1, Zenon DEF reflectionVars, ReflectionInv, DestroyedInv, RegistryFreed
    <3> QED BY <3>2, <3>3, <3>4, Zenon DEF ReflectionInv
  <2>2. ASSUME NEW n \in ServiceNodes, NEW name \in ServiceNames, AddService(n, name)
        PROVE  ReflectionInv'
    BY <2>2, AddServiceStep, Zenon
  <2>3. ASSUME NEW name \in ServiceNames, NEW m \in Methods, AddMethod(name, m)
        PROVE  ReflectionInv'
    BY <2>3, AddMethodStep, Zenon
  <2>4. ASSUME NEW t \in Threads, ListServices(t) \/ Walk(t) PROVE ReflectionInv'
    BY <2>4, ListServicesStep, WalkStep, Zenon
  <2>5. CASE DestroyRegistry
    BY <2>5, DestroyRegistryStep, Zenon
  <2> QED BY <2>1, <2>2, <2>3, <2>4, <2>5, Zenon DEF ReflectionNext
<1>2. ReflectionInv => RegistryStable
  <2> SUFFICES ASSUME ReflectionInv PROVE RegistryStable
    BY Zenon
  <2>1. ASSUME NEW t \in Threads PROVE walker[t].seen \o ListFrom(walker[t].at) = walker[t].expected
    <3>1. walker[t].seen \in Seq(ServiceNodes)
      BY Zenon DEF ReflectionInv, WalkersInv
    <3>2. CASE walker[t].at = NULL
      <4>1. ListFrom(walker[t].at) = <<>> /\ walker[t].seen = walker[t].expected
        BY <3>2, Zenon DEF ReflectionInv, WalkersInv, OnItsWay, ListFrom
      <4> QED BY <3>1, <4>1
    <3>3. CASE walker[t].at # NULL
      BY <3>3, ListFromIsRest, Zenon DEF ReflectionInv, WalkersInv, OnItsWay
    <3> QED BY <3>2, <3>3, Zenon
  <2>2. serviceCount = Len(ListFrom(services))
    BY WholeList, Zenon DEF ReflectionInv, ServicesInv
  <2>3. ASSUME NEW name \in ServiceNames, FindService(name) # NULL
        PROVE  service[FindService(name)].methods = methodsOf[name]
    BY <2>3, FindServiceFirst DEF ReflectionInv, MethodsInv
  <2> QED BY <2>1, <2>2, <2>3, Zenon DEF RegistryStable, ReflectionInv, DestroyedInv
<1> QED BY <1>1, <1>2, ReflectionStart, PTL DEF ReflectionSpec
=============================================================================
