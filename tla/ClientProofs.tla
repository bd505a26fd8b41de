---------------------------- MODULE ClientProofs ----------------------------
(***************************************************************************)
(* Proofs about a client: its calls on a channel, for any set of calls,    *)
(* the policies that pick one of several backends, for any number of       *)
(* backends and picks, and the addresses that a name resolves to, for any  *)
(* number of threads that resolve it and read them.                        *)
(*                                                                         *)
(* A client that starts batches, reads its queue and makes health checks   *)
(* is, as far as the channel can tell, a client of module Channel: every   *)
(* step of ClientCalls is a step of Channel or leaves the channel alone.   *)
(* What is proved of the stream table and of the stream ids therefore      *)
(* holds for such clients too.                                             *)
(***************************************************************************)
EXTENDS ClientCalls, LoadBalancer, NameResolver, Induction

\* What moving the last entry into place i does to a table without duplicates:
\* the table loses entry i and nothing else.
LEMMA RemoveAtCorrect ==
  ASSUME NEW X, NEW s \in Seq(X), NEW i \in 1 .. Len(s)
  PROVE  /\ RemoveAt(s, i) \in Seq(X)
         /\ Len(RemoveAt(s, i)) = Len(s) - 1
         /\ \A j \in 1 .. Len(s) - 1 :
              RemoveAt(s, i)[j] = IF j = i THEN s[Len(s)] ELSE s[j]
<1>1. Len(s) - 1 \in Nat
  OBVIOUS
<1>2. \A j \in 1 .. Len(s) - 1 : (IF j = i THEN s[Len(s)] ELSE s[j]) \in X
  OBVIOUS
<1> QED BY <1>1, <1>2 DEF RemoveAt

\* Every variable keeps its type: each step of a call's thread or of the
\* destroyer writes values of the right kind.
THEOREM TypeCorrect == Spec => []TypeOK
<1> USE DEF TypeOK, PCs
<1>1. Init => TypeOK
  BY ChannelAssumption, FS_CardinalityType DEF Init, ConnectionInit
<1>2. TypeOK /\ [Next]_vars => TypeOK'
  <2> SUFFICES ASSUME TypeOK, [Next]_vars PROVE TypeOK'
    BY Zenon
  <2>1. ASSUME NEW c \in Calls, StreamDestroy(c) PROVE TypeOK'
    <3>1. streams' \in Seq(Calls)
      BY <2>1, RemoveAtCorrect DEF StreamDestroy
    <3> QED BY <2>1, <3>1, Zenon DEF StreamDestroy
  <2>2. ASSUME NEW c \in Calls, StreamCreate(c) PROVE TypeOK'
    BY <2>2 DEF StreamCreate, GrownCapacity
  <2>3. ASSUME NEW c \in Calls, AdvanceId(c) PROVE TypeOK'
    <3>1. (nextId + 2) % IdSpace \in 0 .. IdSpace - 1
      BY ChannelAssumption, FS_CardinalityType
    <3> QED BY <2>3, <3>1, Zenon DEF AdvanceId
  <2>4. ASSUME NEW c \in Calls,
               CreateCall(c) \/ ReadId(c) \/ StreamCreateFails(c) \/ CreateReturns(c)
               \/ Cancel(c) \/ DestroyCall(c) \/ CallFree(c)
        PROVE TypeOK'
    BY <2>4 DEF CreateCall, ReadId, StreamCreateFails, CreateReturns, Cancel,
                DestroyCall, CallFree
  <2>5. CASE DestroyChannel \/ DestroyStep
    BY <2>5, Zenon DEF DestroyChannel, DestroyStep, DestroyLocksChannel,
                DestroyLocksStreams, DestroyFrees
  <2>6. CASE UNCHANGED vars
    BY <2>6, Zenon DEF vars
  <2> QED BY <2>1, <2>2, <2>3, <2>4, <2>5, <2>6, Zenon DEF Next, CallStep
<1> QED BY <1>1, <1>2, PTL DEF Spec

-----------------------------------------------------------------------------
\* http2_stream_create grows the table before it writes the new entry.
THEOREM TableInBounds == Spec => []WithinCapacity
<1>1. Init => WithinCapacity
  BY ChannelAssumption DEF Init, ConnectionInit, WithinCapacity
<1>2. TypeOK /\ WithinCapacity /\ [Next]_vars => WithinCapacity'
  <2> SUFFICES ASSUME TypeOK, WithinCapacity, [Next]_vars PROVE WithinCapacity'
    BY Zenon
  <2> USE DEF WithinCapacity
  <2>0. streams \in Seq(Calls) /\ capacity \in Nat \ {0} /\ Len(streams) \in Nat
    BY DEF TypeOK
  <2>1. ASSUME NEW c \in Calls, StreamCreate(c) PROVE WithinCapacity'
    <3>1. Len(streams') = Len(streams) + 1
      BY <2>0, <2>1 DEF StreamCreate
    <3> QED BY <2>0, <2>1, <3>1 DEF StreamCreate, GrownCapacity
  <2>2. ASSUME NEW c \in Calls, StreamDestroy(c) PROVE WithinCapacity'
    BY <2>0, <2>2, RemoveAtCorrect DEF StreamDestroy
  <2>3. CASE UNCHANGED <<streams, capacity>>
    BY <2>3, Zenon
  <2> QED BY <2>1, <2>2, <2>3, Zenon
          DEF Next, CallStep, DestroyStep, vars, CreateCall, ReadId, AdvanceId,
              StreamCreateFails, CreateReturns, Cancel, DestroyCall, CallFree,
              DestroyChannel, DestroyLocksChannel, DestroyLocksStreams, DestroyFrees
<1> QED BY <1>1, <1>2, TypeCorrect, PTL DEF Spec

-----------------------------------------------------------------------------
\* The steps that leave the table alone and neither register nor release a
\* stream keep RegistryExact.
LEMMA RegistryUndisturbed ==
  ASSUME TypeOK, RegistryExact, UNCHANGED streams,
         \A c \in Calls : Registered(c)' <=> Registered(c)
  PROVE  RegistryExact'
BY Zenon DEF RegistryExact

\* Registering a stream that is not in the table keeps RegistryExact.
LEMMA RegistryCreate ==
  ASSUME TypeOK, RegistryExact, NEW c \in Calls, StreamCreate(c)
  PROVE  RegistryExact'
<1>1. /\ streams \in Seq(Calls)
      /\ streams' = Append(streams, c)
      /\ Len(streams') = Len(streams) + 1
      /\ streams'[Len(streams) + 1] = c
      /\ \A i \in 1 .. Len(streams) : streams'[i] = streams[i]
  BY DEF TypeOK, StreamCreate
<1>2. \A i \in 1 .. Len(streams) : streams[i] # c
  BY Zenon DEF RegistryExact, StreamCreate, Registered
<1>3. \A d \in Calls : Registered(d)' <=> (d = c \/ Registered(d))
  BY Zenon DEF TypeOK, StreamCreate, Registered
<1>4. Len(streams) \in Nat
  BY <1>1
<1>5. ASSUME NEW d \in Calls
      PROVE Registered(d)' <=> \E i \in 1 .. Len(streams') : streams'[i] = d
  <2>1. CASE d = c
    BY <1>1, <1>3, <1>4, <2>1
  <2>2. CASE d # c
    <3>1. (\E i \in 1 .. Len(streams') : streams'[i] = d)
            <=> (\E i \in 1 .. Len(streams) : streams[i] = d)
      BY <1>1, <1>4, <2>2
    <3> QED BY <1>3, <2>2, <3>1, Zenon DEF RegistryExact
  <2> QED BY <2>1, <2>2, Zenon
<1>6. ASSUME NEW i \in 1 .. Len(streams'), NEW j \in 1 .. Len(streams'),
             streams'[i] = streams'[j]
      PROVE i = j
  BY <1>1, <1>2, <1>4, <1>6 DEF RegistryExact
<1> QED BY <1>5, <1>6, Zenon DEF RegistryExact

\* Removing a stream's only entry keeps RegistryExact.
LEMMA RegistryDestroy ==
  ASSUME TypeOK, RegistryExact, NEW c \in Calls, StreamDestroy(c)
  PROVE  RegistryExact'
<1>1. PICK i \in 1 .. Len(streams) :
         streams[i] = c /\ streams' = RemoveAt(streams, i)
  BY Zenon DEF RegistryExact, Registered, StreamDestroy
<1>2. streams \in Seq(Calls) /\ Len(streams) \in Nat
  BY DEF TypeOK
<1>3. /\ Len(streams') = Len(streams) - 1
      /\ \A j \in 1 .. Len(streams) - 1 :
           streams'[j] = IF j = i THEN streams[Len(streams)] ELSE streams[j]
  BY <1>1, <1>2, RemoveAtCorrect, Zenon
<1>4. \A j \in 1 .. Len(streams) : streams[j] = c => j = i
  BY <1>1, Zenon DEF RegistryExact
<1>5. \A d \in Calls : Registered(d)' <=> (d # c /\ Registered(d))
  BY Zenon DEF TypeOK, StreamDestroy, Registered
<1>6. ASSUME NEW d \in Calls
      PROVE (\E j \in 1 .. Len(streams') : streams'[j] = d)
              <=> (d # c /\ \E j \in 1 .. Len(streams) : streams[j] = d)
  <2>1. ASSUME NEW j \in 1 .. Len(streams'), streams'[j] = d
        PROVE d # c /\ \E k \in 1 .. Len(streams) : streams[k] = d
    BY <1>1, <1>2, <1>3, <1>4, <2>1
  <2>2. ASSUME d # c, NEW j \in 1 .. Len(streams), streams[j] = d
        PROVE \E k \in 1 .. Len(streams') : streams'[k] = d
    <3>1. j # i
      BY <1>1, <2>2, Zenon
    <3>2. CASE j = Len(streams)
      BY <1>1, <1>2, <1>3, <2>2, <3>1, <3>2
    <3>3. CASE j # Len(streams)
      BY <1>1, <1>2, <1>3, <2>2, <3>1, <3>3
    <3> QED BY <3>2, <3>3, Zenon
  <2> QED BY <2>1, <2>2, Zenon
<1>7. ASSUME NEW j \in 1 .. Len(streams'), NEW k \in 1 .. Len(streams'),
             streams'[j] = streams'[k]
      PROVE j = k
  BY <1>1, <1>2, <1>3, <1>7 DEF RegistryExact
<1>8. \A d \in Calls : Registered(d) <=> \E j \in 1 .. Len(streams) : streams[j] = d
  BY Zenon DEF RegistryExact
<1>9. \A d \in Calls : Registered(d)' <=> \E j \in 1 .. Len(streams') : streams'[j] = d
  BY <1>5, <1>6, <1>8, Zenon
<1> QED BY <1>7, <1>9, Zenon DEF RegistryExact

\* The stream table holds exactly the streams that exist, once each, however
\* creations and destructions of calls interleave.
THEOREM RegistryCorrect == Spec => []RegistryExact
<1>1. Init => RegistryExact
  BY DEF Init, ConnectionInit, RegistryExact, Registered
<1>2. TypeOK /\ RegistryExact /\ [Next]_vars => RegistryExact'
  <2> SUFFICES ASSUME TypeOK, RegistryExact, [Next]_vars PROVE RegistryExact'
    OBVIOUS
  <2>1. ASSUME NEW c \in Calls, StreamCreate(c) PROVE RegistryExact'
    BY <2>1, RegistryCreate, Zenon
  <2>2. ASSUME NEW c \in Calls, StreamDestroy(c) PROVE RegistryExact'
    BY <2>2, RegistryDestroy
  <2>3. ASSUME NEW c \in Calls,
               CreateCall(c) \/ ReadId(c) \/ AdvanceId(c) \/ StreamCreateFails(c)
               \/ CreateReturns(c) \/ Cancel(c) \/ DestroyCall(c) \/ CallFree(c)
        PROVE RegistryExact'
    <3>1. UNCHANGED streams /\ \A d \in Calls : Registered(d)' <=> Registered(d)
      BY <2>3, Zenon DEF TypeOK, Registered, CreateCall, ReadId, AdvanceId,
                  StreamCreateFails, CreateReturns, Cancel, DestroyCall, CallFree
    <3> QED BY <3>1, RegistryUndisturbed, Zenon
  <2>4. CASE DestroyChannel \/ DestroyStep \/ UNCHANGED vars
    <3>1. UNCHANGED <<streams, pc>>
      BY <2>4, Zenon DEF DestroyChannel, DestroyStep, DestroyLocksChannel,
                  DestroyLocksStreams, DestroyFrees, vars
    <3> QED BY <3>1, RegistryUndisturbed, Zenon DEF Registered
  <2> QED BY <2>1, <2>2, <2>3, <2>4, Zenon DEF Next, CallStep
<1> QED BY <1>1, <1>2, TypeCorrect, PTL DEF Spec

-----------------------------------------------------------------------------
\* There are at most as many numbered calls as calls, so next_stream_id stays
\* below the id space.
LEMMA NumberedBound ==
  ASSUME TypeOK, IdInvariant
  PROVE  /\ IsFiniteSet(Numbered)
         /\ Cardinality(Numbered) \in Nat
         /\ Cardinality(Calls) \in Nat
         /\ Cardinality(Numbered) <= Cardinality(Calls)
<1>1. Numbered \subseteq Calls
  BY Zenon DEF Numbered
<1>2. IsFiniteSet(Calls)
  BY ChannelAssumption, Zenon
<1> QED BY <1>1, <1>2, FS_Subset, FS_CardinalityType, Zenon

\* A step that changes no id, leaves next_stream_id and the numbered calls
\* alone and takes no lock keeps IdInvariant.
LEMMA IdUndisturbed ==
  ASSUME TypeOK, IdInvariant, UNCHANGED <<nextId, id>>,
         \A c \in Calls : pc'[c] = "numbered" <=> pc[c] = "numbered",
         \A c \in Calls : InCreate(c)' => InCreate(c) /\ channelLock' = c,
         \A c \in Calls : pc'[c] \in {"none", "allocated"} => pc[c] \in {"none", "allocated"},
         destroyer' \in {"locked", "sweeping"} => channelLock' = Destroyer
  PROVE  IdInvariant'
<1>1. Numbered' = Numbered
  BY Zenon DEF Numbered
<1>2. IdsUnique'
  BY DEF IdInvariant, IdsUnique
<1> QED BY <1>1, <1>2, Zenon DEF IdInvariant

\* Taking an id under the mutex keeps IdInvariant.
LEMMA IdRead ==
  ASSUME TypeOK, IdInvariant, NEW c \in Calls, ReadId(c)
  PROVE  IdInvariant'
<1>1. /\ id \in [Calls -> 0 .. IdSpace - 1] /\ pc \in [Calls -> PCs]
      /\ id' = [id EXCEPT ![c] = nextId] /\ pc' = [pc EXCEPT ![c] = "numbered"]
      /\ channelLock = NULL /\ channelLock' = c
      /\ nextId' = nextId /\ destroyer' = destroyer
  BY Zenon DEF TypeOK, ReadId
<1>2. id[c] = 0
  BY Zenon DEF IdInvariant, ReadId
<1>3. Numbered' = Numbered
  BY <1>1, <1>2, Zenon DEF Numbered
<1>4. nextId \in Nat /\ nextId > 0 /\ nextId % 2 = 1 /\ nextId < IdSpace /\ IdSpace \in Nat
  BY NumberedBound, ChannelAssumption DEF IdInvariant
<1>5. \A d \in Calls : ~InCreate(d)
  BY <1>1, ChannelAssumption, Zenon DEF IdInvariant
<1>6. \A d \in Calls : d # c => id'[d] = id[d] /\ id[d] < nextId
  <2> SUFFICES ASSUME NEW d \in Calls, d # c PROVE id'[d] = id[d] /\ id[d] < nextId
    BY Zenon
  <2>1. CASE id[d] = 0
    BY <1>1, <1>4, <2>1, Zenon
  <2>2. CASE id[d] # 0
    BY <1>1, <1>5, <2>2, Zenon DEF IdInvariant, Numbered, InCreate
  <2> QED BY <2>1, <2>2, Zenon
<1>7. id'[c] = nextId
  BY <1>1, Zenon
<1>8. IdsUnique'
  BY <1>1, <1>4, <1>6, <1>7 DEF IdInvariant, IdsUnique
<1>9. \A d \in Calls : InCreate(d)' => d = c
  BY <1>1, <1>5, Zenon DEF InCreate
<1>10. destroyer \notin {"locked", "sweeping"}
  BY <1>1, ChannelAssumption, Zenon DEF IdInvariant
<1>11. \A d \in Numbered' : id'[d] < nextId'
  BY <1>1, <1>3, <1>6, Zenon DEF Numbered
<1>12. \A d \in Calls : pc'[d] \in {"none", "allocated"} => id'[d] = 0
  BY <1>1, <1>6, Zenon DEF IdInvariant
<1>13. \A d \in Calls : pc'[d] = "numbered" => id'[d] = nextId'
  BY <1>1, <1>5, <1>7, Zenon DEF InCreate
<1>14. \A d, e \in Calls : InCreate(d)' /\ d # e => id'[e] < id'[d]
  BY <1>6, <1>7, <1>9, Zenon
<1> QED BY <1>1, <1>3, <1>8, <1>9, <1>10, <1>11, <1>12, <1>13, <1>14, Zenon DEF IdInvariant

\* Advancing next_stream_id keeps IdInvariant: it does not wrap around.
LEMMA IdAdvance ==
  ASSUME TypeOK, IdInvariant, NEW c \in Calls, AdvanceId(c)
  PROVE  IdInvariant'
<1>1. /\ id \in [Calls -> 0 .. IdSpace - 1] /\ pc \in [Calls -> PCs]
      /\ pc[c] = "numbered" /\ pc' = [pc EXCEPT ![c] = "opening"]
      /\ nextId' = (nextId + 2) % IdSpace
      /\ id' = id /\ channelLock' = channelLock /\ destroyer' = destroyer
  BY Zenon DEF TypeOK, AdvanceId
<1>2. id[c] = nextId /\ c \notin Numbered
  BY <1>1, Zenon DEF IdInvariant, Numbered
<1>3. nextId \in Nat /\ nextId > 0
  BY NumberedBound DEF IdInvariant
<1>4. Numbered' = Numbered \cup {c}
  BY <1>1, <1>2, <1>3 DEF Numbered
<1>5. /\ IsFiniteSet(Numbered')
      /\ Cardinality(Numbered') = Cardinality(Numbered) + 1
  BY <1>2, <1>4, NumberedBound, FS_AddElement, Zenon
<1>6. Cardinality(Numbered') <= Cardinality(Calls)
  <2>1. Numbered' \subseteq Calls
    BY <1>4, Zenon DEF Numbered
  <2> QED BY <2>1, FS_Subset, ChannelAssumption, Zenon
<1>7. nextId' = nextId + 2
  <2>1. nextId + 2 < IdSpace /\ IdSpace \in Nat
    BY <1>5, <1>6, NumberedBound, ChannelAssumption DEF IdInvariant
  <2> QED BY <1>1, <1>3, <2>1
<1>8. nextId' = 2 * Cardinality(Numbered') + 1
  BY <1>5, <1>7, NumberedBound DEF IdInvariant
<1>9. \A d \in Calls : InCreate(d)' <=> InCreate(d)
  BY <1>1, Zenon DEF InCreate
<1>10. \A d \in Calls : InCreate(d) => d = c
  BY <1>1, Zenon DEF IdInvariant, InCreate
<1>11. \A d \in Numbered' : id'[d] < nextId'
  <2> SUFFICES ASSUME NEW d \in Numbered' PROVE id[d] < nextId + 2
    BY <1>1, <1>7, Zenon
  <2>1. Numbered \subseteq Calls
    BY Zenon DEF Numbered
  <2>2. CASE d = c
    BY <1>2, <1>3, <2>2
  <2>3. CASE d \in Numbered
    <3>1. id[d] < nextId /\ id[d] \in 0 .. IdSpace - 1
      BY <1>1, <2>1, <2>3, Zenon DEF IdInvariant
    <3> QED BY <1>3, <3>1, ChannelAssumption
  <2> QED BY <1>4, <2>2, <2>3, Zenon
<1>12. \A d \in Calls : pc'[d] # "numbered"
  BY <1>1, <1>10, Zenon DEF InCreate
<1>13. IdsUnique'
  BY <1>1, Zenon DEF IdInvariant, IdsUnique
<1>14. \A d \in Calls : pc'[d] \in {"none", "allocated"} => id'[d] = 0
  BY <1>1, Zenon DEF IdInvariant
<1> QED BY <1>1, <1>8, <1>9, <1>11, <1>12, <1>13, <1>14 DEF IdInvariant

\* IdInvariant is inductive.
LEMMA IdStep == TypeOK /\ IdInvariant /\ [Next]_vars => IdInvariant'
<1> SUFFICES ASSUME TypeOK, IdInvariant, [Next]_vars PROVE IdInvariant'
  OBVIOUS
<1>1. ASSUME NEW c \in Calls, ReadId(c) PROVE IdInvariant'
  BY <1>1, IdRead
<1>2. ASSUME NEW c \in Calls, AdvanceId(c) PROVE IdInvariant'
  BY <1>2, IdAdvance
<1>3. ASSUME NEW c \in Calls,
             CreateCall(c) \/ StreamCreate(c) \/ StreamCreateFails(c) \/ Cancel(c)
             \/ DestroyCall(c) \/ StreamDestroy(c) \/ CallFree(c)
      PROVE IdInvariant'
  <2>1. /\ UNCHANGED <<nextId, id, channelLock, destroyer>>
        /\ \A d \in Calls : pc'[d] = "numbered" <=> pc[d] = "numbered"
        /\ \A d \in Calls : InCreate(d)' => InCreate(d)
        /\ \A d \in Calls : pc'[d] \in {"none", "allocated"}
                              => pc[d] \in {"none", "allocated"}
    BY <1>3 DEF TypeOK, InCreate, CreateCall, StreamCreate, StreamCreateFails,
                Cancel, DestroyCall, StreamDestroy, CallFree
  <2>2. \A d \in Calls : InCreate(d) => channelLock' = d
    BY <2>1, Zenon DEF IdInvariant
  <2>3. destroyer' \in {"locked", "sweeping"} => channelLock' = Destroyer
    BY <2>1, Zenon DEF IdInvariant
  <2> QED BY <2>1, <2>2, <2>3, IdUndisturbed, Zenon
<1>4. ASSUME NEW c \in Calls, CreateReturns(c) PROVE IdInvariant'
  <2>1. channelLock = c /\ c # Destroyer
    BY <1>4, ChannelAssumption, Zenon DEF IdInvariant, CreateReturns, InCreate
  <2>2. \A d \in Calls : ~InCreate(d)'
    BY <1>4, <2>1, Zenon DEF TypeOK, IdInvariant, CreateReturns, InCreate
  <2>3. destroyer' \notin {"locked", "sweeping"}
    BY <1>4, <2>1, Zenon DEF IdInvariant, CreateReturns
  <2>4. /\ UNCHANGED <<nextId, id>>
        /\ \A d \in Calls : pc'[d] = "numbered" <=> pc[d] = "numbered"
        /\ \A d \in Calls : pc'[d] \in {"none", "allocated"}
                              => pc[d] \in {"none", "allocated"}
    BY <1>4, Zenon DEF TypeOK, CreateReturns
  <2> QED BY <2>2, <2>3, <2>4, IdUndisturbed, Zenon
<1>5. CASE DestroyChannel \/ DestroyLocksStreams \/ UNCHANGED vars
  <2>1. /\ UNCHANGED <<nextId, id, pc, channelLock>>
        /\ destroyer' \in {"locked", "sweeping"} => destroyer \in {"locked", "sweeping"}
    BY <1>5, Zenon DEF DestroyChannel, DestroyLocksStreams, vars
  <2> QED BY <2>1, IdUndisturbed, Zenon DEF IdInvariant, InCreate
<1>6. CASE DestroyLocksChannel \/ DestroyFrees
  <2>1. /\ UNCHANGED <<nextId, id, pc>>
        /\ destroyer' \in {"locked", "sweeping"} => channelLock' = Destroyer
    BY <1>6, Zenon DEF DestroyLocksChannel, DestroyFrees
  <2>2. \A c \in Calls : ~InCreate(c)
    BY <1>6, ChannelAssumption, Zenon DEF IdInvariant, DestroyLocksChannel, DestroyFrees
  <2> QED BY <2>1, <2>2, IdUndisturbed, Zenon DEF InCreate
<1> QED BY <1>1, <1>2, <1>3, <1>4, <1>5, <1>6, Zenon DEF Next, CallStep, DestroyStep

\* The initial state satisfies IdInvariant.
LEMMA IdInit == Init => IdInvariant
<1> SUFFICES ASSUME Init PROVE IdInvariant
  BY Zenon
<1>1. Numbered = {}
  BY Zenon DEF Init, ConnectionInit, Numbered
<1>2. nextId = 2 * Cardinality(Numbered) + 1
  BY <1>1, FS_EmptySet DEF Init, ConnectionInit
<1> QED BY <1>1, <1>2, Zenon DEF Init, ConnectionInit, IdInvariant, IdsUnique, InCreate

\* Reading and advancing next_stream_id under channel->mutex never hands out
\* the same stream id twice.
THEOREM IdsCorrect == Spec => []IdsUnique
<1>1. IdInvariant => IdsUnique
  BY Zenon DEF IdInvariant
<1> QED BY <1>1, IdInit, IdStep, TypeCorrect, PTL DEF Spec

\* Streams are registered in the order of their ids, because the mutex is not
\* released between taking the id and registering the stream.
THEOREM OpenedInOrder == Spec => OpenedInIdOrder
<1>1. IdInvariant /\ [Next]_vars =>
        [\A c, d \in Calls :
           pc[c] = "opening" /\ pc'[c] = "registered"
           /\ pc[d] \in {"live", "registered", "detached", "released", "gone"}
           => id[d] < id[c]]_vars
  BY Zenon DEF IdInvariant, InCreate
<1> QED BY <1>1, IdInit, IdStep, TypeCorrect, PTL DEF Spec, OpenedInIdOrder

-----------------------------------------------------------------------------
\* The steps of the threads inside a call, and of the destruction, are those
\* of Channel.
LEMMA ThreadsStep ==
  ASSUME NEW c \in Calls, CallContinues(c)
  PROVE  Next
BY Zenon DEF CallContinues, Next

\* The application creates, cancels and destroys its calls as in Channel, and
\* so does a health check (grpc_health_check).
LEMMA CallersStep ==
  ASSUME NEW c \in Calls, ApplicationStep(c) \/ CheckCalls(c) \/ CheckDestroysCall(c)
  PROVE  Next
BY Zenon DEF ApplicationStep, CheckCalls, CheckDestroysCall, Next

\* grpc_call_start_batch and the operations on the completion queue do not
\* touch the channel.
LEMMA QueueLeavesChannel ==
  ASSUME \/ \E c \in Calls, e \in Events : StartBatch(c, e)
         \/ Ask \/ Answer \/ ShutdownQueue \/ DestroyQueue
         \/ \E c \in Checks : CheckStarts(c) \/ CheckReturns(c)
  PROVE  UNCHANGED vars
BY Zenon DEF StartBatch, Ask, Answer, ShutdownQueue, DestroyQueue, CheckStarts, CheckReturns

\* The composition of channel, completion queue and health checks implements
\* the channel of module Channel.
THEOREM ClientImplementsChannel == ClientSpec => Spec
<1>1. ClientInit => Init
  BY Zenon DEF ClientInit
<1>2. [ClientNext]_allVars => [Next]_vars
  <2> SUFFICES ASSUME [ClientNext]_allVars PROVE Next \/ UNCHANGED vars
    BY Zenon
  <2>1. CASE UNCHANGED allVars
    BY <2>1, Zenon DEF allVars
  <2>2. ASSUME NEW c \in Calls, ApplicationStep(c) \/ CallContinues(c)
        PROVE  Next
    BY <2>2, ThreadsStep, CallersStep, Zenon
  <2>3. ASSUME NEW c \in Checks, CheckStep(c)
        PROVE  Next \/ UNCHANGED vars
    <3>1. c \in Calls
      BY ClientAssumption, Zenon
    <3>2. CASE CheckCalls(c) \/ CheckDestroysCall(c)
      BY <3>1, <3>2, CallersStep, Zenon
    <3>3. CASE CheckReturns(c)
      BY <3>3, QueueLeavesChannel, Zenon
    <3> QED BY <2>3, <3>2, <3>3, Zenon DEF CheckStep
  <2>4. CASE CloseChannel \/ CloseContinues
    BY <2>4, Zenon DEF CloseChannel, CloseContinues, Next
  <2>5. CASE \/ \E c \in Calls, e \in Events : StartBatch(c, e)
             \/ Ask \/ Answer \/ ShutdownQueue \/ DestroyQueue
             \/ \E c \in Checks : CheckStarts(c)
    BY <2>5, QueueLeavesChannel, Zenon
  <2> QED BY <2>1, <2>2, <2>3, <2>4, <2>5, Zenon DEF ClientNext
<1> QED BY <1>1, <1>2, PTL DEF ClientSpec, Spec

\* Whatever batches, cancellations and health checks are under way, the stream
\* table of the connection holds exactly the live streams.
THEOREM ClientRegistryCorrect == ClientSpec => []RegistryExact
BY ClientImplementsChannel, RegistryCorrect, PTL

\* No two calls of the client, health checks included, have the same stream id.
THEOREM ClientIdsCorrect == ClientSpec => []IdsUnique
BY ClientImplementsChannel, IdsCorrect, PTL

-----------------------------------------------------------------------------
\* The events of the batches started, without those for which there was no
\* memory.
Pushed == Filter(started, Events \ lost)

\* Until the queue is destroyed it holds what is pushed and not handed out;
\* then no reader is inside it.
BatchesInv ==
    /\ started \in Seq(Events) /\ queue \in Seq(Events) /\ delivered \in Seq(Events)
    /\ lost \subseteq Elements(started)
    /\ DOMAIN outcome = {Reader} /\ outcome = [r \in {Reader} |-> outcome[r]]
    /\ cq = "held" => delivered \o queue = Pushed
    /\ cq # "held" => outcome[Reader] # "pending"
    /\ \E rest \in Seq(Events) : delivered \o rest = Pushed

\* A new client has started no batch.
LEMMA BatchesStart == ClientInit => BatchesInv
<1> SUFFICES ASSUME ClientInit PROVE BatchesInv
  OBVIOUS
<1>1. started = <<>> /\ queue = <<>> /\ delivered = <<>> /\ lost = {} /\ cq = "held"
      /\ outcome = [r \in {Reader} |-> "none"]
  BY Zenon DEF ClientInit, Q!QInit
<1>2. Pushed = <<>>
  BY <1>1, FilterEmpty, Zenon DEF Pushed
<1>3. delivered \o queue = Pushed /\ queue \in Seq(Events)
  BY <1>1, <1>2
<1> QED BY <1>1, <1>3, Zenon DEF BatchesInv, Elements

\* start_batch: the event of the batch is the newest that is pushed, or lost.
LEMMA StartBatchStep ==
    ASSUME BatchesInv, NEW c \in Calls, NEW e \in Events, StartBatch(c, e)
    PROVE  BatchesInv'
<1>1. /\ started' = Append(started, e) /\ e \notin Elements(started) /\ started \in Seq(Events)
      /\ UNCHANGED <<cq, delivered, outcome>>
  BY Zenon DEF StartBatch, BatchesInv, Q!Put
<1>2. started' \in Seq(Events) /\ Elements(started') = Elements(started) \cup {e}
  BY <1>1, ElementsAppend
<1>3. Pushed \in Seq(Events)
  BY <1>1, FilterElements, Zenon DEF Pushed
<1>4. PICK rest \in Seq(Events) : delivered \o rest = Pushed
  BY Zenon DEF BatchesInv
<1>5. CASE Q!Put(e) /\ UNCHANGED lost
  <2>1. queue' = Append(queue, e) /\ queue' \in Seq(Events) /\ lost' \subseteq Elements(started')
    BY <1>2, <1>5 DEF Q!Put, BatchesInv
  <2>2. Pushed' = Append(Pushed, e)
    <3>1. e \in Events \ lost
      BY <1>1, Zenon DEF BatchesInv
    <3>2. Filter(Append(started, e), Events \ lost) = Append(Filter(started, Events \ lost), e)
      <4> DEFINE K == Events \ lost
      <4> HIDE DEF K
      <4>1. e \in K
        BY <3>1, Zenon DEF K
      <4>2. Filter(Append(started, e), K) = Append(Filter(started, K), e)
        BY <1>1, <4>1, FilterAppend
      <4> QED BY <4>2, Zenon DEF K
    <3> QED BY <1>1, <1>5, <3>2, Zenon DEF Pushed
  <2>3. delivered \o Append(rest, e) = Pushed' /\ Append(rest, e) \in Seq(Events)
    <3>1. delivered \in Seq(Events) /\ Append(rest, e) \in Seq(Events)
      BY DEF BatchesInv
    <3>2. Append(delivered \o rest, e) = delivered \o Append(rest, e)
      <4>1. Across(delivered, rest, e)
        BY <3>1, AppendAcross, Zenon
      <4> QED BY <4>1, Zenon DEF Across
    <3> HIDE DEF Pushed
    <3> QED BY <1>4, <2>2, <3>1, <3>2, Zenon
  <2>4. cq = "held" => delivered \o queue' = Pushed'
    <3>1. delivered \in Seq(Events) /\ queue \in Seq(Events) /\ (cq = "held" => delivered \o queue = Pushed)
      BY Zenon DEF BatchesInv
    <3>2. Append(delivered \o queue, e) = delivered \o Append(queue, e)
      <4>1. Across(delivered, queue, e)
        BY <3>1, AppendAcross, Zenon
      <4> QED BY <4>1, Zenon DEF Across
    <3> HIDE DEF Pushed
    <3> QED BY <2>1, <2>2, <3>1, <3>2, Zenon
  <2> QED BY <1>1, <1>2, <2>1, <2>3, <2>4, Zenon DEF BatchesInv
<1>6. CASE lost' = lost \union {e} /\ UNCHANGED <<queue, closed, outcome>>
  <2>1. Pushed' = Pushed
    <3>1. e \notin Events \ (lost \union {e})
      BY Zenon
    <3>2. \A x \in Elements(started) : x \in Events \ lost <=> x \in Events \ (lost \union {e})
      BY <1>1, Zenon
    <3>3. Filter(Append(started, e), Events \ (lost \union {e})) = Filter(started, Events \ lost)
      <4> DEFINE K == Events \ lost
                 M == Events \ (lost \union {e})
      <4> HIDE DEF K, M
      <4>1. \A x \in Elements(started) : x \in K <=> x \in M
        BY <3>2, Zenon DEF K, M
      <4>2. Filter(Append(started, e), M) = Filter(started, K)
        <5>1. e \notin M
          BY <3>1, Zenon DEF M
        <5> QED BY <1>1, <4>1, <5>1, FilterAppend
      <4> QED BY <4>2, Zenon DEF K, M
    <3> QED BY <1>1, <1>6, <3>3, Zenon DEF Pushed
  <2> QED BY <1>1, <1>2, <1>6, <2>1, Zenon DEF BatchesInv
<1> QED BY <1>5, <1>6, Zenon DEF StartBatch

\* completion_queue_next hands out the oldest event, or none.
LEMMA AnswerStep ==
    ASSUME BatchesInv, Answer
    PROVE  BatchesInv'
<1>1. UNCHANGED <<started, lost, cq>> /\ Pushed' = Pushed
  BY Zenon DEF Answer, Pushed
<1>2. outcome[Reader] = "pending" /\ cq = "held"
  BY Zenon DEF Answer, BatchesInv, Q!Deliver, Q!NotifyShutdown, Q!GiveUp, Q!Return
<1>3. DOMAIN outcome' = {Reader} /\ outcome' = [r \in {Reader} |-> outcome'[r]]
  BY Zenon DEF Answer, BatchesInv, Q!Deliver, Q!NotifyShutdown, Q!GiveUp, Q!Return
<1>4. CASE Q!Deliver(Reader) /\ delivered' = Append(delivered, Head(queue))
  <2>1. queue # <<>> /\ queue' = Tail(queue)
    BY <1>4, Zenon DEF Q!Deliver
  <2>2. delivered' \o queue' = Pushed /\ delivered' \in Seq(Events) /\ queue' \in Seq(Events)
    <3>1. delivered \in Seq(Events) /\ queue \in Seq(Events) /\ delivered \o queue = Pushed
      BY <1>2, Zenon DEF BatchesInv
    <3>2. /\ Append(delivered, Head(queue)) \o Tail(queue) = delivered \o queue
          /\ Tail(queue) \in Seq(Events) /\ Append(delivered, Head(queue)) \in Seq(Events)
      BY ONLY <2>1, <3>1, HeadAcross
    <3> HIDE DEF Pushed
    <3> QED BY <1>4, <2>1, <3>1, <3>2, Zenon
  <2> QED BY <1>1, <1>2, <1>3, <2>2, Zenon DEF BatchesInv
<1>5. CASE (Q!NotifyShutdown(Reader) \/ Q!GiveUp(Reader)) /\ UNCHANGED delivered
  <2>1. queue' = queue /\ delivered' = delivered
    BY <1>5, Zenon DEF Q!NotifyShutdown, Q!GiveUp
  <2> QED BY <1>1, <1>2, <1>3, <2>1, Zenon DEF BatchesInv
<1> QED BY <1>4, <1>5, Zenon DEF Answer

\* Every step of a client keeps its batches accounted for.
LEMMA BatchesStep == BatchesInv /\ [ClientNext]_allVars => BatchesInv'
<1> SUFFICES ASSUME BatchesInv, [ClientNext]_allVars PROVE BatchesInv'
  BY Zenon
<1>1. ASSUME UNCHANGED <<queue, outcome, cq, started, lost, delivered>> PROVE BatchesInv'
  BY <1>1, Zenon DEF BatchesInv, Pushed
<1>2. CASE UNCHANGED allVars
  BY <1>1, <1>2, Zenon DEF allVars, clientVars
<1>3. ASSUME NEW c \in Calls, ApplicationStep(c) \/ CallContinues(c) PROVE BatchesInv'
  BY <1>1, <1>3, Zenon DEF ApplicationStep, CallContinues, clientVars
<1>4. ASSUME NEW c \in Calls, NEW e \in Events, StartBatch(c, e) PROVE BatchesInv'
  BY <1>4, StartBatchStep, Zenon
<1>5. ASSUME NEW c \in Checks, CheckStarts(c) \/ CheckStep(c) PROVE BatchesInv'
  BY <1>1, <1>5, Zenon DEF CheckStarts, CheckStep, CheckCalls, CheckDestroysCall, CheckReturns, clientVars
<1>6. CASE Ask
  <2>1. UNCHANGED <<queue, cq, started, lost, delivered>> /\ cq = "held" /\ Pushed' = Pushed
    BY <1>6, Zenon DEF Ask, Q!Call, Pushed
  <2>2. DOMAIN outcome' = {Reader} /\ outcome' = [r \in {Reader} |-> outcome'[r]]
    BY <1>6, Zenon DEF Ask, Q!Call, BatchesInv
  <2> QED BY <2>1, <2>2, Zenon DEF BatchesInv
<1>7. CASE Answer
  BY <1>7, AnswerStep, Zenon
<1>8. CASE ShutdownQueue
  BY <1>1, <1>8, Zenon DEF ShutdownQueue, Q!Close
<1>9. CASE DestroyQueue
  <2>1. UNCHANGED <<outcome, started, lost, delivered>> /\ cq' = "freed" /\ queue' = <<>>
        /\ outcome[Reader] # "pending" /\ Pushed' = Pushed /\ <<>> \in Seq(Events)
    BY <1>9 DEF DestroyQueue, Q!Drop, Pushed
  <2> QED BY <2>1, Zenon DEF BatchesInv
<1>10. CASE CloseChannel \/ CloseContinues
  BY <1>1, <1>10, Zenon DEF CloseChannel, CloseContinues, clientVars
<1> QED BY <1>2, <1>3, <1>4, <1>5, <1>6, <1>7, <1>8, <1>9, <1>10, Zenon DEF ClientNext

\* Every batch that grpc_call_start_batch accepted has its event in exactly one
\* place, and events come out in the order of their batches, for any number of
\* calls, batches and health checks.
THEOREM BatchesCorrect == ClientSpec => []BatchesAccounted
<1>1. BatchesInv => BatchesAccounted
  <2> SUFFICES ASSUME BatchesInv PROVE BatchesAccounted
    BY Zenon
  <2>1. PICK rest \in Seq(Events) : delivered \o rest = Pushed
    BY Zenon DEF BatchesInv
  <2>2. Pushed \in Seq(Events) /\ delivered \in Seq(Events)
    BY FilterElements, Zenon DEF BatchesInv, Pushed
  <2>3. Len(Pushed) = Len(delivered) + Len(rest) /\ \A k \in 1 .. Len(delivered) : Pushed[k] = delivered[k]
    BY <2>1, <2>2, JoinFacts
  <2>4. Len(delivered) <= Len(Pushed) /\ delivered = SubSeq(Pushed, 1, Len(delivered))
    <3> HIDE DEF Pushed
    <3>1. Len(delivered) \in Nat /\ Len(rest) \in Nat /\ Len(delivered) <= Len(Pushed)
      BY <2>2, <2>3
    <3> DEFINE p == SubSeq(Pushed, 1, Len(delivered))
    <3>2. p \in Seq(Events) /\ Len(p) = Len(delivered) /\ \A k \in 1 .. Len(delivered) : p[k] = Pushed[k]
      BY <2>2, <3>1
    <3> HIDE DEF p
    <3>3. delivered = p
      BY <2>2, <2>3, <3>2, SameSeq, Zenon
    <3> QED BY <3>1, <3>3, Zenon DEF p
  <2> QED BY <2>4, Zenon DEF BatchesInv, BatchesAccounted, Pushed
<1> QED BY <1>1, BatchesStart, BatchesStep, PTL DEF ClientSpec

-----------------------------------------------------------------------------
Backends == [address : Addresses, weight : 1 .. IntMax, available : BOOLEAN]

\* The least element of a set of numbers is one of them.
LEMMA LeastIs ==
    ASSUME NEW T \in SUBSET Nat, T # {}
    PROVE  Least(T) \in T /\ \A j \in T : Least(T) <= j
BY LeastNumber, Zenon DEF Least

\* The weight that backend k of a list adds.
Share(l, k) == IF l[k].available THEN l[k].weight ELSE 0

\* An available backend has a share of the random numbers.
LEMMA ShareIsNat ==
    ASSUME NEW l \in Seq(Backends), NEW k \in 1 .. Len(l)
    PROVE  /\ Share(l, k) \in Nat /\ Share(l, k) <= IntMax
           /\ l[k].available => Share(l, k) >= 1
<1>1. l[k] \in Backends
  OBVIOUS
<1>2. l[k].weight \in 1 .. IntMax
  BY <1>1, Zenon DEF Backends
<1>3. IntMax \in Nat
  BY LoadBalancerAssumption, Zenon
<1> QED BY <1>2, <1>3 DEF Share

\* What the recursion of WeightUpTo computes, in ints.
LEMMA WeightInInts ==
    ASSUME NEW l \in Seq(Backends)
    PROVE  /\ WeightUpTo(l) \in [0 .. Len(l) -> Int]
           /\ WeightUpTo(l)[0] = 0
           /\ \A k \in 0 .. Len(l) : WeightUpTo(l)[k] <= IntMax
           /\ \A k \in 1 .. Len(l) : WeightUpTo(l)[k] = Wrap(WeightUpTo(l)[k - 1] + Share(l, k))
<1> DEFINE n == Len(l)
           D == {x \in Int : x <= IntMax}
           step == [p \in D \X (1 .. n) |-> Wrap(p[1] + Share(l, p[2]))]
           Body(f) == [k \in 0 .. Len(l) |->
                         IF k = 0 THEN 0
                         ELSE Wrap(f[k - 1] + (IF l[k].available THEN l[k].weight ELSE 0))]
           sum == CHOOSE f : f = Body(f)
<1>0. IntMax \in Nat
  BY LoadBalancerAssumption, Zenon
<1>1. n \in Nat /\ 0 \in D
  BY <1>0
<1>a. ASSUME NEW x \in D, NEW k \in 1 .. n PROVE Wrap(x + Share(l, k)) \in D
  <2>1. Share(l, k) \in Nat /\ Share(l, k) <= IntMax
    BY ShareIsNat, Zenon
  <2> QED BY <1>0, <2>1 DEF Wrap
<1> HIDE DEF D
<1>2. step \in [D \X (1 .. n) -> D]
  <2> HIDE DEF n
  <2>1. \A p \in D \X (1 .. n) : p[1] \in D /\ p[2] \in 1 .. n
    BY Zenon
  <2>2. \A p \in D \X (1 .. n) : Wrap(p[1] + Share(l, p[2])) \in D
    BY <1>a, <2>1, Zenon
  <2> QED BY <2>2, Zenon
<1>3. PICK g \in [0 .. n -> D] : Computes(g, n, 0, step)
  <2> HIDE DEF step, n
  <2> QED BY <1>1, <1>2, RecursionExists, Zenon
<1>4. ASSUME NEW i \in 1 .. n PROVE g[i] = Wrap(g[i - 1] + Share(l, i))
  <2>1. i - 1 \in 0 .. n
    OBVIOUS
  <2>2. <<g[i - 1], i>> \in D \X (1 .. n)
    BY <2>1, Zenon
  <2>3. step[<<g[i - 1], i>>] = Wrap(g[i - 1] + Share(l, i))
    <3> HIDE DEF n
    <3> QED BY <2>2, Zenon
  <2> QED BY <1>3, <2>3, Zenon DEF Computes
<1> HIDE DEF step
<1>5. g = Body(g)
  <2>1. \A i \in 0 .. n : i = 0 \/ i \in 1 .. n
    OBVIOUS
  <2>2. \A i \in 0 .. n : g[i] = Body(g)[i]
    BY <1>3, <1>4, <2>1, Zenon DEF Computes, Share
  <2> QED BY <2>2, Zenon
<1>6. sum = Body(sum)
  <2> HIDE DEF Body
  <2> QED BY <1>5, Zenon
<1>7. WeightUpTo(l) = sum
  BY Zenon DEF WeightUpTo
<1> HIDE DEF sum
<1>8. sum[0] = 0 /\ \A i \in 1 .. n : sum[i] = Wrap(sum[i - 1] + Share(l, i))
  <2>1. \A i \in 0 .. n : sum[i] = Body(sum)[i]
    BY <1>6, Zenon
  <2>2. \A i \in 1 .. n : i \in 0 .. n /\ i # 0
    OBVIOUS
  <2>3. 0 \in 0 .. n
    OBVIOUS
  <2> QED BY <2>1, <2>2, <2>3, Zenon DEF Share
<1>9. \A k \in 0 .. n : k \in {i \in 0 .. n : sum[i] \in D}
  <2> DEFINE E == {i \in 0 .. n : sum[i] \in D}
  <2>1. 0 \in E
    BY <1>1, <1>8
  <2>2. ASSUME NEW k \in 0 .. n - 1, k \in E PROVE k + 1 \in E
    <3>1. k + 1 \in 1 .. n /\ k + 1 \in 0 .. n /\ (k + 1) - 1 = k
      OBVIOUS
    <3>2. sum[k + 1] = Wrap(sum[k] + Share(l, k + 1))
      BY <1>8, <3>1, Zenon
    <3> QED BY <1>a, <2>2, <3>1, <3>2, Zenon
  <2>3. \A k \in 0 .. n - 1 : k \in E => k + 1 \in E
    BY <2>2, Zenon
  <2> HIDE DEF E, n
  <2> QED BY <1>1, <2>1, <2>3, InductionUpTo, Zenon DEF E
<1>10. sum \in [0 .. n -> D]
  BY <1>6, <1>9, Zenon
<1>11. sum \in [0 .. n -> Int] /\ \A k \in 0 .. n : sum[k] <= IntMax
  BY <1>10, Zenon DEF D
<1> QED BY <1>7, <1>8, <1>11, Zenon

\* Where nothing overflows the ints are the sums: one that wraps is negative.
LEMMA WeightUpToIs ==
    ASSUME NEW l \in Seq(Backends), NoOverflow(l)
    PROVE  /\ WeightUpTo(l) \in [0 .. Len(l) -> Nat]
           /\ WeightUpTo(l)[0] = 0
           /\ \A k \in 1 .. Len(l) : WeightUpTo(l)[k] = WeightUpTo(l)[k - 1] + Share(l, k)
<1> DEFINE n == Len(l)
           s == WeightUpTo(l)
<1>0. IntMax \in Nat
  BY LoadBalancerAssumption, Zenon
<1>1. /\ s \in [0 .. n -> Int] /\ s[0] = 0 /\ \A k \in 0 .. n : s[k] <= IntMax
      /\ \A k \in 1 .. n : s[k] = Wrap(s[k - 1] + Share(l, k))
  BY WeightInInts, Zenon
<1>2. \A k \in 0 .. n : s[k] >= 0
  BY Zenon DEF NoOverflow
<1>3. \A k \in 1 .. n : Share(l, k) \in Nat /\ Share(l, k) <= IntMax
  BY ShareIsNat, Zenon
<1> HIDE DEF s
<1>4. s \in [0 .. n -> Nat]
  BY <1>1, <1>2
<1>5. ASSUME NEW k \in 1 .. n PROVE s[k] = s[k - 1] + Share(l, k)
  <2> DEFINE a == s[k - 1]
             b == Share(l, k)
  <2>1. k - 1 \in 0 .. n /\ k \in 0 .. n
    OBVIOUS
  <2>2. a \in Nat /\ a <= IntMax /\ b \in Nat /\ b <= IntMax /\ s[k] >= 0 /\ s[k] = Wrap(a + b)
    BY <1>1, <1>2, <1>3, <1>4, <2>1, Zenon
  <2> HIDE DEF a, b
  <2>3. Wrap(a + b) = a + b
    BY <1>0, <2>2 DEF Wrap
  <2> QED BY <2>2, <2>3, Zenon DEF a, b
<1> QED BY <1>1, <1>4, <1>5, Zenon DEF s

\* The sums never fall.
LEMMA WeightRises ==
    ASSUME NEW l \in Seq(Backends), NoOverflow(l), NEW i \in 0 .. Len(l), NEW j \in i .. Len(l)
    PROVE  WeightUpTo(l)[i] <= WeightUpTo(l)[j]
<1> DEFINE n == Len(l)
           s == WeightUpTo(l)
           m == n - i
           E == {k \in 0 .. m : s[i] <= s[i + k]}
<1>1. n \in Nat /\ m \in Nat
  OBVIOUS
<1>2. s \in [0 .. n -> Nat] /\ \A k \in 1 .. n : s[k] = s[k - 1] + Share(l, k)
  BY WeightUpToIs, Zenon
<1> HIDE DEF s
<1>3. 0 \in E
  BY <1>1, <1>2
<1>4. ASSUME NEW k \in 0 .. m - 1, k \in E PROVE k + 1 \in E
  <2>1. i + (k + 1) \in 1 .. n /\ i + (k + 1) - 1 = i + k /\ i + k \in 0 .. n
    OBVIOUS
  <2>2. s[i + (k + 1)] = s[i + k] + Share(l, i + (k + 1))
    BY <1>2, <2>1
  <2>3. Share(l, i + (k + 1)) \in Nat
    BY <2>1, ShareIsNat, Zenon
  <2>4. s[i] \in Nat /\ s[i + k] \in Nat
    BY <1>2, <2>1, Zenon
  <2> QED BY <1>4, <2>2, <2>3, <2>4
<1>5. \A k \in 0 .. m : k \in E
  <2>1. \A k \in 0 .. m - 1 : k \in E => k + 1 \in E
    BY <1>4, Zenon
  <2> HIDE DEF E, m
  <2> QED BY <1>1, <1>3, <2>1, InductionUpTo, Zenon
<1>6. j - i \in 0 .. m /\ i + (j - i) = j
  OBVIOUS
<1> QED BY <1>5, <1>6, Zenon DEF s

\* The backend that a random number below the total weight hits is the one in
\* whose share of the sums the number lies.
LEMMA WeightedHit ==
    ASSUME NEW l \in Seq(Backends), NoOverflow(l), NEW r \in Nat, r < TotalWeight(l)
    PROVE  /\ WeightedPick(l, r) \in Available(l)
           /\ WeightUpTo(l)[WeightedPick(l, r) - 1] <= r
           /\ r < WeightUpTo(l)[WeightedPick(l, r)]
<1> DEFINE n == Len(l)
           s == WeightUpTo(l)
           over == {k \in 0 .. n : s[k] > r}
           hit == {k \in Available(l) : s[k] > r}
<1>1. n \in Nat
  OBVIOUS
<1>2. s \in [0 .. n -> Nat] /\ s[0] = 0 /\ \A k \in 1 .. n : s[k] = s[k - 1] + Share(l, k)
  BY WeightUpToIs, Zenon
<1>3. s[n] > r
  BY <1>1, <1>2, Zenon DEF TotalWeight
<1>4. WeightedPick(l, r) = IF hit = {} THEN 0 ELSE Least(hit)
  BY Zenon DEF WeightedPick
<1> HIDE DEF s
<1>5. n \in over
  BY <1>1, <1>3
<1>6. PICK k \in over : \A j \in over : k <= j
  <2>1. over \in SUBSET Nat /\ over # {}
    BY <1>5
  <2> HIDE DEF over
  <2> QED BY <2>1, LeastNumber, Zenon
<1>7. k \in 1 .. n /\ k - 1 \in 0 .. n
  BY <1>2, <1>6
<1>8. ~(s[k - 1] > r)
  <2>1. k - 1 \notin over
    BY <1>6, <1>7
  <2> QED BY <1>7, <2>1, Zenon
<1>9. s[k] > r /\ s[k - 1] \in Nat /\ s[k] \in Nat
  BY <1>2, <1>6, <1>7, Zenon
<1>10. s[k] = s[k - 1] + Share(l, k)
  BY <1>2, <1>7, Zenon
<1>11. l[k].available
  BY <1>8, <1>9, <1>10 DEF Share
<1>12. k \in hit
  BY <1>7, <1>9, <1>11, Zenon DEF Available
<1>13. \A j \in hit : k <= j
  BY <1>6 DEF Available
<1>14. hit \in SUBSET Nat
  BY DEF Available
<1>15. Least(hit) \in hit /\ \A j \in hit : Least(hit) <= j
  <2> HIDE DEF hit
  <2> QED BY <1>12, <1>14, LeastIs, Zenon
<1>16. Least(hit) = k
  BY <1>7, <1>12, <1>13, <1>14, <1>15
<1>17. WeightedPick(l, r) = k
  BY <1>4, <1>12, <1>16, Zenon
<1>18. s[k - 1] <= r /\ r < s[k] /\ k \in Available(l)
  BY <1>8, <1>9, <1>12
<1> QED BY <1>17, <1>18, Zenon DEF s

\* With no weight in all there is no available backend.
LEMMA NoWeight ==
    ASSUME NEW l \in Seq(Backends), NoOverflow(l)
    PROVE  TotalWeight(l) \in Nat /\ (TotalWeight(l) = 0 => Available(l) = {})
<1> DEFINE n == Len(l)
           s == WeightUpTo(l)
<1>1. n \in Nat /\ s \in [0 .. n -> Nat] /\ \A k \in 1 .. n : s[k] = s[k - 1] + Share(l, k)
  BY WeightUpToIs
<1>2. TotalWeight(l) = s[n]
  BY Zenon DEF TotalWeight
<1>3. ASSUME NEW k \in Available(l), s[n] = 0 PROVE FALSE
  <2>1. k \in 1 .. n /\ k - 1 \in 0 .. n /\ k \in 0 .. n /\ n \in k .. n
    BY <1>1 DEF Available
  <2>2. s[k] <= s[n]
    BY <2>1, WeightRises, Zenon
  <2>3. Share(l, k) >= 1 /\ Share(l, k) \in Nat
    BY <2>1, ShareIsNat, Zenon DEF Available
  <2>4. s[k] = s[k - 1] + Share(l, k) /\ s[k] \in Nat /\ s[k - 1] \in Nat
    BY <1>1, <2>1, Zenon
  <2> HIDE DEF s
  <2> QED BY <1>3, <2>2, <2>3, <2>4
<1> HIDE DEF s
<1> QED BY <1>1, <1>2, <1>3

\* The numbers that pick a backend are as many as its weight.
LEMMA SharesAreWeights ==
    ASSUME NEW l \in Seq(Backends), NoOverflow(l), NEW i \in 1 .. Len(l)
    PROVE  Cardinality({r \in Randoms(l) : WeightedPick(l, r) = i})
             = IF l[i].available THEN l[i].weight ELSE 0
<1> DEFINE n == Len(l)
           s == WeightUpTo(l)
           T == {r \in Randoms(l) : WeightedPick(l, r) = i}
<1>1. n \in Nat /\ s \in [0 .. n -> Nat] /\ \A k \in 1 .. n : s[k] = s[k - 1] + Share(l, k)
  BY WeightUpToIs
<1>2. TotalWeight(l) = s[n]
  BY Zenon DEF TotalWeight
<1>3. i - 1 \in 0 .. n /\ i \in 0 .. n /\ n \in 0 .. n
  BY <1>1
<1>4. s[i] \in Nat /\ s[i - 1] \in Nat /\ s[n] \in Nat /\ s[i] = s[i - 1] + Share(l, i)
  BY <1>1, <1>3, Zenon
<1>a. Randoms(l) = 0 .. s[n] - 1
  BY <1>2, <1>4 DEF Randoms
<1>5. \A r \in 0 .. s[n] - 1 : r \in Nat /\ r < TotalWeight(l)
  BY <1>2, <1>4
<1>6. \A r \in 0 .. s[n] - 1 :
        /\ WeightedPick(l, r) \in Available(l)
        /\ s[WeightedPick(l, r) - 1] <= r
        /\ r < s[WeightedPick(l, r)]
  BY <1>5, WeightedHit, Zenon
<1>7. CASE ~ l[i].available
  <2>1. i \notin Available(l)
    BY <1>7, Zenon DEF Available
  <2>2. T = {}
    BY <1>a, <1>6, <2>1, Zenon
  <2> HIDE DEF T
  <2> QED BY <1>7, <2>2, FS_EmptySet, Zenon DEF T
<1>8. CASE l[i].available
  <2>1. s[i] <= s[n]
    <3>1. n \in i .. n
      BY <1>1, <1>3
    <3> QED BY <1>3, <3>1, WeightRises, Zenon
  <2>2. ASSUME NEW r \in 0 .. s[n] - 1, WeightedPick(l, r) = i PROVE r \in s[i - 1] .. s[i] - 1
    <3>1. s[i - 1] <= r /\ r < s[i]
      BY <1>6, <2>2, Zenon
    <3> HIDE DEF s
    <3> QED BY <1>4, <3>1
  <2>3. ASSUME NEW r \in s[i - 1] .. s[i] - 1
        PROVE  r \in 0 .. s[n] - 1 /\ WeightedPick(l, r) = i
    <3> DEFINE k == WeightedPick(l, r)
    <3>0. r \in Int /\ s[i - 1] <= r /\ r < s[i]
      <4> HIDE DEF s
      <4> QED BY <1>4, <2>3
    <3>1. r \in 0 .. s[n] - 1
      <4> HIDE DEF s
      <4> QED BY <1>4, <2>1, <3>0
    <3>2. k \in Available(l) /\ s[k - 1] <= r /\ r < s[k]
      BY <1>6, <3>1, Zenon
    <3>3. k \in 1 .. n /\ k \in 0 .. n /\ k - 1 \in 0 .. n /\ s[k] \in Nat /\ s[k - 1] \in Nat
      <4>1. k \in 1 .. n
        BY <3>2, Zenon DEF Available
      <4> HIDE DEF k, s
      <4>2. k \in 0 .. n /\ k - 1 \in 0 .. n
        BY ONLY <1>1, <4>1
      <4> QED BY <1>1, <4>1, <4>2, Zenon
    <3> HIDE DEF k
    <3>4. CASE k < i
      <4>1. i - 1 \in k .. n
        BY <1>3, <3>3, <3>4
      <4>2. s[k] <= s[i - 1]
        BY <3>3, <4>1, WeightRises, Zenon
      <4> HIDE DEF s
      <4> QED BY <1>4, <3>0, <3>2, <3>3, <4>2
    <3>5. CASE i < k
      <4>1. k - 1 \in i .. n
        BY <1>3, <3>3, <3>5
      <4>2. s[i] <= s[k - 1]
        BY <1>3, <4>1, WeightRises, Zenon
      <4> HIDE DEF s
      <4> QED BY <1>4, <3>0, <3>2, <3>3, <4>2
    <3> QED BY <3>1, <3>3, <3>4, <3>5 DEF k
  <2>4. T = s[i - 1] .. s[i] - 1
    <3> HIDE DEF s
    <3> QED BY <1>a, <2>2, <2>3, Zenon
  <2>5. Cardinality(s[i - 1] .. s[i] - 1) = Share(l, i)
    <3>1. Share(l, i) \in Nat /\ Share(l, i) >= 1
      BY <1>8, ShareIsNat, Zenon
    <3>2. s[i] - 1 \in Int /\ s[i - 1] \in Int /\ ~(s[i - 1] > s[i] - 1)
          /\ (s[i] - 1) - s[i - 1] + 1 = Share(l, i)
      <4> HIDE DEF s
      <4> QED BY <1>4, <3>1
    <3> DEFINE a == s[i - 1]
               b == s[i] - 1
    <3> HIDE DEF a, b
    <3>3. a \in Int /\ b \in Int /\ ~(a > b) /\ b - a + 1 = Share(l, i)
      BY <3>2, Zenon DEF a, b
    <3>4. Cardinality(a .. b) = Share(l, i)
      BY <3>3, FS_Interval, Zenon
    <3> QED BY <3>4, Zenon DEF a, b
  <2> HIDE DEF T
  <2>6. Cardinality(T) = Share(l, i)
    BY <2>4, <2>5, Zenon
  <2> QED BY <1>8, <2>6, Zenon DEF T, Share
<1> QED BY <1>7, <1>8, Zenon

\* Two numbers less than m apart have different remainders.
LEMMA RemaindersDiffer ==
    ASSUME NEW m \in Nat \ {0}, NEW x \in Int, NEW d \in 1 .. m - 1
    PROVE  x % m # (x + d) % m
<1> DEFINE a == x \div m
           r == x % m
           b == (x + d) \div m
           t == (x + d) % m
<1>1. a \in Int /\ r \in 0 .. m - 1 /\ x = a * m + r
  BY Remainder, Zenon
<1>2. b \in Int /\ t \in 0 .. m - 1 /\ x + d = b * m + t
  <2>1. x + d \in Int
    OBVIOUS
  <2> QED BY <2>1, Remainder, Zenon
<1> HIDE DEF a, r, b, t
<1>3. SUFFICES ASSUME r = t PROVE FALSE
  BY Zenon DEF r, t
<1> DEFINE c == b - a
<1>4. c \in Int /\ d = c * m
  BY <1>1, <1>2, <1>3
<1> HIDE DEF c
<1>5. c <= 0 \/ c >= 1
  BY <1>4
<1>6. CASE c >= 1
  <2>1. c * m >= m
    BY <1>4, <1>6
  <2> QED BY <1>4, <2>1
<1>7. CASE c <= 0
  <2>1. c * m <= 0
    BY <1>4, <1>7
  <2> QED BY <1>4, <2>1
<1> QED BY <1>5, <1>6, <1>7, Zenon

\* A number below m is its own remainder.
LEMMA RemainderSmall ==
    ASSUME NEW m \in Nat \ {0}, NEW r \in 0 .. m - 1
    PROVE  r % m = r
<1>1. (0 * m + r) % m = r
  BY RemainderUnique
<1>2. 0 * m + r = r
  OBVIOUS
<1> QED BY <1>1, <1>2, Zenon

\* Wherever it starts, going round the list once finds an available backend if
\* there is one ...
LEMMA RoundRobinFinds ==
    ASSUME NEW l \in Seq(Backends), l # <<>>, NEW start \in 0 .. Len(l) - 1
    PROVE  IF Available(l) = {} THEN RoundRobinPick(l, start) = 0
           ELSE RoundRobinPick(l, start) \in Available(l)
<1> DEFINE n == Len(l)
           At(k) == ((start + k) % n) + 1
           found == {k \in 0 .. n - 1 : l[At(k)].available}
<1>1. n \in Nat \ {0}
  OBVIOUS
<1>2. RoundRobinPick(l, start) = IF found = {} THEN 0 ELSE At(Least(found))
  BY Zenon DEF RoundRobinPick
<1>3. ASSUME NEW k \in 0 .. n - 1 PROVE At(k) \in 1 .. n
  <2>1. start + k \in Int
    OBVIOUS
  <2>2. (start + k) % n \in 0 .. n - 1
    <3> HIDE DEF n
    <3> QED BY <1>1, <2>1, Remainder, Zenon
  <2> HIDE DEF n
  <2> QED BY <1>1, <2>2
<1>4. ASSUME NEW i \in 1 .. n PROVE \E k \in 0 .. n - 1 : At(k) = i
  <2>1. CASE i - 1 >= start
    <3> DEFINE k == i - 1 - start
    <3>1. k \in 0 .. n - 1 /\ start + k = i - 1 /\ i - 1 \in 0 .. n - 1
      BY <2>1
    <3>2. (i - 1) % n = i - 1
      <4> HIDE DEF n
      <4> QED BY <1>1, <3>1, RemainderSmall, Zenon
    <3>3. At(k) = i
      BY <3>1, <3>2
    <3> HIDE DEF At
    <3> QED BY <3>1, <3>3, Zenon
  <2>2. CASE i - 1 < start
    <3> DEFINE k == i - 1 - start + n
    <3>1. k \in 0 .. n - 1 /\ start + k = 1 * n + (i - 1) /\ i - 1 \in 0 .. n - 1
      BY <2>2
    <3>2. (1 * n + (i - 1)) % n = i - 1
      <4> DEFINE q == i - 1
      <4>1. q \in 0 .. n - 1 /\ 1 \in Int
        BY <3>1
      <4> HIDE DEF n, q
      <4>2. (1 * n + q) % n = q
        BY <1>1, <4>1, RemainderUnique, Zenon
      <4> QED BY <4>2, Zenon DEF q
    <3>3. At(k) = i
      <4>1. At(k) = ((1 * n + (i - 1)) % n) + 1
        BY <3>1, Zenon
      <4> QED BY <3>2, <4>1
    <3> HIDE DEF At
    <3> QED BY <3>1, <3>3, Zenon
  <2> QED BY <2>1, <2>2
<1> HIDE DEF At
<1>5. CASE Available(l) = {}
  <2>1. found = {}
    BY <1>3, <1>5, Zenon DEF Available
  <2> QED BY <1>2, <1>5, <2>1, Zenon
<1>6. CASE Available(l) # {}
  <2>1. PICK i \in 1 .. n : l[i].available
    BY <1>6, Zenon DEF Available
  <2>2. found # {}
    BY <1>4, <2>1, Zenon
  <2>3. found \in SUBSET Nat
    OBVIOUS
  <2>4. Least(found) \in found
    <3> HIDE DEF found
    <3> QED BY <2>2, <2>3, LeastIs, Zenon
  <2>5. At(Least(found)) \in Available(l)
    BY <1>3, <2>4, Zenon DEF Available
  <2> QED BY <1>2, <1>6, <2>2, <2>5, Zenon
<1> QED BY <1>5, <1>6, Zenon

\* ... and finds the one at the index if that is available.
LEMMA RoundRobinTakes ==
    ASSUME NEW l \in Seq(Backends), l # <<>>, NEW start \in 0 .. Len(l) - 1,
           start + 1 \in Available(l)
    PROVE  RoundRobinPick(l, start) = start + 1
<1> DEFINE n == Len(l)
           At(k) == ((start + k) % n) + 1
           found == {k \in 0 .. n - 1 : l[At(k)].available}
<1>1. n \in Nat \ {0}
  OBVIOUS
<1>2. RoundRobinPick(l, start) = IF found = {} THEN 0 ELSE At(Least(found))
  BY Zenon DEF RoundRobinPick
<1>3. start % n = start
  <2>1. start \in 0 .. n - 1
    BY Zenon
  <2> HIDE DEF n
  <2> QED BY <1>1, <2>1, RemainderSmall, Zenon
<1>4. At(0) = start + 1
  BY <1>3
<1>6. 0 \in found
  <2>1. l[At(0)].available
    BY <1>4, Zenon DEF Available
  <2> QED BY <1>1, <2>1
<1>7. found \in SUBSET Nat
  OBVIOUS
<1>8. Least(found) = 0
  <2>1. Least(found) \in found /\ Least(found) <= 0
    <3> HIDE DEF found
    <3> QED BY <1>6, <1>7, LeastIs, Zenon
  <2> QED BY <2>1
<1> HIDE DEF At, found
<1> QED BY <1>2, <1>4, <1>6, <1>8, Zenon

\* A pick p of a policy of kind y from the list l: an available backend, or
\* none if there is none or if the weights overflow.
Served(l, y, p) ==
    \/ p \in Available(l)
    \/ p = 0 /\ (Available(l) = {} \/ (y = "WEIGHTED" /\ ~NoOverflow(l)))

\* Pick k of round robin looked from place b on, and as many steps as there
\* were since lead from there to the current index.
LookedFrom(k, b) ==
    /\ (b + (Len(picks) - k + 1)) % Len(list) = index
    /\ picks[k] = RoundRobinPick(list, b)

PolicyInv ==
    /\ policy \in Policies \cup {"destroyed"}
    /\ list \in Seq(Backends)
    /\ index \in Nat /\ (index = 0 \/ index < Len(list))
    /\ picks \in Seq(Nat)
    /\ list = <<>> => picks = <<>>
    /\ \A k \in 1 .. Len(picks) : Served(list, policy, picks[k])
    /\ policy = "ROUND_ROBIN" /\ Available(list) # {} =>
         \A k \in 1 .. Len(picks) : \E b \in 0 .. Len(list) - 1 : LookedFrom(k, b)

\* Available backends are places of the list.
LEMMA AvailableIsNat ==
    ASSUME NEW l \in Seq(Backends)
    PROVE  Available(l) \subseteq 1 .. Len(l) /\ Available(l) \subseteq Nat
BY DEF Available

\* Any policy serves the pick it remembers.
LEMMA PickServes ==
    ASSUME PolicyInv, Pick
    PROVE  \E p \in Nat : picks' = Append(picks, p) /\ Served(list, policy, p)
<1>1. list \in Seq(Backends) /\ list # <<>>
  BY Zenon DEF PolicyInv, Pick, RoundRobin, PickFirst, Weighted
<1>2. Available(list) \subseteq Nat
  BY <1>1, AvailableIsNat, Zenon
<1>a. ASSUME NEW p, Served(list, policy, p) PROVE p \in Nat
  BY <1>2, <1>a DEF Served
<1>3. CASE RoundRobin
  <2> DEFINE p == RoundRobinPick(list, index)
  <2>1. index \in 0 .. Len(list) - 1
    BY <1>1 DEF PolicyInv
  <2>2. Served(list, policy, p)
    BY <1>1, <2>1, RoundRobinFinds, Zenon DEF Served
  <2>3. picks' = Append(picks, p)
    BY <1>3, Zenon DEF RoundRobin, Remember
  <2> HIDE DEF p
  <2> QED BY <1>a, <2>2, <2>3, Zenon
<1>4. CASE PickFirst
  <2> DEFINE p == PickFirstPick(list)
  <2>1. Served(list, policy, p)
    BY <1>2, LeastIs, Zenon DEF Served, PickFirstPick
  <2>2. picks' = Append(picks, p)
    BY <1>4, Zenon DEF PickFirst, Remember
  <2> HIDE DEF p
  <2> QED BY <1>a, <2>1, <2>2
<1>5. CASE Weighted
  <2>0. policy = "WEIGHTED"
    BY <1>5, Zenon DEF Weighted
  <2>1. CASE TotalWeight(list) = 0 /\ Remember(0)
    <3>1. Served(list, policy, 0)
      BY <1>1, <2>0, <2>1, NoWeight, Zenon DEF Served
    <3>2. picks' = Append(picks, 0)
      BY <2>1, Zenon DEF Remember
    <3> QED BY <3>1, <3>2, Zenon
  <2>2. ASSUME NEW r \in Randoms(list), Remember(WeightedPick(list, r))
        PROVE  \E p \in Nat : picks' = Append(picks, p) /\ Served(list, policy, p)
    <3> DEFINE p == WeightedPick(list, r)
               hit == {i \in Available(list) : WeightUpTo(list)[i] > r}
    <3>1. picks' = Append(picks, p)
      BY <2>2, Zenon DEF Remember
    <3>2. CASE NoOverflow(list)
      <4>1. TotalWeight(list) \in Nat
        BY <1>1, <3>2, NoWeight, Zenon
      <4>2. r \in Nat /\ r < TotalWeight(list)
        BY <4>1 DEF Randoms
      <4>3. p \in Available(list)
        BY <1>1, <3>2, <4>2, WeightedHit, Zenon
      <4> QED BY <1>a, <3>1, <4>3, Zenon DEF Served
    <3>3. CASE ~NoOverflow(list)
      <4>1. p = IF hit = {} THEN 0 ELSE Least(hit)
        BY Zenon DEF WeightedPick
      <4>2. hit \in SUBSET Nat /\ hit \subseteq Available(list)
        BY <1>2, Zenon
      <4> HIDE DEF hit, p
      <4>3. hit # {} => Least(hit) \in hit
        BY <4>2, LeastIs, Zenon
      <4>4. Served(list, policy, p)
        BY <2>0, <3>3, <4>1, <4>2, <4>3, Zenon DEF Served
      <4> QED BY <1>a, <3>1, <4>4, Zenon
    <3> QED BY <3>2, <3>3, Zenon
  <2> QED BY <1>5, <2>1, <2>2, Zenon DEF Weighted
<1> QED BY <1>3, <1>4, <1>5, Zenon DEF Pick

\* A pick of any policy keeps the invariant.
LEMMA PickKeeps ==
    ASSUME PolicyInv, Pick
    PROVE  PolicyInv'
<1> DEFINE n == Len(list)
           L == Len(picks)
<1>1. PICK p \in Nat : picks' = Append(picks, p) /\ Served(list, policy, p)
  BY PickServes, Zenon
<1>2. list \in Seq(Backends) /\ list # <<>> /\ n \in Nat \ {0} /\ picks \in Seq(Nat) /\ L \in Nat
  BY DEF PolicyInv, Pick, RoundRobin, PickFirst, Weighted
<1>3. list' = list /\ policy' = policy
  BY Zenon DEF Pick, RoundRobin, PickFirst, Weighted
<1>4. picks' \in Seq(Nat) /\ Len(picks') = L + 1 /\ picks'[L + 1] = p
      /\ \A k \in 1 .. L : picks'[k] = picks[k]
  BY <1>1, <1>2
<1>5. index \in 0 .. n - 1
  BY <1>2 DEF PolicyInv
<1>6. index' = index \/ index' = (index + 1) % n
  BY Zenon DEF Pick, RoundRobin, PickFirst, Weighted, Advance
<1>7. index' \in 0 .. n - 1
  <2>1. (index + 1) % n \in 0 .. n - 1
    <3>1. index + 1 \in Int
      BY <1>5
    <3> HIDE DEF n
    <3> QED BY <1>2, <3>1, Remainder, Zenon
  <2> QED BY <1>5, <1>6, <2>1, Zenon
<1>8. \A k \in 1 .. Len(picks') : Served(list', policy', picks'[k])
  <2>1. \A k \in 1 .. L : Served(list, policy, picks[k])
    BY Zenon DEF PolicyInv
  <2>2. \A k \in 1 .. L + 1 : k \in 1 .. L \/ k = L + 1
    BY <1>2
  <2> QED BY <1>1, <1>3, <1>4, <2>1, <2>2, Zenon
<1>9. ASSUME policy = "ROUND_ROBIN", Available(list) # {}, NEW k \in 1 .. L + 1
      PROVE  \E b \in 0 .. n - 1 : /\ (b + (L + 1 - k + 1)) % n = index'
                                    /\ picks'[k] = RoundRobinPick(list, b)
  <2>1. RoundRobin
    BY <1>9, Zenon DEF Pick, PickFirst, Weighted
  <2>2. RoundRobinPick(list, index) # 0
    <3>1. RoundRobinPick(list, index) \in Available(list)
      BY <1>2, <1>5, <1>9, RoundRobinFinds, Zenon
    <3> QED BY <3>1 DEF Available
  <2>3. index' = (index + 1) % n
    BY <2>1, <2>2, Zenon DEF RoundRobin, Advance
  <2>4. picks' = Append(picks, RoundRobinPick(list, index))
    BY <2>1, Zenon DEF RoundRobin, Remember
  <2>5. CASE k = L + 1
    <3>1. picks'[k] = RoundRobinPick(list, index)
      BY <1>2, <2>4, <2>5
    <3>2. index + (L + 1 - k + 1) = index + 1
      BY <1>2, <1>5, <2>5
    <3> HIDE DEF n, L
    <3> QED BY <1>5, <2>3, <3>1, <3>2, Zenon
  <2>6. CASE k \in 1 .. L
    <3>1. PICK b \in 0 .. n - 1 : LookedFrom(k, b)
      BY <1>9, <2>6, Zenon DEF PolicyInv
    <3> DEFINE x == b + (L - k + 1)
    <3>2. x % n = index /\ picks[k] = RoundRobinPick(list, b)
      BY <3>1, Zenon DEF LookedFrom
    <3>3. x \in Int /\ b + (L + 1 - k + 1) = x + 1
      BY <1>2, <2>6, <3>1
    <3>4. ((x % n) + 1) % n = (x + 1) % n
      <4>1. 1 \in Int
        OBVIOUS
      <4> HIDE DEF x, n
      <4> QED BY <1>2, <3>3, <4>1, RemainderPlus, Zenon
    <3>5. picks'[k] = picks[k]
      BY <1>4, <2>6, Zenon
    <3> HIDE DEF x, n
    <3> QED BY <2>3, <3>1, <3>2, <3>3, <3>4, <3>5, Zenon
  <2> QED BY <1>2, <2>5, <2>6
<1>10. (policy = "ROUND_ROBIN" /\ Available(list) # {} =>
          \A k \in 1 .. Len(picks) : \E b \in 0 .. Len(list) - 1 : LookedFrom(k, b))'
  <2>1. SUFFICES ASSUME policy = "ROUND_ROBIN", Available(list) # {},
                        NEW k \in 1 .. Len(picks')
                 PROVE  \E b \in 0 .. Len(list') - 1 :
                          /\ (b + (Len(picks') - k + 1)) % Len(list') = index'
                          /\ picks'[k] = RoundRobinPick(list', b)
    BY <1>3, Zenon DEF LookedFrom
  <2>2. k \in 1 .. L + 1
    BY <1>4, <2>1, Zenon
  <2>3. PICK b \in 0 .. n - 1 : /\ (b + (L + 1 - k + 1)) % n = index'
                                /\ picks'[k] = RoundRobinPick(list, b)
    BY <1>9, <2>1, <2>2, Zenon
  <2>4. Len(list') = n /\ Len(picks') = L + 1 /\ list' = list
    BY <1>3, <1>4, Zenon
  <2> HIDE DEF n, L
  <2>5. (b + (Len(picks') - k + 1)) % Len(list') = index'
    <3>1. b + (Len(picks') - k + 1) = b + (L + 1 - k + 1)
      BY <1>2, <2>2, <2>3, <2>4
    <3> QED BY <2>3, <2>4, <3>1, Zenon
  <2>6. picks'[k] = RoundRobinPick(list', b)
    BY <2>3, <2>4, Zenon
  <2>7. b \in 0 .. Len(list') - 1
    BY <2>3, <2>4, Zenon
  <2> QED BY <2>5, <2>6, <2>7, Zenon
<1>11. index' \in Nat /\ index' < Len(list')
  BY <1>2, <1>3, <1>7
<1>12. policy' \in Policies \cup {"destroyed"} /\ list' \in Seq(Backends) /\ list' # <<>>
  BY <1>2, <1>3, Zenon DEF PolicyInv
<1> QED BY <1>4, <1>8, <1>10, <1>11, <1>12, Zenon DEF PolicyInv

\* So do adding and marking backends and destroying the policy.
LEMMA ChangeKeeps ==
    ASSUME PolicyInv,
           \/ \E a \in Addresses, w \in Weights : AddAddress(a, w)
           \/ \E a \in Addresses, b \in BOOLEAN : Mark(a, b)
           \/ DestroyPolicy
    PROVE  PolicyInv'
<1>1. ASSUME list' \in Seq(Backends), Len(list) <= Len(list'), picks' = <<>>,
             policy' = policy, index' = index
      PROVE  PolicyInv'
  <2>1. Len(list) \in Nat /\ Len(list') \in Nat
    BY <1>1 DEF PolicyInv
  <2>2. picks' \in Seq(Nat) /\ 1 .. Len(picks') = {}
    BY <1>1
  <2> QED BY <1>1, <2>1, <2>2 DEF PolicyInv
<1>2. ASSUME NEW a \in Addresses, NEW w \in Weights, AddAddress(a, w) PROVE PolicyInv'
  <2>1. Backend(a, w) \in Backends
    <3>1. w \in Int
      BY LoadBalancerAssumption
    <3>2. (IF w > 0 THEN w ELSE 1) \in 1 .. IntMax
      BY <3>1, LoadBalancerAssumption
    <3> QED BY <3>2, Zenon DEF Backend, Backends
  <2>2. list' = Append(list, Backend(a, w)) /\ list \in Seq(Backends)
    BY <1>2, Zenon DEF AddAddress, PolicyInv
  <2>3. list' \in Seq(Backends) /\ Len(list) <= Len(list')
    BY <2>1, <2>2
  <2> QED BY <1>1, <1>2, <2>3, Zenon DEF AddAddress
<1>3. ASSUME NEW a \in Addresses, NEW b \in BOOLEAN, Mark(a, b) PROVE PolicyInv'
  <2> DEFINE found == {i \in 1 .. Len(list) : list[i].address = a}
             m == Least(found)
  <2>1. found # {} /\ list' = [list EXCEPT ![m].available = b]
    BY <1>3, Zenon DEF Mark
  <2>2. list \in Seq(Backends) /\ found \in SUBSET Nat
    BY DEF PolicyInv
  <2>3. m \in 1 .. Len(list)
    <3>1. m \in found
      <4> HIDE DEF found
      <4> QED BY <2>1, <2>2, LeastIs, Zenon
    <3> QED BY <3>1, Zenon
  <2> HIDE DEF m
  <2>4. [list[m] EXCEPT !.available = b] \in Backends
    <3>1. list[m] \in Backends
      BY <2>2, <2>3
    <3> QED BY <3>1, Zenon DEF Backends
  <2>5. list' \in Seq(Backends) /\ Len(list') = Len(list)
    <3> DEFINE e == [list[m] EXCEPT !.available = b]
    <3>1. list' = [list EXCEPT ![m] = e]
      BY <2>1, Zenon
    <3> HIDE DEF e
    <3>2. e \in Backends
      BY <2>4, Zenon DEF e
    <3> QED BY <2>2, <2>3, <3>1, <3>2
  <2>6. Len(list) <= Len(list')
    BY <2>2, <2>5
  <2> QED BY <1>1, <1>3, <2>5, <2>6, Zenon DEF Mark
<1>4. ASSUME DestroyPolicy PROVE PolicyInv'
  <2>1. list' = <<>> /\ picks' = <<>> /\ index' = 0 /\ policy' = "destroyed"
    BY <1>4, Zenon DEF DestroyPolicy
  <2>2. <<>> \in Seq(Backends) /\ <<>> \in Seq(Nat) /\ 1 .. Len(<<>>) = {}
    OBVIOUS
  <2> QED BY <2>1, <2>2, Zenon DEF PolicyInv
<1> QED BY <1>2, <1>3, <1>4, Zenon

\* A new policy.
LEMMA PolicyStart == PolicyInit => PolicyInv
<1>1. <<>> \in Seq(Backends) /\ <<>> \in Seq(Nat) /\ 1 .. Len(<<>>) = {}
  OBVIOUS
<1> QED BY <1>1 DEF PolicyInit, PolicyInv

\* Every step of the policy keeps its invariant.
LEMMA PolicyStep == PolicyInv /\ [PolicyNext]_policyVars => PolicyInv'
<1> SUFFICES ASSUME PolicyInv, [PolicyNext]_policyVars PROVE PolicyInv'
  OBVIOUS
<1>1. CASE UNCHANGED policyVars
  BY <1>1, Zenon DEF policyVars, PolicyInv, LookedFrom
<1>2. CASE PolicyNext
  BY <1>2, ChangeKeeps, PickKeeps, Zenon DEF PolicyNext
<1> QED BY <1>1, <1>2, Zenon

\* Two places from which the same number of steps leads to the same index are
\* one place.
LEMMA SamePlace ==
    ASSUME NEW m \in Nat \ {0}, NEW a \in 0 .. m - 1, NEW b \in 0 .. m - 1, NEW e \in Int,
           (a + e) % m = (b + e) % m
    PROVE  a = b
<1>1. CASE a < b
  <2> DEFINE x == a + e
             d == b - a
  <2>1. x \in Int /\ d \in 1 .. m - 1 /\ b + e = x + d
    BY <1>1
  <2> HIDE DEF x, d
  <2>2. x % m # (x + d) % m
    BY <2>1, RemaindersDiffer, Zenon
  <2> QED BY <2>1, <2>2, Zenon DEF x
<1>2. CASE b < a
  <2> DEFINE x == b + e
             d == a - b
  <2>1. x \in Int /\ d \in 1 .. m - 1 /\ a + e = x + d
    BY <1>2
  <2> HIDE DEF x, d
  <2>2. x % m # (x + d) % m
    BY <2>1, RemaindersDiffer, Zenon
  <2> QED BY <2>1, <2>2, Zenon DEF x
<1> QED BY <1>1, <1>2

\* As many picks as there are backends look from every place of the list.
LEMMA EveryPlace ==
    ASSUME PolicyInv, policy = "ROUND_ROBIN", NEW i \in Available(list),
           NEW j \in 1 .. Len(picks), j + Len(list) - 1 <= Len(picks)
    PROVE  \E k \in j .. j + Len(list) - 1 : picks[k] = i
<1> DEFINE n == Len(list)
           L == Len(picks)
           g == (i - 1) + (L - (j + n - 1) + 1)
           y == index - g
           c == y % n
           k == j + n - 1 - c
           e == L - k + 1
<1>1. list \in Seq(Backends) /\ i \in 1 .. n /\ n \in Nat \ {0} /\ L \in Nat /\ list # <<>>
  BY DEF PolicyInv, Available
<1>2. index \in 0 .. n - 1
  BY <1>1 DEF PolicyInv
<1>3. g \in Int /\ y \in Int /\ y + g = index
  BY <1>1, <1>2
<1>4. c \in 0 .. n - 1
  <2> HIDE DEF n, y
  <2> QED BY <1>1, <1>3, Remainder, Zenon
<1>5. (c + g) % n = index
  <2>1. (c + g) % n = (y + g) % n
    <3> HIDE DEF n, y, g
    <3> QED BY <1>1, <1>3, RemainderPlus, Zenon
  <2>2. index % n = index
    <3> HIDE DEF n
    <3> QED BY <1>1, <1>2, RemainderSmall, Zenon
  <2> HIDE DEF c, g, y, n
  <2> QED BY <1>3, <2>1, <2>2, Zenon
<1> HIDE DEF c
<1>6. /\ k \in j .. j + n - 1 /\ k \in 1 .. L /\ e \in Int /\ (i - 1) + e = c + g
      /\ i - 1 \in 0 .. n - 1
  BY <1>1, <1>4
<1> HIDE DEF k, g
<1>7. PICK b \in 0 .. n - 1 : LookedFrom(k, b)
  BY <1>6, Zenon DEF PolicyInv
<1>8. (b + e) % n = index /\ picks[k] = RoundRobinPick(list, b)
  BY <1>7, Zenon DEF LookedFrom
<1> HIDE DEF e, n, L
<1>9. ((i - 1) + e) % n = (b + e) % n
  BY <1>5, <1>6, <1>8, Zenon
<1>10. b = i - 1
  BY <1>1, <1>6, <1>7, <1>9, SamePlace, Zenon
<1>11. b + 1 = i
  BY <1>1, <1>10
<1>12. RoundRobinPick(list, b) = b + 1
  <2>1. b + 1 \in Available(list) /\ b \in 0 .. Len(list) - 1
    BY <1>7, <1>11, Zenon DEF n
  <2> QED BY <1>1, <2>1, RoundRobinTakes, Zenon
<1> QED BY <1>6, <1>8, <1>11, <1>12, Zenon DEF n

\* Every policy picks an available backend whenever there is one, unless the
\* sum of the weights overflows; round robin serves every available backend in
\* as many picks as there are backends, also among unavailable ones; for any
\* number of backends, picks and changes in between.
THEOREM PicksCorrect == PolicySpec => []PicksFair
<1>1. PolicyInv => PicksFair
  <2> SUFFICES ASSUME PolicyInv PROVE PicksFair
    BY Zenon
  <2>1. \A k \in 1 .. Len(picks) : Served(list, policy, picks[k])
    BY Zenon DEF PolicyInv
  <2> QED BY <2>1, EveryPlace, Zenon DEF PicksFair, Served
<1> QED BY <1>1, PolicyStart, PolicyStep, PTL DEF PolicySpec

\* The weighted policy gives every available backend its weight's share of the
\* random numbers, for any list of backends whose weights add up to an int.
THEOREM SharesCorrect == PolicySpec => []WeightedShare
<1>1. PolicyInv => WeightedShare
  BY SharesAreWeights, Zenon DEF PolicyInv, WeightedShare
<1> QED BY <1>1, PolicyStart, PolicyStep, PTL DEF PolicySpec

-----------------------------------------------------------------------------
ResolverTypeOK ==
    /\ addresses \in AddressLists \union {NULL}
    /\ addressCount \in Nat
    /\ length \in [AddressLists -> Nat]
    /\ freedLists \subseteq AddressLists
    /\ stage \in [Threads -> {"idle", "resolving"}]
    /\ using \in [Threads -> AddressLists \union {NULL}]
    /\ seen \in [Threads -> Nat \union {NULL}]
    /\ destroyed \in BOOLEAN

\* A thread that resolves has the mutex, and there is no current list; if
\* there is one, its length is address_count.
CurrentInv ==
    /\ \A t \in Threads :
         stage[t] = "resolving" => resolverLock = t /\ addresses = NULL /\ addressCount = 0 /\ ~destroyed
    /\ addresses = NULL => addressCount = 0
    /\ addresses # NULL => addressCount = length[addresses]
    /\ freedLists \subseteq Allocated
    /\ OnlyCurrentAllocated

\* A thread that reads has a list some resolution allocated; if that is the
\* current one, the thread knows its length.
ReadersInv ==
    \A t \in Threads :
        /\ using[t] # NULL => using[t] \in Allocated
        /\ seen[t] # NULL => using[t] # NULL
        /\ seen[t] # NULL /\ using[t] = addresses => seen[t] = addressCount

\* NULL is neither a list nor a number.
LEMMA NullIsNoList == NULL \notin AddressLists /\ NULL \notin Nat
BY ResolverAssumption DEF AddressLists

\* Every step of the resolver keeps the types,
LEMMA ResolverTypeStep ==
  ResolverTypeOK /\ CurrentInv /\ [ResolverNext]_resolverVars => ResolverTypeOK'
<1> SUFFICES ASSUME ResolverTypeOK, CurrentInv, [ResolverNext]_resolverVars
             PROVE  ResolverTypeOK'
  BY Zenon
<1> USE NullIsNoList DEF ResolverTypeOK
<1>1. CASE UNCHANGED resolverVars
  BY <1>1, Zenon DEF resolverVars
<1>2. ASSUME NEW t \in Threads, Resolve(t) \/ ResolveFails(t)
      PROVE  ResolverTypeOK'
  BY <1>2 DEF Resolve, ResolveFails, FreeCurrent
<1>3. ASSUME NEW t \in Threads, NEW n \in 1 .. MaxAddresses, ResolveInstalls(t, n)
      PROVE  ResolverTypeOK'
  BY <1>3 DEF ResolveInstalls
<1>4. ASSUME NEW t \in Threads, GetAddresses(t) \/ GetCount(t) \/ ReleaseList(t)
      PROVE  ResolverTypeOK'
  BY <1>4 DEF GetAddresses, GetCount, ReleaseList
<1>5. CASE SetCustom \/ DestroyResolver
  BY <1>5, Zenon DEF SetCustom, DestroyResolver, FreeCurrent
<1> QED BY <1>1, <1>2, <1>3, <1>4, <1>5, Zenon DEF ResolverNext

\* what is known of the current list,
LEMMA CurrentStep ==
  ResolverTypeOK /\ CurrentInv /\ [ResolverNext]_resolverVars => CurrentInv'
<1> SUFFICES ASSUME ResolverTypeOK, CurrentInv, [ResolverNext]_resolverVars
             PROVE  CurrentInv'
  BY Zenon
<1> USE NullIsNoList, CommonAssumption
    DEF ResolverTypeOK, CurrentInv, OnlyCurrentAllocated, Allocated
<1>1. CASE UNCHANGED resolverVars
  BY <1>1, Zenon DEF resolverVars
<1>2. ASSUME NEW t \in Threads, Resolve(t)
      PROVE  CurrentInv'
  BY <1>2 DEF Resolve, FreeCurrent
<1>3. ASSUME NEW t \in Threads, ResolveFails(t)
      PROVE  CurrentInv'
  BY <1>3, Zenon DEF ResolveFails
<1>4. ASSUME NEW t \in Threads, NEW n \in 1 .. MaxAddresses, ResolveInstalls(t, n)
      PROVE  CurrentInv'
  BY <1>4 DEF ResolveInstalls
<1>5. ASSUME NEW t \in Threads, GetAddresses(t) \/ GetCount(t) \/ ReleaseList(t)
      PROVE  CurrentInv'
  BY <1>5 DEF GetAddresses, GetCount, ReleaseList
<1>6. CASE SetCustom
  BY <1>6, Zenon DEF SetCustom
<1>7. CASE DestroyResolver
  BY <1>7, Zenon DEF DestroyResolver, FreeCurrent
<1> QED BY <1>1, <1>2, <1>3, <1>4, <1>5, <1>6, <1>7, Zenon DEF ResolverNext

\* and what the readers hold.
LEMMA ReadersStep ==
  ASSUME ResolverTypeOK, CurrentInv, ReadersInv, [ResolverNext]_resolverVars
  PROVE  ReadersInv'
<1> USE NullIsNoList DEF ResolverTypeOK, ReadersInv, Allocated
<1>1. CASE UNCHANGED resolverVars
  BY <1>1, Zenon DEF resolverVars
<1>2. ASSUME NEW t \in Threads, Resolve(t)
      PROVE  ReadersInv'
  BY <1>2, Zenon DEF Resolve
<1>3. ASSUME NEW t \in Threads, ResolveFails(t)
      PROVE  ReadersInv'
  BY <1>3, Zenon DEF ResolveFails
<1>4. ASSUME NEW t \in Threads, NEW n \in 1 .. MaxAddresses, ResolveInstalls(t, n)
      PROVE  ReadersInv'
  BY <1>4, Zenon DEF ResolveInstalls, CurrentInv
<1>5. ASSUME NEW t \in Threads, GetAddresses(t) \/ GetCount(t) \/ ReleaseList(t)
      PROVE  ReadersInv'
  <2>1. CASE GetAddresses(t)
    <3>1. /\ addresses \in AddressLists \ freedLists /\ seen[t] = NULL
          /\ using' = [using EXCEPT ![t] = addresses]
          /\ UNCHANGED <<addresses, addressCount, length, seen>>
      BY <2>1, Zenon DEF GetAddresses, CurrentInv, OnlyCurrentAllocated
    <3>2. addresses \in {l \in AddressLists : length[l] > 0}
      BY <2>1, Zenon DEF GetAddresses, CurrentInv, OnlyCurrentAllocated
    <3> QED BY <3>1, <3>2, Zenon
  <2>2. CASE GetCount(t)
    BY <2>2, Zenon DEF GetCount
  <2>3. CASE ReleaseList(t)
    BY <2>3, Zenon DEF ReleaseList
  <2> QED BY <1>5, <2>1, <2>2, <2>3, Zenon
<1>6. CASE SetCustom
  BY <1>6, Zenon DEF SetCustom
<1>7. CASE DestroyResolver
  BY <1>7, Zenon DEF DestroyResolver
<1> QED BY <1>1, <1>2, <1>3, <1>4, <1>5, <1>6, <1>7, Zenon DEF ResolverNext

\* A new resolver.
LEMMA ResolverStarts == ResolverInit => ResolverTypeOK /\ CurrentInv /\ ReadersInv
<1> SUFFICES ASSUME ResolverInit PROVE ResolverTypeOK /\ CurrentInv /\ ReadersInv
  BY Zenon
<1>1. ResolverTypeOK
  BY Zenon DEF ResolverInit, ResolverTypeOK
<1>2. Allocated = {}
  BY DEF ResolverInit, Allocated
<1>3. CurrentInv
  BY <1>2, Zenon DEF ResolverInit, CurrentInv, OnlyCurrentAllocated
<1>4. ReadersInv
  BY Zenon DEF ResolverInit, ReadersInv
<1> QED BY <1>1, <1>3, <1>4, Zenon

\* However many threads resolve, only the current list is allocated: resolve
\* leaks none and leaves no pointer to the one it freed, also when it fails.
THEOREM ListsCorrect == ResolverSpec => []OnlyCurrentAllocated
<1>1. CurrentInv => OnlyCurrentAllocated
  BY Zenon DEF CurrentInv
<1> QED BY <1>1, ResolverStarts, ResolverTypeStep, CurrentStep, PTL DEF ResolverSpec

\* However many threads resolve while others read, a list that a thread reads
\* is freed by the next resolve and not before, and until then the length the
\* thread is told is that of its list.
THEOREM ReadersCorrect == ResolverSpec => []ReaderConsistent
<1>1. ResolverTypeOK /\ CurrentInv /\ ReadersInv => ReaderConsistent
  BY NullIsNoList, Zenon
     DEF ResolverTypeOK, CurrentInv, ReadersInv, ReaderConsistent, OnlyCurrentAllocated
<1>2. ResolverTypeOK /\ CurrentInv /\ ReadersInv /\ [ResolverNext]_resolverVars => ReadersInv'
  BY ReadersStep, Zenon
<1> QED BY <1>1, <1>2, ResolverStarts, ResolverTypeStep, CurrentStep, PTL DEF ResolverSpec
=============================================================================
