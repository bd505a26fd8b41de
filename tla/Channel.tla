------------------------------ MODULE Channel ------------------------------
(***************************************************************************)
(* A channel, its calls and the stream table of its HTTP/2 connection      *)
(* (grpc_channel.c, http2_transport.c).                                    *)
(*                                                                         *)
(* Creating a call takes a stream id from the connection under             *)
(* channel->mutex and, still holding it, registers a stream in             *)
(* conn->streams under conn->streams_mutex.  Destroying a call takes only  *)
(* streams_mutex, and removes the stream by moving the last entry into its *)
(* place.  Destroying the channel takes both.  Threads therefore interleave*)
(* between, and partly inside, these critical sections: the two mutexes    *)
(* are variables, and a step that locks one waits until it is free.        *)
(*                                                                         *)
(* A call has one owner thread (docs/IMPLEMENTATION.md, Thread Safety), so *)
(* a call stands for its thread, and for the stream it creates.            *)
(***************************************************************************)
EXTENDS Null, Integers, Sequences, FiniteSets

CONSTANTS
    Calls,             \* the calls created on the channel, one thread each
    Destroyer,         \* the thread that destroys the channel
    InitialCapacity,   \* size of conn->streams at creation (16)
    IdSpace            \* stream ids are uint32_t: 2^32 of them

ASSUME ChannelAssumption ==
    /\ NULL \notin Calls
    /\ Destroyer \notin Calls \cup {NULL}
    /\ IsFiniteSet(Calls)
    /\ InitialCapacity \in Nat \ {0}
    /\ IdSpace \in Nat
    /\ 2 * Cardinality(Calls) + 1 < IdSpace   \* the bound on calls per channel

VARIABLES
    nextId,        \* conn->next_stream_id
    streams,       \* conn->streams[0 .. streams_count - 1]
    capacity,      \* conn->streams_capacity
    channelLock,   \* owner of channel->mutex
    streamsLock,   \* owner of conn->streams_mutex
    pc,            \* pc[c]: how far c's thread is in creating or destroying c
    id,            \* id[c]: stream->id, 0 before it is assigned
    status,        \* status[c]: call->status
    destroyer      \* where grpc_channel_destroy is

vars == <<nextId, streams, capacity, channelLock, streamsLock, pc, id, status,
          destroyer>>

PCs == {"none", "allocated", "numbered", "opening", "registered", "nostream",
        "failed", "live", "detached", "released", "gone"}

\* The thread of c is between pthread_mutex_lock(&channel->mutex) and unlock.
InCreate(c) == pc[c] \in {"numbered", "opening", "registered", "nostream"}

\* c's stream has been put into the table and not yet taken out.
Registered(c) == pc[c] \in {"registered", "live", "detached"}

-----------------------------------------------------------------------------
\* http2_connection_create, for a client: no socket yet, and an empty table.
ConnectionInit ==
    /\ nextId = 1
    /\ streams = <<>>
    /\ capacity = InitialCapacity
    /\ streamsLock = NULL

\* grpc_channel_create.
Init ==
    /\ ConnectionInit
    /\ channelLock = NULL
    /\ pc = [c \in Calls |-> "none"]
    /\ id = [c \in Calls |-> 0]
    /\ status = [c \in Calls |-> "OK"]
    /\ destroyer = "no"

\* grpc_channel_create_call up to the lock of channel->mutex.
CreateCall(c) ==
    /\ destroyer = "no"
    /\ pc[c] = "none"
    /\ \E p \in {"allocated", "failed"} : pc' = [pc EXCEPT ![c] = p]
    /\ UNCHANGED <<nextId, streams, capacity, channelLock, streamsLock, id,
                   status, destroyer>>

\* Lock channel->mutex and read next_stream_id ...
Bug_ReadIdUnlocked(c) ==
    /\ pc[c] = "allocated"
    /\ channelLock' = c
    /\ id' = [id EXCEPT ![c] = nextId]
    /\ pc' = [pc EXCEPT ![c] = "numbered"]
    /\ UNCHANGED <<nextId, streams, capacity, streamsLock, status, destroyer>>
ReadId(c) ==
    /\ pc[c] = "allocated"
    /\ channelLock = NULL
    /\ channelLock' = c
    /\ id' = [id EXCEPT ![c] = nextId]
    /\ pc' = [pc EXCEPT ![c] = "numbered"]
    /\ UNCHANGED <<nextId, streams, capacity, streamsLock, status, destroyer>>

\* ... and advance it.
Bug_UnlockEarly(c) ==
    /\ pc[c] = "numbered"
    /\ nextId' = (nextId + 2) % IdSpace
    /\ channelLock' = NULL
    /\ pc' = [pc EXCEPT ![c] = "opening"]
    /\ UNCHANGED <<streams, capacity, streamsLock, id, status, destroyer>>
AdvanceId(c) ==
    /\ pc[c] = "numbered"
    /\ nextId' = (nextId + 2) % IdSpace
    /\ pc' = [pc EXCEPT ![c] = "opening"]
    /\ UNCHANGED <<streams, capacity, channelLock, streamsLock, id, status,
                   destroyer>>

\* http2_stream_create finds the table full and doubles it.
GrownCapacity == IF Len(streams) >= capacity THEN 2 * capacity ELSE capacity

\* http2_stream_create: the stream enters the table.
StreamCreate(c) ==
    /\ pc[c] = "opening"
    /\ streamsLock = NULL
    /\ capacity' = GrownCapacity
    /\ streams' = Append(streams, c)
    /\ pc' = [pc EXCEPT ![c] = "registered"]
    /\ UNCHANGED <<nextId, channelLock, streamsLock, id, status, destroyer>>

\* http2_stream_create returns NULL: the calloc fails, or the realloc of a
\* full table does; the id is used up all the same.
StreamCreateFails(c) ==
    /\ pc[c] = "opening"
    /\ pc' = [pc EXCEPT ![c] = "nostream"]
    /\ UNCHANGED <<nextId, streams, capacity, channelLock, streamsLock, id,
                   status, destroyer>>

\* Unlock channel->mutex; without a stream the call is freed again.
Bug_KeepLockOnFailure(c) ==
    /\ pc[c] \in {"registered", "nostream"}
    /\ channelLock' = IF pc[c] = "nostream" THEN channelLock ELSE NULL
    /\ pc' = [pc EXCEPT ![c] = IF @ = "registered" THEN "live" ELSE "failed"]
    /\ UNCHANGED <<nextId, streams, capacity, streamsLock, id, status, destroyer>>
CreateReturns(c) ==
    /\ pc[c] \in {"registered", "nostream"}
    /\ channelLock' = NULL
    /\ pc' = [pc EXCEPT ![c] = IF @ = "registered" THEN "live" ELSE "failed"]
    /\ UNCHANGED <<nextId, streams, capacity, streamsLock, id, status, destroyer>>

-----------------------------------------------------------------------------
\* grpc_call_cancel.  The stream is left alone, and the status is never read.
Cancel(c) ==
    /\ pc[c] = "live"
    /\ status' = [status EXCEPT ![c] = "CANCELLED"]
    /\ UNCHANGED <<nextId, streams, capacity, channelLock, streamsLock, pc, id,
                   destroyer>>

\* grpc_call_destroy clears call->stream under call->mutex and releases it.
DestroyCall(c) ==
    /\ pc[c] = "live"
    /\ pc' = [pc EXCEPT ![c] = "detached"]
    /\ UNCHANGED <<nextId, streams, capacity, channelLock, streamsLock, id,
                   status, destroyer>>

\* The table without entry i: the last entry takes its place.
Bug_DropLast(s, i) == SubSeq(s, 1, Len(s) - 1)
RemoveAt(s, i) ==
    [j \in 1 .. Len(s) - 1 |-> IF j = i THEN s[Len(s)] ELSE s[j]]

\* http2_stream_destroy: the first entry for the stream is removed, if any.
StreamDestroy(c) ==
    /\ pc[c] = "detached"
    /\ streamsLock = NULL
    /\ IF \E i \in 1 .. Len(streams) : streams[i] = c
         THEN \E i \in 1 .. Len(streams) :
                /\ streams[i] = c
                /\ \A j \in 1 .. i - 1 : streams[j] # c
                /\ streams' = RemoveAt(streams, i)
         ELSE UNCHANGED streams
    /\ pc' = [pc EXCEPT ![c] = "released"]
    /\ UNCHANGED <<nextId, capacity, channelLock, streamsLock, id, status,
                   destroyer>>

\* grpc_call_destroy takes call->mutex again and frees the call.
CallFree(c) ==
    /\ pc[c] = "released"
    /\ pc' = [pc EXCEPT ![c] = "gone"]
    /\ UNCHANGED <<nextId, streams, capacity, channelLock, streamsLock, id,
                   status, destroyer>>

-----------------------------------------------------------------------------
\* grpc_channel_destroy is called when every call has been destroyed, as
\* docs/API.md asks ("All calls on this channel must be destroyed first").
DestroyChannel ==
    /\ destroyer = "no"
    /\ \A c \in Calls : pc[c] \in {"none", "failed", "gone"}
    /\ destroyer' = "called"
    /\ UNCHANGED <<nextId, streams, capacity, channelLock, streamsLock, pc, id,
                   status>>

\* It locks channel->mutex ...
DestroyLocksChannel ==
    /\ destroyer = "called"
    /\ channelLock = NULL
    /\ channelLock' = Destroyer
    /\ destroyer' = "locked"
    /\ UNCHANGED <<nextId, streams, capacity, streamsLock, pc, id, status>>

\* ... and http2_connection_destroy locks streams_mutex.
DestroyLocksStreams ==
    /\ destroyer = "locked"
    /\ streamsLock = NULL
    /\ streamsLock' = Destroyer
    /\ destroyer' = "sweeping"
    /\ UNCHANGED <<nextId, streams, capacity, channelLock, pc, id, status>>

\* The loop over the table calls http2_stream_destroy, which locks
\* streams_mutex.  The thread holds that mutex, a default one, so an
\* iteration never ends: the loop is passed only when the table is empty.
DestroyFrees ==
    /\ destroyer = "sweeping"
    /\ streams = <<>>
    /\ streamsLock' = NULL
    /\ channelLock' = NULL
    /\ destroyer' = "done"
    /\ UNCHANGED <<nextId, streams, capacity, pc, id, status>>

CallStep(c) ==
    \/ ReadId(c) \/ AdvanceId(c) \/ StreamCreate(c) \/ StreamCreateFails(c)
    \/ CreateReturns(c) \/ StreamDestroy(c) \/ CallFree(c)

DestroyStep == DestroyLocksChannel \/ DestroyLocksStreams \/ DestroyFrees

Next ==
    \/ \E c \in Calls : CreateCall(c) \/ Cancel(c) \/ DestroyCall(c) \/ CallStep(c)
    \/ DestroyChannel
    \/ DestroyStep

Spec == Init /\ [][Next]_vars

-----------------------------------------------------------------------------
\* The types of the variables.
TypeOK ==
    /\ nextId \in 0 .. IdSpace - 1
    /\ streams \in Seq(Calls)
    /\ capacity \in Nat \ {0}
    /\ channelLock \in Calls \cup {NULL, Destroyer}
    /\ streamsLock \in {NULL, Destroyer}
    /\ pc \in [Calls -> PCs]
    /\ id \in [Calls -> 0 .. IdSpace - 1]
    /\ status \in [Calls -> {"OK", "CANCELLED"}]
    /\ destroyer \in {"no", "called", "locked", "sweeping", "done"}

\* Whatever the threads of the calls do at the same time, conn->streams holds
\* each stream that has been created and not yet destroyed exactly once, and
\* no other: removal by moving the last entry (http2_stream_destroy) neither
\* loses a stream nor leaves a freed one behind.
RegistryExact ==
    /\ \A c \in Calls : Registered(c) <=> \E i \in 1 .. Len(streams) : streams[i] = c
    /\ \A i, j \in 1 .. Len(streams) : streams[i] = streams[j] => i = j

\* No two streams of a connection ever have the same id, live or not
\* (next_stream_id is read and advanced under channel->mutex), and the ids of
\* a client are odd.
IdsUnique ==
    \A c, d \in Calls :
        id[c] # 0 => id[c] % 2 = 1 /\ (id[d] = id[c] => c = d)

\* The calls whose id has been taken and next_stream_id advanced past it.
Numbered == {c \in Calls : id[c] # 0 /\ pc[c] # "numbered"}

\* What makes IdsUnique inductive: channel->mutex excludes, the ids handed out
\* lie below next_stream_id, the thread holding the mutex has the largest,
\* and next_stream_id has not wrapped around.
IdInvariant ==
    /\ \A c \in Calls : InCreate(c) => channelLock = c
    /\ destroyer \in {"locked", "sweeping"} => channelLock = Destroyer
    /\ \A c \in Calls : pc[c] \in {"none", "allocated"} => id[c] = 0
    /\ \A c \in Calls : pc[c] = "numbered" => id[c] = nextId
    /\ \A c \in Numbered : id[c] < nextId
    /\ \A c, d \in Calls : InCreate(c) /\ c # d => id[d] < id[c]
    /\ nextId = 2 * Cardinality(Numbered) + 1
    /\ IdsUnique

\* Streams enter the table in the order of their ids, as HTTP/2 requires of
\* the streams an endpoint opens: the mutex is held from the assignment of
\* the id to the registration.
OpenedInIdOrder ==
    [][\A c, d \in Calls :
         pc[c] = "opening" /\ pc'[c] = "registered"
         /\ pc[d] \in {"live", "registered", "detached", "released", "gone"}
         => id[d] < id[c]]_vars

\* http2_stream_create never writes behind the end of conn->streams.
WithinCapacity == Len(streams) <= capacity
=============================================================================
