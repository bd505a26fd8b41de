# TLA+ specifications of grpc-c

This directory holds TLA+ models of the stateful parts of the library in
`src/src/`, TLC configurations that check them on small instances, and TLAPS
proofs of their central properties for every size of instance.
`PROJECT.json` lists runs, mutants, hazards and theorems, and maps every
definition to the lines of C it stands for.

## The system

| Part | Source | State | Operations |
|---|---|---|---|
| Library init | `grpc_core.c` | one flag, a mutex | `grpc_init`, `grpc_shutdown` |
| Completion queue | `grpc_core.c` | linked list, `shutdown`, mutex, condition variable | push, next, shutdown, destroy |
| Channels and calls | `grpc_channel.c` | connection, `next_stream_id`, mutex; per call a stream and a status | create, start_batch, cancel, destroy |
| HTTP/2 transport | `http2_transport.c` | growing stream table, two mutexes, socket | connection, stream, frame operations |
| Flow control | `flow_control.c` | four `int32_t` windows | send, receive and update a window |
| Connection pool | `connection_pool.c` | linked list, counters, keep-alive thread | get, return, cleanup, destroy |
| Server | `grpc_server.c` | ports, worker threads, two flags | add port, start, shutdown, destroy, workers |
| Load balancing | `load_balancing.c` | list of backends, index | add, mark, pick (three policies) |
| Interceptors | `interceptors.c` | list of callbacks | add, execute, destroy |
| Name resolver | `name_resolver.c` | list of addresses and its length | resolve, two getters, set custom, destroy |
| Metadata, streaming, health | `enhanced_features.c` | growing arrays; a queue and a call per health check | add, destroy; constructors of calls; `grpc_health_check` |
| Observability | `observability.c` | spans, metrics, logger, each with a mutex | start, tag, finish, export; increment, set; log |
| Reflection | `reflection.c` | list of services with lists of methods | add, list, look up, names |
| HPACK | `hpack.c` | none | integers, literals, header blocks |
| Compression | `compression.c` | an output buffer and a `z_stream` | compress, decompress |
| TLS, credentials | `grpc_tls.c`, `grpc_credentials.c` | OpenSSL objects | contexts, handshakes, ALPN, shutdown |
| Protobuf | `grpc_protobuf.c` | none | copies of buffers |

How they interact.  A call takes an id and a stream from its channel's
connection, and reports a batch by pushing an event to a completion queue.  A
shut-down server pushes an event too.  A stream's windows and the
connection's are charged by the stream's thread and raised by the thread that
reads frames.  A health check makes a call with a queue of its own.  The pool
owns connections of its own.  Header blocks are made from metadata arrays.
Load balancer, resolver, interceptor chains, observability, reflection,
compression and TLS are free-standing: nothing else in the library calls them.

## Modules

A module's variables carry the names of the C fields.  An action is one
critical section, or the code between two points where another thread can
act; the comment above it names the function, and `PROJECT.json` the lines.
A freed object stays in the model as `freed`, so that using it can be seen.
Memory allocation may fail wherever the code handles the failure.

Operators named `Bug_...` stand before the definition they are a variant of.
They are plausible mistakes (a dropped guard, a missing reset); no
specification uses them.  Each one violates a property when it replaces its
original.

| Module | Models | Proofs |
|---|---|---|
| `EventQueue` | what a completion queue promises: a FIFO queue whose calls are answered by an event, a time-out or a shutdown notice | |
| `CompletionQueue` | the queue's nodes and pointers, mutex and condition variable, with spurious wake-ups and deadlines | `ListProofs` |
| `Channel` | creating, cancelling and destroying calls, the stream table, destroying the channel | `ClientProofs` |
| `ClientCalls` | `Channel` with the batches of its calls, their completion queue (`EventQueue`) and health checks | `ClientProofs` |
| `Windows` | the constants of both halves of flow control | |
| `SendWindow` | `can_send`, `consume_send_window`, `receive_window_update`, with wrapping integers | `ConnectionProofs` |
| `RecvWindow` | `consume_recv_window` and its WINDOW_UPDATEs, with a socket and without | `ConnectionProofs` |
| `Server` | the application, the workers, the clients in the kernel's backlog | `SocketProofs` |
| `ConnectionPool` | the pool, its users and the keep-alive thread | `ConnectionProofs` |
| `LoadBalancer` | the three policies, adding and marking backends, weights summed in an `int` | `ClientProofs` |
| `NameResolver` | resolutions that succeed or fail, and readers of the list | `ClientProofs` |
| `InterceptorChain` | a chain, the threads that execute it, the results of the callbacks | `ObservabilityProofs` |
| `Reflection`, `FullName` | the registry and its walkers; the names it formats | `ListProofs` (the registry) |
| `Tracing`, `Metrics`, `Logger` | the three objects of `observability.c` | `ObservabilityProofs` |
| `Hpack` | the coding, as operators | `HpackProofs`, `MetadataProofs` |
| `IntegerCoding` | numbers encoded and decoded, and bytes from elsewhere | `HpackProofs` |
| `Metadata` | an array that is filled, encoded, cut, decoded and destroyed | `MetadataProofs` |
| `Compression` | a message compressed, damaged and decompressed, with lengths cut to zlib's `uInt` | `SocketProofs` |
| `Tls` | a context made from credentials, and connections that use it | `ConnectionProofs` |
| `Frames` | `send_frame` by several threads and `recv_frame`, octet by octet | `SocketProofs` |
| `Common`, `Null` | the threads that share an object; the null pointer | |
| `Numbers` | powers, as a recursive function | `Induction` |
| `Lists` | the elements of a list, and a list without some of its elements | `Induction` |

The linked lists of the completion queue, the interceptor chain and the
reflection registry are modelled with their pointers, because properties are
about them.  The list of pooled connections is a sequence, from the head on.

Some modules model objects that share no state in the code.  `MCThreads`,
`MCServices` and `MCWire` put several of them into one run: the variable
`subject` is chosen initially and says whose behaviour this is.  They also
hold what a `.cfg` file cannot say, such as sequences and negative numbers.
`MCFullName` and `MCMetadata` give `FullName` and `Metadata` their inputs.

Three relations connect the modules.  `CompletionQueue` implements
`EventQueue`: the mapping takes the events on the linked list, in order, for
the abstract sequence (`ImplementsEventQueue`).  `ClientCalls` uses the
actions of `EventQueue` for its queue, so that what it shows rests on that
refinement.  And `ClientCalls` implements `Channel`.  Both refinements are
proved (`QueueImplemented`, `ClientImplementsChannel`).

## Runs

**Threads** (110 730 states), of the completion queue, the connection pool and
the server.

- Three events and two consumers.  The events fill the list, empty it and fill
  it again.  Two consumers are enough for a signal to wake the wrong one, and
  for a broadcast to differ from a signal.  Checked: the list and its tail are
  intact and deliver every event once, in order (`ListIntact`); while a
  consumer sleeps, every queued event has a consumer that was signalled and is
  on its way (`NoStrandedWaiter`); the abstract queue is implemented, which
  delivers everything pushed before it announces the shutdown
  (`ImplementsEventQueue`); shutdown and events get sleepers out of `next`
  though no deadline passes (`WaitersReleased`), and deadlines get every call
  out (`CallReturns`).
- A pool of two, three nodes, three targets, two users, three clock values.
  Reuse, creation, time-out, eviction and cleanup all occur.  Checked: a
  connection someone holds is neither freed nor marked unhealthy
  (`HeldIsSafe`); the limit holds and threads that ask for a target share a
  connection (`PoolBounded`); destroying returns (`DestroyReturns`).  After an
  eviction that leaves a freed node in the list (see PoolEviction) the model
  goes no further, as what follows is undefined.
- Three workers, two ports, two pending clients a port, two shutdowns, and a
  server that is started, shut down and destroyed in any order.  Two workers
  select one client, and a third is elsewhere.  Checked: a server destroyed
  without an array of workers has none that runs (`NoWorkerOnFreedServer`;
  with one it may, see ServerFreed); no client is accepted after the shutdown
  event (`NotifiedWhenQuiet`); the only thing that keeps a shutdown from
  returning is a worker in `accept` for which no client comes
  (`ShutdownWaitsOnlyForClients`).

**ClientCalls** (3 calls, one of them a health check's, a table of one entry,
2 batches, 262 282 states).  The table doubles twice and entries move on
removal.  A behaviour has three calls and no batch, or two calls and both
batches (`plan`, bounded by `MaxBusy`).  Checked: the table holds exactly the
live streams (`RegistryExact`); ids are odd, distinct (`IdsUnique`) and
registered in order (`OpenedInIdOrder`); every batch that was accepted, before
or after a cancellation or the shutdown, has its event in exactly one place
and in order (`BatchesAccounted`; that it should not be accepted after the
shutdown is QueueClosed); calls, health checks and the destruction of
the channel return (`OperationsReturn`).

**Services** (2 threads on each object, 683 109 states).

- Three interceptors, two spans with up to two tags in an array of one, two
  metrics with three changes of either sign, two handlers and three levels,
  three services of two names.  Checked: an execution calls interceptors in
  order, stops at the first failure, and destruction frees every node
  (`ChainIntact`); a success means that the whole chain ran
  (`SuccessIsComplete`); executions return (`ExecutionReturns`); an exporter
  gets its own user data and a finished span with all tags it is due, and if
  the thread that adds the tags finishes the span, it reads exactly those,
  from the array that holds them (`ExportsFaithful`); a metric has the
  statistics of what was done to it (`StatisticsExact`); a handler gets its
  own user data (`LogFaithful`); a walker meets the services there were when
  it asked for the list, and look-ups find the latest (`RegistryStable`).
- Up to three backends at two addresses with weights up to the largest `int`
  (3), and four picks.  Checked: a pick is an available backend, and NULL only
  if there is none or the weights overflow; round robin serves every available
  backend in as many picks as there are backends (`PicksFair`); of the random
  numbers, a backend gets as many as its weight unless the weights overflow
  (`WeightedShare`).
- Three resolutions that may fail, lists of one or two addresses, and readers
  that keep a list while others resolve.  Checked: the only list allocated is
  the current one (`OnlyCurrentAllocated`); a list that was handed out is
  freed by the next resolve and not before, and until then the count told in a
  second call is its length (`ReaderConsistent`).

**Wire** (299 073 states).

- Widths are scaled down and keep their relations: groups of 2 bits and words
  of 9 with a largest shift of 8 for 7, 32 and 28, so that the last group
  reaches past the word in the same way (`HpackAssumption`); octets of base 4;
  a `uInt` of 16 values.  Checked: integer coding is exact at every edge, but
  for a top group that wraps (`IntegersExact`, `TopGroupWraps`); decoded
  metadata is what was sent, cut at zero bytes (`DecodedAsSent`), and no
  allocation is lost whatever fails (`BlocksAccounted`); a successful
  decompression has the whole message if the lengths fit a `uInt`, inflate
  never has room behind its buffer whether they fit or not
  (`MessageSurvives`), and the loop ends (`DecompressReturns`); frames of two
  threads arrive whole (`FramesIntact`); no OpenSSL object is lost
  (`SslObjectsAccounted`); a client is connected only with h2, and the
  server's callback selects h2 exactly when it is offered (`AlpnAgrees`).  The
  message lengths lie on both sides of a full buffer and of a `uInt`, and the
  names offered contain the bytes of h2 in other places.
- Two streams, windows of 8 octets in 5-bit integers, at most two sends per
  stream and two updates, lengths -1 to 9 at the edges.  Small integers make
  both wrap-arounds happen.  Checked of sending: the connection's window is
  exactly what grants and sends make of it (`ConnWindowExact`); no freed
  stream is updated (`NoUpdateOfFreedStream`); more than the granted credit is
  spent only after two threads were between `can_send` and
  `consume_send_window` at once (`CreditRespectedUnlessOverlap`).  Of
  receiving, with a socket and without: whenever `write_mutex` is free,
  windows are between the threshold and their full size
  (`WindowsReplenished`); nothing but the second lock of RecvUpdate keeps a
  call from returning (`ConsumeBlockedOnlyByUpdate`).

Eight runs show a disagreement between the code and what the repository says
of it; `PROJECT.json` quotes the lines.

- **SendOverflow**: a WINDOW_UPDATE past 2^31-1 wraps the window and is
  answered with 0, because the sum is stored in an `int32_t` before the test.
- **PoolEviction**: a full pool frees its oldest idle node and leaves it
  linked.
- **ServerQuiet**: two workers see one client in `select`; the loser blocks in
  `accept`, and without another client the shutdown never joins it.
- **MethodName**: the buffer for a method's full name has room for one of its
  two slashes, and the last character is cut.
- **QueueClosed**: `completion_queue_push_event` does not look at
  `cq->shutdown`, and adds an event to a queue that was shut down.
- **ServerFreed**: `grpc_server_start` starts workers on a server that was
  shut down; nothing joins them, and `grpc_server_destroy` frees the server.
- **BinaryMetadata**: values are encoded up to their first zero byte, though
  `grpc_metadata` has a `value_length`.
- **RecvUpdate**: the connection's WINDOW_UPDATE locks `write_mutex` twice
  (`flow_control.c:178`) and the call never returns.  This takes a connection
  with a socket: `http2_connection_create` leaves `socket_fd` at -1 today,
  and then `send_frame` returns before the lock.

## Other disagreements

The models contain these behaviours too.  Each was reached by TLC when the
named constant was changed or the quoted sentence was checked.

- With `QuiesceBeforeDestroy = FALSE` a consumer that the shutdown woke is
  still inside the queue that is freed.  `docs/API.md:102` asks only that "The
  completion queue must be shut down first".
- Two streams pass `can_send` on the same connection credit and overdraw it.
  The comment at `flow_control.c:117` says that both windows "must have enough
  space".  `CreditRespectedUnlessOverlap` is what remains true.
- A stream's window is charged without a mutex (`flow_control.c:141`) and
  raised under `streams_mutex` (line 84); a charge can be lost.
- A timed-out connection is only marked; it stays in the pool until the
  application calls `cleanup_idle`.  `docs/V1.3.0_RELEASE_NOTES.md:50`:
  "Automatic cleanup of idle connections".
- With a backend unavailable, round robin picks the one after it twice in a
  row (`load_balancing.c:96`).  `docs/V1.3.0_RELEASE_NOTES.md:14`: "Cycles
  through backend servers in order".
- A reader of `get_addresses` holds a list that the next resolution frees
  (`ReaderConsistent` says when).  No document says who owns the list.
- A thread that finishes a span another thread still tags may export an array
  of tags that `realloc` has freed (`observability.c:257`).
- The sum of the weights is an `int`.  If it overflows, a pick may return NULL
  though backends are available (`load_balancing.c:153`).
- Decompressing an empty message reports success with a freed buffer:
  `realloc(*output, 0)` frees it and returns NULL (`compression.c:147`).
- Lengths past 2^32-1 are cut to zlib's `uInt` (`compression.c:42`, 100, 102,
  132): a part of the message is compressed or decompressed, or lands at the
  wrong place.
- The server's handshake succeeds with a client that did not offer h2
  (`grpc_tls.c:278`).

These were met while the code was read for the models.  The first four are
behaviours of the models; each property says what remains true beside them.

- A decoded integer whose last group has bits past the word loses them
  (`hpack.c:162`: `to_add` wraps before the test).  The comment at line 158
  says "Prevent overflow - max 32 bits total".  See `TopGroupWraps`.
- After an error in a header `hpack_decode_metadata` has freed the array and
  leaves the pointer; after a failed `realloc` it leaves a live array.  The
  caller cannot tell which; `ArrayDestroy` is called only where it may be.
- A short `send` (`http2_transport.c:108`), or a failed `malloc` for a payload
  (line 153), leaves the stream of frames out of step; the connection stays
  open.
- A server whose BIO for the root certificates cannot be made does not ask
  clients for certificates, and creation succeeds (`grpc_tls.c:234`).
- `grpc_metadata_array_destroy` leaves a capacity of 0, which doubling keeps
  at 0: the array must be initialised again before entries are added.
- `HPACK_INTEGER_MAX_BYTES` is 5, and a 32-bit integer with a prefix takes up
  to 6 bytes.  The encoder checks its room once more, so nothing is
  overwritten.
- `grpc_generate_id` seeds `rand` with the time: ids made within a
  microsecond are equal, among them often a span's two.
- `http2_connection_destroy` does not free `conn->ssl`, and a second handshake
  on a connection replaces it.
- `grpc_metrics_get` hands out a metric that its caller reads without the
  mutex.
- `next_stream_id` wraps around after 2^31 calls of a channel.

## Fairness

Only what the operating system's scheduler gives is assumed.

- A thread inside a library function keeps running: weak fairness of its steps.
- A thread that waits for a mutex which is released again and again obtains
  it: strong fairness, in `MCWire` (receiving) and `MCServices`.
- A health check and the loop of `decompress_gzip` are sequential code and go
  on: weak fairness, in `ClientCalls` and `MCWire`.
- Callbacks of interceptors return.
- Time goes on for the pool: weak fairness of `Tick`.
- Clients need not connect; `ShutdownWaitsOnlyForClients` says what follows.
- Deadlines pass: only as the premise of `CallReturns`.  The other liveness
  properties of the queue hold though no deadline ever passes.
- Applications never have to call anything.

## Proofs

The theorems hold for every value of the constants that the named assumptions
(`ASSUME` in the component's module) admit: any number of threads, streams,
backends, names or messages, and histories of any length.  Every safety
property of the passing runs is proved.  Each follows from an inductive
invariant, which a lemma per action, or a step per action, shows to be kept.

**Induction** holds what the others rest on.  A set of numbers that contains 0
and with each k < n also k + 1 contains all numbers up to n (`InductionUpTo`);
it is derived from the well-foundedness of the strict order on numbers.  From
it follows that a function defined by recursion over 0..n exists
(`RecursionExists`), which gives access to what such a definition computes.
The module has the lemmas about `Filter`, powers, joined and cut sequences,
quotients and remainders, too.

**ListProofs**, of the completion queue and the reflection registry
- `TypeCorrect`, `ListCorrect` (`ListIntact`), `NoLostWakeup`
  (`NoStrandedWaiter`), `ShutdownDrains`.  `ListIntact` is not inductive: it
  does not say that a node about to be linked is not on the list yet, or that
  no node is on it twice.  `ListInv` adds both.  `NoStrandedWaiter` is a
  counting argument: a push adds one event and wakes one sleeper, and a
  sleeper goes to sleep only when it finds the list empty.  `ShutdownInv` adds
  to `DrainedBeforeShutdownNotice` that nobody hears of a shutdown before it.
- `QueueImplemented` (`ImplementsEventQueue`).  Under `ListInv` the nodes from
  the head on are the events pushed and not delivered (`Rest`), so that a pop
  takes the abstract head and a push appends; and a consumer is in a call
  exactly while its outcome is pending (`InCall`).
- `RegistryCorrect` (`RegistryStable`) from `ReflectionInv`: the pointers from
  the head on are the services registered, latest first (`ServicesInv`); a
  walker has met a beginning of the list it was given, and stands at the rest
  (`WalkersInv`).  New services are linked before the head, which no walker
  passes again.

**ClientProofs**, of what a client calls
- Of the channel: `TypeCorrect`, `TableInBounds` (the table is never written
  behind its end), `RegistryCorrect` (`RegistryExact`), `IdsCorrect`
  (`IdsUnique`) and `OpenedInOrder` (`OpenedInIdOrder`).  `IdInvariant` says
  that `next_stream_id` is one more than twice the number of ids taken, that
  one thread at most is inside the critical section, and that ids are below
  it.  `ChannelAssumption` keeps the number of calls below the wrap-around of
  the 32-bit id; past it ids do repeat.
- Of the composition: `ClientImplementsChannel` (`ClientSpec => Spec`).  Every
  step is a step of `Channel` or leaves its variables alone, so what is proved
  of the channel holds here: `ClientRegistryCorrect`, `ClientIdsCorrect`.
- `BatchesCorrect` (`BatchesAccounted`) from `BatchesInv`: the events handed
  out, followed by those in the queue, are the batches started without those
  lost for want of memory, in order.
- `PicksCorrect` (`PicksFair`) from `PolicyInv`.  Every pick of round robin
  looked from some place on, and as many steps as there were picks since lead
  from there to the current index (`LookedFrom`).  So as many picks as there
  are backends look from every place once (`EveryPlace`), and one that looks
  from an available backend takes it.
- `SharesCorrect` (`WeightedShare`): unless a sum overflows, the walk over the
  weights stops at backend i for the random numbers from the sum of the
  weights before it on, as many as its own weight.
- `ListsCorrect` (`OnlyCurrentAllocated`) and `ReadersCorrect`
  (`ReaderConsistent`).  `CurrentInv` ties the resolver's fields to the one
  list that is allocated, `ReadersInv` what a reader of the current list knows
  to its length.

**ConnectionProofs**, of flow control, the pool and TLS
- `ConnWindowCorrect` (`ConnWindowExact`) and `NoFreedStream`
  (`NoUpdateOfFreedStream`), from `SendInv`.  That conversions to `int32_t` may
  be made at every step or once at the end is a fact about remainders.
- `CreditRespected` (`CreditRespectedUnlessOverlap`) from `CreditInv`: without
  an overlap at most one thread is past `can_send`, and what it may send is
  still there.  Its hypothesis `Sizes \subseteq 0 .. IntMax` leaves out
  messages whose length does not fit an `int32_t`: `can_send` compares
  `(int32_t)data_len`, and lets such a message through.
- `WindowsCorrect` (`WindowsReplenished`) from `WindowInv`, which adds that
  only the owner of `write_mutex` is refilling the connection's window, and
  that a thread past the first check has an admitted length.
- `HeldCorrect` (`HeldIsSafe`) and `PoolCorrect` (`PoolBounded`) from
  `PoolInv`: every open connection is on the list, so that a search misses
  none, and nothing is held once the pool is being destroyed.
- `ObjectsCorrect` (`SslObjectsAccounted`) from `ObjectsInv`, which says what
  is allocated at each step of creating a context.
- `AlpnCorrect` (`AlpnAgrees`).  The list that a client writes has name i at
  the sum of the lengths before it (`WrittenAt`); from there the walk takes
  h2 if it is that name, and else goes on to name i + 1 (`SelectsH2`, by
  induction from the last name to the first).  Bytes of h2 inside of other
  names are never looked at.

**SocketProofs**, of the server, its frames and compressed messages
- `DestroyIsSafe` (`NoWorkerOnFreedServer`) and `NotificationIsLast`
  (`NotifiedWhenQuiet`).  `OrderInv`: without the array no worker runs, the
  notification comes when the array is gone, and workers that are started
  after that find the flag raised before they look at a port.
- `FramesCorrect` (`FramesIntact`) from `FramesInv`.  Positions `at` exist such
  that every frame sent and not yet received lies whole between two neighbours
  of them (`InPlace`); the octets behind the last are the header that the
  owner of `write_mutex` has sent, or nothing, and the reader stands at the
  first position or behind its header (`Stream`).  A send moves the last
  position on, a receipt takes the octets before the second away.  Once a send
  was cut short, this still holds for the frames before it.  That the header
  read is the one written rests on `NumberOctets`: the digits of a number,
  read again, are the number, for every base and width.
- `MessageCorrect` (`MessageSurvives`) from `DecompressInv`: inflate's room
  lies inside the buffer whatever the lengths are (`BufferInv`); while they
  fit, what it has written lies without a gap before that room, and the loop
  ends well only when the buffer has the whole message.

**HpackProofs** and **MetadataProofs**
- `IntegersCorrect` (`IntegersExact`) from `IntegerInv`, which says what the
  calls have left: the bytes are `Code(number, prefix)`, or came from
  elsewhere, and the result is `DecodeInteger` of them.  The encoder's loop
  ends (`RoundsIs`), and after k groups it has the number divided by the k-th
  power of 128 (`LeftIs`).  The decoder's value after k groups is the number
  modulo that power, so it never overflows and ends as the number
  (`DecodeCode`).  For other bytes the value is their sum until the top
  group, where only `TopGroupWraps` makes a difference (`ValueExact`).
  No value on the way exceeds the sum (`ValueBelow`), so that what is refused
  is too large for the word.
- `DecodedCorrect` (`DecodedAsSent`) from `SentInv`.  The literals lie in the
  block one behind the other, at offsets `off` (`Laid`, which `EncodedLaid`
  derives from the recursion of the encoder).  The receiver stands at one of
  the offsets, and has the entries before it, each cut at its first zero byte
  (`Received`).  `LiteralDecoded` is the step: bytes that begin with a literal
  are decoded to its key and value, and bytes that are a part of one are
  refused (`DecodeCut`), so that a lost end never makes up an entry.
  `MetadataAssumption` says that keys and values are bytes and that their
  lengths fit the `uint32_t` they are encoded as (`hpack.c:207`).
- `BlocksCorrect` (`BlocksAccounted`) from `BlocksInv`: what is allocated is
  what the receiver's array holds, at every point where decoding can fail, and
  an array that entries are added to has a capacity that doubling increases.

**ObservabilityProofs**, of observability and the interceptor chains
- `LoggerCorrect` (`LogFaithful`) from `LoggerInv`: handler and user data
  agree unless the owner of the mutex is between the two assignments, and a
  thread that logs has an admitted level.
- `TracingCorrect` (`ExportsFaithful`) from `TraceInv`: the same for the
  exporter (`ExporterInv`); the tags of a span fit into its array, with room
  for the one its owner is storing (`TagsInv`); a finishing thread holds a
  live span that has at least the tags due (`WorkInv`); every live span is on
  the list that destruction frees (`ActiveInv`).  `OwnerInv` adds that a span
  points to a freed array only while its owner is adding a tag, so that never
  while the owner is finishing it.
- `StatisticsCorrect` (`StatisticsExact`) from `MetricsInv`: a metric agrees
  with its history, but for the one a thread with the mutex is changing, which
  is one increment ahead (`Counts`) while its bounds are not (`Bounds`).
- `ChainCorrect` (`ChainIntact`) and `SuccessCorrect` (`SuccessIsComplete`, an
  action property) from `ChainInv`: the pointers from head to tail are the
  interceptors in the order they were added (`LinksInv`), and an execution has
  the mutex and stands behind those it has called (`RunsInv`).

Only model-checked: all liveness, since fairness and `ENABLED` are beyond the
prover (`WaitersReleased`, `CallReturns`, `OperationsReturn`,
`ConsumeBlockedOnlyByUpdate`, `DestroyReturns`,
`ShutdownWaitsOnlyForClients`, `ExecutionReturns`, `DecompressReturns`).  The
properties that the eight runs of disagreements
refute are not theorems, of course.

## Abstractions

- `server->shutdown_called` and `pool->keepalive_running` are read without a
  mutex.  The loops that read them call into the kernel, so that a compiler
  cannot keep the value in a register; the reads are modelled as atomic.
- The stream window's unlocked update is a load and a store.
- Interceptor callbacks do not use their own chain: it would lock a default
  mutex twice.
- A pooled connection carries no streams, so destroying it never meets the
  double lock of `streams_mutex` that `Channel` models.
- The server's `select` errors, an invalid resolver type, and allocation
  failures in `grpc_server_start`, which the code does not check, are left out.
- Client and server interceptor chains are the same code on two types, and one
  model.
- A client destroys its calls before their queue and both before the channel,
  as the examples do where all goes well.  `echo_client.c` on its failure path,
  and the streaming examples, destroy the queue without a shutdown.
- zlib and OpenSSL are external.  A `realloc` to 0 bytes frees and returns
  NULL, as with glibc.  A call of theirs succeeds or fails in every
  way the code tells apart; `inflate` on a part of a stream yields any part of
  the text.  Metric values are integers.
- A span's tags are added by the thread that started it; any thread may finish
  the span.  What a thread does with memory that was freed is undefined: the
  models record that it has it, and go no further there.  Objects are
  destroyed when no thread uses them.
- Bounds (all constants named `Max...`) stand in the guards of the actions
  they bound, or limit the inputs chosen there.

## Not modelled

- `grpc_init`, `grpc_shutdown`, `grpc_ssl_init`, `grpc_ssl_cleanup`: each sets
  or clears a flag.  Byte buffers, credentials, the protobuf functions: an
  allocation and a copy each, with no state between two calls.
- `grpc_server_register_completion_queue` fills an array that nothing reads,
  and `grpc_server_request_call` is a stub.
- `grpc_connection_pool_set_keepalive` and `last_keepalive` decide about pings
  that are not sent yet (`connection_pool.c:107`).
- `grpc_ssl_read` and `grpc_ssl_write` pass on what OpenSSL returns; the end
  of a connection inside `recv_frame` only makes it return -1.
- The sample interceptors and the DNS query itself.  The latter is an answer
  of any length, or a failure.
- The static table of HPACK, which nothing reads.
- The peer's view of a window: a WINDOW_UPDATE that is not sent leaves it
  behind, and no code on this side learns of that.
