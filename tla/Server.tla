------------------------------- MODULE Server -------------------------------
(***************************************************************************)
(* The server of grpc_server.c: ports added before the start, a fixed set  *)
(* of worker threads that poll the ports with select and accept, and a     *)
(* shutdown that raises a flag, joins the workers and then notifies a      *)
(* completion queue.                                                       *)
(*                                                                         *)
(* The application's thread calls the grpc_server_ functions one after the *)
(* other ("Thread-safe for configuration before start",                    *)
(* docs/IMPLEMENTATION.md); the workers read the server without its mutex. *)
(* The listening sockets are blocking: a worker whose connection was taken *)
(* by another one between select and accept waits for the next client.     *)
(* What a worker does to a server that has been freed is undefined and   *)
(* not modelled: the worker stays where it was.                            *)
(***************************************************************************)
EXTENDS Integers, FiniteSets

CONSTANTS
    Workers,               \* GRPC_DEFAULT_WORKER_THREADS of them (4)
    MaxPorts,              \* bound: ports
    MaxPending,            \* bound: clients waiting in a port's backlog
    MaxShutdowns           \* bound: calls of shutdown_and_notify

ASSUME ServerAssumption ==
    /\ IsFiniteSet(Workers)
    /\ MaxPorts \in Nat
    /\ MaxPending \in Nat \ {0}
    /\ MaxShutdowns \in Nat

VARIABLES
    ports,            \* server->ports_count
    started,          \* server->started
    shutdownCalled,   \* server->shutdown_called
    threads,          \* server->worker_threads: "NULL" or "array"
    worker,           \* worker[w]: where worker w is, and at which port
    pending,          \* pending[p]: clients in the backlog of port p
    app,              \* where the application is in shutdown_and_notify
    tagged,           \* whether that call was given a queue and a tag
    shutdowns,        \* calls of shutdown_and_notify
    events,           \* events pushed to the completion queue
    serverFreed       \* the server has been destroyed

serverVars == <<ports, started, shutdownCalled, threads, worker, pending, app,
                tagged, shutdowns, events, serverFreed>>
config == <<ports, started, shutdownCalled, threads, app, tagged, shutdowns,
            events, serverFreed>>

Ports == 1 .. MaxPorts

Ended(w) == worker[w].at \in {"none", "ended"}

-----------------------------------------------------------------------------
\* grpc_server_create
ServerInit ==
    /\ ports = 0
    /\ started = FALSE
    /\ shutdownCalled = FALSE
    /\ threads = "NULL"
    /\ worker = [w \in Workers |-> [at |-> "none", port |-> 0]]
    /\ pending = [p \in Ports |-> 0]
    /\ app = "ready"
    /\ tagged = FALSE
    /\ shutdowns = 0
    /\ events = 0
    /\ serverFreed = FALSE

\* grpc_server_add_insecure_http2_port (and _secure_, which calls it), when
\* the socket can be bound; it fails otherwise, or when the server runs.
AddPort ==
    /\ app = "ready"
    /\ ~serverFreed
    /\ ~started
    /\ ports < MaxPorts
    /\ ports' = ports + 1
    /\ UNCHANGED <<started, shutdownCalled, threads, worker, pending, app, tagged,
                   shutdowns, events, serverFreed>>

\* grpc_server_start
Start ==
    /\ app = "ready"
    /\ ~serverFreed
    /\ ~started
    /\ started' = TRUE
    /\ threads' = "array"
    /\ worker' = [w \in Workers |-> [at |-> "loop", port |-> 0]]
    /\ UNCHANGED <<ports, shutdownCalled, pending, app, tagged, shutdowns, events,
                   serverFreed>>

-----------------------------------------------------------------------------
\* server_worker_thread: while (!shutdown_called), for each port.
Bug_NeverLook(w) ==
    /\ worker[w].at = "loop" /\ ~serverFreed
    /\ worker' = [worker EXCEPT ![w] =
                    IF ports = 0 THEN @ ELSE [at |-> "select", port |-> 1]]
    /\ UNCHANGED <<config, pending>>
Loop(w) ==
    /\ worker[w].at = "loop" /\ ~serverFreed
    /\ worker' = [worker EXCEPT ![w] =
                    IF shutdownCalled THEN [at |-> "ended", port |-> 0]
                    ELSE IF ports = 0 THEN @
                    ELSE [at |-> "select", port |-> 1]]
    /\ UNCHANGED <<config, pending>>

\* The end of an iteration of the inner loop.
NextPort(w) ==
    IF worker[w].port < ports THEN [at |-> "select", port |-> worker[w].port + 1]
    ELSE [at |-> "loop", port |-> 0]

\* select returns because a client waits, or after 100 ms without one.
Select(w) ==
    /\ worker[w].at = "select" /\ ~serverFreed
    /\ worker' = [worker EXCEPT ![w] =
                    IF pending[worker[w].port] > 0 THEN [@ EXCEPT !.at = "accept"]
                    ELSE NextPort(w)]
    /\ UNCHANGED <<config, pending>>

\* accept, which blocks while no client waits; the connection is closed.
Accept(w) ==
    /\ worker[w].at = "accept" /\ ~serverFreed
    /\ pending[worker[w].port] > 0
    /\ pending' = [pending EXCEPT ![worker[w].port] = @ - 1]
    /\ worker' = [worker EXCEPT ![w] = NextPort(w)]
    /\ UNCHANGED config

\* A client connects to a listening port (the kernel's backlog).
Connect(p) ==
    /\ ~serverFreed
    /\ p <= ports
    /\ pending[p] < MaxPending
    /\ pending' = [pending EXCEPT ![p] = @ + 1]
    /\ UNCHANGED <<config, worker>>

-----------------------------------------------------------------------------
\* grpc_server_shutdown_and_notify raises the flag under the mutex ...
ShutdownServer(t) ==
    /\ app = "ready"
    /\ ~serverFreed
    /\ shutdowns < MaxShutdowns
    /\ shutdownCalled' = TRUE
    /\ shutdowns' = shutdowns + 1
    /\ tagged' = t
    /\ app' = "joining"
    /\ UNCHANGED <<ports, started, threads, worker, pending, events, serverFreed>>

\* ... joins the workers, one after the other, and frees the array ...
Bug_JoinAny == \E w \in Workers : Ended(w)
AllJoined == \A w \in Workers : Ended(w)

Bug_DetachWorkers ==
    /\ app = "joining"
    /\ threads' = "NULL"
    /\ app' = "notifying"
    /\ UNCHANGED <<ports, started, shutdownCalled, worker, pending, tagged,
                   shutdowns, events, serverFreed>>
JoinWorkers ==
    /\ app = "joining"
    /\ threads = "array" => AllJoined
    /\ threads' = "NULL"
    /\ app' = "notifying"
    /\ UNCHANGED <<ports, started, shutdownCalled, worker, pending, tagged,
                   shutdowns, events, serverFreed>>

\* ... and pushes an event, if it was given a queue and a tag.
Notify ==
    /\ app = "notifying"
    /\ events' = IF tagged THEN events + 1 ELSE events
    /\ app' = "ready"
    /\ UNCHANGED <<ports, started, shutdownCalled, threads, worker, pending, tagged,
                   shutdowns, serverFreed>>

\* grpc_server_destroy closes the ports and frees the server, in whatever
\* state that is.
DestroyServer ==
    /\ app = "ready"
    /\ ~serverFreed
    /\ serverFreed' = TRUE
    /\ pending' = [p \in Ports |-> 0]
    /\ UNCHANGED <<ports, started, shutdownCalled, threads, worker, app, tagged,
                   shutdowns, events>>

WorkerStep(w) == Loop(w) \/ Select(w) \/ Accept(w)

ServerNext ==
    \/ AddPort
    \/ Start
    \/ \E w \in Workers : WorkerStep(w)
    \/ \E p \in Ports : Connect(p)
    \/ \E t \in BOOLEAN : ShutdownServer(t)
    \/ JoinWorkers
    \/ Notify
    \/ DestroyServer

ServerSpec == ServerInit /\ [][ServerNext]_serverVars

\* Threads that can run do; the application and the clients need not act.
ServerFairSpec ==
    /\ ServerSpec
    /\ \A w \in Workers : WF_serverVars(WorkerStep(w))
    /\ WF_serverVars(JoinWorkers)
    /\ WF_serverVars(Notify)

-----------------------------------------------------------------------------
\* The workers read the server without its mutex.  Once shutdown_and_notify has
\* disposed of their array, or before there was one, none of them runs: a
\* server that grpc_server_destroy frees in that state is not in use.
NoWorkerOnFreedServer == serverFreed /\ threads = "NULL" => \A w \in Workers : Ended(w)

\* docs/API.md, grpc_server_destroy: "Precondition: The server must be shut down
\* first", and no other: no worker reads a server that was shut down and freed.
ShutdownSufficesToDestroy ==
    serverFreed /\ shutdownCalled => \A w \in Workers : Ended(w)

\* The completion queue hears of the shutdown only when the workers have left
\* their ports: no client is accepted after the notification, not even if the
\* server is started then.
NotifiedWhenQuiet ==
    events > 0 => \A w \in Workers : worker[w].at \notin {"select", "accept"}

\* IMPLEMENTATION.md: "Graceful shutdown".  grpc_server_shutdown_and_notify
\* returns.
ShutdownReturns == app = "joining" ~> app = "ready"

\* A worker is in accept on a port with no client to accept.
Starved == \E w \in Workers : worker[w].at = "accept" /\ pending[worker[w].port] = 0

\* grpc_server_shutdown_and_notify returns unless, from some moment on, there
\* is always a worker in accept that no client comes for: nothing else keeps it
\* from returning, however many clients connect, and whoever takes them.
ShutdownWaitsOnlyForClients ==
    ShutdownReturns \/ <>[](app = "joining" /\ Starved)
=============================================================================
