----------------------------- MODULE RecvWindow -----------------------------
(***************************************************************************)
(* The receive half of HTTP/2 flow control (flow_control.c): the windows   *)
(* granted to the peer.  http2_flow_control_consume_recv_window charges    *)
(* received data to the connection's window and then to the stream's, and  *)
(* refills a window that falls below half with a WINDOW_UPDATE.            *)
(*                                                                         *)
(* The connection's half of the work is done with conn->write_mutex held,  *)
(* and the WINDOW_UPDATE is sent from there by                             *)
(* http2_connection_send_frame, which returns -1 without a socket and      *)
(* locks write_mutex otherwise.  write_mutex is a default mutex, so that   *)
(* second lock by its owner never returns.                                 *)
(***************************************************************************)
EXTENDS Windows

CONSTANT DataLengths      \* the sizes of the data received

ASSUME RecvWindowAssumption == DataLengths \subseteq Int

VARIABLES
    connected,      \* conn->socket_fd >= 0
    connWindow,     \* conn->local_window_size
    streamWindow,   \* stream->local_window_size
    writeLock,      \* owner of conn->write_mutex, or NoStream
    pc,             \* pc[s]: where the thread of s is in consume_recv_window
    len,            \* len[s]: its data_len, as an int32_t
    refused         \* refused[s]: its latest call returned -1

recvVars == <<connected, connWindow, streamWindow, writeLock, pc, len, refused>>

\* HTTP2_WINDOW_UPDATE_THRESHOLD_PERCENT of the default size.
Threshold == (WindowSize * 50) \div 100

-----------------------------------------------------------------------------
\* http2_flow_control_init_connection and _init_stream.  A connection has no
\* socket (http2_connection_create leaves it at -1), or was given one.
RecvInit ==
    /\ connected \in BOOLEAN
    /\ connWindow = WindowSize
    /\ streamWindow = [s \in Streams |-> WindowSize]
    /\ writeLock = NoStream
    /\ pc = [s \in Streams |-> "idle"]
    /\ len = [s \in Streams |-> 0]
    /\ refused = [s \in Streams |-> FALSE]

\* consume_recv_window returns -1 at once for a length no window can hold.
Call(s, n) ==
    /\ pc[s] = "idle"
    /\ len' = [len EXCEPT ![s] = n]
    /\ IF n < 0 \/ n > WindowSize
         THEN refused' = [refused EXCEPT ![s] = TRUE] /\ UNCHANGED pc
         ELSE pc' = [pc EXCEPT ![s] = "conn"] /\ UNCHANGED refused
    /\ UNCHANGED <<connected, connWindow, streamWindow, writeLock>>

\* Under write_mutex: the connection's window is too small.
Bug_ReturnLocked(s) ==
    /\ pc[s] = "conn"
    /\ writeLock = NoStream
    /\ connWindow < len[s]
    /\ writeLock' = s
    /\ pc' = [pc EXCEPT ![s] = "idle"]
    /\ refused' = [refused EXCEPT ![s] = TRUE]
    /\ UNCHANGED <<connected, connWindow, streamWindow, len>>
ConnRefuses(s) ==
    /\ pc[s] = "conn"
    /\ writeLock = NoStream
    /\ connWindow < len[s]
    /\ pc' = [pc EXCEPT ![s] = "idle"]
    /\ refused' = [refused EXCEPT ![s] = TRUE]
    /\ UNCHANGED <<connected, connWindow, streamWindow, writeLock, len>>

\* Under write_mutex: the window is charged and stays above the threshold,
\* or falls below it and takes the mutex into send_window_update.
ConnCharges(s) ==
    /\ pc[s] = "conn"
    /\ writeLock = NoStream
    /\ connWindow >= len[s]
    /\ connWindow' = connWindow - len[s]
    /\ IF connWindow' < Threshold
         THEN writeLock' = s /\ pc' = [pc EXCEPT ![s] = "update"]
         ELSE UNCHANGED writeLock /\ pc' = [pc EXCEPT ![s] = "stream"]
    /\ UNCHANGED <<connected, streamWindow, len, refused>>

\* http2_connection_send_frame returns -1 without a socket; with one it locks
\* write_mutex, a default mutex, even if its caller holds it.
SendFrameReturns == connected => writeLock = NoStream

\* http2_flow_control_send_window_update sends nothing for an increment of 0.
SendWindowUpdateReturns(increment) == increment = 0 \/ SendFrameReturns

\* The result of send_frame is ignored, and the window is refilled.
Bug_ForgetRefill(s) ==
    /\ pc[s] = "update"
    /\ SendWindowUpdateReturns(WindowSize - connWindow)
    /\ writeLock' = NoStream
    /\ pc' = [pc EXCEPT ![s] = "stream"]
    /\ UNCHANGED <<connected, connWindow, streamWindow, len, refused>>
ConnRefills(s) ==
    /\ pc[s] = "update"
    /\ SendWindowUpdateReturns(WindowSize - connWindow)
    /\ connWindow' = WindowSize
    /\ writeLock' = NoStream
    /\ pc' = [pc EXCEPT ![s] = "stream"]
    /\ UNCHANGED <<connected, streamWindow, len, refused>>

\* The stream's window, touched by its own thread only.  What the connection
\* was charged stays charged when the stream refuses.
StreamRefuses(s) ==
    /\ pc[s] = "stream"
    /\ streamWindow[s] < len[s]
    /\ pc' = [pc EXCEPT ![s] = "idle"]
    /\ refused' = [refused EXCEPT ![s] = TRUE]
    /\ UNCHANGED <<connected, connWindow, streamWindow, writeLock, len>>

\* The stream's WINDOW_UPDATE is sent by a thread that does not hold
\* write_mutex, and waits for it if there is a socket; its result is ignored
\* as well.
Charged(w) == IF w < Threshold THEN WindowSize ELSE w

StreamCharges(s) ==
    /\ pc[s] = "stream"
    /\ streamWindow[s] >= len[s]
    /\ LET left == streamWindow[s] - len[s]
       IN  left < Threshold => SendWindowUpdateReturns(WindowSize - left)
    /\ streamWindow' = [streamWindow EXCEPT ![s] = Charged(@ - len[s])]
    /\ pc' = [pc EXCEPT ![s] = "idle"]
    /\ refused' = [refused EXCEPT ![s] = FALSE]
    /\ UNCHANGED <<connected, connWindow, writeLock, len>>

Steps(s) ==
    \/ ConnRefuses(s)
    \/ ConnCharges(s)
    \/ ConnRefills(s)
    \/ StreamRefuses(s)
    \/ StreamCharges(s)

RecvNext == \E s \in Streams : (\E n \in DataLengths : Call(s, n)) \/ Steps(s)

RecvSpec == RecvInit /\ [][RecvNext]_recvVars

\* A thread inside consume_recv_window keeps running, and gets a mutex that is
\* released again and again.
RecvFairSpec == RecvSpec /\ \A s \in Streams : SF_recvVars(Steps(s))

-----------------------------------------------------------------------------
\* Whenever write_mutex is free the connection's window lies between the
\* threshold and the default size, and so do the streams' windows: data of
\* any admitted length, on any number of streams, neither drives a window
\* negative nor leaves one unreplenished.
WindowsReplenished ==
    /\ writeLock = NoStream => connWindow \in Threshold .. WindowSize
    /\ \A s \in Streams : streamWindow[s] \in Threshold .. WindowSize

\* flow_control.c, http2_flow_control_consume_recv_window: "Send WINDOW_UPDATE
\* if window is getting low" and "@return 0 on success, -1 on error".  A call
\* returns, after the update.
ConsumeReturns == \A s \in Streams : pc[s] # "idle" ~> pc[s] = "idle"

\* A thread sends the connection's WINDOW_UPDATE over a socket, with the mutex
\* held that http2_connection_send_frame is about to lock.  It stays there.
LockedTwice == connected /\ \E s \in Streams : pc[s] = "update" /\ writeLock = s

\* Nothing but that second lock keeps a call of consume_recv_window from
\* returning: without a socket every call returns, and with one every call
\* does until the connection's window falls below the threshold.
ConsumeBlockedOnlyByUpdate ==
    \A s \in Streams : pc[s] # "idle" ~> (pc[s] = "idle" \/ LockedTwice)
=============================================================================
