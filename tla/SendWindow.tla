----------------------------- MODULE SendWindow -----------------------------
(***************************************************************************)
(* The send half of HTTP/2 flow control (flow_control.c): the windows that *)
(* say how much the peer still accepts, on the connection and on each      *)
(* stream.  The thread of a stream asks http2_flow_control_can_send, sends *)
(* and reports it with http2_flow_control_consume_send_window; the thread  *)
(* that reads frames hands WINDOW_UPDATEs to                               *)
(* http2_flow_control_receive_window_update.                               *)
(*                                                                         *)
(* The connection's window is only touched with conn->write_mutex held, so *)
(* an access to it is one step.  A stream's window is updated by the       *)
(* reader with streams_mutex held and by the stream's own thread with no   *)
(* mutex: that race is modelled as a load and a store on either side.      *)
(***************************************************************************)
EXTENDS Windows

CONSTANTS
    IntMax,        \* the largest int32_t (2^31 - 1)
    Sizes,         \* the sizes of the messages sent
    Increments,    \* the increments of the WINDOW_UPDATEs received
    MaxUpdates,    \* bound: WINDOW_UPDATEs received
    MaxSends       \* bound: messages sent on a stream

ASSUME SendWindowAssumption ==
    /\ "conn" \notin Streams
    /\ IntMax \in Nat \ {0}
    /\ WindowSize <= IntMax
    /\ Sizes \subseteq 0 .. 2 * IntMax + 1
    /\ Increments \subseteq 0 .. 2 * IntMax + 1
    /\ MaxUpdates \in Nat
    /\ MaxSends \in Nat

VARIABLES
    connRemote,     \* conn->remote_window_size
    streamRemote,   \* stream->remote_window_size
    registered,     \* the streams in conn->streams
    writer,         \* the thread of each stream: where it is and its locals
    reader,         \* the thread that handles WINDOW_UPDATEs, likewise
    answer,         \* what receive_window_update returned last
    sends,          \* sends[s]: messages sent on s
    updates,        \* WINDOW_UPDATEs received
    spent,          \* history: octets sent, on each stream and on "conn"
    granted,        \* history: octets granted by the peer, likewise
    overlapped      \* history: two threads were between the start of can_send
                    \* and consume_send_window at the same time

sendVars == <<connRemote, streamRemote, registered, writer, reader, answer, sends,
              updates, spent, granted, overlapped>>

\* The value an int32_t gets: the sum is computed in uint32_t and converted.
Wrap(x) == ((x + IntMax + 1) % (2 * (IntMax + 1))) - (IntMax + 1)

Idle == [at |-> "idle", len |-> 0, seen |-> 0]
AtRest == [at |-> "idle", stream |-> NoStream, inc |-> 0, seen |-> 0]

-----------------------------------------------------------------------------
\* http2_flow_control_init_connection and _init_stream.
SendInit ==
    /\ connRemote = WindowSize
    /\ streamRemote = [s \in Streams |-> WindowSize]
    /\ registered = Streams
    /\ writer = [s \in Streams |-> Idle]
    /\ reader = AtRest
    /\ answer = 0
    /\ sends = [s \in Streams |-> 0]
    /\ updates = 0
    /\ spent = [x \in Streams \cup {"conn"} |-> 0]
    /\ granted = [x \in Streams \cup {"conn"} |-> 0]
    /\ overlapped = FALSE

\* http2_flow_control_can_send reads the connection's window ...
CanSend(s, n) ==
    /\ writer[s].at = "idle"
    /\ s \in registered
    /\ sends[s] < MaxSends
    /\ writer' = [writer EXCEPT ![s] = [at |-> "asking", len |-> n, seen |-> connRemote]]
    /\ overlapped' = \/ overlapped
                     \/ \E r \in Streams \ {s} : writer[r].at \in {"asking", "sending"}
    /\ UNCHANGED <<connRemote, streamRemote, registered, reader, answer, sends,
                   updates, spent, granted>>

\* ... then the stream's, and compares both with (int32_t)data_len.  The
\* caller sends on a 1.
Bug_EitherWindow(s) ==
    Wrap(writer[s].len) <= writer[s].seen \/ Wrap(writer[s].len) <= streamRemote[s]
EnoughSpace(s) ==
    Wrap(writer[s].len) <= writer[s].seen /\ Wrap(writer[s].len) <= streamRemote[s]

CanSendReturns(s) ==
    /\ writer[s].at = "asking"
    /\ writer' = [writer EXCEPT ![s] = IF EnoughSpace(s) THEN [@ EXCEPT !.at = "sending"]
                                       ELSE Idle]
    /\ UNCHANGED <<connRemote, streamRemote, registered, reader, answer, sends,
                   updates, spent, granted, overlapped>>

\* http2_flow_control_consume_send_window charges the connection ...
Bug_UseStaleWindow(s) == connRemote' = Wrap(writer[s].seen - writer[s].len)
ChargeConnWindow(s) == connRemote' = Wrap(connRemote - writer[s].len)

ConsumeSendConn(s) ==
    /\ writer[s].at = "sending"
    /\ ChargeConnWindow(s)
    /\ writer' = [writer EXCEPT ![s].at = "charging"]
    /\ sends' = [sends EXCEPT ![s] = @ + 1]
    /\ spent' = [spent EXCEPT ![s] = @ + writer[s].len, !["conn"] = @ + writer[s].len]
    /\ UNCHANGED <<streamRemote, registered, reader, answer, updates, granted, overlapped>>

\* ... and then, without a mutex, the stream: a load and a store.
ConsumeSendLoad(s) ==
    /\ writer[s].at = "charging"
    /\ writer' = [writer EXCEPT ![s].at = "storing", ![s].seen = streamRemote[s]]
    /\ UNCHANGED <<connRemote, streamRemote, registered, reader, answer, sends,
                   updates, spent, granted, overlapped>>

ConsumeSendStore(s) ==
    /\ writer[s].at = "storing"
    /\ streamRemote' = [streamRemote EXCEPT ![s] = Wrap(writer[s].seen - writer[s].len)]
    /\ writer' = [writer EXCEPT ![s] = Idle]
    /\ UNCHANGED <<connRemote, registered, reader, answer, sends, updates, spent,
                   granted, overlapped>>

-----------------------------------------------------------------------------
\* The code's test for an overflow, on the int32_t that was just stored.
Overflowed(w) == w > IntMax

\* http2_flow_control_receive_window_update refuses such an increment.
BadIncrement(n) == n = 0 \/ n > IntMax

ReceiveBadUpdate(n) ==
    /\ reader.at = "idle"
    /\ updates < MaxUpdates
    /\ BadIncrement(n)
    /\ answer' = -1
    /\ updates' = updates + 1
    /\ UNCHANGED <<connRemote, streamRemote, registered, writer, reader, sends,
                   spent, granted, overlapped>>

\* Stream id 0: the connection's window, under write_mutex.
RaiseConnWindow(n) == connRemote' = Wrap(connRemote + n)

ReceiveConnUpdate(n) ==
    /\ reader.at = "idle"
    /\ updates < MaxUpdates
    /\ ~BadIncrement(n)
    /\ RaiseConnWindow(n)
    /\ answer' = IF Overflowed(connRemote') THEN -1 ELSE 0
    /\ updates' = updates + 1
    /\ granted' = [granted EXCEPT !["conn"] = @ + n]
    /\ UNCHANGED <<streamRemote, registered, writer, reader, sends, spent, overlapped>>

\* Otherwise the stream is looked up under streams_mutex; an id that is not
\* in the table is ignored.
ReceiveUnknownUpdate(s, n) ==
    /\ reader.at = "idle"
    /\ updates < MaxUpdates
    /\ ~BadIncrement(n)
    /\ s \notin registered
    /\ answer' = 0
    /\ updates' = updates + 1
    /\ UNCHANGED <<connRemote, streamRemote, registered, writer, reader, sends,
                   spent, granted, overlapped>>

ReceiveStreamLoad(s, n) ==
    /\ reader.at = "idle"
    /\ updates < MaxUpdates
    /\ ~BadIncrement(n)
    /\ s \in registered
    /\ reader' = [at |-> "storing", stream |-> s, inc |-> n, seen |-> streamRemote[s]]
    /\ updates' = updates + 1
    /\ granted' = [granted EXCEPT ![s] = @ + n]
    /\ UNCHANGED <<connRemote, streamRemote, registered, writer, answer, sends, spent,
                   overlapped>>

ReceiveStreamStore ==
    /\ reader.at = "storing"
    /\ streamRemote' = [streamRemote EXCEPT ![reader.stream] = Wrap(reader.seen + reader.inc)]
    /\ answer' = IF Overflowed(streamRemote'[reader.stream]) THEN -1 ELSE 0
    /\ reader' = AtRest
    /\ UNCHANGED <<connRemote, registered, writer, sends, updates, spent, granted,
                   overlapped>>

\* http2_stream_destroy by the stream's thread, between two messages.  It
\* takes streams_mutex, so it waits for the reader to leave the table.
Bug_DestroyUnlocked(s) ==
    /\ writer[s].at = "idle"
    /\ s \in registered
    /\ registered' = registered \ {s}
    /\ UNCHANGED <<connRemote, streamRemote, writer, reader, answer, sends,
                   updates, spent, granted, overlapped>>
StreamDestroy(s) ==
    /\ writer[s].at = "idle"
    /\ s \in registered
    /\ reader.at = "idle"
    /\ registered' = registered \ {s}
    /\ UNCHANGED <<connRemote, streamRemote, writer, reader, answer, sends,
                   updates, spent, granted, overlapped>>

SendNext ==
    \/ \E s \in Streams :
         \/ \E n \in Sizes : CanSend(s, n)
         \/ CanSendReturns(s)
         \/ ConsumeSendConn(s)
         \/ ConsumeSendLoad(s)
         \/ ConsumeSendStore(s)
         \/ StreamDestroy(s)
         \/ \E n \in Increments : ReceiveUnknownUpdate(s, n) \/ ReceiveStreamLoad(s, n)
    \/ \E n \in Increments : ReceiveBadUpdate(n) \/ ReceiveConnUpdate(n)
    \/ ReceiveStreamStore

SendSpec == SendInit /\ [][SendNext]_sendVars

-----------------------------------------------------------------------------
\* Whatever the order of sends on several streams and of WINDOW_UPDATEs, no
\* change of the connection's window is lost: it is what the peer granted
\* less what was sent (as an int32_t).
ConnWindowExact ==
    connRemote = Wrap(WindowSize + granted["conn"] - spent["conn"])

\* The reader stores into the window of a stream only while that stream is in
\* the table: http2_stream_destroy cannot free it between lookup and store.
NoUpdateOfFreedStream == reader.at = "storing" => reader.stream \in registered

\* flow_control.c, http2_flow_control_can_send: "Both connection and stream
\* windows must have enough space".  can_send and consume_send_window lock
\* write_mutex separately, so two threads may be let through on the same
\* credit; unless that has happened, no more is sent on the connection than
\* its peer has granted.
CreditRespectedUnlessOverlap ==
    overlapped \/ spent["conn"] <= WindowSize + granted["conn"]

\* flow_control.c, http2_flow_control_receive_window_update: "Check for
\* overflow", and return -1.  An update of the connection that exceeds the
\* largest window is answered with an error.
OverflowReported ==
    [][granted'["conn"] # granted["conn"]
         /\ connRemote + (granted'["conn"] - granted["conn"]) > IntMax
       => answer' = -1]_sendVars
=============================================================================
