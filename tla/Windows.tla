------------------------------ MODULE Windows ------------------------------
(***************************************************************************)
(* What the two halves of flow control have in common: the streams of a    *)
(* connection and the size a window starts with (http2_flow_control_init_  *)
(* connection and _init_stream in flow_control.c).                         *)
(***************************************************************************)
EXTENDS Integers

CONSTANTS
    Streams,      \* the streams of the connection, with one thread each
    NoStream,         \* no stream
    WindowSize    \* HTTP2_DEFAULT_WINDOW_SIZE (65535)

ASSUME WindowsAssumption ==
    /\ NoStream \notin Streams
    /\ WindowSize \in Nat \ {0}
=============================================================================
