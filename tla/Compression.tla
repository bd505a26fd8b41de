---------------------------- MODULE Compression ----------------------------
(***************************************************************************)
(* grpc_compress_data and grpc_decompress_data (compression.c): a message  *)
(* is compressed, here or by the peer, and decompressed, possibly damaged  *)
(* in between.                                                             *)
(*                                                                         *)
(* What zlib does to the bytes is external: data is a record of its form   *)
(* ("plain" or "gzip"), its length, the length of the plain text, and      *)
(* whether it is complete.  The loop that grows the output buffer, the     *)
(* size_t lengths cut to the uInt of zlib's avail_in and avail_out, the    *)
(* life of buffer and stream, and every early return are those of the      *)
(* code.  "gzip" stands for "deflate" too, which calls the same functions. *)
(***************************************************************************)
EXTENDS Integers

CONSTANTS
    Lengths,        \* lengths of the message; 0 is one of them
    PackedLengths,  \* lengths of a compressed message
    UIntMod,        \* values of zlib's uInt (2^32)
    MaxBuffer       \* a larger buffer cannot be allocated

ASSUME CompressionAssumption ==
    /\ Lengths \subseteq Nat /\ PackedLengths \subseteq Nat \ {0}
    /\ UIntMod \in Nat \ {0} /\ MaxBuffer \in Nat

VARIABLES
    call,        \* the algorithm of the call and what it is doing
    input,       \* the input of the call
    produced,    \* stream.total_out, what inflate has written
    room,        \* stream.avail_out
    offset,      \* stream.next_out - *output
    hole,        \* history: inflate has left out a part of the buffer
    size,        \* *output_len while decompressing
    output,      \* *output: NULL, a buffer, freed, or the result
    stream,      \* whether the z_stream is initialised
    message      \* the message that was compressed

inflateVars == <<produced, room, offset, hole, size, stream>>
messageVars == <<call, input, inflateVars, output, message>>

Plain(n) == [form |-> "plain", len |-> n, plain |-> n, complete |-> TRUE]
Gzip(len, n) == [form |-> "gzip", len |-> len, plain |-> n, complete |-> TRUE]
NoOutput == [form |-> "null"]
Buffer == [form |-> "buffer"]
Freed == [form |-> "freed"]
Damaged == [form |-> "damaged"]

MessageInit ==
    /\ \E n \in Lengths : message = Plain(n)
    /\ input = message
    /\ call = [algorithm |-> "none", at |-> "idle"]
    /\ produced = 0 /\ room = 0 /\ offset = 0 /\ hole = FALSE /\ size = 0
    /\ output = NoOutput
    /\ stream = "none"

Finish(r) == call' = [call EXCEPT !.at = r]

\* compress_gzip.  deflate sees the first input_len % 2^32 bytes; the buffer is
\* compressBound + 12 long, and unless its length is cut to too small an
\* avail_out, Z_FINISH ends the stream; every failure frees the buffer.
Compress(algorithm) ==
    /\ call.at = "idle"
    /\ call' = [algorithm |-> algorithm, at |-> "packed"]
    /\ IF algorithm = "identity" THEN output' = input
       ELSE /\ input.len > 0
            /\ \E n \in PackedLengths : output' = Gzip(n, input.len % UIntMod)
    /\ UNCHANGED <<input, inflateVars, message>>

\* -1: no memory, deflateInit2 or deflate fails, an empty input to gzip, or an
\* algorithm that is not known.
CompressFails(algorithm) ==
    /\ call.at = "idle"
    /\ call' = [algorithm |-> algorithm, at |-> "failed"]
    /\ UNCHANGED <<input, inflateVars, output, message>>

\* The compressed message reaches the other side, whole or cut short.
Transfer ==
    /\ call.at = "packed"
    /\ \/ input' = output
       \/ \E n \in 0 .. output.len - 1 :
             input' = [output EXCEPT !.len = n, !.complete = FALSE]
    /\ output' = NoOutput
    /\ Finish("received")
    /\ UNCHANGED <<inflateVars, message>>

\* A peer that compresses with another program; its message may be empty.
PeerSends ==
    /\ call.at = "idle"
    /\ \E n \in PackedLengths : input' = Gzip(n, message.len)
    /\ call' = [algorithm |-> "gzip", at |-> "received"]
    /\ UNCHANGED <<inflateVars, output, message>>

-----------------------------------------------------------------------------
\* grpc_decompress_data, "identity": a copy.
DecompressIdentity ==
    /\ call = [algorithm |-> "identity", at |-> "received"]
    /\ \/ output' = input /\ Finish("done")
       \/ output' = NoOutput /\ Finish("failed")
    /\ UNCHANGED <<input, inflateVars, message>>

\* decompress_gzip up to its loop: a buffer of four times the input.
InflateInit ==
    /\ call = [algorithm |-> "gzip", at |-> "received"]
    /\ \/ /\ input.len > 0
          /\ 4 * input.len <= MaxBuffer
          /\ size' = 4 * input.len
          /\ room' = (4 * input.len) % UIntMod
          /\ output' = Buffer
          /\ stream' = "open"
          /\ Finish("inflating")
       \/ /\ output' = NoOutput       \* empty input, malloc or inflateInit2 fails
          /\ Finish("failed")
          /\ UNCHANGED <<size, room, stream>>
    /\ UNCHANGED <<input, produced, offset, hole, message>>

\* Whether avail_in, cut to a uInt, covers the whole of a complete input, and
\* what the input decompresses to: all of it, or what a part of it holds.
Covered == input.complete /\ input.len < UIntMod
Inflatable == IF Covered THEN {input.plain} ELSE 0 .. input.plain

\* inflate writes n bytes at next_out.
Inflate(n) ==
    /\ produced' = produced + n
    /\ room' = room - n
    /\ offset' = offset + n
    /\ hole' = (hole \/ (n > 0 /\ offset # produced))
    /\ UNCHANGED <<input, size, output, stream, message>>

\* inflate returns Z_OK: it has filled the buffer or used up its input.
InflateSome(total) ==
    LET n == IF total - produced < room THEN total - produced ELSE room
    IN  /\ call.at = "inflating"
        /\ n > 0
        /\ Covered => n = room
        /\ Inflate(n)
        /\ UNCHANGED call

\* inflate returns Z_STREAM_END, which may be with the buffer exactly full.
InflateToEnd ==
    /\ call.at = "inflating"
    /\ Covered
    /\ input.plain - produced <= room
    /\ Inflate(input.plain - produced)
    /\ Finish("inflated")

\* inflate fails (Z_DATA_ERROR, Z_MEM_ERROR...) or realloc does.
InflateFails ==
    /\ call.at = "inflating"
    /\ stream' = "none" /\ output' = NoOutput /\ Finish("failed")
    /\ UNCHANGED <<input, produced, room, offset, hole, size, message>>

\* Z_BUF_ERROR with no room: the buffer is doubled, and inflate continues at
\* the end of the old one.
Bug_GrownSize(s) == s
GrownSize(s) == 2 * s

InflateGrows ==
    /\ call.at = "inflating"
    /\ room = 0
    /\ GrownSize(size) <= MaxBuffer
    /\ size' = GrownSize(size)
    /\ offset' = size
    /\ room' = (size' - size) % UIntMod
    /\ UNCHANGED <<call, input, produced, hole, output, stream, message>>

CannotGrow == room = 0 /\ GrownSize(size) > MaxBuffer /\ InflateFails

\* Z_BUF_ERROR with room left: the input ends too early.
Bug_InputEnds ==
    /\ call.at = "inflating"
    /\ ~Covered /\ room > 0
    /\ Finish("inflated")
    /\ UNCHANGED <<input, inflateVars, output, message>>
InputEnds == ~Covered /\ room > 0 /\ InflateFails

\* inflateEnd, and the buffer is cut to total_out.  glibc's realloc frees the
\* buffer when that is 0 and returns NULL, so that *output keeps its address.
InflateEnd ==
    /\ call.at = "inflated"
    /\ stream' = "none"
    /\ output' = IF produced = 0 THEN Freed ELSE IF hole THEN Damaged ELSE Plain(produced)
    /\ Finish("done")
    /\ UNCHANGED <<input, produced, room, offset, hole, size, message>>

\* A step of grpc_decompress_data that happens unless another one fails.
MessageStep ==
    \/ DecompressIdentity \/ InflateInit
    \/ \E total \in Inflatable : InflateSome(total)
    \/ InflateToEnd \/ InflateGrows \/ CannotGrow \/ InputEnds \/ InflateEnd

MessageNext ==
    \/ \E a \in {"identity", "gzip"} : Compress(a) \/ CompressFails(a)
    \/ Transfer \/ PeerSends
    \/ MessageStep
    \/ InflateFails

MessageSpec == MessageInit /\ [][MessageNext]_messageVars

-----------------------------------------------------------------------------
\* The lengths zlib is given fit into its uInt: the message's, and that of the
\* first buffer.
LengthsFit == message.len < UIntMod /\ 4 * input.len < UIntMod

\* A decompression that reports success while the lengths fit has produced the
\* whole message (with gzip; with identity it produced what it was given),
\* whatever the message's length is to the buffer's, and whatever part of the
\* input is missing; for an empty message the caller is left with a buffer
\* that has been freed.  Of any length, inflate is never given room behind the
\* end of the buffer, a call that fails leaves no output, and no call leaves a
\* z_stream behind.
MessageSurvives ==
    /\ call.at = "done" /\ call.algorithm = "identity" => output = input
    /\ call.at = "done" /\ call.algorithm = "gzip" /\ LengthsFit =>
         output = IF message.len = 0 THEN Freed ELSE message
    /\ offset + room <= size
    /\ call.at = "failed" => output = NoOutput
    /\ call.at \notin {"inflating", "inflated"} => stream = "none"

\* The loop of decompress_gzip ends, with damaged input too, and with lengths
\* that do not fit.
DecompressReturns == call.at = "received" ~> call.at \in {"done", "failed"}
=============================================================================
