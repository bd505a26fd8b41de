------------------------------- MODULE Frames -------------------------------
(***************************************************************************)
(* HTTP/2 frames on the socket of a connection (http2_transport.c):        *)
(* threads send frames, header and payload with one send each, while they  *)
(* hold conn->write_mutex; one thread receives them.  A send may write     *)
(* less than it was asked to, and the receiver may be out of memory.       *)
(*                                                                         *)
(* An octet is a digit of base Radix.  The code has octets of base 256,    *)
(* three of them for a length and four for a stream id, whose first bit is *)
(* cleared; the octets of type and flags are one here, since both are      *)
(* copied.  A frame whose length is not 0 is given a payload to send, and  *)
(* the receiver asks for the payload.                                      *)
(***************************************************************************)
EXTENDS Integers, Sequences, Numbers

CONSTANTS
    Writers,        \* the threads that send
    Nobody,         \* no thread
    Radix,          \* values of an octet (256), an even number
    LengthOctets,   \* octets of a length (3)
    IdOctets,       \* octets of a stream id (4)
    FrameSet,       \* the frames sent: a length that its octets hold, type, a
                    \* stream id without the reserved bit, and fill, the octet
                    \* that the payload consists of
    MaxFrames       \* bound: frames sent

ASSUME FramesAssumption ==
    /\ Nobody \notin Writers
    /\ Radix \in Nat /\ Radix > 1 /\ Radix % 2 = 0
    /\ LengthOctets \in Nat \ {0} /\ IdOctets \in Nat \ {0}
    /\ FrameSet \subseteq [length : 0 .. Power(Radix, LengthOctets) - 1,
                            type   : 0 .. Radix - 1,
                            stream : 0 .. (Radix \div 2) * Power(Radix, IdOctets - 1) - 1,
                            fill   : 0 .. Radix - 1]
    /\ MaxFrames \in Nat

VARIABLES
    wire,           \* the octets sent and not yet received
    writeMutex,     \* owner of conn->write_mutex
    sending,        \* sending[t]: the call of http2_connection_send_frame of t
    receiving,      \* the call of http2_connection_recv_frame, likewise
    framesSent,     \* history: the frames sent, in the order of the mutex, up
                    \* to the first that was cut short
    framesGot,      \* history: the frames received, up to the first for which
                    \* there was no memory
    cut,            \* history: a send was cut short
    skipped,        \* history: a payload was left unread
    calls           \* history: calls of send_frame

frameVars == <<wire, writeMutex, sending, receiving, framesSent, framesGot, cut,
               skipped, calls>>

NoCall == [at |-> "idle"]

FramesInit ==
    /\ wire = <<>>
    /\ writeMutex = Nobody
    /\ sending = [t \in Writers |-> NoCall]
    /\ receiving = NoCall
    /\ framesSent = <<>>
    /\ framesGot = <<>>
    /\ cut = FALSE
    /\ skipped = FALSE
    /\ calls = 0

\* A number in so many octets, the most significant first, and back.
Octets(v, n) == [i \in 1 .. n |-> (v \div Power(Radix, n - i)) % Radix]

Number(s) ==
    LET upTo[i \in 0 .. Len(s)] == IF i = 0 THEN 0 ELSE upTo[i - 1] * Radix + s[i]
    IN  upTo[Len(s)]

\* The reserved bit is the first of the first octet.
ClearReserved(s) == [s EXCEPT ![1] = @ % (Radix \div 2)]

HeaderSize == LengthOctets + 1 + IdOctets

HeaderOctets(f) ==
    Octets(f.length, LengthOctets) \o <<f.type>>
        \o ClearReserved(Octets(f.stream, IdOctets))

HeaderOf(s) ==
    [length |-> Number(SubSeq(s, 1, LengthOctets)),
     type   |-> s[LengthOctets + 1],
     stream |-> Number(ClearReserved(SubSeq(s, LengthOctets + 2, HeaderSize)))]

PayloadOf(f) == [i \in 1 .. f.length |-> f.fill]

-----------------------------------------------------------------------------
\* http2_connection_send_frame
SendFrame(t, f) ==
    /\ sending[t] = NoCall
    /\ calls < MaxFrames
    /\ calls' = calls + 1
    /\ sending' = [sending EXCEPT ![t] = [at |-> "header", frame |-> f]]
    /\ UNCHANGED <<wire, writeMutex, receiving, framesSent, framesGot, cut, skipped>>

\* send wrote less than all of it: unlock, and return -1.
CutShort(t, octets) ==
    /\ \E n \in 0 .. Len(octets) - 1 : wire' = wire \o SubSeq(octets, 1, n)
    /\ writeMutex' = Nobody
    /\ sending' = [sending EXCEPT ![t] = NoCall]
    /\ cut' = TRUE
    /\ UNCHANGED framesSent

\* The last octet of a frame is on the wire: unlock, and return 0.
SendReturns(t) ==
    /\ writeMutex' = Nobody
    /\ sending' = [sending EXCEPT ![t] = NoCall]
    /\ framesSent' = IF cut THEN framesSent ELSE Append(framesSent, sending[t].frame)

\* Lock write_mutex and send the header ...
Bug_SendHeader(t) ==
    LET f == sending[t].frame
    IN  /\ sending[t].at = "header"
        /\ writeMutex = Nobody
        /\ wire' = wire \o HeaderOctets(f)
        /\ IF f.length = 0 THEN SendReturns(t)
           ELSE /\ sending' = [sending EXCEPT ![t].at = "payload"]
                /\ UNCHANGED <<writeMutex, framesSent>>
        /\ UNCHANGED <<cut, receiving, framesGot, skipped, calls>>
SendHeader(t) ==
    LET f == sending[t].frame
    IN  /\ sending[t].at = "header"
        /\ writeMutex = Nobody
        /\ \/ /\ wire' = wire \o HeaderOctets(f)
              /\ UNCHANGED cut
              /\ IF f.length = 0 THEN SendReturns(t)
                 ELSE /\ writeMutex' = t
                      /\ sending' = [sending EXCEPT ![t].at = "payload"]
                      /\ UNCHANGED framesSent
           \/ CutShort(t, HeaderOctets(f))
        /\ UNCHANGED <<receiving, framesGot, skipped, calls>>

\* ... and the payload, if there is one.
SendPayload(t) ==
    LET f == sending[t].frame
    IN  /\ sending[t].at = "payload"
        /\ \/ /\ wire' = wire \o PayloadOf(f)
              /\ SendReturns(t)
              /\ UNCHANGED cut
           \/ CutShort(t, PayloadOf(f))
        /\ UNCHANGED <<receiving, framesGot, skipped, calls>>

-----------------------------------------------------------------------------
\* recv waits for all octets it was asked for.
Take(n) == Len(wire) >= n /\ wire' = SubSeq(wire, n + 1, Len(wire))

Got(f) == framesGot' = IF skipped THEN framesGot ELSE Append(framesGot, f)

\* http2_connection_recv_frame: the header ...
RecvHeader ==
    LET h == HeaderOf(wire)
    IN  /\ receiving = NoCall
        /\ Take(HeaderSize)
        /\ IF h.length = 0
             THEN Got([header |-> h, payload |-> <<>>]) /\ UNCHANGED receiving
             ELSE receiving' = [at |-> "payload", header |-> h] /\ UNCHANGED framesGot
        /\ UNCHANGED <<writeMutex, sending, framesSent, cut, skipped, calls>>

\* ... and the payload.
RecvPayload ==
    LET h == receiving.header
    IN  /\ receiving.at = "payload"
        /\ Take(h.length)
        /\ Got([header |-> h, payload |-> SubSeq(wire, 1, h.length)])
        /\ receiving' = NoCall
        /\ UNCHANGED <<writeMutex, sending, framesSent, cut, skipped, calls>>

\* malloc fails: -1, and the payload is still to come.
RecvNoMemory ==
    /\ receiving.at = "payload"
    /\ receiving' = NoCall
    /\ skipped' = TRUE
    /\ UNCHANGED <<wire, writeMutex, sending, framesSent, framesGot, cut, calls>>

FramesNext ==
    \/ \E t \in Writers :
         \/ \E f \in FrameSet : SendFrame(t, f)
         \/ SendHeader(t) \/ SendPayload(t)
    \/ RecvHeader \/ RecvPayload \/ RecvNoMemory

FramesSpec == FramesInit /\ [][FramesNext]_frameVars

-----------------------------------------------------------------------------
\* The frames of several threads reach the receiver whole, each with its own
\* header and payload and never one inside the other, in the order in which
\* write_mutex was taken.  That holds for all frames sent before one is cut
\* short and received before one is skipped; until then nothing else is
\* received, and what is not on its way has been.
FramesIntact ==
    LET Same(f, g) ==
            /\ g.payload = PayloadOf(f)
            /\ g.header = [length |-> f.length, type |-> f.type, stream |-> f.stream]
        n == IF Len(framesSent) < Len(framesGot) THEN Len(framesSent) ELSE Len(framesGot)
    IN  /\ \A i \in 1 .. n : Same(framesSent[i], framesGot[i])
        /\ ~cut => Len(framesGot) <= Len(framesSent)
        /\ ~cut /\ ~skipped /\ wire = <<>> /\ receiving = NoCall =>
             Len(framesGot) = Len(framesSent)
=============================================================================
