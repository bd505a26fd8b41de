------------------------------- MODULE MCWire -------------------------------
(***************************************************************************)
(* What is put on the wire and taken from it: integers, metadata,          *)
(* messages, frames and TLS, and the windows that say how much may be      *)
(* sent.  They share no state in the code but conn->write_mutex, which     *)
(* Frames and RecvWindow model where a thread keeps it for several steps,  *)
(* so that a behaviour is one of them at work, named by subject, while the *)
(* others do nothing.                                                      *)
(***************************************************************************)
EXTENDS IntegerCoding, MCMetadata, Compression, Frames, Tls, SendWindow, RecvWindow

VARIABLE subject

MCProtocols == {h2, <<104>>, <<50, 104>>, <<2, 104, 50>>}

\* A frame with no payload, and one whose length and stream id take two octets
\* and whose payload looks like the header of an empty frame.
MCFrames == {[length |-> 0, type |-> 1, stream |-> 1, fill |-> 0],
             [length |-> 5, type |-> 0, stream |-> 7, fill |-> 0]}

\* Lengths around the edges of an 8-octet window and of its threshold.
EdgeLengths == {-1, 0, 1, 3, 4, 5, 8, 9}

NoCreds == [pair |-> FALSE, cert |-> "absent", key |-> "absent", roots |-> "absent",
            match |-> FALSE]

WireInit ==
    /\ subject \in {"integers", "metadata", "messages", "frames", "tls", "send", "receive"}
    /\ IF subject = "integers" THEN TRUE ELSE prefix = 0 /\ number = 0 /\ bytes = <<>>
    /\ IF subject = "messages" THEN TRUE ELSE message = Plain(0)
    /\ IF subject = "tls" THEN TRUE ELSE side = "client" /\ creds = NoCreds
    /\ IF subject = "receive" THEN TRUE ELSE connected = FALSE
    /\ IntegerInit /\ MetadataInit /\ MessageInit /\ FramesInit /\ TlsInit
    /\ SendInit /\ RecvInit

Work(s, step, others) == subject = s /\ step /\ UNCHANGED <<subject, others>>

codeVars == <<integerVars, metadataVars, messageVars>>
connVars == <<frameVars, tlsVars, sendVars, recvVars>>

WireNext ==
    \/ Work("integers", IntegerNext, <<metadataVars, messageVars, connVars>>)
    \/ Work("metadata", MetadataNext, <<integerVars, messageVars, connVars>>)
    \/ Work("messages", MessageNext, <<integerVars, metadataVars, connVars>>)
    \/ Work("frames", FramesNext, <<codeVars, tlsVars, sendVars, recvVars>>)
    \/ Work("tls", TlsNext, <<codeVars, frameVars, sendVars, recvVars>>)
    \/ Work("send", SendNext, <<codeVars, frameVars, tlsVars, recvVars>>)
    \/ Work("receive", RecvNext, <<codeVars, frameVars, tlsVars, sendVars>>)

wireVars == <<subject, codeVars, connVars>>

\* The loop of decompress_gzip is sequential code and goes on by itself; a
\* thread inside consume_recv_window keeps running, and gets a mutex that is
\* released again and again.
WireSpec ==
    /\ WireInit /\ [][WireNext]_wireVars
    /\ WF_wireVars(Work("messages", MessageStep, <<integerVars, metadataVars, connVars>>))
    /\ \A s \in Streams :
          SF_wireVars(Work("receive", Steps(s), <<codeVars, frameVars, tlsVars, sendVars>>))
=============================================================================
