---------------------------- MODULE SocketProofs ----------------------------
(***************************************************************************)
(* Proofs about the sockets of a server: compressed messages of any        *)
(* length; the threads that accept connections, for any number of ports    *)
(* and workers; and the frames on a connection, of any lengths and from    *)
(* any number of threads.                                                  *)
(***************************************************************************)
EXTENDS Server, Frames, Compression, Induction

-----------------------------------------------------------------------------
\* A uInt holds a number that fits, and never more than it is given.
LEMMA CutToUInt ==
    ASSUME NEW x \in Nat
    PROVE  /\ x % UIntMod \in Nat /\ x % UIntMod <= x
           /\ x < UIntMod => x % UIntMod = x
<1>1. UIntMod \in Nat \ {0}
  BY CompressionAssumption, Zenon
<1>2. x % UIntMod \in 0 .. UIntMod - 1
  BY <1>1, Remainder
<1>3. x < UIntMod => x % UIntMod = x
  <2>1. SUFFICES ASSUME x < UIntMod PROVE x % UIntMod = x
    OBVIOUS
  <2>2. (0 * UIntMod + x) % UIntMod = x
    <3>1. x \in 0 .. UIntMod - 1
      BY <1>1, <2>1
    <3> QED BY <1>1, <3>1, RemainderUnique
  <2>3. 0 * UIntMod + x = x
    BY <1>1
  <2> QED BY <2>2, <2>3, Zenon
<1> QED BY <1>1, <1>2, <1>3

\* The numbers of the loop: inflate's room lies in the buffer, and while the
\* lengths fit, what it has written lies without a gap before that room.
BufferInv ==
    /\ produced \in Nat /\ room \in Nat /\ offset \in Nat /\ size \in Nat /\ hole \in BOOLEAN
    /\ offset + room <= size
    /\ call.at \in {"idle", "packed", "received"} =>
         produced = 0 /\ room = 0 /\ offset = 0 /\ size = 0 /\ ~hole
    /\ call.at \in {"inflating", "inflated"} /\ LengthsFit =>
         ~hole /\ offset = produced /\ produced + room = size
    /\ call.at \in {"inflating", "inflated"} => produced <= input.plain
    /\ call.at = "inflated" => produced = input.plain

\* The input of decompress_gzip: its plain text is the message, unless deflate
\* was given less than the message.
InputInv ==
    call.at \in {"received", "inflating", "inflated"} /\ call.algorithm = "gzip" =>
        /\ input.len \in Nat /\ input.plain \in Nat
        /\ message.len < UIntMod => input.plain = message.len

\* What is in hand at each point: the message, its compressed form, a buffer.
MessageInv ==
    /\ message.len \in Nat /\ message = Plain(message.len)
    /\ call \in [algorithm : {"none", "identity", "gzip"},
                 at : {"idle", "packed", "received", "inflating", "inflated", "done", "failed"}]
    /\ call.at = "idle" => input = message /\ output = NoOutput
    /\ call.at = "packed" /\ call.algorithm = "gzip" =>
         \E n \in Nat : output = Gzip(n, message.len % UIntMod)
    /\ call.at \in {"inflating", "inflated"} => call.algorithm = "gzip"
    /\ call.at \notin {"inflating", "inflated"} => stream = "none"
    /\ call.at = "done" /\ call.algorithm = "identity" => output = input
    /\ call.at = "done" /\ call.algorithm = "gzip" /\ LengthsFit =>
         output = IF message.len = 0 THEN Freed ELSE message
    /\ call.at = "failed" => output = NoOutput

DecompressInv == MessageInv /\ InputInv /\ BufferInv

\* The message before it is compressed.
LEMMA MessageStart == MessageInit => DecompressInv
<1> SUFFICES ASSUME MessageInit PROVE DecompressInv
  OBVIOUS
<1>1. PICK n \in Lengths : message = Plain(n)
  BY Zenon DEF MessageInit
<1>2. n \in Nat /\ message.len = n
  BY <1>1, CompressionAssumption DEF Plain
<1>3. MessageInv
  BY <1>1, <1>2, Zenon DEF MessageInit, MessageInv
<1>4. InputInv
  BY Zenon DEF MessageInit, InputInv
<1>5. BufferInv
  <2>1. 0 \in Nat /\ 0 + 0 <= 0
    OBVIOUS
  <2> QED BY <2>1, Zenon DEF MessageInit, BufferInv
<1> QED BY <1>3, <1>4, <1>5, Zenon DEF DecompressInv

\* Compressing keeps the invariant, whether it succeeds or fails,
LEMMA CompressStep ==
    ASSUME DecompressInv, NEW a \in {"identity", "gzip"}, Compress(a) \/ CompressFails(a)
    PROVE  DecompressInv'
<1> USE DEF DecompressInv
<1>1. call'.at \in {"packed", "failed"} /\ call.at = "idle" /\ UNCHANGED <<input, inflateVars, message>>
  <2>1. CASE Compress(a)
    BY <2>1, Zenon DEF Compress
  <2>2. CASE CompressFails(a)
    BY <2>2, Zenon DEF CompressFails
  <2> QED BY <2>1, <2>2, Zenon
<1>2. InputInv' /\ BufferInv'
  BY <1>1, Zenon DEF InputInv, BufferInv, inflateVars
<1>3. CASE Compress(a) /\ a = "identity"
  BY <1>2, <1>3, Zenon DEF Compress, MessageInv, inflateVars
<1>4. CASE Compress(a) /\ a = "gzip"
  <2>1. PICK n \in PackedLengths : output' = Gzip(n, input.len % UIntMod)
    BY <1>4, Zenon DEF Compress
  <2>2. n \in Nat
    BY CompressionAssumption
  <2>3. input = message
    BY <1>1, Zenon DEF MessageInv
  <2> QED BY <1>2, <1>4, <2>1, <2>2, <2>3, Zenon DEF Compress, MessageInv, inflateVars
<1>5. CASE CompressFails(a)
  BY <1>2, <1>5, Zenon DEF CompressFails, MessageInv, inflateVars
<1> QED BY <1>3, <1>4, <1>5, Zenon

\* and so do damage on the way,
LEMMA TransferStep ==
    ASSUME DecompressInv, Transfer
    PROVE  DecompressInv'
<1> USE DEF DecompressInv
<1>1. /\ call.at = "packed" /\ call'.at = "received" /\ call'.algorithm = call.algorithm
      /\ call' \in [algorithm : {"none", "identity", "gzip"},
                    at : {"idle", "packed", "received", "inflating", "inflated", "done", "failed"}]
      /\ UNCHANGED <<inflateVars, message>>
  BY Zenon DEF Transfer, Finish, MessageInv
<1>2. MessageInv' /\ BufferInv'
  BY <1>1, Zenon DEF MessageInv, BufferInv, inflateVars
<1>3. ASSUME call.algorithm = "gzip"
      PROVE  /\ input'.len \in Nat /\ input'.plain \in Nat
             /\ message.len < UIntMod => input'.plain = message.len
  <2>1. PICK n \in Nat : output = Gzip(n, message.len % UIntMod)
    BY <1>1, <1>3, Zenon DEF MessageInv
  <2>2. output.len = n /\ output.plain = message.len % UIntMod
    BY <2>1, Zenon DEF Gzip
  <2>3. input'.len \in Nat /\ input'.plain = message.len % UIntMod
    <3>1. CASE input' = output
      BY <2>2, <3>1, Zenon
    <3>2. CASE \E k \in 0 .. output.len - 1 : input' = [output EXCEPT !.len = k, !.complete = FALSE]
      <4>1. PICK k \in 0 .. n - 1 : input' = [output EXCEPT !.len = k, !.complete = FALSE]
        BY <2>2, <3>2, Zenon
      <4>2. input'.len = k /\ input'.plain = message.len % UIntMod
        BY <2>1, <4>1, Zenon DEF Gzip
      <4>3. k \in Nat
        OBVIOUS
      <4> QED BY <4>2, <4>3, Zenon
    <3> QED BY <3>1, <3>2, Zenon DEF Transfer
  <2> QED BY <2>3, CutToUInt, Zenon DEF MessageInv
<1>4. InputInv'
  BY <1>1, <1>3, Zenon DEF InputInv
<1> QED BY <1>2, <1>4, Zenon

\* and a message from another program.
LEMMA PeerStep ==
    ASSUME DecompressInv, PeerSends
    PROVE  DecompressInv'
<1> USE DEF DecompressInv
<1>1. PICK n \in PackedLengths : input' = Gzip(n, message.len)
  BY Zenon DEF PeerSends
<1>2. n \in Nat /\ input'.len = n /\ input'.plain = message.len
  BY <1>1, CompressionAssumption DEF Gzip
<1>3. MessageInv'
  BY Zenon DEF PeerSends, MessageInv, inflateVars
<1>4. InputInv'
  BY <1>2, Zenon DEF PeerSends, MessageInv, InputInv
<1>5. BufferInv'
  BY Zenon DEF PeerSends, BufferInv, inflateVars
<1> QED BY <1>3, <1>4, <1>5, Zenon

\* What inflate writes keeps the numbers of the loop in order.
LEMMA InflateWrites ==
    ASSUME BufferInv, NEW n \in Nat, n <= room, Inflate(n),
           input.plain \in Nat, produced + n <= input.plain,
           call.at = "inflating", call'.at \in {"inflating", "inflated"},
           call'.at = "inflated" => produced + n = input.plain
    PROVE  BufferInv'
<1>1. /\ produced \in Nat /\ room \in Nat /\ offset \in Nat /\ size \in Nat /\ hole \in BOOLEAN
      /\ offset + room <= size
      /\ LengthsFit => ~hole /\ offset = produced /\ produced + room = size
  BY Zenon DEF BufferInv
<1>2. /\ produced' = produced + n /\ room' = room - n /\ offset' = offset + n /\ size' = size
      /\ hole' = (hole \/ (n > 0 /\ offset # produced))
      /\ input' = input /\ message' = message
  BY Zenon DEF Inflate
<1>3. /\ produced' \in Nat /\ room' \in Nat /\ offset' \in Nat /\ size' \in Nat
      /\ offset' + room' <= size'
      /\ offset = produced => offset' = produced'
      /\ produced + room = size => produced' + room' = size'
  BY ONLY <1>1, <1>2, n \in Nat, n <= room
<1>4. hole' \in BOOLEAN /\ (~hole /\ offset = produced => ~hole')
  BY <1>1, <1>2, Zenon
<1>5. LengthsFit' <=> LengthsFit
  BY <1>2, Zenon DEF LengthsFit
<1>6. call'.at \notin {"idle", "packed", "received"}
  BY Zenon
<1> QED BY <1>1, <1>2, <1>3, <1>4, <1>5, <1>6, Zenon DEF BufferInv

\* The loop of decompress_gzip,
LEMMA LoopStep ==
    ASSUME DecompressInv,
           InflateGrows \/ InflateToEnd \/ \E total \in Inflatable : InflateSome(total)
    PROVE  DecompressInv'
<1> USE DEF DecompressInv
<1>1. /\ call.at = "inflating" /\ call.algorithm = "gzip" /\ call'.algorithm = "gzip"
      /\ call'.at \in {"inflating", "inflated"}
      /\ call' \in [algorithm : {"none", "identity", "gzip"},
                    at : {"idle", "packed", "received", "inflating", "inflated", "done", "failed"}]
      /\ UNCHANGED <<input, output, stream, message>>
  BY Zenon DEF InflateGrows, InflateToEnd, InflateSome, Inflate, Finish, MessageInv
<1>2. MessageInv' /\ InputInv'
  BY <1>1, Zenon DEF MessageInv, InputInv
<1>3. input.len \in Nat /\ input.plain \in Nat /\ (message.len < UIntMod => input.plain = message.len)
  BY <1>1, Zenon DEF InputInv
<1>4. produced \in Nat /\ room \in Nat /\ size \in Nat /\ produced <= input.plain
  BY <1>1, Zenon DEF BufferInv
<1>5. CASE InflateGrows
  <2>1. room = 0 /\ size' = 2 * size /\ offset' = size /\ room' = (size' - size) % UIntMod
        /\ produced' = produced /\ hole' = hole /\ call' = call
    BY <1>5, Zenon DEF InflateGrows, GrownSize
  <2>2. size' \in Nat /\ size' - size = size
    BY <1>4, <2>1
  <2>3. room' = size % UIntMod
    BY <2>1, <2>2, Zenon
  <2>4. room' \in Nat /\ room' <= size /\ (size < UIntMod => room' = size)
    BY <1>4, <2>3, CutToUInt, Zenon
  <2>5. offset' + room' <= size'
    BY <1>4, <2>1, <2>4
  <2>6. LengthsFit => offset' = produced' /\ produced' + room' = size'
    <3>1. SUFFICES ASSUME LengthsFit PROVE offset' = produced' /\ produced' + room' = size'
      OBVIOUS
    <3>2. produced + room = size /\ message.len < UIntMod /\ message.len \in Nat /\ UIntMod \in Nat
      BY <1>1, <3>1, CompressionAssumption, Zenon DEF BufferInv, LengthsFit, MessageInv
    <3>3. produced <= message.len
      BY <1>3, <1>4, <3>2, Zenon
    <3>4. size = produced /\ size < UIntMod
      BY ONLY <1>4, <2>1, <3>2, <3>3
    <3> QED BY ONLY <1>4, <2>1, <2>4, <3>4
  <2>7. LengthsFit' <=> LengthsFit
    BY <1>1, Zenon DEF LengthsFit
  <2>8. BufferInv'
    BY <1>1, <1>4, <2>1, <2>2, <2>4, <2>5, <2>6, <2>7, Zenon DEF BufferInv
  <2> QED BY <1>2, <2>8, Zenon
<1>6. CASE InflateToEnd
  <2>1. Inflate(input.plain - produced) /\ input.plain - produced <= room /\ call'.at = "inflated"
    BY <1>1, <1>6, Zenon DEF InflateToEnd, Finish, MessageInv
  <2>2. input.plain - produced \in Nat /\ produced + (input.plain - produced) = input.plain
    BY ONLY <1>3, <1>4
  <2>3. produced + (input.plain - produced) <= input.plain
    BY ONLY <1>3, <2>2
  <2>4. BufferInv'
    BY <1>1, <1>3, <2>1, <2>2, <2>3, InflateWrites, Zenon
  <2> QED BY <1>2, <2>4, Zenon
<1>7. ASSUME NEW total \in Inflatable, InflateSome(total) PROVE DecompressInv'
  <2> DEFINE n == IF total - produced < room THEN total - produced ELSE room
  <2>1. Inflate(n) /\ n > 0 /\ call' = call
    BY <1>7, Zenon DEF InflateSome
  <2>2. total \in Nat /\ total <= input.plain
    BY <1>3, <1>7 DEF Inflatable
  <2>3. n \in Nat /\ n <= room /\ produced + n <= input.plain
    BY ONLY <1>3, <1>4, <2>1, <2>2
  <2> HIDE DEF n
  <2>4. BufferInv'
    BY <1>1, <1>3, <2>1, <2>3, InflateWrites, Zenon
  <2> QED BY <1>2, <2>4, Zenon
<1> QED BY <1>5, <1>6, <1>7, Zenon

\* what precedes it,
LEMMA LoopStart ==
    ASSUME DecompressInv, InflateInit
    PROVE  DecompressInv'
<1> USE DEF DecompressInv
<1>1. /\ call = [algorithm |-> "gzip", at |-> "received"]
      /\ call.at = "received" /\ call.algorithm = "gzip" /\ call'.algorithm = "gzip"
      /\ UNCHANGED <<input, produced, offset, hole, message>>
  BY Zenon DEF InflateInit, Finish
<1>2. input.len \in Nat /\ input.plain \in Nat
      /\ produced = 0 /\ room = 0 /\ offset = 0 /\ size = 0 /\ ~hole /\ stream = "none"
  BY <1>1, Zenon DEF InputInv, BufferInv, MessageInv
<1>3. InputInv'
  BY <1>1, Zenon DEF InputInv
<1>4. LengthsFit' <=> LengthsFit
  BY <1>1, Zenon DEF LengthsFit
<1>5. CASE stream' = "open"
  <2>1. /\ size' = 4 * input.len /\ room' = (4 * input.len) % UIntMod
        /\ output' = Buffer /\ call' = [algorithm |-> "gzip", at |-> "inflating"]
    BY <1>1, <1>2, <1>5 DEF InflateInit, Finish
  <2>2. 4 * input.len \in Nat
    BY <1>2
  <2>3. room' \in Nat /\ room' <= size' /\ (4 * input.len < UIntMod => room' = size')
    BY <2>1, <2>2, CutToUInt, Zenon
  <2>4. /\ size' \in Nat /\ offset' + room' <= size' /\ produced' <= input'.plain
        /\ LengthsFit => produced' + room' = size'
    BY <1>1, <1>2, <2>1, <2>2, <2>3 DEF LengthsFit
  <2>5. BufferInv'
    <3>1. call'.at = "inflating" /\ produced' = 0 /\ offset' = 0 /\ hole' = hole /\ hole \in BOOLEAN
      BY <1>1, <1>2, <2>1, Zenon DEF BufferInv
    <3>2. produced' \in Nat /\ offset' \in Nat
      BY <3>1
    <3> QED BY <1>2, <1>4, <2>3, <2>4, <3>1, <3>2, Zenon DEF BufferInv
  <2>6. MessageInv'
    BY <1>1, <2>1, Zenon DEF MessageInv
  <2> QED BY <1>3, <2>5, <2>6, Zenon
<1>6. CASE stream' # "open"
  <2>1. /\ output' = NoOutput /\ call' = [algorithm |-> "gzip", at |-> "failed"]
        /\ UNCHANGED <<size, room, stream>>
    BY <1>1, <1>6, Zenon DEF InflateInit, Finish
  <2>2. MessageInv' /\ BufferInv'
    BY <1>1, <1>2, <2>1, Zenon DEF MessageInv, BufferInv
  <2> QED BY <1>3, <2>2, Zenon
<1> QED BY <1>5, <1>6, Zenon

\* and the ways out of it.
LEMMA LoopEnd ==
    ASSUME DecompressInv,
           DecompressIdentity \/ InflateFails \/ CannotGrow \/ InputEnds \/ InflateEnd
    PROVE  DecompressInv'
<1> USE DEF DecompressInv
<1>1. /\ call'.at \in {"done", "failed"} /\ call'.algorithm = call.algorithm /\ call.at # "idle"
      /\ call' \in [algorithm : {"none", "identity", "gzip"},
                    at : {"idle", "packed", "received", "inflating", "inflated", "done", "failed"}]
      /\ UNCHANGED <<input, produced, room, offset, hole, size, message>>
      /\ stream' = "none"
  <2>1. CASE DecompressIdentity
    BY <2>1, Zenon DEF DecompressIdentity, Finish, MessageInv, inflateVars
  <2>2. CASE InflateFails \/ CannotGrow \/ InputEnds
    BY <2>2, Zenon DEF InflateFails, CannotGrow, InputEnds, Finish, MessageInv
  <2>3. CASE InflateEnd
    BY <2>3, Zenon DEF InflateEnd, Finish, MessageInv
  <2> QED BY <2>1, <2>2, <2>3, Zenon
<1>2. InputInv' /\ BufferInv'
  BY <1>1, Zenon DEF InputInv, BufferInv
<1>3. CASE InflateEnd
  <2>1. /\ call.at = "inflated" /\ call'.at = "done" /\ call.algorithm = "gzip"
        /\ output' = IF produced = 0 THEN Freed ELSE IF hole THEN Damaged ELSE Plain(produced)
    BY <1>3, Zenon DEF InflateEnd, Finish, MessageInv
  <2>2. LengthsFit => ~hole /\ produced = message.len /\ message = Plain(message.len)
    BY <2>1, Zenon DEF BufferInv, InputInv, MessageInv, LengthsFit
  <2>3. LengthsFit' <=> LengthsFit
    BY <1>1, Zenon DEF LengthsFit
  <2>4. MessageInv'
    BY <1>1, <2>1, <2>2, <2>3, Zenon DEF MessageInv
  <2> QED BY <1>2, <2>4, Zenon
<1>4. CASE DecompressIdentity \/ InflateFails \/ CannotGrow \/ InputEnds
  <2>1. \/ call'.at = "done" /\ call.algorithm = "identity" /\ output' = input
        \/ call'.at = "failed" /\ output' = NoOutput
    <3>1. CASE DecompressIdentity
      BY <3>1, Zenon DEF DecompressIdentity, Finish
    <3>2. CASE InflateFails \/ CannotGrow \/ InputEnds
      BY <3>2, Zenon DEF InflateFails, CannotGrow, InputEnds, Finish, MessageInv
    <3> QED BY <1>4, <3>1, <3>2, Zenon
  <2>2. MessageInv'
    BY <1>1, <2>1, Zenon DEF MessageInv
  <2> QED BY <1>2, <2>2, Zenon
<1> QED BY <1>3, <1>4, Zenon

\* For messages and compressed forms of any length, and wherever the input was
\* cut: inflate is never given room behind its buffer, no outcome leaves a
\* buffer or a z_stream behind, and if the lengths fit zlib's uInt, a
\* decompression that reports success has produced the whole message, or has
\* freed the buffer of an empty one.
THEOREM MessageCorrect == MessageSpec => []MessageSurvives
<1>1. DecompressInv /\ [MessageNext]_messageVars => DecompressInv'
  <2> SUFFICES ASSUME DecompressInv, [MessageNext]_messageVars PROVE DecompressInv'
    OBVIOUS
  <2>1. CASE UNCHANGED messageVars
    BY <2>1, Zenon DEF messageVars, inflateVars, DecompressInv, MessageInv, InputInv, BufferInv, LengthsFit
  <2>2. CASE MessageNext
    BY <2>2, CompressStep, TransferStep, PeerStep, LoopStart, LoopStep, LoopEnd, Zenon
       DEF MessageNext, MessageStep
  <2> QED BY <2>1, <2>2
<1>2. DecompressInv => MessageSurvives
  BY Zenon DEF DecompressInv, MessageInv, BufferInv, MessageSurvives
<1> QED BY <1>1, <1>2, MessageStart, PTL DEF MessageSpec

-----------------------------------------------------------------------------
\* The order shutdown_and_notify keeps: without the array of threads no worker
\* runs, the notification comes when the array is gone, and from then on no
\* worker looks at a port.
OrderInv ==
    /\ ports \in Nat
    /\ worker \in [Workers -> [at : {"none", "loop", "select", "accept", "ended"},
                               port : Int]]
    /\ threads \in {"NULL", "array"}
    /\ threads = "NULL" => \A w \in Workers : Ended(w)
    /\ app = "notifying" => threads = "NULL"
    /\ app # "ready" => shutdownCalled
    /\ events \in Nat
    /\ events > 0 =>
         shutdownCalled /\ \A w \in Workers : worker[w].at \notin {"select", "accept"}

\* OrderInv holds initially.
LEMMA OrderInit == ServerInit => OrderInv
BY DEF ServerInit, OrderInv, Ended

\* A worker that runs stays in its loop; one that has ended does not come
\* back, and one that finds the flag raised goes to no port.
LEMMA WorkerKeepsOrder ==
  ASSUME OrderInv, NEW v \in Workers, WorkerStep(v)
  PROVE  OrderInv'
<1>1. /\ \A w \in Workers : Ended(w) => Ended(w)'
      /\ worker' \in [Workers -> [at : {"none", "loop", "select", "accept", "ended"},
                                  port : Int]]
  BY DEF OrderInv, Ended, WorkerStep, Loop, Select, Accept, NextPort
<1>2. UNCHANGED <<ports, threads, shutdownCalled, app, serverFreed, events>>
  BY Zenon DEF WorkerStep, Loop, Select, Accept, config
<1>3. ASSUME events > 0
      PROVE  \A w \in Workers : worker'[w].at \notin {"select", "accept"}
  <2>1. shutdownCalled /\ \A w \in Workers : worker[w].at \notin {"select", "accept"}
    BY <1>3, Zenon DEF OrderInv
  <2>2. worker' = [worker EXCEPT ![v] = [at |-> "ended", port |-> 0]]
    BY <2>1, Zenon DEF WorkerStep, Loop, Select, Accept
  <2> QED BY <2>1, <2>2 DEF OrderInv
<1> QED BY <1>1, <1>2, <1>3, Zenon DEF OrderInv

\* Every other step keeps OrderInv; JoinWorkers waits for the end of the
\* workers.
LEMMA OrderStep == OrderInv /\ [ServerNext]_serverVars => OrderInv'
<1> SUFFICES ASSUME OrderInv, [ServerNext]_serverVars PROVE OrderInv'
  BY Zenon
<1>1. ASSUME NEW w \in Workers, WorkerStep(w) PROVE OrderInv'
  BY <1>1, WorkerKeepsOrder, Zenon
<1>2. CASE Start
  <2>1. /\ worker' \in [Workers -> [at : {"none", "loop", "select", "accept", "ended"},
                                    port : Int]]
        /\ \A w \in Workers : worker'[w].at \notin {"select", "accept"}
    BY <1>2 DEF Start
  <2>2. /\ UNCHANGED <<ports, shutdownCalled, app, events>>
        /\ app = "ready" /\ threads' = "array" /\ "array" # "NULL"
    BY <1>2 DEF Start
  <2> QED BY <2>1, <2>2, Zenon DEF OrderInv
<1>3. CASE JoinWorkers
  <2>1. \A w \in Workers : Ended(w)
    BY <1>3, Zenon DEF JoinWorkers, AllJoined, OrderInv
  <2> QED BY <1>3, <2>1, Zenon DEF JoinWorkers, OrderInv, Ended
<1>4. CASE Notify
  <2>1. threads = "NULL" /\ shutdownCalled
    BY <1>4, Zenon DEF Notify, OrderInv
  <2>2. events' \in Nat
    BY <1>4 DEF Notify, OrderInv
  <2>3. UNCHANGED <<ports, threads, shutdownCalled, worker, serverFreed>> /\ app' = "ready"
    BY <1>4, Zenon DEF Notify
  <2>4. \A w \in Workers : worker[w].at \notin {"select", "accept"}
    BY <2>1 DEF OrderInv, Ended
  <2> QED BY <2>1, <2>2, <2>3, <2>4, Zenon DEF OrderInv, Ended
<1>5. ASSUME NEW t \in BOOLEAN, ShutdownServer(t) PROVE OrderInv'
  BY <1>5, Zenon DEF ShutdownServer, OrderInv, Ended
<1>6. CASE DestroyServer
  BY <1>6, Zenon DEF DestroyServer, OrderInv, Ended
<1>7. CASE AddPort
  BY <1>7 DEF AddPort, OrderInv, Ended
<1>8. ASSUME NEW p \in Ports, Connect(p) PROVE OrderInv'
  BY <1>8, Zenon DEF Connect, config, OrderInv, Ended
<1>9. CASE UNCHANGED serverVars
  BY <1>9, Zenon DEF serverVars, OrderInv, Ended
<1> QED BY <1>1, <1>2, <1>3, <1>4, <1>5, <1>6, <1>7, <1>8, <1>9, Zenon DEF ServerNext

\* A server that is destroyed when it has no array of worker threads (it was
\* shut down after its start, or never started) is used by no worker, whatever
\* the application did before.
THEOREM DestroyIsSafe == ServerSpec => []NoWorkerOnFreedServer
<1>1. OrderInv => NoWorkerOnFreedServer
  BY Zenon DEF OrderInv, NoWorkerOnFreedServer
<1> QED BY <1>1, OrderInit, OrderStep, PTL DEF ServerSpec

\* No client is accepted after the notification of a shutdown, in whatever
\* order the server is started, shut down and destroyed.
THEOREM NotificationIsLast == ServerSpec => []NotifiedWhenQuiet
<1>1. OrderInv => NotifiedWhenQuiet
  BY Zenon DEF OrderInv, NotifiedWhenQuiet
<1> QED BY <1>1, OrderInit, OrderStep, PTL DEF ServerSpec

-----------------------------------------------------------------------------
Octet == 0 .. Radix - 1

\* The function that Number computes.
NumbersUpTo(s, u) ==
    /\ u[0] = 0 /\ \A i \in 1 .. Len(s) : u[i] = u[i - 1] * Radix + s[i]
    /\ Number(s) = u[Len(s)]

\* The recursion of Number has a solution.
LEMMA NumberRecursion ==
    ASSUME NEW s \in Seq(Octet)
    PROVE  \E u \in [0 .. Len(s) -> Nat] : NumbersUpTo(s, u)
<1> DEFINE n == Len(s)
           step == [q \in Nat \X (1 .. n) |-> q[1] * Radix + s[q[2]]]
           Body(f) == [i \in 0 .. Len(s) |-> IF i = 0 THEN 0 ELSE f[i - 1] * Radix + s[i]]
           u == CHOOSE f : f = Body(f)
<1>0. Radix \in Nat /\ n \in Nat /\ 0 \in Nat /\ \A i \in 1 .. n : s[i] \in Nat
  BY FramesAssumption DEF Octet
<1>1. step \in [Nat \X (1 .. n) -> Nat]
  BY <1>0
<1>2. PICK g \in [0 .. n -> Nat] : Computes(g, n, 0, step)
  <2> HIDE DEF step, n
  <2> QED BY <1>0, <1>1, RecursionExists, Zenon
<1>3. g[0] = 0 /\ \A i \in 1 .. n : g[i] = g[i - 1] * Radix + s[i]
  <2>1. ASSUME NEW i \in 1 .. n PROVE g[i] = g[i - 1] * Radix + s[i]
    <3>1. i - 1 \in 0 .. n
      BY <1>0
    <3>2. g[i] = step[<<g[i - 1], i>>] /\ <<g[i - 1], i>> \in Nat \X (1 .. n)
      BY <1>2, <3>1, Zenon DEF Computes
    <3> QED BY <3>2, Zenon
  <2> QED BY <1>2, <2>1, Zenon DEF Computes
<1>4. g = Body(g)
  <2>1. \A i \in 0 .. n : i = 0 \/ i \in 1 .. n
    BY <1>0
  <2>2. \A i \in 0 .. n : g[i] = Body(g)[i]
    BY <1>3, <2>1, Zenon
  <2> QED BY <2>2, Zenon
<1>5. u = Body(u)
  <2> HIDE DEF Body
  <2> QED BY <1>4, Zenon
<1>6. Number(s) = u[n]
  BY Zenon DEF Number
<1> HIDE DEF u
<1>7. u[0] = 0 /\ \A i \in 1 .. n : u[i] = u[i - 1] * Radix + s[i]
  <2>1. \A i \in 0 .. n : u[i] = Body(u)[i]
    BY <1>5, Zenon
  <2>2. 0 \in 0 .. n /\ \A i \in 1 .. n : i \in 0 .. n /\ i # 0
    BY <1>0
  <2> QED BY <2>1, <2>2, Zenon
<1>8. \A i \in 0 .. n : u[i] \in Nat
  <2> DEFINE E == {k \in 0 .. n : u[k] \in Nat}
  <2>1. 0 \in E
    BY <1>0, <1>7
  <2>2. ASSUME NEW k \in 0 .. n - 1, k \in E PROVE k + 1 \in E
    <3>1. k + 1 \in 1 .. n /\ (k + 1) - 1 = k /\ k + 1 \in 0 .. n
      BY <1>0
    <3>2. u[k + 1] = u[k] * Radix + s[k + 1] /\ u[k] \in Nat /\ s[k + 1] \in Nat
      BY <1>0, <1>7, <2>2, <3>1, Zenon
    <3>3. u[k + 1] \in Nat
      BY ONLY <1>0, <3>2
    <3> QED BY <3>1, <3>3, Zenon
  <2>3. \A k \in 0 .. n - 1 : k \in E => k + 1 \in E
    BY <2>2, Zenon
  <2>4. \A k \in 0 .. n : k \in E
    <3> HIDE DEF E, n
    <3> QED BY <1>0, <2>1, <2>3, InductionUpTo, Zenon
  <2> QED BY <2>4, Zenon
<1>9. u \in [0 .. n -> Nat]
  BY <1>5, <1>8, Zenon
<1> QED BY <1>6, <1>7, <1>9, Zenon DEF NumbersUpTo

\* A number written in octets.
LEMMA OctetsIs ==
    ASSUME NEW v \in Nat, NEW n \in Nat
    PROVE  /\ Octets(v, n) \in Seq(Octet) /\ Len(Octets(v, n)) = n
           /\ \A i \in 1 .. n : Octets(v, n)[i] = (v \div Power(Radix, n - i)) % Radix
<1>1. Octets(v, n) = [i \in 1 .. n |-> (v \div Power(Radix, n - i)) % Radix]
  BY Zenon DEF Octets
<1>2. ASSUME NEW i \in 1 .. n PROVE (v \div Power(Radix, n - i)) % Radix \in Octet
  <2>0. n - i \in Nat /\ Radix \in Nat \ {0}
    BY FramesAssumption
  <2>1. Power(Radix, n - i) \in Nat \ {0}
    BY <2>0, PowerIs, Zenon
  <2>2. v \div Power(Radix, n - i) \in Int
    BY <2>1, Remainder
  <2> QED BY <2>0, <2>2, Remainder, Zenon DEF Octet
<1>3. Octets(v, n) \in [1 .. n -> Octet]
  BY <1>1, <1>2, Zenon
<1> QED BY <1>1, <1>3, FunctionIsSeq, Zenon

\* The octets of a number, read again, are the number, if it fits.
LEMMA NumberOctets ==
    ASSUME NEW n \in Nat, NEW v \in 0 .. Power(Radix, n) - 1
    PROVE  Number(Octets(v, n)) = v
<1> DEFINE s == Octets(v, n)
           P(k) == Power(Radix, k)
<1>0. Radix \in Nat \ {0} /\ v \in Nat /\ v \in Int /\ P(n) \in Nat \ {0}
  <2>1. Radix \in Nat \ {0}
    BY FramesAssumption
  <2>2. P(n) \in Nat \ {0}
    BY <2>1, PowerIs, Zenon
  <2> QED BY <2>1, <2>2
<1>1. s \in Seq(Octet) /\ Len(s) = n /\ \A i \in 1 .. n : s[i] = (v \div P(n - i)) % Radix
  BY <1>0, OctetsIs, Zenon
<1> HIDE DEF s
<1>2. PICK u \in [0 .. n -> Nat] : NumbersUpTo(s, u)
  BY <1>1, NumberRecursion, Zenon
<1>3. u[0] = 0 /\ (\A i \in 1 .. n : u[i] = u[i - 1] * Radix + s[i]) /\ Number(s) = u[n]
  BY <1>1, <1>2, Zenon DEF NumbersUpTo
<1> DEFINE E == {k \in 0 .. n : u[k] = v \div P(n - k)}
<1>4. 0 \in E
  <2>1. n - 0 = n /\ v \in 0 .. P(n) - 1 /\ 0 \in 0 .. n
    BY <1>0
  <2>2. v \div P(n) = 0
    BY <1>0, <2>1, SmallQuotient, Zenon
  <2> QED BY <1>3, <2>1, <2>2, Zenon
<1>5. ASSUME NEW k \in 0 .. n - 1, k \in E PROVE k + 1 \in E
  <2> DEFINE a == P(n - (k + 1))
             w == v \div a
  <2>1. k + 1 \in 1 .. n /\ k + 1 \in 0 .. n /\ (k + 1) - 1 = k
        /\ n - (k + 1) \in Nat /\ (n - (k + 1)) + 1 = n - k
    OBVIOUS
  <2>2. a \in Nat \ {0} /\ P(n - k) = Radix * a
    BY <1>0, <2>1, PowerIs, Zenon
  <2>3. u[k + 1] = u[k] * Radix + s[k + 1] /\ u[k] = v \div P(n - k) /\ s[k + 1] = w % Radix
    BY <1>1, <1>3, <1>5, <2>1, Zenon
  <2> HIDE DEF a
  <2>4. w \in Int
    BY <1>0, <2>2, Remainder, Zenon
  <2>5. v \div (a * Radix) = w \div Radix
    BY <1>0, <2>2, DivideTwice, Zenon
  <2>6. a * Radix = Radix * a
    BY <1>0, <2>2
  <2> HIDE DEF w
  <2>7. w = (w \div Radix) * Radix + (w % Radix)
    BY <1>0, <2>4, Remainder, Zenon
  <2>8. u[k + 1] = w
    <3>1. v \div P(n - k) = w \div Radix
      BY <2>2, <2>5, <2>6, Zenon
    <3> QED BY <2>3, <2>7, <3>1, Zenon
  <2> QED BY <2>1, <2>8, Zenon DEF a, w
<1>6. \A k \in 0 .. n - 1 : k \in E => k + 1 \in E
  BY <1>5, Zenon
<1>7. \A k \in 0 .. n : k \in E
  <2> HIDE DEF E
  <2> QED BY <1>4, <1>6, InductionUpTo, Zenon
<1>8. n \in 0 .. n /\ n - n = 0 /\ P(0) = 1 /\ v \div 1 = v
  <2>1. P(0) = 1
    BY <1>0, PowerIs, Zenon
  <2> QED BY <1>0, <2>1
<1> QED BY <1>3, <1>7, <1>8, Zenon DEF s

-----------------------------------------------------------------------------
\* A stream id without the reserved bit is not changed by clearing it.
LEMMA StreamOctets ==
    ASSUME NEW n \in Nat \ {0}, NEW v \in 0 .. (Radix \div 2) * Power(Radix, n - 1) - 1
    PROVE  ClearReserved(Octets(v, n)) = Octets(v, n) /\ Number(Octets(v, n)) = v
<1> DEFINE s == Octets(v, n)
           h == Radix \div 2
           p == Power(Radix, n - 1)
           q == v \div p
<1>0. /\ Radix \in Nat \ {0} /\ n - 1 \in Nat /\ (n - 1) + 1 = n /\ n \in Nat /\ 1 \in 1 .. n
      /\ h \in Nat \ {0} /\ Radix = 2 * h
  BY FramesAssumption
<1>1. p \in Nat \ {0} /\ Power(Radix, n) = Radix * p
  <2> HIDE DEF h
  <2>1. Power(Radix, (n - 1) + 1) = Radix * p /\ p \in Nat \ {0}
    BY <1>0, PowerIs, Zenon
  <2> QED BY <1>0, <2>1, Zenon
<1>2. v \in 0 .. h * p - 1
  BY Zenon
<1> HIDE DEF h, p
<1>3. v \in Nat /\ v \in Int /\ v \in 0 .. Power(Radix, n) - 1
  <2>1. h * p \in Nat /\ Radix * p = h * p + h * p
    BY <1>0, <1>1
  <2> HIDE DEF p
  <2>2. v \in 0 .. Radix * p - 1
    BY <1>2, <2>1
  <2> QED BY <1>1, <1>2, <2>2, <2>1
<1>4. q \in 0 .. h - 1
  <2>1. q \in Int /\ v % p \in 0 .. p - 1 /\ v = q * p + (v % p)
    BY <1>1, <1>3, Remainder, Zenon
  <2> DEFINE r == v % p
  <2> HIDE DEF q, r
  <2>2. q * p + r >= 0 /\ q * p + r < h * p /\ r \in 0 .. p - 1
    <3>1. h * p \in Int
      BY <1>0, <1>1
    <3>2. v = q * p + r /\ r \in 0 .. p - 1
      BY <2>1, Zenon DEF r
    <3>3. v >= 0 /\ v < h * p
      BY ONLY <1>2, <3>1
    <3> QED BY <3>2, <3>3, Zenon
  <2>3. q >= 0
    <3>1. q <= -1 => q * p <= (-1) * p
      BY <1>1, <2>1
    <3> QED BY <1>1, <2>1, <2>2, <3>1
  <2>4. q < h
    <3>1. q >= h => q * p >= h * p
      BY <1>0, <1>1, <2>1
    <3> QED BY <1>0, <1>1, <2>1, <2>2, <3>1
  <2> QED BY <1>0, <2>1, <2>3, <2>4
<1>5. q % Radix = q /\ q % h = q
  <2> HIDE DEF q
  <2>1. q \in 0 .. Radix - 1
    BY <1>0, <1>4
  <2> QED BY <1>0, <1>4, <2>1, SmallQuotient, Zenon
<1>6. s \in Seq(Octet) /\ Len(s) = n /\ s[1] = q % Radix
  <2>1. s \in Seq(Octet) /\ Len(s) = n /\ s[1] = (v \div Power(Radix, n - 1)) % Radix
    <3>1. n \in Nat /\ v \in Nat /\ 1 \in 1 .. n
      BY <1>0, <1>3, Zenon
    <3> QED BY ONLY <3>1, OctetsIs, Zenon
  <2> QED BY <2>1, Zenon DEF p
<1>7. ClearReserved(s) = s
  <2>1. ClearReserved(s) = [s EXCEPT ![1] = s[1] % h]
    BY Zenon DEF ClearReserved, h
  <2> HIDE DEF s, q
  <2>2. s[1] % h = s[1]
    BY <1>5, <1>6, Zenon
  <2>3. [s EXCEPT ![1] = s[1]] = s
    BY <1>6
  <2> QED BY <2>1, <2>2, <2>3, Zenon
<1>8. Number(s) = v
  BY <1>0, <1>3, NumberOctets, Zenon
<1> QED BY <1>7, <1>8, Zenon DEF s

HeaderFields(f) == [length |-> f.length, type |-> f.type, stream |-> f.stream]

\* What the assumption says of a frame.
LEMMA FrameFields ==
    ASSUME NEW f \in FrameSet
    PROVE  /\ f.length \in 0 .. Power(Radix, LengthOctets) - 1 /\ f.length \in Nat
           /\ f.type \in Octet /\ f.fill \in Octet
           /\ f.stream \in 0 .. (Radix \div 2) * Power(Radix, IdOctets - 1) - 1 /\ f.stream \in Nat
<1>1. f \in [length : 0 .. Power(Radix, LengthOctets) - 1, type : 0 .. Radix - 1,
             stream : 0 .. (Radix \div 2) * Power(Radix, IdOctets - 1) - 1, fill : 0 .. Radix - 1]
  BY FramesAssumption, Zenon
<1>2. /\ f.length \in 0 .. Power(Radix, LengthOctets) - 1 /\ f.type \in 0 .. Radix - 1
      /\ f.stream \in 0 .. (Radix \div 2) * Power(Radix, IdOctets - 1) - 1 /\ f.fill \in 0 .. Radix - 1
  BY <1>1, Zenon
<1>3. \A m \in Int : \A x \in 0 .. m - 1 : x \in Nat
  OBVIOUS
<1>4. Radix \in Nat \ {0} /\ LengthOctets \in Nat /\ IdOctets - 1 \in Nat /\ Radix \div 2 \in Nat
  BY FramesAssumption
<1>5. Power(Radix, LengthOctets) \in Nat \ {0} /\ Power(Radix, IdOctets - 1) \in Nat \ {0}
  BY <1>4, PowerIs, Zenon
<1>6. Power(Radix, LengthOctets) \in Int /\ (Radix \div 2) * Power(Radix, IdOctets - 1) \in Int
  BY ONLY <1>4, <1>5
<1> QED BY <1>2, <1>3, <1>6, Zenon DEF Octet

\* The octets of a header: those of the length, of the type, and of the stream.
LEMMA HeaderOctetsIs ==
    ASSUME NEW f \in FrameSet
    PROVE  /\ HeaderOctets(f) \in Seq(Octet) /\ Len(HeaderOctets(f)) = HeaderSize
           /\ HeaderSize \in Nat \ {0}
           /\ \A j \in 1 .. LengthOctets : HeaderOctets(f)[j] = Octets(f.length, LengthOctets)[j]
           /\ HeaderOctets(f)[LengthOctets + 1] = f.type
           /\ \A j \in 1 .. IdOctets :
                HeaderOctets(f)[LengthOctets + 1 + j] = Octets(f.stream, IdOctets)[j]
<1> DEFINE a == Octets(f.length, LengthOctets)
           b == Octets(f.stream, IdOctets)
           t == <<f.type>>
           L == LengthOctets
<1>0. L \in Nat \ {0} /\ IdOctets \in Nat \ {0} /\ L \in Nat /\ IdOctets \in Nat
  BY FramesAssumption, Zenon
<1>1. a \in Seq(Octet) /\ Len(a) = L /\ b \in Seq(Octet) /\ Len(b) = IdOctets
  BY <1>0, FrameFields, OctetsIs, Zenon
<1>2. ClearReserved(b) = b
  BY <1>0, FrameFields, StreamOctets, Zenon
<1>3. HeaderOctets(f) = (a \o t) \o b
  BY <1>2, Zenon DEF HeaderOctets
<1>4. t \in Seq(Octet) /\ Len(t) = 1 /\ t[1] = f.type
  BY FrameFields
<1> HIDE DEF a, b, t
<1> DEFINE c == a \o t
<1>5. c \in Seq(Octet) /\ Len(c) = L + 1 /\ (\A k \in 1 .. L : c[k] = a[k]) /\ c[L + 1] = f.type
  <2>1. c \in Seq(Octet) /\ Len(c) = Len(a) + Len(t) /\ (\A k \in 1 .. Len(a) : c[k] = a[k])
        /\ \A k \in 1 .. Len(t) : c[Len(a) + k] = t[k]
    <3>1. a \in Seq(Octet) /\ t \in Seq(Octet)
      BY <1>1, <1>4, Zenon
    <3> QED BY ONLY <3>1, JoinFacts
  <2>2. 1 \in 1 .. 1
    OBVIOUS
  <2> QED BY <1>1, <1>4, <2>1, <2>2, Zenon
<1> HIDE DEF c
<1>6. /\ c \o b \in Seq(Octet) /\ Len(c \o b) = Len(c) + Len(b)
      /\ (\A k \in 1 .. Len(c) : (c \o b)[k] = c[k])
      /\ \A k \in 1 .. Len(b) : (c \o b)[Len(c) + k] = b[k]
  <2>1. c \in Seq(Octet) /\ b \in Seq(Octet)
    BY <1>1, <1>5, Zenon
  <2> QED BY ONLY <2>1, JoinFacts
<1>7. L + 1 \in 1 .. L + 1 /\ \A k \in 1 .. L : k \in 1 .. L + 1
  BY <1>0
<1>8. HeaderOctets(f) = c \o b
  BY <1>3, Zenon DEF c
<1>9. HeaderSize = L + 1 + IdOctets /\ HeaderSize \in Nat \ {0}
  BY <1>0 DEF HeaderSize
<1> QED BY <1>1, <1>5, <1>6, <1>7, <1>8, <1>9, Zenon DEF a, b

\* The header of a frame, read from the octets where it was written.
LEMMA HeaderRead ==
    ASSUME NEW f \in FrameSet, NEW w \in Seq(Octet), HeaderSize <= Len(w),
           \A j \in 1 .. HeaderSize : w[j] = HeaderOctets(f)[j]
    PROVE  HeaderOf(w) = HeaderFields(f)
<1> DEFINE a == Octets(f.length, LengthOctets)
           b == Octets(f.stream, IdOctets)
           L == LengthOctets
           x == SubSeq(w, 1, L)
           y == SubSeq(w, L + 2, HeaderSize)
<1>0. /\ L \in Nat \ {0} /\ IdOctets \in Nat \ {0} /\ L \in Nat /\ IdOctets \in Nat
      /\ HeaderSize = L + 1 + IdOctets /\ Len(w) \in Nat
  BY FramesAssumption DEF HeaderSize
<1>1. a \in Seq(Octet) /\ Len(a) = L /\ b \in Seq(Octet) /\ Len(b) = IdOctets
  BY <1>0, FrameFields, OctetsIs, Zenon
<1>2. ClearReserved(b) = b /\ Number(b) = f.stream /\ Number(a) = f.length
  BY <1>0, FrameFields, StreamOctets, NumberOctets, Zenon
<1>3. /\ \A j \in 1 .. L : HeaderOctets(f)[j] = a[j]
      /\ HeaderOctets(f)[L + 1] = f.type
      /\ \A j \in 1 .. IdOctets : HeaderOctets(f)[L + 1 + j] = b[j]
  BY HeaderOctetsIs, Zenon
<1> HIDE DEF a, b
<1>4. x = a
  <2>1. 1 \in 1 .. Len(w) /\ L \in 1 .. Len(w) /\ L - 1 + 1 = L
        /\ \A k \in 1 .. L : k \in 1 .. HeaderSize /\ 1 + k - 1 = k
    BY <1>0
  <2>2. x \in Seq(Octet) /\ Len(x) = L - 1 + 1 /\ \A k \in 1 .. L - 1 + 1 : x[k] = w[1 + k - 1]
    BY ONLY <2>1, w \in Seq(Octet), SubSeqFacts
  <2>3. \A k \in 1 .. L : x[k] = a[k]
    BY <1>3, <2>1, <2>2, Zenon
  <2> HIDE DEF x
  <2> QED BY <1>1, <2>1, <2>2, <2>3, SameSeq, Zenon
<1>5. y = b
  <2>1. L + 2 \in 1 .. Len(w) /\ HeaderSize \in L + 2 .. Len(w) /\ HeaderSize - (L + 2) + 1 = IdOctets
        /\ \A k \in 1 .. IdOctets : L + 1 + k \in 1 .. HeaderSize /\ L + 2 + k - 1 = L + 1 + k
    BY <1>0
  <2>2. y \in Seq(Octet) /\ Len(y) = HeaderSize - (L + 2) + 1
        /\ \A k \in 1 .. HeaderSize - (L + 2) + 1 : y[k] = w[L + 2 + k - 1]
    BY ONLY <2>1, w \in Seq(Octet), SubSeqFacts
  <2>3. \A k \in 1 .. IdOctets : y[k] = b[k]
    <3> SUFFICES ASSUME NEW k \in 1 .. IdOctets PROVE y[k] = b[k]
      BY Zenon
    <3> HIDE DEF y
    <3>1. y[k] = w[L + 2 + k - 1]
      BY ONLY <2>1, <2>2, k \in 1 .. IdOctets, Zenon
    <3>2. L + 2 + k - 1 = L + 1 + k /\ w[L + 1 + k] = HeaderOctets(f)[L + 1 + k]
      BY <2>1, Zenon
    <3>3. HeaderOctets(f)[L + 1 + k] = b[k]
      BY <1>3, Zenon
    <3> QED BY ONLY <3>1, <3>2, <3>3, Zenon
  <2> HIDE DEF y
  <2> QED BY <1>1, <2>1, <2>2, <2>3, SameSeq, Zenon
<1>6. w[L + 1] = f.type
  <2>1. L + 1 \in 1 .. HeaderSize
    BY <1>0
  <2> QED BY <1>3, <2>1, Zenon
<1> HIDE DEF x, y
<1>7. HeaderOf(w) = [length |-> Number(x), type |-> w[L + 1], stream |-> Number(ClearReserved(y))]
  BY Zenon DEF HeaderOf, x, y
<1> QED BY <1>2, <1>4, <1>5, <1>6, <1>7, Zenon DEF HeaderFields

-----------------------------------------------------------------------------
\* The octets s begin behind the first a octets of the wire, or -a of them
\* were received; all that were not are on the wire.
Holds(w, a, s) ==
    \A j \in 1 .. Len(s) : a + j >= 1 => a + j <= Len(w) /\ w[a + j] = s[j]

FrameOctets(f) == HeaderOctets(f) \o PayloadOf(f)

\* The frames fs, one behind the other, the i-th from at[i] on.
InPlace(at, fs, w) ==
    /\ at \in [1 .. Len(fs) + 1 -> Int]
    /\ \A i \in 1 .. Len(fs) : /\ at[i + 1] = at[i] + HeaderSize + fs[i].length
                               /\ Holds(w, at[i], FrameOctets(fs[i]))

Drop(w, n) == SubSeq(w, n + 1, Len(w))

\* What is left of a sequence without its first n elements.
LEMMA DropFacts ==
    ASSUME NEW X, NEW w \in Seq(X), NEW n \in 0 .. Len(w)
    PROVE  /\ Drop(w, n) \in Seq(X) /\ Len(Drop(w, n)) = Len(w) - n
           /\ \A k \in 1 .. Len(w) - n : Drop(w, n)[k] = w[n + k]
BY DEF Drop

\* Octets stay on the wire while others are sent behind them,
LEMMA HoldsJoin ==
    ASSUME NEW w \in Seq(Octet), NEW v \in Seq(Octet), NEW a \in Int, NEW s \in Seq(Octet),
           Holds(w, a, s)
    PROVE  Holds(w \o v, a, s)
<1> DEFINE x == w \o v
<1>1. /\ x \in Seq(Octet) /\ Len(x) = Len(w) + Len(v)
      /\ \A k \in 1 .. Len(w) : x[k] = w[k]
      /\ \A k \in 1 .. Len(v) : x[Len(w) + k] = v[k]
  BY ONLY w \in Seq(Octet), v \in Seq(Octet), JoinFacts
<1>2. Len(w) \in Nat /\ Len(v) \in Nat /\ Len(s) \in Nat
  OBVIOUS
<1> HIDE DEF x
<1>3. ASSUME NEW j \in 1 .. Len(s), a + j >= 1 PROVE a + j <= Len(x) /\ x[a + j] = s[j]
  <2>1. a + j <= Len(w) /\ w[a + j] = s[j]
    BY <1>3, Zenon DEF Holds
  <2>2. a + j \in 1 .. Len(w) /\ a + j <= Len(x)
    BY <1>1, <1>2, <1>3, <2>1
  <2> QED BY <1>1, <2>1, <2>2, Zenon
<1> QED BY <1>3, Zenon DEF Holds, x

\* move to its front while those before them are received,
LEMMA HoldsDrop ==
    ASSUME NEW w \in Seq(Octet), NEW n \in 0 .. Len(w), NEW a \in Int, NEW s \in Seq(Octet),
           Holds(w, a, s)
    PROVE  Holds(Drop(w, n), a - n, s)
<1> DEFINE x == Drop(w, n)
<1>1. Len(x) = Len(w) - n /\ \A k \in 1 .. Len(w) - n : x[k] = w[n + k]
  BY DropFacts, Zenon
<1>2. Len(w) \in Nat /\ n \in Nat /\ Len(s) \in Nat
  OBVIOUS
<1> HIDE DEF x
<1>3. ASSUME NEW j \in 1 .. Len(s), (a - n) + j >= 1
      PROVE  (a - n) + j <= Len(x) /\ x[(a - n) + j] = s[j]
  <2>1. a + j >= 1
    BY <1>2, <1>3
  <2>2. a + j <= Len(w) /\ w[a + j] = s[j]
    BY <2>1, Zenon DEF Holds
  <2>3. (a - n) + j \in 1 .. Len(w) - n /\ n + ((a - n) + j) = a + j
    BY <1>2, <1>3, <2>2
  <2>4. (a - n) + j <= Len(x)
    BY <1>1, <1>2, <2>3
  <2> QED BY <1>1, <2>2, <2>3, <2>4, Zenon
<1> QED BY <1>3, Zenon DEF Holds, x

\* and at the end of the wire are continued by what is sent next.
LEMMA HoldsExtend ==
    ASSUME NEW w \in Seq(Octet), NEW v \in Seq(Octet), NEW a \in Int, NEW s \in Seq(Octet),
           Holds(w, a, s), Len(w) = a + Len(s)
    PROVE  Holds(w \o v, a, s \o v) /\ Len(w \o v) = a + Len(s \o v)
<1> DEFINE x == w \o v
           y == s \o v
<1>1. /\ x \in Seq(Octet) /\ Len(x) = Len(w) + Len(v)
      /\ \A k \in 1 .. Len(w) : x[k] = w[k]
      /\ \A k \in 1 .. Len(v) : x[Len(w) + k] = v[k]
  BY ONLY w \in Seq(Octet), v \in Seq(Octet), JoinFacts
<1>2. /\ y \in Seq(Octet) /\ Len(y) = Len(s) + Len(v)
      /\ \A k \in 1 .. Len(s) : y[k] = s[k]
      /\ \A k \in 1 .. Len(v) : y[Len(s) + k] = v[k]
  BY ONLY s \in Seq(Octet), v \in Seq(Octet), JoinFacts
<1>3. Len(w) \in Nat /\ Len(v) \in Nat /\ Len(s) \in Nat
  OBVIOUS
<1> HIDE DEF x, y
<1>4. ASSUME NEW j \in 1 .. Len(y), a + j >= 1 PROVE a + j <= Len(x) /\ x[a + j] = y[j]
  <2>0. a + j <= Len(x)
    BY <1>1, <1>2, <1>3
  <2>1. CASE j <= Len(s)
    <3>1. j \in 1 .. Len(s)
      BY <1>3, <2>1
    <3>2. a + j <= Len(w) /\ w[a + j] = s[j]
      BY <1>4, <3>1, Zenon DEF Holds
    <3>3. a + j \in 1 .. Len(w)
      BY <1>3, <1>4, <3>2
    <3> QED BY <1>1, <1>2, <2>0, <3>1, <3>2, <3>3, Zenon
  <2>2. CASE ~(j <= Len(s))
    <3>1. j - Len(s) \in 1 .. Len(v) /\ Len(s) + (j - Len(s)) = j /\ Len(w) + (j - Len(s)) = a + j
      BY <1>2, <1>3, <2>2
    <3>2. x[a + j] = v[j - Len(s)] /\ y[j] = v[j - Len(s)]
      <4>1. x[Len(w) + (j - Len(s))] = v[j - Len(s)] /\ y[Len(s) + (j - Len(s))] = v[j - Len(s)]
        BY <1>1, <1>2, <3>1, Zenon
      <4> QED BY ONLY <3>1, <4>1, Zenon
    <3> QED BY <2>0, <3>2, Zenon
  <2> QED BY <2>1, <2>2, Zenon
<1>5. Len(x) = a + Len(y)
  BY <1>1, <1>2, <1>3
<1> QED BY <1>4, <1>5, Zenon DEF Holds, x, y

\* A frame is its header and its payload.
LEMMA FrameOctetsIs ==
    ASSUME NEW f \in FrameSet
    PROVE  /\ PayloadOf(f) \in Seq(Octet) /\ Len(PayloadOf(f)) = f.length
           /\ FrameOctets(f) \in Seq(Octet) /\ Len(FrameOctets(f)) = HeaderSize + f.length
           /\ \A k \in 1 .. HeaderSize : FrameOctets(f)[k] = HeaderOctets(f)[k]
           /\ \A k \in 1 .. f.length : FrameOctets(f)[HeaderSize + k] = PayloadOf(f)[k]
<1> DEFINE h == HeaderOctets(f)
           p == PayloadOf(f)
<1>1. h \in Seq(Octet) /\ Len(h) = HeaderSize
  BY HeaderOctetsIs, Zenon
<1>2. p \in [1 .. f.length -> Octet] /\ f.length \in Nat
  BY FrameFields, Zenon DEF PayloadOf
<1>3. p \in Seq(Octet) /\ Len(p) = f.length
  BY <1>2, FunctionIsSeq, Zenon
<1> HIDE DEF h, p
<1>4. /\ h \o p \in Seq(Octet) /\ Len(h \o p) = Len(h) + Len(p)
      /\ \A k \in 1 .. Len(h) : (h \o p)[k] = h[k]
      /\ \A k \in 1 .. Len(p) : (h \o p)[Len(h) + k] = p[k]
  <2>1. h \in Seq(Octet) /\ p \in Seq(Octet)
    BY <1>1, <1>3, Zenon
  <2> QED BY ONLY <2>1, JoinFacts
<1>5. FrameOctets(f) = h \o p
  BY Zenon DEF FrameOctets, h, p
<1> QED BY <1>1, <1>3, <1>4, <1>5, Zenon DEF h, p

-----------------------------------------------------------------------------
\* Frames stay in place while octets are sent behind them,
LEMMA InPlaceJoin ==
    ASSUME NEW fs \in Seq(FrameSet), NEW w \in Seq(Octet), NEW v \in Seq(Octet), NEW at,
           InPlace(at, fs, w)
    PROVE  InPlace(at, fs, w \o v)
<1>1. ASSUME NEW i \in 1 .. Len(fs) PROVE Holds(w \o v, at[i], FrameOctets(fs[i]))
  <2>1. fs[i] \in FrameSet /\ i \in 1 .. Len(fs) + 1
    OBVIOUS
  <2>2. at[i] \in Int /\ FrameOctets(fs[i]) \in Seq(Octet) /\ Holds(w, at[i], FrameOctets(fs[i]))
    BY <2>1, FrameOctetsIs, Zenon DEF InPlace
  <2> QED BY <2>2, HoldsJoin, Zenon
<1> QED BY <1>1, Zenon DEF InPlace

Shifted(at, m, n) == [i \in 1 .. m + 1 |-> at[i] - n]

\* move up while others are received,
LEMMA InPlaceDrop ==
    ASSUME NEW fs \in Seq(FrameSet), NEW w \in Seq(Octet), NEW n \in 0 .. Len(w), NEW at,
           InPlace(at, fs, w)
    PROVE  /\ InPlace(Shifted(at, Len(fs), n), fs, Drop(w, n))
           /\ \A i \in 1 .. Len(fs) + 1 : Shifted(at, Len(fs), n)[i] = at[i] - n
<1> DEFINE b == Shifted(at, Len(fs), n)
<1>0. Len(fs) \in Nat /\ n \in Int /\ Len(w) \in Nat
  OBVIOUS
<1>1. \A i \in 1 .. Len(fs) + 1 : b[i] = at[i] - n /\ at[i] \in Int
  BY Zenon DEF Shifted, InPlace
<1>2. b \in [1 .. Len(fs) + 1 -> Int]
  <2>1. \A i \in 1 .. Len(fs) + 1 : at[i] - n \in Int
    BY ONLY <1>0, <1>1
  <2> QED BY <2>1, Zenon DEF Shifted
<1> HIDE DEF b
<1>3. ASSUME NEW i \in 1 .. Len(fs)
      PROVE  b[i + 1] = b[i] + HeaderSize + fs[i].length /\ Holds(Drop(w, n), b[i], FrameOctets(fs[i]))
  <2>1. fs[i] \in FrameSet /\ i \in 1 .. Len(fs) + 1 /\ i + 1 \in 1 .. Len(fs) + 1
    BY <1>0
  <2>2. at[i] \in Int /\ FrameOctets(fs[i]) \in Seq(Octet) /\ Holds(w, at[i], FrameOctets(fs[i]))
        /\ at[i + 1] = at[i] + HeaderSize + fs[i].length
    BY <2>1, FrameOctetsIs, Zenon DEF InPlace
  <2>3. Holds(Drop(w, n), at[i] - n, FrameOctets(fs[i]))
    BY <2>2, HoldsDrop, Zenon
  <2>4. HeaderSize \in Int /\ fs[i].length \in Int
    <3>1. fs[i].length \in Nat /\ HeaderSize \in Nat
      BY <2>1, FrameFields, HeaderOctetsIs, Zenon
    <3> QED BY ONLY <3>1
  <2> DEFINE h == HeaderSize
             l == fs[i].length
             a == at[i]
             c == at[i + 1]
  <2> HIDE DEF h, l, a, c
  <2>5. c - n = (a - n) + h + l
    <3>1. a \in Int /\ h \in Int /\ l \in Int /\ c = a + h + l
      BY <2>2, <2>4, Zenon DEF h, l, a, c
    <3> QED BY ONLY <1>0, <3>1
  <2>6. b[i] = a - n /\ b[i + 1] = c - n
    BY <1>1, <2>1, Zenon DEF a, c
  <2> QED BY <2>3, <2>5, <2>6, Zenon DEF h, l, a
<1> QED BY <1>1, <1>2, <1>3, Zenon DEF InPlace, b

Behind(at, m, n) == [i \in 1 .. m + 2 |-> IF i = m + 2 THEN at[m + 1] + n ELSE at[i]]
Joins(f, b, at, fs, w) ==
    /\ InPlace(b, Append(fs, f), w)
    /\ \A i \in 1 .. Len(fs) + 1 : b[i] = at[i]
    /\ b[Len(fs) + 2] = at[Len(fs) + 1] + (HeaderSize + f.length)

\* and are joined by one that was completed behind them.
LEMMA InPlaceAppend ==
    ASSUME NEW fs \in Seq(FrameSet), NEW w \in Seq(Octet), NEW f \in FrameSet, NEW at,
           InPlace(at, fs, w), Holds(w, at[Len(fs) + 1], FrameOctets(f))
    PROVE  Joins(f, Behind(at, Len(fs), HeaderSize + f.length), at, fs, w)
<1> DEFINE m == Len(fs)
           gs == Append(fs, f)
           z == HeaderSize + f.length
           b == Behind(at, m, z)
<1>0. m \in Nat /\ gs \in Seq(FrameSet) /\ Len(gs) = m + 1 /\ gs[m + 1] = f
      /\ \A i \in 1 .. m : gs[i] = fs[i]
  OBVIOUS
<1>1. z \in Int /\ HeaderSize \in Int /\ f.length \in Int
  <2>1. f.length \in Nat /\ HeaderSize \in Nat
    BY FrameFields, HeaderOctetsIs, Zenon
  <2> QED BY ONLY <2>1
<1> HIDE DEF gs, m, z
<1>2. at \in [1 .. m + 1 -> Int]
  BY Zenon DEF InPlace, m
<1>3. /\ m + 2 \in 1 .. m + 2 /\ m + 1 \in 1 .. m + 1 /\ m + 1 \in 1 .. m + 2 /\ (m + 1) + 1 = m + 2
      /\ \A i \in 1 .. m + 1 : i \in 1 .. m + 2 /\ i # m + 2
      /\ \A i \in 1 .. m + 2 : i # m + 2 => i \in 1 .. m + 1
      /\ \A i \in 1 .. m : i \in 1 .. m + 1 /\ i + 1 \in 1 .. m + 1
      /\ \A i \in 1 .. m + 1 : i = m + 1 \/ i \in 1 .. m
  BY <1>0
<1>4. (\A i \in 1 .. m + 1 : b[i] = at[i]) /\ b[m + 2] = at[m + 1] + z
  BY <1>3, Zenon DEF Behind
<1>5. b \in [1 .. m + 2 -> Int]
  <2>1. at[m + 1] + z \in Int
    <3>1. at[m + 1] \in Int
      BY <1>2, <1>3, Zenon
    <3> QED BY <1>1, <3>1
  <2>2. \A i \in 1 .. m + 2 : (IF i = m + 2 THEN at[m + 1] + z ELSE at[i]) \in Int
    BY <1>2, <1>3, <2>1, Zenon
  <2> QED BY <2>2, Zenon DEF Behind
<1> HIDE DEF b
<1>6. ASSUME NEW i \in 1 .. m + 1
      PROVE  b[i + 1] = b[i] + HeaderSize + gs[i].length /\ Holds(w, b[i], FrameOctets(gs[i]))
  <2>1. CASE i = m + 1
    <3>1. b[i + 1] = at[m + 1] + z /\ b[i] = at[m + 1] /\ gs[i] = f /\ at[m + 1] \in Int
      BY <1>0, <1>2, <1>3, <1>4, <2>1, Zenon
    <3> DEFINE a == at[m + 1]
               h == HeaderSize
               l == f.length
    <3> HIDE DEF a, h, l
    <3>2. a + (h + l) = a + h + l
      <4>1. a \in Int /\ h \in Int /\ l \in Int
        BY <1>1, <3>1, Zenon DEF a, h, l
      <4> QED BY ONLY <4>1
    <3> QED BY <3>1, <3>2, Zenon DEF a, h, l, z, m
  <2>2. CASE i \in 1 .. m
    <3>1. b[i] = at[i] /\ b[i + 1] = at[i + 1] /\ gs[i] = fs[i]
      BY <1>0, <1>3, <1>4, <2>2, Zenon
    <3>2. at[i + 1] = at[i] + HeaderSize + fs[i].length /\ Holds(w, at[i], FrameOctets(fs[i]))
      BY <2>2, Zenon DEF InPlace, m
    <3> QED BY ONLY <3>1, <3>2, Zenon
  <2> QED BY <1>3, <2>1, <2>2, Zenon
<1>7. Len(gs) + 1 = m + 2
  BY <1>0
<1>8. InPlace(b, gs, w)
  BY <1>0, <1>5, <1>6, <1>7, Zenon DEF InPlace
<1>9. Joins(f, b, at, fs, w)
  BY <1>4, <1>8, Zenon DEF Joins, gs, m, z
<1> QED BY <1>9, Zenon DEF b, m, z

-----------------------------------------------------------------------------
\* The header that was sent of a frame whose payload was not: o is the owner of
\* write_mutex, s the calls.
Begun(o, s) == IF o = Nobody THEN <<>> ELSE HeaderOctets(s[o].frame)

\* The receiver is at the frame behind the k that it has, whose header it may
\* have taken; unless that is the frame that was cut short, or one behind it.
ReaderAt(at, fs, k, rcv, ct) ==
    /\ k < Len(fs) \/ (k = Len(fs) /\ ~ct) =>
         at[k + 1] = IF rcv = NoCall THEN 0 ELSE 0 - HeaderSize
    /\ k < Len(fs) /\ rcv # NoCall => rcv.header = HeaderFields(fs[k + 1])

\* Until a frame is cut short, the wire ends with the last one.
WriterAt(at, w, fs, k, rcv, ct, o, s) ==
    ~ct => /\ k <= Len(fs)
           /\ Len(w) = at[Len(fs) + 1] + Len(Begun(o, s))
           /\ Holds(w, at[Len(fs) + 1], Begun(o, s))
           /\ k = Len(fs) /\ rcv # NoCall =>
                o # Nobody /\ rcv.header = HeaderFields(s[o].frame)

Stream(at, w, fs, k, rcv, ct, o, s) ==
    InPlace(at, fs, w) /\ ReaderAt(at, fs, k, rcv, ct) /\ WriterAt(at, w, fs, k, rcv, ct, o, s)

\* A header is sent, and its payload follows.
LEMMA StreamBegins ==
    ASSUME NEW w \in Seq(Octet), NEW fs \in Seq(FrameSet), NEW k \in Nat, NEW rcv, NEW ct \in BOOLEAN,
           NEW s, NEW t, t # Nobody, NEW s2, s2[t].frame \in FrameSet, NEW at,
           Stream(at, w, fs, k, rcv, ct, Nobody, s)
    PROVE  Stream(at, w \o HeaderOctets(s2[t].frame), fs, k, rcv, ct, t, s2)
<1> DEFINE v == HeaderOctets(s2[t].frame)
           m == Len(fs)
<1>1. v \in Seq(Octet)
  BY HeaderOctetsIs, Zenon
<1> HIDE DEF v
<1>2. InPlace(at, fs, w \o v)
  BY <1>1, InPlaceJoin, Zenon DEF Stream
<1>3. ReaderAt(at, fs, k, rcv, ct)
  BY Zenon DEF Stream
<1>4. ASSUME ~ct
      PROVE  /\ k <= m /\ Len(w \o v) = at[m + 1] + Len(v) /\ Holds(w \o v, at[m + 1], v)
             /\ ~(k = m /\ rcv # NoCall)
  <2>1. k <= m /\ Len(w) = at[m + 1] + Len(<<>>) /\ Holds(w, at[m + 1], <<>>)
        /\ ~(k = m /\ rcv # NoCall)
    BY <1>4, Zenon DEF Stream, WriterAt, Begun
  <2>2. at[m + 1] \in Int
    <3>1. m + 1 \in 1 .. m + 1
      OBVIOUS
    <3> QED BY <3>1, Zenon DEF Stream, InPlace
  <2>3. <<>> \in Seq(Octet) /\ <<>> \o v = v
    BY <1>1
  <2>4. Holds(w \o v, at[m + 1], <<>> \o v) /\ Len(w \o v) = at[m + 1] + Len(<<>> \o v)
    <3> DEFINE e == <<>>
    <3>1. e \in Seq(Octet) /\ Holds(w, at[m + 1], e) /\ Len(w) = at[m + 1] + Len(e)
      BY <2>1, <2>3, Zenon
    <3> HIDE DEF e
    <3>2. Holds(w \o v, at[m + 1], e \o v) /\ Len(w \o v) = at[m + 1] + Len(e \o v)
      BY <1>1, <2>2, <3>1, HoldsExtend, Zenon
    <3> QED BY <3>2, Zenon DEF e
  <2> QED BY <2>1, <2>3, <2>4, Zenon
<1>5. Begun(t, s2) = v
  BY Zenon DEF Begun, v
<1>6. WriterAt(at, w \o v, fs, k, rcv, ct, t, s2)
  BY <1>4, <1>5, Zenon DEF WriterAt
<1> QED BY <1>2, <1>3, <1>6, Zenon DEF Stream, v

\* The rest of a frame is sent.
LEMMA StreamCompletes ==
    ASSUME NEW w \in Seq(Octet), NEW fs \in Seq(FrameSet), NEW k \in Nat, NEW rcv,
           NEW o, NEW s, NEW s2, NEW f \in FrameSet, NEW v \in Seq(Octet), NEW at,
           Stream(at, w, fs, k, rcv, FALSE, o, s),
           Begun(o, s) \in Seq(Octet), Begun(o, s) \o v = FrameOctets(f),
           o # Nobody => s[o].frame = f
    PROVE  \E b : Stream(b, w \o v, Append(fs, f), k, rcv, FALSE, Nobody, s2)
<1> DEFINE m == Len(fs)
           gs == Append(fs, f)
           z == HeaderSize + f.length
           b == Behind(at, m, z)
           x == w \o v
           g == Begun(o, s)
<1>0. m \in Nat /\ gs \in Seq(FrameSet) /\ Len(gs) = m + 1 /\ gs[m + 1] = f
      /\ \A i \in 1 .. m : gs[i] = fs[i]
  OBVIOUS
<1>1. InPlace(at, fs, w) /\ ReaderAt(at, fs, k, rcv, FALSE)
      /\ k <= m /\ Len(w) = at[m + 1] + Len(g) /\ Holds(w, at[m + 1], g)
      /\ (k = m /\ rcv # NoCall => o # Nobody /\ rcv.header = HeaderFields(s[o].frame))
  BY Zenon DEF Stream, WriterAt
<1>2. at[m + 1] \in Int /\ x \in Seq(Octet)
  <2>1. m + 1 \in 1 .. m + 1
    OBVIOUS
  <2>2. at[m + 1] \in Int
    BY <1>1, <2>1, Zenon DEF InPlace
  <2>3. x \in Seq(Octet)
    BY ONLY w \in Seq(Octet), v \in Seq(Octet)
  <2> QED BY <2>2, <2>3, Zenon
<1> HIDE DEF g, gs, x
<1>3. Holds(x, at[m + 1], FrameOctets(f)) /\ Len(x) = at[m + 1] + z
  <2>1. g \in Seq(Octet) /\ g \o v = FrameOctets(f)
    BY Zenon DEF g
  <2>2. Holds(w \o v, at[m + 1], g \o v) /\ Len(w \o v) = at[m + 1] + Len(g \o v)
    <3> DEFINE a == at[m + 1]
    <3>1. a \in Int /\ g \in Seq(Octet) /\ Holds(w, a, g) /\ Len(w) = a + Len(g)
      BY <1>1, <1>2, <2>1, Zenon
    <3> HIDE DEF a
    <3>2. Holds(w \o v, a, g \o v) /\ Len(w \o v) = a + Len(g \o v)
      BY ONLY <3>1, w \in Seq(Octet), v \in Seq(Octet), HoldsExtend, Zenon
    <3> QED BY <3>2, Zenon DEF a
  <2>3. Len(FrameOctets(f)) = z
    BY FrameOctetsIs, Zenon
  <2> QED BY <2>1, <2>2, <2>3, Zenon DEF x
<1>4. InPlace(at, fs, x)
  BY <1>1, InPlaceJoin, Zenon DEF x
<1>5. InPlace(b, gs, x) /\ (\A i \in 1 .. m + 1 : b[i] = at[i]) /\ b[m + 2] = at[m + 1] + z
  <2>1. x \in Seq(Octet) /\ InPlace(at, fs, x) /\ Holds(x, at[Len(fs) + 1], FrameOctets(f))
    BY <1>2, <1>3, <1>4, Zenon
  <2>2. Joins(f, b, at, fs, x)
    BY <2>1, InPlaceAppend, Zenon
  <2> HIDE DEF b
  <2> QED BY <2>2, Zenon DEF Joins, gs
<1> HIDE DEF b, z
<1>6. k + 1 \in 1 .. m + 1 /\ k < Len(gs) /\ k # m + 1
  BY <1>0, <1>1
<1>7. ReaderAt(b, gs, k, rcv, FALSE)
  <2>1. at[k + 1] = IF rcv = NoCall THEN 0 ELSE 0 - HeaderSize
    <3>1. k < m \/ k = m
      BY <1>0, <1>1
    <3> QED BY <1>1, <3>1, Zenon DEF ReaderAt
  <2>2. ASSUME rcv # NoCall PROVE rcv.header = HeaderFields(gs[k + 1])
    <3>1. CASE k = m
      BY <1>0, <1>1, <2>2, <3>1, Zenon
    <3>2. CASE k < m
      <4>1. k + 1 \in 1 .. m
        BY <1>0, <3>2
      <4> QED BY <1>0, <1>1, <2>2, <3>2, <4>1, Zenon DEF ReaderAt
    <3> QED BY <1>0, <1>1, <3>1, <3>2
  <2>3. b[k + 1] = at[k + 1]
    BY <1>5, <1>6, Zenon
  <2> QED BY <2>1, <2>2, <2>3, Zenon DEF ReaderAt
<1>8. WriterAt(b, x, gs, k, rcv, FALSE, Nobody, s2)
  <2>1. Begun(Nobody, s2) = <<>> /\ Len(gs) + 1 = m + 2
    BY <1>0 DEF Begun
  <2>2. Len(x) = b[m + 2] + Len(<<>>) /\ Holds(x, b[m + 2], <<>>)
    <3>1. at[m + 1] + z \in Int
      <4>1. f.length \in Nat /\ HeaderSize \in Nat
        BY FrameFields, HeaderOctetsIs, Zenon
      <4> QED BY ONLY <1>2, <4>1 DEF z
    <3>2. Len(x) = b[m + 2] /\ b[m + 2] \in Int
      BY <1>3, <1>5, <3>1, Zenon
    <3> QED BY <3>2 DEF Holds
  <2>3. k <= Len(gs) /\ k # Len(gs)
    BY <1>0, <1>6
  <2> QED BY <2>1, <2>2, <2>3, Zenon DEF WriterAt
<1> QED BY <1>5, <1>7, <1>8, Zenon DEF Stream, gs, x

\* Once a frame was cut short, anything may follow.
LEMMA StreamCut ==
    ASSUME NEW w \in Seq(Octet), NEW fs \in Seq(FrameSet), NEW k \in Nat, NEW rcv, NEW ct,
           NEW o, NEW s, NEW o2, NEW s2, NEW v \in Seq(Octet), NEW at,
           Stream(at, w, fs, k, rcv, ct, o, s)
    PROVE  Stream(at, w \o v, fs, k, rcv, TRUE, o2, s2)
<1>1. InPlace(at, fs, w \o v)
  BY InPlaceJoin, Zenon DEF Stream
<1> QED BY <1>1, Zenon DEF Stream, ReaderAt, WriterAt

-----------------------------------------------------------------------------
\* The header at the front of the wire is read from there.
LEMMA FrontHeader ==
    ASSUME NEW w \in Seq(Octet), NEW f \in FrameSet, NEW x \in Seq(Octet), Holds(w, 0, x),
           HeaderSize <= Len(x), \A j \in 1 .. HeaderSize : x[j] = HeaderOctets(f)[j]
    PROVE  HeaderOf(w) = HeaderFields(f)
<1>1. HeaderSize \in Nat \ {0} /\ Len(x) \in Nat /\ Len(w) \in Nat
  BY HeaderOctetsIs
<1>2. ASSUME NEW j \in 1 .. HeaderSize PROVE j <= Len(w) /\ w[j] = HeaderOctets(f)[j]
  <2>1. j \in 1 .. Len(x) /\ 0 + j = j /\ 0 + j >= 1
    BY <1>1
  <2>2. j <= Len(w) /\ w[j] = x[j]
    <3>1. 0 + j <= Len(w) /\ w[0 + j] = x[j]
      BY <2>1, Zenon DEF Holds
    <3> QED BY ONLY <2>1, <3>1, Zenon
  <2> QED BY <2>2, Zenon
<1>3. HeaderSize <= Len(w)
  <2>1. HeaderSize \in 1 .. HeaderSize
    BY <1>1
  <2> QED BY <1>2, <2>1, Zenon
<1> QED BY <1>2, <1>3, HeaderRead, Zenon

\* The last conditions on the wire, when its first n octets are received.
LEMMA EndDrop ==
    ASSUME NEW w \in Seq(Octet), NEW n \in 0 .. Len(w), NEW a \in Int, NEW g \in Seq(Octet),
           Len(w) = a + Len(g), Holds(w, a, g)
    PROVE  Len(Drop(w, n)) = (a - n) + Len(g) /\ Holds(Drop(w, n), a - n, g)
<1>1. Holds(Drop(w, n), a - n, g)
  BY HoldsDrop, Zenon
<1>2. Len(Drop(w, n)) = Len(w) - n
  BY DropFacts, Zenon
<1>3. Len(w) \in Int /\ n \in Int /\ Len(g) \in Int
  OBVIOUS
<1>4. Len(Drop(w, n)) = (a - n) + Len(g)
  BY ONLY <1>2, <1>3, a \in Int, Len(w) = a + Len(g)
<1> QED BY <1>1, <1>4, Zenon

\* What a received header means for the receiver, whose state was NoCall.
AfterHeader(x, fs, k, h, ct, o, s) ==
    /\ h.length = 0 => \E b : Stream(b, x, fs, k + 1, NoCall, ct, o, s)
    /\ h.length # 0 => \E b : Stream(b, x, fs, k, [at |-> "payload", header |-> h], ct, o, s)
    /\ k < Len(fs) => h = HeaderFields(fs[k + 1])
    /\ h.length = 0 /\ ~ct => k < Len(fs)

\* A header is received.
LEMMA StreamHeader ==
    ASSUME NEW w \in Seq(Octet), NEW fs \in Seq(FrameSet), NEW k \in Nat, NEW ct \in BOOLEAN,
           NEW o, NEW s, o # Nobody => s[o].frame \in FrameSet /\ s[o].frame.length # 0,
           HeaderSize <= Len(w), NEW at, Stream(at, w, fs, k, NoCall, ct, o, s)
    PROVE  AfterHeader(Drop(w, HeaderSize), fs, k, HeaderOf(w), ct, o, s)
<1> DEFINE m == Len(fs)
           n == HeaderSize
           h == HeaderOf(w)
           x == Drop(w, n)
           b == Shifted(at, m, n)
           g == Begun(o, s)
           rcv == [at |-> "payload", header |-> h]
<1>0. m \in Nat /\ n \in Nat \ {0} /\ n \in Int /\ Len(w) \in Nat /\ n \in 0 .. Len(w)
  <2>1. n \in Nat \ {0}
    BY FramesAssumption DEF HeaderSize
  <2> QED BY <2>1
<1>1. /\ InPlace(at, fs, w)
      /\ k < m \/ (k = m /\ ~ct) => at[k + 1] = 0
      /\ ~ct => k <= m /\ Len(w) = at[m + 1] + Len(g) /\ Holds(w, at[m + 1], g)
  BY Zenon DEF Stream, ReaderAt, WriterAt
<1>2. InPlace(b, fs, x) /\ \A i \in 1 .. m + 1 : b[i] = at[i] - n
  <2>1. n \in 0 .. Len(w) /\ InPlace(at, fs, w)
    BY <1>0, <1>1, Zenon
  <2> HIDE DEF n
  <2> QED BY ONLY <2>1, w \in Seq(Octet), fs \in Seq(FrameSet), InPlaceDrop, Zenon
<1>3. /\ m + 1 \in 1 .. m + 1 /\ (k < m \/ k = m => k + 1 \in 1 .. m + 1)
      /\ (k < m => k + 1 \in 1 .. m /\ k + 2 \in 1 .. m + 1 /\ (k + 1) + 1 = k + 2)
      /\ \A i \in 1 .. m + 1 : at[i] \in Int
  <2>1. \A i \in 1 .. m + 1 : at[i] \in Int
    BY <1>1, Zenon DEF InPlace
  <2> QED BY <1>0, <2>1
<1>4. g \in Seq(Octet) /\ (o = Nobody => Len(g) = 0) /\ (o # Nobody => Len(g) = n)
  <2>1. CASE o = Nobody
    BY <2>1 DEF Begun
  <2>2. CASE o # Nobody
    BY <2>2, HeaderOctetsIs, Zenon DEF Begun
  <2> QED BY <2>1, <2>2, Zenon
<1> HIDE DEF b, h, x, g, rcv
<1>5. ASSUME ~ct
      PROVE  k <= m /\ Len(x) = b[m + 1] + Len(g) /\ Holds(x, b[m + 1], g)
  <2> DEFINE a == at[m + 1]
  <2>1. a \in Int /\ Len(w) = a + Len(g) /\ Holds(w, a, g) /\ b[m + 1] = a - n /\ k <= m
    BY <1>1, <1>2, <1>3, <1>5, Zenon
  <2> HIDE DEF a
  <2>2. Len(x) = (a - n) + Len(g) /\ Holds(x, a - n, g)
    BY <1>0, <1>4, <2>1, EndDrop, Zenon DEF x
  <2> QED BY ONLY <2>1, <2>2, Zenon
<1>6. k < m => h = HeaderFields(fs[k + 1]) /\ h.length = fs[k + 1].length
  <2> SUFFICES ASSUME k < m PROVE h = HeaderFields(fs[k + 1]) /\ h.length = fs[k + 1].length
    BY Zenon
  <2>1. fs[k + 1] \in FrameSet /\ k + 1 \in 1 .. m
    BY <1>3
  <2>2. Holds(w, at[k + 1], FrameOctets(fs[k + 1])) /\ at[k + 1] = 0
    BY <1>1, <2>1, Zenon DEF InPlace
  <2>3. Holds(w, 0, FrameOctets(fs[k + 1]))
    BY ONLY <2>2, Zenon
  <2>4. /\ FrameOctets(fs[k + 1]) \in Seq(Octet)
        /\ \A j \in 1 .. n : FrameOctets(fs[k + 1])[j] = HeaderOctets(fs[k + 1])[j]
        /\ Len(FrameOctets(fs[k + 1])) = n + fs[k + 1].length /\ fs[k + 1].length \in Nat
    BY <2>1, FrameOctetsIs, FrameFields, Zenon
  <2>5. n <= Len(FrameOctets(fs[k + 1]))
    BY ONLY <1>0, <2>4
  <2>6. h = HeaderFields(fs[k + 1])
    BY <2>1, <2>3, <2>4, <2>5, FrontHeader, Zenon DEF h
  <2> QED BY <2>6, Zenon DEF HeaderFields
<1>7. k = m /\ ~ct => o # Nobody /\ h = HeaderFields(s[o].frame) /\ h.length # 0
  <2> SUFFICES ASSUME k = m, ~ct PROVE o # Nobody /\ h = HeaderFields(s[o].frame) /\ h.length # 0
    BY Zenon
  <2>1. at[m + 1] = 0 /\ Len(w) = at[m + 1] + Len(g) /\ Holds(w, at[m + 1], g)
    BY <1>1, Zenon
  <2>2. Len(w) = Len(g) /\ Holds(w, 0, g)
    <3>1. Len(w) = 0 + Len(g) /\ Holds(w, 0, g)
      BY ONLY <2>1, Zenon
    <3>2. Len(g) \in Nat
      BY <1>4
    <3> QED BY ONLY <3>1, <3>2
  <2>3. o # Nobody
    BY <1>0, <1>4, <2>2
  <2>4. g = HeaderOctets(s[o].frame) /\ s[o].frame \in FrameSet /\ s[o].frame.length # 0
    BY <2>3, Zenon DEF Begun, g
  <2>5. n <= Len(g)
    BY <1>0, <1>4, <2>3
  <2>6. h = HeaderFields(s[o].frame)
    BY <1>4, <2>2, <2>4, <2>5, FrontHeader, Zenon DEF h
  <2> QED BY <2>3, <2>4, <2>6, Zenon DEF HeaderFields
<1>8. h.length = 0 /\ ~ct => k < m
  BY <1>0, <1>1, <1>7
<1>9. ASSUME h.length = 0 PROVE Stream(b, x, fs, k + 1, NoCall, ct, o, s)
  <2>1. ASSUME k < m PROVE b[(k + 1) + 1] = 0
    <3>1. fs[k + 1].length = 0 /\ at[k + 1] = 0
      BY <1>1, <1>6, <1>9, <2>1, Zenon
    <3>2. at[(k + 1) + 1] = at[k + 1] + n + fs[k + 1].length
      BY <1>1, <1>3, <2>1, Zenon DEF InPlace
    <3>3. at[(k + 1) + 1] = n
      BY ONLY <1>0, <3>1, <3>2
    <3>4. b[(k + 1) + 1] = at[(k + 1) + 1] - n
      BY <1>2, <1>3, <2>1, Zenon
    <3> QED BY ONLY <1>0, <3>3, <3>4
  <2>2. (k + 1 < m \/ (k + 1 = m /\ ~ct) => k < m) /\ (k < m => k + 1 <= m)
    BY <1>0
  <2>3. ReaderAt(b, fs, k + 1, NoCall, ct)
    BY <2>1, <2>2, Zenon DEF ReaderAt
  <2>4. WriterAt(b, x, fs, k + 1, NoCall, ct, o, s)
    BY <1>5, <1>8, <1>9, <2>2, Zenon DEF WriterAt, g
  <2> QED BY <1>2, <2>3, <2>4, Zenon DEF Stream
<1>10. ASSUME h.length # 0 PROVE Stream(b, x, fs, k, rcv, ct, o, s)
  <2>0. rcv.header = h /\ rcv # NoCall
    BY Zenon DEF rcv, NoCall
  <2>1. ASSUME k < m \/ (k = m /\ ~ct) PROVE b[k + 1] = 0 - n
    BY <1>1, <1>2, <1>3, <2>1, Zenon
  <2>2. ReaderAt(b, fs, k, rcv, ct)
    BY <1>6, <2>0, <2>1, Zenon DEF ReaderAt
  <2>3. WriterAt(b, x, fs, k, rcv, ct, o, s)
    BY <1>5, <1>7, <2>0, Zenon DEF WriterAt, g
  <2> QED BY <1>2, <2>2, <2>3, Zenon DEF Stream
<1> QED BY <1>6, <1>8, <1>9, <1>10, Zenon DEF AfterHeader, h, x, rcv

\* What a received payload means for the receiver.
AfterPayload(w, fs, k, h, ct, o, s) ==
    /\ \E b : Stream(b, Drop(w, h.length), fs, k + 1, NoCall, ct, o, s)
    /\ k < Len(fs) => SubSeq(w, 1, h.length) = PayloadOf(fs[k + 1])
    /\ ~ct => k < Len(fs)

\* A payload is received.
LEMMA StreamPayload ==
    ASSUME NEW w \in Seq(Octet), NEW fs \in Seq(FrameSet), NEW k \in Nat, NEW ct \in BOOLEAN,
           NEW o, NEW s, o # Nobody => s[o].frame \in FrameSet /\ s[o].frame.length # 0,
           NEW rcv, rcv # NoCall, rcv.header.length \in 0 .. Len(w),
           NEW at, Stream(at, w, fs, k, rcv, ct, o, s)
    PROVE  AfterPayload(w, fs, k, rcv.header, ct, o, s)
<1> DEFINE m == Len(fs)
           n == rcv.header.length
           x == Drop(w, n)
           b == Shifted(at, m, n)
           g == Begun(o, s)
           H == HeaderSize
<1>0. m \in Nat /\ n \in Nat /\ n \in Int /\ Len(w) \in Nat /\ H \in Nat \ {0}
  <2>1. H \in Nat \ {0}
    BY FramesAssumption DEF HeaderSize
  <2>2. n \in 0 .. Len(w) /\ Len(w) \in Nat
    OBVIOUS
  <2> HIDE DEF n
  <2> QED BY <2>1, <2>2
<1>1. /\ InPlace(at, fs, w)
      /\ k < m \/ (k = m /\ ~ct) => at[k + 1] = 0 - H
      /\ k < m => rcv.header = HeaderFields(fs[k + 1])
      /\ ~ct => /\ k <= m /\ Len(w) = at[m + 1] + Len(g) /\ Holds(w, at[m + 1], g)
                /\ (k = m => o # Nobody /\ rcv.header = HeaderFields(s[o].frame))
  BY Zenon DEF Stream, ReaderAt, WriterAt
<1>2. InPlace(b, fs, x) /\ \A i \in 1 .. m + 1 : b[i] = at[i] - n
  <2>1. n \in 0 .. Len(w) /\ InPlace(at, fs, w)
    BY <1>1, Zenon
  <2> HIDE DEF n
  <2> QED BY ONLY <2>1, w \in Seq(Octet), fs \in Seq(FrameSet), InPlaceDrop, Zenon
<1>3. /\ m + 1 \in 1 .. m + 1
      /\ (k < m => k + 1 \in 1 .. m /\ (k + 1) + 1 \in 1 .. m + 1)
      /\ \A i \in 1 .. m + 1 : at[i] \in Int
  <2>1. \A i \in 1 .. m + 1 : at[i] \in Int
    BY <1>1, Zenon DEF InPlace
  <2> QED BY <1>0, <2>1
<1>4. g \in Seq(Octet) /\ (o # Nobody => Len(g) = H)
  <2>1. CASE o = Nobody
    BY <2>1 DEF Begun
  <2>2. CASE o # Nobody
    BY <2>2, HeaderOctetsIs, Zenon DEF Begun
  <2> QED BY <2>1, <2>2, Zenon
<1>n. n \in 0 .. Len(w)
  BY Zenon
<1> HIDE DEF b, x, g, n
<1>5. ASSUME ~ct
      PROVE  k <= m /\ Len(x) = b[m + 1] + Len(g) /\ Holds(x, b[m + 1], g)
  <2> DEFINE a == at[m + 1]
  <2>1. a \in Int /\ Len(w) = a + Len(g) /\ Holds(w, a, g) /\ b[m + 1] = a - n /\ k <= m
    BY <1>1, <1>2, <1>3, <1>5, Zenon
  <2> HIDE DEF a
  <2>2. Len(x) = (a - n) + Len(g) /\ Holds(x, a - n, g)
    BY <1>n, <1>4, <2>1, EndDrop, Zenon DEF x
  <2> QED BY ONLY <2>1, <2>2, Zenon
<1>6. ~ct => k < m
  <2> SUFFICES ASSUME ~ct, k = m PROVE FALSE
    BY <1>0, <1>1
  <2>1. at[m + 1] = 0 - H /\ Len(w) = at[m + 1] + Len(g) /\ o # Nobody
        /\ rcv.header = HeaderFields(s[o].frame)
    BY <1>1, Zenon
  <2>2. n = s[o].frame.length /\ s[o].frame.length # 0 /\ Len(g) = H
    <3>1. HeaderFields(s[o].frame).length = s[o].frame.length
      BY Zenon DEF HeaderFields
    <3>2. n = s[o].frame.length
      BY ONLY <2>1, <3>1, Zenon DEF n
    <3> QED BY <1>4, <2>1, <3>2, Zenon
  <2>3. Len(w) = (0 - H) + H /\ n # 0
    BY ONLY <2>1, <2>2, Zenon
  <2> QED BY ONLY <1>0, <1>n, <2>3
<1>7. ASSUME k < m PROVE b[(k + 1) + 1] = 0 /\ SubSeq(w, 1, n) = PayloadOf(fs[k + 1])
  <2> DEFINE f == fs[k + 1]
             p == PayloadOf(f)
  <2>1. f \in FrameSet /\ k + 1 \in 1 .. m /\ n = f.length
    <3>1. n = fs[k + 1].length
      <4>1. rcv.header = HeaderFields(fs[k + 1])
        BY <1>1, <1>7, Zenon
      <4>2. HeaderFields(fs[k + 1]).length = fs[k + 1].length
        BY Zenon DEF HeaderFields
      <4> QED BY ONLY <4>1, <4>2, Zenon DEF n
    <3> QED BY <1>3, <1>7, <3>1
  <2>2. at[k + 1] = 0 - H /\ at[(k + 1) + 1] = at[k + 1] + H + f.length
        /\ Holds(w, at[k + 1], FrameOctets(f))
    BY <1>1, <1>7, <2>1, Zenon DEF InPlace
  <2>3. b[(k + 1) + 1] = 0
    <3>1. b[(k + 1) + 1] = at[(k + 1) + 1] - n
      BY <1>2, <1>3, <1>7, Zenon
    <3>2. at[(k + 1) + 1] = (0 - H) + H + n
      BY ONLY <2>1, <2>2, Zenon
    <3> QED BY ONLY <1>0, <3>1, <3>2
  <2>4. /\ p \in Seq(Octet) /\ Len(p) = n /\ Len(FrameOctets(f)) = H + n
        /\ \A j \in 1 .. n : FrameOctets(f)[H + j] = p[j]
    BY <2>1, FrameOctetsIs, Zenon
  <2> HIDE DEF p, f
  <2>5. ASSUME NEW j \in 1 .. n PROVE w[j] = p[j]
    <3>1. H + j \in 1 .. Len(FrameOctets(f)) /\ (0 - H) + (H + j) = j /\ j >= 1
      BY <1>0, <2>4
    <3>2. Holds(w, 0 - H, FrameOctets(f))
      BY ONLY <2>2, Zenon
    <3>3. (0 - H) + (H + j) >= 1
      BY ONLY <3>1, Zenon
    <3>4. w[(0 - H) + (H + j)] = FrameOctets(f)[H + j]
      BY <3>1, <3>2, <3>3, Zenon DEF Holds
    <3>5. FrameOctets(f)[H + j] = p[j]
      BY <2>4, Zenon
    <3> QED BY ONLY <3>1, <3>4, <3>5, Zenon
  <2>6. SubSeq(w, 1, n) = p
    <3>1. CASE n = 0
      BY <2>4, <3>1
    <3>2. CASE n # 0
      <4>1. 1 \in 1 .. Len(w) /\ n \in 1 .. Len(w) /\ n - 1 + 1 = n
            /\ \A j \in 1 .. n : 1 + j - 1 = j
        BY <1>0, <1>n, <3>2
      <4> DEFINE y == SubSeq(w, 1, n)
      <4>2. y \in Seq(Octet) /\ Len(y) = n - 1 + 1 /\ \A j \in 1 .. n - 1 + 1 : y[j] = w[1 + j - 1]
        BY ONLY <4>1, w \in Seq(Octet), SubSeqFacts
      <4> HIDE DEF y
      <4>3. Len(y) = Len(p) /\ \A j \in 1 .. Len(y) : y[j] = p[j]
        BY <2>4, <2>5, <4>1, <4>2, Zenon
      <4>4. y = p
        BY <2>4, <4>2, <4>3, SameSeq, Zenon
      <4> QED BY <4>4, Zenon DEF y
    <3> QED BY <3>1, <3>2, Zenon
  <2> QED BY <2>3, <2>6, Zenon DEF p, f
<1>8. ReaderAt(b, fs, k + 1, NoCall, ct)
  <2>1. k + 1 < m \/ (k + 1 = m /\ ~ct) => k < m
    BY <1>0
  <2> QED BY <1>7, <2>1, Zenon DEF ReaderAt
<1>9. WriterAt(b, x, fs, k + 1, NoCall, ct, o, s)
  <2>1. k < m => k + 1 <= m
    BY <1>0
  <2> QED BY <1>5, <1>6, <2>1, Zenon DEF WriterAt, g
<1>10. Stream(b, x, fs, k + 1, NoCall, ct, o, s)
  BY <1>2, <1>8, <1>9, Zenon DEF Stream
<1> QED BY <1>6, <1>7, <1>10, Zenon DEF AfterPayload, n, x

-----------------------------------------------------------------------------
Headers == [length : Nat, type : Octet, stream : Nat]

\* Whatever octets the receiver takes for a header, they are one.
LEMMA HeaderType ==
    ASSUME NEW w \in Seq(Octet), HeaderSize <= Len(w)
    PROVE  HeaderOf(w) \in Headers
<1> DEFINE L == LengthOctets
           x == SubSeq(w, 1, L)
           y == SubSeq(w, L + 2, HeaderSize)
           h == Radix \div 2
<1>0. /\ L \in Nat \ {0} /\ IdOctets \in Nat \ {0} /\ HeaderSize = L + 1 + IdOctets
      /\ Len(w) \in Nat /\ h \in Nat \ {0} /\ h <= Radix /\ Radix \in Nat
  BY FramesAssumption DEF HeaderSize
<1>1. x \in Seq(Octet)
  <2>1. 1 \in 1 .. Len(w) /\ L \in 1 .. Len(w)
    BY <1>0
  <2> QED BY ONLY <2>1, w \in Seq(Octet), SubSeqFacts, Zenon
<1>2. y \in Seq(Octet) /\ Len(y) = HeaderSize - (L + 2) + 1
  <2>1. L + 2 \in 1 .. Len(w) /\ HeaderSize \in L + 2 .. Len(w)
    BY <1>0
  <2> QED BY ONLY <2>1, w \in Seq(Octet), SubSeqFacts, Zenon
<1>3. w[L + 1] \in Octet
  BY <1>0
<1> HIDE DEF x, y, h
<1>4. ClearReserved(y) \in Seq(Octet)
  <2>1. ClearReserved(y) = [y EXCEPT ![1] = y[1] % h]
    BY Zenon DEF ClearReserved, h
  <2>2. 1 \in 1 .. Len(y)
    BY <1>0, <1>2
  <2>3. y[1] % h \in Octet
    <3>1. y[1] \in Int
      <4>1. y[1] \in Octet
        BY <1>2, <2>2
      <4>2. Octet \subseteq Int
        BY FramesAssumption DEF Octet
      <4> QED BY <4>1, <4>2, Zenon
    <3>2. y[1] % h \in 0 .. h - 1
      BY <1>0, <3>1, Remainder, Zenon
    <3> QED BY <1>0, <3>2 DEF Octet
  <2> DEFINE e == y[1] % h
  <2> HIDE DEF e
  <2>4. [y EXCEPT ![1] = e] \in Seq(Octet)
    BY <1>2, <2>2, <2>3 DEF e
  <2> QED BY <2>1, <2>4, Zenon DEF e
<1>5. \A z \in Seq(Octet) : Number(z) \in Nat
  <2> SUFFICES ASSUME NEW z \in Seq(Octet) PROVE Number(z) \in Nat
    BY Zenon
  <2>1. PICK u \in [0 .. Len(z) -> Nat] : NumbersUpTo(z, u)
    BY NumberRecursion, Zenon
  <2>2. Len(z) \in 0 .. Len(z)
    OBVIOUS
  <2> QED BY <2>1, <2>2, Zenon DEF NumbersUpTo
<1>6. HeaderOf(w) = [length |-> Number(x), type |-> w[L + 1], stream |-> Number(ClearReserved(y))]
  BY Zenon DEF HeaderOf, x, y
<1>7. Number(x) \in Nat /\ Number(ClearReserved(y)) \in Nat
  BY <1>1, <1>4, <1>5, Zenon
<1> DEFINE a == Number(x)
           b == w[L + 1]
           c == Number(ClearReserved(y))
<1>8. a \in Nat /\ b \in Octet /\ c \in Nat
  BY <1>3, <1>7, Zenon
<1> HIDE DEF a, b, c
<1>9. [length |-> a, type |-> b, stream |-> c] \in Headers
  BY ONLY <1>8, Zenon DEF Headers
<1> QED BY <1>6, <1>9, Zenon DEF a, b, c

FrameCalls == [at : {"header", "payload"}, frame : FrameSet]
FramesReceived == [header : Headers, payload : Seq(Octet)]

\* Who holds write_mutex has a header sent and a payload to send.
CallsInv ==
    /\ wire \in Seq(Octet)
    /\ sending \in [Writers -> FrameCalls \cup {NoCall}]
    /\ writeMutex \in Writers \cup {Nobody}
    /\ \A t \in Writers : sending[t].at = "payload" => writeMutex = t
    /\ writeMutex # Nobody => /\ sending[writeMutex].at = "payload"
                              /\ sending[writeMutex].frame \in FrameSet
                              /\ sending[writeMutex].frame.length # 0
    /\ receiving \in [at : {"payload"}, header : Headers] \cup {NoCall}
    /\ framesSent \in Seq(FrameSet)
    /\ framesGot \in Seq(FramesReceived)
    /\ cut \in BOOLEAN /\ skipped \in BOOLEAN

SameFrame(f, g) == g.payload = PayloadOf(f) /\ g.header = HeaderFields(f)

Agree(fs, gs, ct) ==
    /\ \A i \in 1 .. Len(fs) : i <= Len(gs) => SameFrame(fs[i], gs[i])
    /\ ~ct => Len(gs) <= Len(fs)

StreamInv ==
    ~skipped => \E at : Stream(at, wire, framesSent, Len(framesGot), receiving, cut,
                               writeMutex, sending)

FramesInv == CallsInv /\ Agree(framesSent, framesGot, cut) /\ StreamInv

\* The invariant implies what was to be shown.
LEMMA FramesInvImplies == FramesInv => FramesIntact
<1> SUFFICES ASSUME FramesInv PROVE FramesIntact
  BY Zenon
<1> DEFINE m == Len(framesSent)
           k == Len(framesGot)
           n == IF m < k THEN m ELSE k
<1>0. m \in Nat /\ k \in Nat /\ \A i \in 1 .. n : i \in 1 .. m /\ i <= k
  BY DEF FramesInv, CallsInv
<1>1. \A i \in 1 .. n : SameFrame(framesSent[i], framesGot[i])
  BY <1>0, Zenon DEF FramesInv, Agree
<1>2. ~cut => k <= m
  BY Zenon DEF FramesInv, Agree
<1>3. ASSUME ~cut, ~skipped, wire = <<>>, receiving = NoCall PROVE k = m
  <2> SUFFICES ASSUME k < m PROVE FALSE
    BY <1>0, <1>2, <1>3
  <2>1. PICK at : Stream(at, wire, framesSent, k, receiving, cut, writeMutex, sending)
    BY <1>3, Zenon DEF FramesInv, StreamInv
  <2>2. k + 1 \in 1 .. m /\ framesSent[k + 1] \in FrameSet
    BY <1>0 DEF FramesInv, CallsInv
  <2>3. at[k + 1] = 0 /\ Holds(wire, at[k + 1], FrameOctets(framesSent[k + 1]))
    BY <1>3, <2>1, <2>2, Zenon DEF Stream, ReaderAt, InPlace
  <2>4. Holds(wire, 0, FrameOctets(framesSent[k + 1]))
    BY ONLY <2>3, Zenon
  <2>5. Len(FrameOctets(framesSent[k + 1])) = HeaderSize + framesSent[k + 1].length
        /\ HeaderSize \in Nat \ {0} /\ framesSent[k + 1].length \in Nat
    BY <2>2, FrameOctetsIs, HeaderOctetsIs, FrameFields, Zenon
  <2>6. 1 \in 1 .. Len(FrameOctets(framesSent[k + 1])) /\ 0 + 1 >= 1 /\ ~(0 + 1 <= 0)
    BY ONLY <2>5
  <2>7. Len(wire) = 0
    BY <1>3, Zenon
  <2> QED BY <2>4, <2>6, <2>7, Zenon DEF Holds
<1>4. \A f, g : SameFrame(f, g) <=> /\ g.payload = PayloadOf(f)
                                  /\ g.header = [length |-> f.length, type |-> f.type,
                                                 stream |-> f.stream]
  BY Zenon DEF SameFrame, HeaderFields
<1> QED BY <1>1, <1>2, <1>3, <1>4, Zenon DEF FramesIntact

\* The initial state.
LEMMA FramesStart == FramesInit => FramesInv
<1> SUFFICES ASSUME FramesInit PROVE FramesInv
  BY Zenon
<1>1. CallsInv
  <2>1. wire \in Seq(Octet) /\ framesSent \in Seq(FrameSet) /\ framesGot \in Seq(FramesReceived)
    BY DEF FramesInit
  <2>2. \A t \in Writers : sending[t] = NoCall /\ NoCall.at # "payload"
    BY Zenon DEF FramesInit, NoCall
  <2>3. sending \in [Writers -> FrameCalls \cup {NoCall}] /\ writeMutex = Nobody
        /\ receiving = NoCall /\ cut = FALSE /\ skipped = FALSE
    BY Zenon DEF FramesInit
  <2> QED BY <2>1, <2>2, <2>3, Zenon DEF CallsInv
<1>2. wire = <<>> /\ framesSent = <<>> /\ framesGot = <<>> /\ Len(<<>>) = 0 /\ writeMutex = Nobody
      /\ receiving = NoCall
  BY Zenon DEF FramesInit
<1>3. Agree(<<>>, <<>>, cut)
  BY DEF Agree
<1> DEFINE at == [i \in 1 .. 0 + 1 |-> 0]
<1>4. at \in [1 .. 0 + 1 -> Int] /\ at[0 + 1] = 0
  OBVIOUS
<1> HIDE DEF at
<1>5. InPlace(at, <<>>, <<>>)
  BY <1>4 DEF InPlace
<1>6. ReaderAt(at, <<>>, 0, NoCall, cut)
  BY <1>2, <1>4 DEF ReaderAt
<1>7. WriterAt(at, <<>>, <<>>, 0, NoCall, cut, Nobody, sending)
  BY <1>4 DEF WriterAt, Begun, Holds
<1>8. Stream(at, wire, framesSent, Len(framesGot), receiving, cut, writeMutex, sending)
  BY <1>2, <1>5, <1>6, <1>7, Zenon DEF Stream
<1> QED BY <1>1, <1>2, <1>3, <1>8, Zenon DEF FramesInv, StreamInv

-----------------------------------------------------------------------------
\* The calls after one has ended: nobody has the mutex.
LEMMA SendEnds ==
    ASSUME CallsInv, NEW t \in Writers, writeMutex = Nobody \/ writeMutex = t,
           wire' \in Seq(Octet), writeMutex' = Nobody,
           sending' = [sending EXCEPT ![t] = NoCall],
           framesSent' \in Seq(FrameSet), cut' \in BOOLEAN,
           receiving' = receiving, framesGot' = framesGot, skipped' = skipped
    PROVE  CallsInv'
<1>1. sending' \in [Writers -> FrameCalls \cup {NoCall}]
  BY Zenon DEF CallsInv
<1>2. ASSUME NEW u \in Writers, sending'[u].at = "payload" PROVE FALSE
  <2>1. u # t
    <3>1. NoCall.at # "payload"
      BY Zenon DEF NoCall
    <3>2. sending'[t] = NoCall
      BY Zenon DEF CallsInv
    <3> QED BY <1>2, <3>1, <3>2, Zenon
  <2>2. sending'[u] = sending[u]
    BY <2>1, Zenon DEF CallsInv
  <2>3. writeMutex = u
    BY <1>2, <2>2, Zenon DEF CallsInv
  <2> QED BY <2>1, <2>3, FramesAssumption, Zenon
<1> QED BY <1>1, <1>2, Zenon DEF CallsInv

\* What was sent and received still agrees when a frame more is sent, and when
\* the last one is not.
LEMMA AgreeSent ==
    ASSUME NEW fs \in Seq(FrameSet), NEW gs \in Seq(FramesReceived), NEW f \in FrameSet,
           Agree(fs, gs, FALSE)
    PROVE  Agree(Append(fs, f), gs, FALSE)
<1> DEFINE x == Append(fs, f)
<1>1. /\ Len(x) = Len(fs) + 1 /\ Len(fs) \in Nat /\ Len(gs) \in Nat
      /\ \A i \in 1 .. Len(fs) : x[i] = fs[i]
  OBVIOUS
<1>2. Len(gs) <= Len(fs) /\ \A i \in 1 .. Len(fs) : i <= Len(gs) => SameFrame(fs[i], gs[i])
  BY Zenon DEF Agree
<1> HIDE DEF x
<1>3. \A i \in 1 .. Len(x) : i <= Len(gs) => i \in 1 .. Len(fs)
  BY ONLY <1>1, <1>2
<1>4. Len(gs) <= Len(x)
  BY ONLY <1>1, <1>2
<1>5. Agree(x, gs, FALSE)
  BY <1>1, <1>2, <1>3, <1>4, Zenon DEF Agree
<1> QED BY <1>5, Zenon DEF x

LEMMA AgreeCut ==
    ASSUME NEW fs, NEW gs, NEW ct, Agree(fs, gs, ct)
    PROVE  Agree(fs, gs, TRUE)
BY Zenon DEF Agree

\* ... and when a frame is received.
LEMMA AgreeGot ==
    ASSUME NEW fs \in Seq(FrameSet), NEW gs \in Seq(FramesReceived), NEW ct \in BOOLEAN,
           NEW r \in FramesReceived, Agree(fs, gs, ct),
           Len(gs) < Len(fs) => SameFrame(fs[Len(gs) + 1], r),
           ~ct => Len(gs) < Len(fs)
    PROVE  Agree(fs, Append(gs, r), ct)
<1> DEFINE x == Append(gs, r)
           k == Len(gs)
<1>1. /\ Len(x) = k + 1 /\ Len(fs) \in Nat /\ k \in Nat
      /\ x[k + 1] = r
      /\ \A i \in 1 .. k : x[i] = gs[i]
  OBVIOUS
<1>2. \A i \in 1 .. Len(fs) : i <= k => SameFrame(fs[i], gs[i])
  BY Zenon DEF Agree
<1> HIDE DEF x, k
<1>3. \A i \in 1 .. Len(fs) : i <= Len(x) => \/ i \in 1 .. k /\ i <= k
                                             \/ i = k + 1 /\ k < Len(fs)
  BY ONLY <1>1
<1>4. ~ct => Len(x) <= Len(fs)
  BY <1>1 DEF k
<1>5. k < Len(fs) => SameFrame(fs[k + 1], r)
  BY Zenon DEF k
<1>6. Agree(fs, x, ct)
  BY <1>1, <1>2, <1>3, <1>4, <1>5, Zenon DEF Agree
<1> QED BY <1>6, Zenon DEF x

\* A call of http2_connection_send_frame begins.
LEMMA SendFrameStep ==
    ASSUME FramesInv, NEW t \in Writers, NEW f \in FrameSet, SendFrame(t, f)
    PROVE  FramesInv'
<1> DEFINE c == [at |-> "header", frame |-> f]
<1>1. c \in FrameCalls /\ c.at # "payload"
  BY Zenon DEF FrameCalls
<1> HIDE DEF c
<1>2. /\ sending' = [sending EXCEPT ![t] = c] /\ sending[t] = NoCall
      /\ wire' = wire /\ writeMutex' = writeMutex /\ receiving' = receiving
      /\ framesSent' = framesSent /\ framesGot' = framesGot /\ cut' = cut /\ skipped' = skipped
  BY Zenon DEF SendFrame, c
<1>3. NoCall.at # "payload"
  BY Zenon DEF NoCall
<1>4. writeMutex # t
  BY <1>2, <1>3, FramesAssumption, Zenon DEF FramesInv, CallsInv
<1>5. sending' \in [Writers -> FrameCalls \cup {NoCall}]
  BY <1>1, <1>2, Zenon DEF FramesInv, CallsInv
<1>6. sending'[t] = c /\ \A u \in Writers : u # t => sending'[u] = sending[u]
  BY <1>2, Zenon DEF FramesInv, CallsInv
<1>7. CallsInv'
  BY <1>1, <1>2, <1>4, <1>5, <1>6, Zenon DEF FramesInv, CallsInv
<1>8. writeMutex # Nobody => sending'[writeMutex] = sending[writeMutex]
  BY <1>4, <1>6, Zenon DEF FramesInv, CallsInv
<1>9. Begun(writeMutex, sending') = Begun(writeMutex, sending)
  BY <1>8, Zenon DEF Begun
<1>10. \A at : Stream(at, wire, framesSent, Len(framesGot), receiving, cut, writeMutex, sending)
            => Stream(at, wire, framesSent, Len(framesGot), receiving, cut, writeMutex, sending')
  BY <1>8, <1>9, Zenon DEF Stream, WriterAt
<1>11. StreamInv'
  BY <1>2, <1>10, Zenon DEF FramesInv, StreamInv
<1> QED BY <1>2, <1>7, <1>11, Zenon DEF FramesInv

-----------------------------------------------------------------------------
\* A send is cut short, whatever it was sending.
LEMMA CutShortStep ==
    ASSUME FramesInv, NEW t \in Writers, writeMutex = Nobody \/ writeMutex = t,
           NEW octets \in Seq(Octet), CutShort(t, octets),
           receiving' = receiving, framesGot' = framesGot, skipped' = skipped
    PROVE  FramesInv'
<1>1. PICK n \in 0 .. Len(octets) - 1 : wire' = wire \o SubSeq(octets, 1, n)
  BY Zenon DEF CutShort
<1> DEFINE v == SubSeq(octets, 1, n)
<1>2. v \in Seq(Octet)
  OBVIOUS
<1> HIDE DEF v
<1>3. wire' = wire \o v
  BY <1>1, Zenon DEF v
<1>4. wire \in Seq(Octet) /\ framesSent \in Seq(FrameSet) /\ framesGot \in Seq(FramesReceived)
  BY Zenon DEF FramesInv, CallsInv
<1>5. wire' \in Seq(Octet)
  <2>1. wire \o v \in Seq(Octet)
    BY ONLY <1>2, <1>4, JoinFacts, Zenon
  <2> QED BY <1>3, <2>1, Zenon
<1>6. /\ writeMutex' = Nobody /\ sending' = [sending EXCEPT ![t] = NoCall]
      /\ cut' = TRUE /\ framesSent' = framesSent
  BY Zenon DEF CutShort
<1>7. CallsInv'
  BY <1>4, <1>5, <1>6, SendEnds, Zenon DEF FramesInv
<1>8. Agree(framesSent', framesGot', cut')
  <2>1. Agree(framesSent, framesGot, TRUE)
    BY AgreeCut, Zenon DEF FramesInv
  <2> QED BY <1>6, <2>1, Zenon
<1>9. Len(framesGot) \in Nat
  BY <1>4
<1>10. ASSUME NEW at, Stream(at, wire, framesSent, Len(framesGot), receiving, cut, writeMutex, sending)
       PROVE  Stream(at, wire \o v, framesSent, Len(framesGot), receiving, TRUE, Nobody, sending')
  BY <1>2, <1>4, <1>9, <1>10, StreamCut, Zenon
<1>11. StreamInv'
  BY <1>3, <1>6, <1>10, Zenon DEF FramesInv, StreamInv
<1> QED BY <1>7, <1>8, <1>11, Zenon DEF FramesInv

\* The last octets of a frame are sent.
LEMMA SendReturnsStep ==
    ASSUME FramesInv, NEW t \in Writers, writeMutex = Nobody \/ writeMutex = t,
           NEW v \in Seq(Octet), wire' = wire \o v, SendReturns(t), cut' = cut,
           sending[t].frame \in FrameSet,
           Begun(writeMutex, sending) \in Seq(Octet),
           Begun(writeMutex, sending) \o v = FrameOctets(sending[t].frame),
           receiving' = receiving, framesGot' = framesGot, skipped' = skipped
    PROVE  FramesInv'
<1> DEFINE f == sending[t].frame
           fs == framesSent
           k == Len(framesGot)
<1>1. wire \in Seq(Octet) /\ fs \in Seq(FrameSet) /\ framesGot \in Seq(FramesReceived) /\ cut \in BOOLEAN
  BY Zenon DEF FramesInv, CallsInv
<1>2. k \in Nat
  BY <1>1
<1>3. wire' \in Seq(Octet)
  <2>1. wire \o v \in Seq(Octet)
    BY ONLY <1>1, v \in Seq(Octet), JoinFacts, Zenon
  <2> QED BY <2>1, Zenon
<1>4. /\ writeMutex' = Nobody /\ sending' = [sending EXCEPT ![t] = NoCall]
      /\ cut => framesSent' = fs
      /\ ~cut => framesSent' = Append(fs, f)
  BY Zenon DEF SendReturns
<1>5. Append(fs, f) \in Seq(FrameSet)
  <2> HIDE DEF f, fs
  <2>1. f \in FrameSet
    BY Zenon DEF f
  <2> QED BY ONLY <1>1, <2>1
<1>6. CallsInv'
  <2>1. framesSent' \in Seq(FrameSet)
    BY <1>1, <1>4, <1>5, Zenon
  <2> QED BY <1>1, <1>3, <1>4, <2>1, SendEnds, Zenon DEF FramesInv
<1>7. Agree(framesSent', framesGot', cut')
  <2>1. CASE cut
    BY <1>4, <2>1, Zenon DEF FramesInv
  <2>2. CASE ~cut
    <3>1. cut = FALSE
      BY <1>1, <2>2, Zenon
    <3>2. Agree(fs, framesGot, FALSE)
      BY <3>1, Zenon DEF FramesInv
    <3>3. Agree(Append(fs, f), framesGot, FALSE)
      BY <1>1, <3>2, AgreeSent, Zenon
    <3> QED BY <1>4, <2>2, <3>1, <3>3, Zenon
  <2> QED BY <2>1, <2>2, Zenon
<1>8. ASSUME ~skipped
      PROVE  \E b : Stream(b, wire \o v, framesSent', k, receiving, cut, Nobody, sending')
  <2>1. PICK at : Stream(at, wire, fs, k, receiving, cut, writeMutex, sending)
    BY <1>8, Zenon DEF FramesInv, StreamInv
  <2>2. CASE cut
    <3>1. cut = TRUE
      BY <1>1, <2>2, Zenon
    <3>2. Stream(at, wire \o v, fs, k, receiving, TRUE, Nobody, sending')
      BY <1>1, <1>2, <2>1, StreamCut, Zenon
    <3> QED BY <1>4, <2>2, <3>1, <3>2, Zenon
  <2>3. CASE ~cut
    <3>1. cut = FALSE
      BY <1>1, <2>3, Zenon
    <3>2. Stream(at, wire, fs, k, receiving, FALSE, writeMutex, sending)
      BY <2>1, <3>1, Zenon
    <3>3. writeMutex # Nobody => sending[writeMutex].frame = f
      BY Zenon
    <3> HIDE DEF f
    <3>4. f \in FrameSet /\ Begun(writeMutex, sending) \o v = FrameOctets(f)
      BY Zenon DEF f
    <3>5. \E b : Stream(b, wire \o v, Append(fs, f), k, receiving, FALSE, Nobody, sending')
      BY <1>1, <1>2, <3>2, <3>3, <3>4, StreamCompletes, Zenon
    <3> QED BY <1>4, <2>3, <3>1, <3>5, Zenon DEF f
  <2> QED BY <2>2, <2>3, Zenon
<1>9. StreamInv'
  BY <1>4, <1>8, Zenon DEF StreamInv
<1> QED BY <1>6, <1>7, <1>9, Zenon DEF FramesInv

\* A header is sent, or a part of one.
LEMMA SendHeaderStep ==
    ASSUME FramesInv, NEW t \in Writers, SendHeader(t)
    PROVE  FramesInv'
<1> DEFINE f == sending[t].frame
           c == [sending[t] EXCEPT !.at = "payload"]
<1>1. /\ sending[t].at = "header" /\ writeMutex = Nobody /\ receiving' = receiving
      /\ framesGot' = framesGot /\ skipped' = skipped
  BY Zenon DEF SendHeader
<1>2. sending[t] \in FrameCalls
  <2>1. NoCall.at # "header"
    BY Zenon DEF NoCall
  <2> QED BY <1>1, <2>1, Zenon DEF FramesInv, CallsInv
<1>3. f \in FrameSet /\ c \in FrameCalls /\ c.at = "payload" /\ c.frame = f
  <2> DEFINE x == sending[t]
  <2>1. x \in FrameCalls
    BY <1>2, Zenon
  <2> HIDE DEF x
  <2>2. x.frame \in FrameSet /\ [x EXCEPT !.at = "payload"] \in FrameCalls
        /\ [x EXCEPT !.at = "payload"].at = "payload" /\ [x EXCEPT !.at = "payload"].frame = x.frame
    BY ONLY <2>1, Zenon DEF FrameCalls
  <2> QED BY <2>2, Zenon DEF x
<1>4. wire \in Seq(Octet) /\ framesSent \in Seq(FrameSet) /\ framesGot \in Seq(FramesReceived)
      /\ cut \in BOOLEAN
  BY Zenon DEF FramesInv, CallsInv
<1>5. HeaderOctets(f) \in Seq(Octet)
  BY <1>3, HeaderOctetsIs, Zenon
<1>6. CASE CutShort(t, HeaderOctets(f))
  BY <1>1, <1>5, <1>6, CutShortStep, Zenon
<1>7. CASE /\ wire' = wire \o HeaderOctets(f) /\ cut' = cut
           /\ f.length = 0 /\ SendReturns(t)
  <2>1. Begun(writeMutex, sending) = <<>>
    BY <1>1, Zenon DEF Begun
  <2> DEFINE v == HeaderOctets(f)
  <2> HIDE DEF v
  <2>2. v \in Seq(Octet)
    BY <1>5, Zenon DEF v
  <2>3. <<>> \in Seq(Octet) /\ <<>> \o v = v
    BY ONLY <2>2
  <2>4. FrameOctets(f) = v
    <3>1. PayloadOf(f) = <<>>
      BY <1>7 DEF PayloadOf
    <3>2. v \o <<>> = v
      BY ONLY <2>2
    <3> QED BY <3>1, <3>2, Zenon DEF FrameOctets, v
  <2>5. wire' = wire \o v
    BY <1>7, Zenon DEF v
  <2> QED BY <1>1, <1>3, <1>7, <2>1, <2>2, <2>3, <2>4, <2>5, SendReturnsStep, Zenon
<1>8. CASE /\ wire' = wire \o HeaderOctets(f) /\ cut' = cut
           /\ f.length # 0 /\ writeMutex' = t
           /\ sending' = [sending EXCEPT ![t].at = "payload"]
           /\ framesSent' = framesSent
  <2>1. sending' = [sending EXCEPT ![t] = c]
    BY <1>8, Zenon
  <2> HIDE DEF c, f
  <2>2. /\ sending' \in [Writers -> FrameCalls \cup {NoCall}] /\ sending'[t] = c
        /\ \A u \in Writers : u # t => sending'[u] = sending[u]
    BY <1>3, <2>1, Zenon DEF FramesInv, CallsInv
  <2>3. wire' \in Seq(Octet)
    <3>1. wire \o HeaderOctets(f) \in Seq(Octet)
      BY ONLY <1>4, <1>5, JoinFacts, Zenon
    <3> QED BY <1>8, <3>1, Zenon
  <2>4. t # Nobody
    BY FramesAssumption, Zenon
  <2>5. CallsInv'
    <3>1. \A u \in Writers : sending'[u].at = "payload" => u = t
      BY <1>1, <2>2, FramesAssumption, Zenon DEF FramesInv, CallsInv
    <3> QED BY <1>1, <1>3, <1>4, <1>8, <2>2, <2>3, <3>1, Zenon DEF FramesInv, CallsInv
  <2>6. Len(framesGot) \in Nat
    BY <1>4
  <2>7. ASSUME NEW at, Stream(at, wire, framesSent, Len(framesGot), receiving, cut, Nobody, sending)
        PROVE  Stream(at, wire \o HeaderOctets(f), framesSent, Len(framesGot), receiving, cut, t, sending')
    <3>1. sending'[t].frame = f /\ sending'[t].frame \in FrameSet
      BY <1>3, <2>2, Zenon
    <3>2. Stream(at, wire \o HeaderOctets(sending'[t].frame), framesSent, Len(framesGot),
                 receiving, cut, t, sending')
      BY <1>4, <2>4, <2>6, <2>7, <3>1, StreamBegins, Zenon
    <3> QED BY <3>1, <3>2, Zenon
  <2>8. StreamInv'
    BY <1>1, <1>8, <2>7, Zenon DEF FramesInv, StreamInv
  <2> QED BY <1>1, <1>8, <2>5, <2>8, Zenon DEF FramesInv
<1> QED BY <1>6, <1>7, <1>8, Zenon DEF SendHeader

\* A payload is sent, or a part of one.
LEMMA SendPayloadStep ==
    ASSUME FramesInv, NEW t \in Writers, SendPayload(t)
    PROVE  FramesInv'
<1> DEFINE f == sending[t].frame
<1>1. /\ sending[t].at = "payload" /\ receiving' = receiving
      /\ framesGot' = framesGot /\ skipped' = skipped
  BY Zenon DEF SendPayload
<1>2. writeMutex = t /\ t # Nobody
  BY <1>1, FramesAssumption, Zenon DEF FramesInv, CallsInv
<1>3. f \in FrameSet
  BY <1>2, Zenon DEF FramesInv, CallsInv
<1>4. PayloadOf(f) \in Seq(Octet) /\ HeaderOctets(f) \in Seq(Octet)
  BY <1>3, FrameOctetsIs, HeaderOctetsIs, Zenon
<1>5. Begun(writeMutex, sending) = HeaderOctets(f)
  BY <1>2, Zenon DEF Begun
<1>6. CASE CutShort(t, PayloadOf(f))
  BY <1>1, <1>2, <1>4, <1>6, CutShortStep, Zenon
<1>7. CASE wire' = wire \o PayloadOf(f) /\ SendReturns(t) /\ cut' = cut
  <2>1. Begun(writeMutex, sending) \o PayloadOf(f) = FrameOctets(f)
    BY <1>5, Zenon DEF FrameOctets
  <2>2. Begun(writeMutex, sending) \in Seq(Octet)
    BY <1>4, <1>5, Zenon
  <2> QED BY <1>1, <1>2, <1>3, <1>4, <1>7, <2>1, <2>2, SendReturnsStep, Zenon
<1> QED BY <1>6, <1>7, Zenon DEF SendPayload

-----------------------------------------------------------------------------
\* The receiver's half of the invariant on the calls.
LEMMA ReceiverTypes ==
    ASSUME CallsInv, wire' \in Seq(Octet), framesGot' \in Seq(FramesReceived),
           receiving' \in [at : {"payload"}, header : Headers] \cup {NoCall}, skipped' \in BOOLEAN,
           writeMutex' = writeMutex, sending' = sending, framesSent' = framesSent, cut' = cut
    PROVE  CallsInv'
BY Zenon DEF CallsInv

\* The frame that is received agrees with the one sent in its place.
LEMMA GotStep ==
    ASSUME CallsInv, Agree(framesSent, framesGot, cut), NEW r \in FramesReceived, Got(r),
           ~skipped /\ Len(framesGot) < Len(framesSent) =>
             SameFrame(framesSent[Len(framesGot) + 1], r),
           ~skipped /\ ~cut => Len(framesGot) < Len(framesSent),
           framesSent' = framesSent, cut' = cut
    PROVE  /\ framesGot' \in Seq(FramesReceived)
           /\ Agree(framesSent', framesGot', cut')
           /\ ~skipped => Len(framesGot') = Len(framesGot) + 1
<1>1. framesSent \in Seq(FrameSet) /\ framesGot \in Seq(FramesReceived) /\ cut \in BOOLEAN
  BY Zenon DEF CallsInv
<1>2. CASE skipped
  <2>1. framesGot' = framesGot
    BY <1>2, Zenon DEF Got
  <2> QED BY <1>1, <1>2, <2>1, Zenon
<1>3. CASE ~skipped
  <2>1. framesGot' = Append(framesGot, r)
    BY <1>3, Zenon DEF Got
  <2>2. Append(framesGot, r) \in Seq(FramesReceived)
        /\ Len(Append(framesGot, r)) = Len(framesGot) + 1
    BY ONLY <1>1, r \in FramesReceived
  <2>3. Agree(framesSent, Append(framesGot, r), cut)
    BY <1>1, <1>3, AgreeGot, Zenon
  <2> QED BY <2>1, <2>2, <2>3, Zenon
<1> QED BY <1>2, <1>3, Zenon

\* A header is received.
LEMMA RecvHeaderStep ==
    ASSUME FramesInv, RecvHeader
    PROVE  FramesInv'
<1> DEFINE h == HeaderOf(wire)
           k == Len(framesGot)
           x == Drop(wire, HeaderSize)
           r == [header |-> h, payload |-> <<>>]
           p == [at |-> "payload", header |-> h]
<1>1. /\ receiving = NoCall /\ Len(wire) >= HeaderSize /\ wire' = x
      /\ h.length = 0 => Got(r) /\ receiving' = receiving
      /\ h.length # 0 => receiving' = p /\ framesGot' = framesGot
      /\ writeMutex' = writeMutex /\ sending' = sending /\ framesSent' = framesSent
      /\ cut' = cut /\ skipped' = skipped
  BY Zenon DEF RecvHeader, Take, Drop
<1>2. wire \in Seq(Octet) /\ framesSent \in Seq(FrameSet) /\ framesGot \in Seq(FramesReceived)
      /\ cut \in BOOLEAN /\ skipped \in BOOLEAN
  BY Zenon DEF FramesInv, CallsInv
<1>3. HeaderSize \in 0 .. Len(wire) /\ HeaderSize <= Len(wire) /\ k \in Nat
  BY <1>1, <1>2, FramesAssumption DEF HeaderSize
<1>4. x \in Seq(Octet)
  BY <1>2, <1>3, DropFacts, Zenon
<1>5. h \in Headers
  BY <1>2, <1>3, HeaderType, Zenon
<1> HIDE DEF h, x
<1>6. /\ r \in FramesReceived /\ p \in [at : {"payload"}, header : Headers]
      /\ r.header = h /\ r.payload = <<>>
  BY ONLY <1>5 DEF FramesReceived
<1> HIDE DEF r, p
<1>7. ASSUME ~skipped
      PROVE  AfterHeader(x, framesSent, k, h, cut, writeMutex, sending)
  <2>1. PICK at : Stream(at, wire, framesSent, k, NoCall, cut, writeMutex, sending)
    BY <1>1, <1>7, Zenon DEF FramesInv, StreamInv
  <2>2. writeMutex # Nobody => sending[writeMutex].frame \in FrameSet
                               /\ sending[writeMutex].frame.length # 0
    BY Zenon DEF FramesInv, CallsInv
  <2> QED BY <1>2, <1>3, <2>1, <2>2, StreamHeader, Zenon DEF h, x
<1>8. CASE h.length = 0
  <2>1. ASSUME ~skipped, k < Len(framesSent) PROVE SameFrame(framesSent[k + 1], r)
    <3> DEFINE f == framesSent[k + 1]
    <3>1. h = HeaderFields(f)
      BY <1>7, <2>1, Zenon DEF AfterHeader
    <3>2. f.length = 0
      BY <1>8, <3>1 DEF HeaderFields
    <3>3. PayloadOf(f) = <<>>
      BY <3>2 DEF PayloadOf
    <3> QED BY <1>6, <3>1, <3>3, Zenon DEF SameFrame
  <2>2. ~skipped /\ ~cut => k < Len(framesSent)
    BY <1>7, <1>8, Zenon DEF AfterHeader
  <2>3. /\ framesGot' \in Seq(FramesReceived) /\ Agree(framesSent', framesGot', cut')
        /\ ~skipped => Len(framesGot') = k + 1
    BY <1>1, <1>6, <1>8, <2>1, <2>2, GotStep, Zenon DEF FramesInv
  <2>4. CallsInv'
    BY <1>1, <1>2, <1>4, <1>8, <2>3, ReceiverTypes, Zenon DEF FramesInv
  <2>5. StreamInv'
    BY <1>1, <1>7, <1>8, <2>3, Zenon DEF StreamInv, AfterHeader
  <2> QED BY <2>3, <2>4, <2>5, Zenon DEF FramesInv
<1>9. CASE h.length # 0
  <2>1. CallsInv'
    BY <1>1, <1>2, <1>4, <1>6, <1>9, ReceiverTypes, Zenon DEF FramesInv
  <2>2. StreamInv'
    BY <1>1, <1>7, <1>9, Zenon DEF StreamInv, AfterHeader, p
  <2> QED BY <1>1, <1>9, <2>1, <2>2, Zenon DEF FramesInv
<1> QED BY <1>8, <1>9, Zenon

\* A payload is received.
LEMMA RecvPayloadStep ==
    ASSUME FramesInv, RecvPayload
    PROVE  FramesInv'
<1> DEFINE h == receiving.header
           k == Len(framesGot)
           x == Drop(wire, h.length)
           y == SubSeq(wire, 1, h.length)
           r == [header |-> h, payload |-> y]
<1>1. /\ receiving.at = "payload" /\ Len(wire) >= h.length /\ wire' = x
      /\ Got(r) /\ receiving' = NoCall
      /\ writeMutex' = writeMutex /\ sending' = sending /\ framesSent' = framesSent
      /\ cut' = cut /\ skipped' = skipped
  BY Zenon DEF RecvPayload, Take, Drop
<1>2. wire \in Seq(Octet) /\ framesSent \in Seq(FrameSet) /\ framesGot \in Seq(FramesReceived)
      /\ cut \in BOOLEAN /\ skipped \in BOOLEAN
  BY Zenon DEF FramesInv, CallsInv
<1>3. receiving # NoCall /\ h \in Headers
  <2>1. NoCall.at # "payload"
    BY Zenon DEF NoCall
  <2>2. receiving \in [at : {"payload"}, header : Headers]
    BY <1>1, <2>1, Zenon DEF FramesInv, CallsInv
  <2>3. receiving.header \in Headers
    BY ONLY <2>2, Zenon
  <2> QED BY <1>1, <2>1, <2>3, Zenon
<1>4. h.length \in 0 .. Len(wire) /\ k \in Nat
  <2> HIDE DEF h
  <2>1. h.length \in Nat
    BY ONLY <1>3, Zenon DEF Headers
  <2> QED BY <1>1, <1>2, <2>1
<1>5. x \in Seq(Octet)
  BY <1>2, <1>4, DropFacts, Zenon
<1>6. y \in Seq(Octet)
  <2> DEFINE n == h.length
  <2> HIDE DEF n
  <2>1. n \in 0 .. Len(wire)
    BY <1>4, Zenon DEF n
  <2>2. SubSeq(wire, 1, n) \in Seq(Octet)
    BY ONLY <1>2, <2>1
  <2> QED BY <2>2, Zenon DEF n
<1> HIDE DEF y
<1>7. r \in FramesReceived /\ r.header = h /\ r.payload = y
  <2> HIDE DEF h
  <2> QED BY ONLY <1>3, <1>6, Zenon DEF FramesReceived
<1> HIDE DEF r
<1>8. ASSUME ~skipped
      PROVE  /\ AfterPayload(wire, framesSent, k, h, cut, writeMutex, sending)
             /\ k < Len(framesSent) => h = HeaderFields(framesSent[k + 1])
  <2>1. PICK at : Stream(at, wire, framesSent, k, receiving, cut, writeMutex, sending)
    BY <1>8, Zenon DEF FramesInv, StreamInv
  <2>2. writeMutex # Nobody => sending[writeMutex].frame \in FrameSet
                               /\ sending[writeMutex].frame.length # 0
    BY Zenon DEF FramesInv, CallsInv
  <2>3. AfterPayload(wire, framesSent, k, h, cut, writeMutex, sending)
    BY <1>2, <1>3, <1>4, <2>1, <2>2, StreamPayload, Zenon
  <2> QED BY <1>3, <2>1, <2>3, Zenon DEF Stream, ReaderAt
<1>9. ~skipped /\ k < Len(framesSent) => SameFrame(framesSent[k + 1], r)
  BY <1>7, <1>8, Zenon DEF SameFrame, AfterPayload, y
<1>10. ~skipped /\ ~cut => k < Len(framesSent)
  BY <1>8, Zenon DEF AfterPayload
<1>11. /\ framesGot' \in Seq(FramesReceived) /\ Agree(framesSent', framesGot', cut')
       /\ ~skipped => Len(framesGot') = k + 1
  BY <1>1, <1>7, <1>9, <1>10, GotStep, Zenon DEF FramesInv
<1>12. CallsInv'
  BY <1>1, <1>2, <1>5, <1>11, ReceiverTypes, Zenon DEF FramesInv
<1>13. StreamInv'
  BY <1>1, <1>8, <1>11, Zenon DEF StreamInv, AfterPayload
<1> QED BY <1>11, <1>12, <1>13, Zenon DEF FramesInv

\* There is no memory for a payload.
LEMMA RecvNoMemoryStep ==
    ASSUME FramesInv, RecvNoMemory
    PROVE  FramesInv'
<1>1. /\ receiving' = NoCall /\ skipped' = TRUE /\ wire' = wire /\ framesGot' = framesGot
      /\ writeMutex' = writeMutex /\ sending' = sending /\ framesSent' = framesSent /\ cut' = cut
  BY Zenon DEF RecvNoMemory
<1>2. CallsInv'
  BY <1>1, Zenon DEF FramesInv, CallsInv
<1> QED BY <1>1, <1>2, Zenon DEF FramesInv, StreamInv

\* http2_connection_send_frame and http2_connection_recv_frame: frames that
\* several threads send reach the receiver whole, in the order of write_mutex,
\* whatever their lengths and however many there are; until a send is cut short
\* nothing else is received, and nothing is lost on the way.
THEOREM FramesCorrect == FramesSpec => []FramesIntact
<1>1. FramesInv /\ [FramesNext]_frameVars => FramesInv'
  <2> SUFFICES ASSUME FramesInv, [FramesNext]_frameVars PROVE FramesInv'
    BY Zenon
  <2>1. CASE \E t \in Writers : \E f \in FrameSet : SendFrame(t, f)
    BY <2>1, SendFrameStep, Zenon
  <2>2. CASE \E t \in Writers : SendHeader(t)
    BY <2>2, SendHeaderStep, Zenon
  <2>3. CASE \E t \in Writers : SendPayload(t)
    BY <2>3, SendPayloadStep, Zenon
  <2>4. CASE RecvHeader
    BY <2>4, RecvHeaderStep, Zenon
  <2>5. CASE RecvPayload
    BY <2>5, RecvPayloadStep, Zenon
  <2>6. CASE RecvNoMemory
    BY <2>6, RecvNoMemoryStep, Zenon
  <2>7. CASE UNCHANGED frameVars
    BY <2>7, Zenon DEF frameVars, FramesInv, CallsInv, StreamInv
  <2> QED BY <2>1, <2>2, <2>3, <2>4, <2>5, <2>6, <2>7, Zenon DEF FramesNext
<1> QED BY <1>1, FramesStart, FramesInvImplies, PTL DEF FramesSpec
=============================================================================
