------------------------------ MODULE Metadata ------------------------------
(***************************************************************************)
(* Metadata from one end of a call to the other: an array is filled        *)
(* (enhanced_features.c), encoded into a header block and decoded into an  *)
(* array again (hpack.c).  Any allocation may fail, and the receiver may   *)
(* be given only the first bytes of the block.                             *)
(***************************************************************************)
EXTENDS Hpack

CONSTANTS
    Keys,              \* header names, as C strings
    Values,            \* header values; they may contain zero bytes
    InitialCapacities, \* arguments of grpc_metadata_array_init
    DefaultCapacity,   \* GRPC_METADATA_DEFAULT_CAPACITY and
                       \* HPACK_DECODE_INITIAL_CAPACITY (16)
    MaxEntries,        \* bound on the entries added
    BufferSizes        \* sizes of the output buffer

\* The lengths of strings fit into the uint32_t they are encoded as.
ASSUME MetadataAssumption ==
    /\ InitialCapacities \subseteq Nat /\ DefaultCapacity \in Nat \ {0}
    /\ \A s \in Keys \cup Values : s \in Seq(Byte) /\ Len(s) < Word

VARIABLES
    sent,       \* the sender's grpc_metadata_array
    block,      \* the encoded header block
    arrived,    \* what the receiver got of it
    received,   \* the receiver's grpc_metadata_array
    pos,        \* pos in hpack_decode_metadata
    heap,       \* blocks the receiver has allocated and not freed
    phase       \* how far the metadata has come

metadataVars == <<sent, block, arrived, received, pos, heap, phase>>

\* memory: whether array->metadata is NULL, allocated or dangling.
NoArray == [entries |-> <<>>, capacity |-> 0, memory |-> "null"]
EmptyArray(capacity) == [entries |-> <<>>, capacity |-> capacity, memory |-> "held"]

MetadataInit ==
    /\ sent = NoArray
    /\ block = <<>>
    /\ arrived = <<>>
    /\ received = NoArray
    /\ pos = 0
    /\ heap = 0
    /\ phase = "start"

-----------------------------------------------------------------------------
\* grpc_metadata_array_init.
ArrayInit(c) ==
    LET capacity == IF c > 0 THEN c ELSE DefaultCapacity
    IN  /\ phase = "start"
        /\ \/ sent' = EmptyArray(capacity) /\ phase' = "filling"
           \/ sent' = [NoArray EXCEPT !.capacity = capacity] /\ phase' = "end"
        /\ UNCHANGED <<block, arrived, received, pos, heap>>

\* Both arrays double when they are full.
GrownCapacity(a) == IF Len(a.entries) >= a.capacity THEN 2 * a.capacity ELSE a.capacity

\* grpc_metadata_array_add.
ArrayAdd(k, v) ==
    /\ phase = "filling"
    /\ Len(sent.entries) < MaxEntries
    /\ sent' = [sent EXCEPT !.capacity = GrownCapacity(sent),
                            !.entries = Append(@, [key |-> k, value |-> v])]
    /\ UNCHANGED <<block, arrived, received, pos, heap, phase>>

\* It returns -1: the realloc fails, or after it the copy of key or value.
ArrayAddFails ==
    /\ phase = "filling"
    /\ \/ UNCHANGED sent
       \/ sent' = [sent EXCEPT !.capacity = GrownCapacity(sent)]
    /\ UNCHANGED <<block, arrived, received, pos, heap, phase>>

\* hpack_encode_metadata: entry by entry, each into the room that is left.
EncodeEntries(entries, size) ==
    LET upTo[i \in 0 .. Len(entries)] ==
            IF i = 0 THEN [read |-> 0, bytes |-> <<>>]
            ELSE LET before == upTo[i - 1]
                     next == EncodeLiteral(entries[i].key, entries[i].value,
                                           size - before.read)
                 IN  IF before = Failed \/ next = Failed THEN Failed
                     ELSE [read  |-> before.read + next.read,
                           bytes |-> before.bytes \o next.bytes]
    IN  upTo[Len(entries)]

EncodeBlock(size) ==
    LET e == EncodeEntries(sent.entries, size)
    IN  /\ phase = "filling"
        /\ IF e = Failed THEN phase' = "end" /\ UNCHANGED block
                         ELSE phase' = "encoded" /\ block' = e.bytes
        /\ UNCHANGED <<sent, arrived, received, pos, heap>>

\* The transport hands over the block, or loses its end.
Deliver(n) ==
    /\ phase = "encoded"
    /\ arrived' = SubSeq(block, 1, n)
    /\ phase' = "delivered"
    /\ UNCHANGED <<sent, block, received, pos, heap>>

-----------------------------------------------------------------------------
\* hpack_decode_metadata up to its loop.
DecodeStart ==
    /\ phase = "delivered"
    /\ \/ /\ received' = EmptyArray(DefaultCapacity)
          /\ heap' = heap + 1
          /\ phase' = "decoding"
       \/ /\ received' = [NoArray EXCEPT !.capacity = DefaultCapacity]
          /\ heap' = heap
          /\ phase' = "failed"
    /\ UNCHANGED <<sent, block, arrived, pos>>

Rest == SubSeq(arrived, pos + 1, Len(arrived))

\* hpack_decode_literal_header returns -1, at the latest when malloc of the key
\* or of the value fails, and has freed what it allocated.  The entries and
\* the array are freed, and the pointer to the array is kept.
Bug_Cleanup == heap - 1
Cleanup == heap - 1 - 2 * Len(received.entries)

DecodeFails ==
    /\ phase = "decoding"
    /\ pos < Len(arrived)
    /\ heap' = Cleanup
    /\ received' = [received EXCEPT !.memory = "freed"]
    /\ phase' = "failed"
    /\ UNCHANGED <<sent, block, arrived, pos>>

\* One more header.  An array that is full is reallocated; if that fails, the
\* new key and value are freed and the array is left as it is.
DecodeHeader ==
    LET d == DecodeLiteral(Rest)
        entry == [key |-> CString(d.key), value |-> CString(d.value)]
    IN  /\ phase = "decoding"
        /\ pos < Len(arrived)
        /\ d.read > 0
        /\ \/ /\ received' = [received EXCEPT !.capacity = GrownCapacity(received),
                                              !.entries = Append(@, entry)]
              /\ heap' = heap + 2
              /\ pos' = pos + d.read
              /\ UNCHANGED phase
           \/ /\ Len(received.entries) >= received.capacity
              /\ phase' = "failed"
              /\ UNCHANGED <<received, heap, pos>>
        /\ UNCHANGED <<sent, block, arrived>>

DecodeReturns ==
    /\ phase = "decoding"
    /\ pos >= Len(arrived)
    /\ phase' = "decoded"
    /\ UNCHANGED <<sent, block, arrived, received, pos, heap>>

\* grpc_metadata_array_destroy of the receiver's array.  After a failure it
\* may be called only if the array was left allocated, or never was.
ArrayDestroy ==
    /\ phase \in {"decoded", "failed"}
    /\ received.memory # "freed"
    /\ heap' = IF received.memory = "null" THEN heap
               ELSE heap - 1 - 2 * Len(received.entries)
    /\ received' = NoArray
    /\ phase' = "end"
    /\ UNCHANGED <<sent, block, arrived, pos>>

MetadataNext ==
    \/ \E c \in InitialCapacities : ArrayInit(c)
    \/ \E k \in Keys, v \in Values : ArrayAdd(k, v)
    \/ ArrayAddFails
    \/ \E size \in BufferSizes : EncodeBlock(size)
    \/ \E n \in 0 .. Len(block) : Deliver(n)
    \/ DecodeStart \/ DecodeHeader \/ DecodeFails \/ DecodeReturns
    \/ ArrayDestroy

MetadataSpec == MetadataInit /\ [][MetadataNext]_metadataVars

-----------------------------------------------------------------------------
\* The bytes of a string before its first zero, as the receiver should get it.
Cut(s) ==
    SubSeq(s, 1, CHOOSE n \in 0 .. Len(s) :
                     /\ \A i \in 1 .. n : s[i] # 0
                     /\ n = Len(s) \/ s[n + 1] = 0)

\* What hpack_decode_metadata returns with success is what was put into the
\* sender's array, in order: all of it if the whole block arrived, the first
\* entries if its end was lost, never anything else.  A value with a zero byte
\* arrives cut before it, since the encoder takes its strlen and not its
\* value_length; see BinaryValuesSurvive.
DecodedAsSent ==
    phase = "decoded" =>
        /\ Len(received.entries) <= Len(sent.entries)
        /\ \A i \in 1 .. Len(received.entries) :
              received.entries[i] = [key   |-> Cut(sent.entries[i].key),
                                     value |-> Cut(sent.entries[i].value)]
        /\ arrived = block => Len(received.entries) = Len(sent.entries)

\* VALIDATION_REPORT.md: "Binary metadata support (value_length field)".  A
\* value added with its length arrives with that length.
BinaryValuesSurvive ==
    phase = "decoded" =>
        \A i \in 1 .. Len(received.entries) :
            Len(received.entries[i].value) = Len(sent.entries[i].value)

\* Whatever fails on the way, the receiver has allocated exactly the blocks
\* that its array holds: a failed decoding either frees all of them, or leaves
\* an array that grpc_metadata_array_destroy frees.  Neither array is ever
\* written behind its end.
BlocksAccounted ==
    /\ heap = IF received.memory = "held" THEN 1 + 2 * Len(received.entries) ELSE 0
    /\ \A a \in {sent, received} : Len(a.entries) <= a.capacity
=============================================================================
