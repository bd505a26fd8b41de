--------------------------- MODULE IntegerCoding ---------------------------
(***************************************************************************)
(* The integer coder of hpack.c at work: a number is encoded into a buffer *)
(* and decoded again, or bytes from elsewhere are decoded.  The numbers,   *)
(* the prefixes and the bytes are chosen initially.                        *)
(***************************************************************************)
EXTENDS Hpack

CONSTANTS
    Rooms,       \* sizes of the output buffer
    MaxGroups    \* continuation bytes in what is received from elsewhere

VARIABLES
    prefix,      \* prefix_bits
    number,      \* the number to encode, -1 for bytes from elsewhere
    bytes,       \* the bytes to decode
    encoded,     \* what hpack_encode_integer returned
    decoded      \* what hpack_decode_integer returned

integerVars == <<prefix, number, bytes, encoded, decoded>>

NotCalled == [read |-> 0]

\* An integer whose prefix is full and that is continued n times.
Continued(p, n) ==
    {<<Power(2, p) - 1>> \o s :
        s \in {t \in [1 .. n -> Byte] : \A i \in 1 .. n - 1 : t[i] >= Group}}

IntegerInit ==
    /\ encoded = NotCalled
    /\ decoded = NotCalled
    /\ \/ /\ prefix \in 0 .. GroupBits + 1
          /\ number \in 0 .. Word - 1
          /\ bytes = <<>>
       \/ /\ prefix = GroupBits
          /\ number = -1
          /\ bytes \in UNION {Continued(GroupBits, n) : n \in 1 .. MaxGroups}

EncodeNumber(room) ==
    /\ number >= 0
    /\ encoded = NotCalled
    /\ encoded' = EncodeInteger(number, prefix, room)
    /\ bytes' = IF encoded'.read > 0 THEN encoded'.bytes ELSE <<>>
    /\ UNCHANGED <<prefix, number, decoded>>

DecodeNumber ==
    /\ decoded = NotCalled
    /\ number >= 0 => encoded # NotCalled
    /\ decoded' = DecodeInteger(bytes, prefix)
    /\ UNCHANGED <<prefix, number, bytes, encoded>>

IntegerNext == (\E room \in Rooms : EncodeNumber(room)) \/ DecodeNumber

IntegerSpec == IntegerInit /\ [][IntegerNext]_integerVars

-----------------------------------------------------------------------------
\* The number that a coded integer stands for, however large: the reference.
NumberAt(i) ==
    LET sum[j \in 1 .. i] ==
            IF j = 1 THEN bytes[1] % Power(2, prefix)
                     ELSE sum[j - 1] + (bytes[j] % Group) * Power(2, GroupBits * (j - 2))
    IN  sum[i]

\* The last group lies at the top of the word and has bits beyond it: the one
\* overflow that hpack_decode_integer does not see, since to_add wraps first.
TopGroupWraps ==
    LET top == MaxShift \div GroupBits + 2
    IN  decoded.read = top /\ bytes[top] % Group >= Power(2, WordBits - MaxShift)

\* hpack_encode_integer and hpack_decode_integer are inverse for every uint32_t
\* and every prefix, at all the edges (prefix full, group full, word full),
\* and use exactly the bytes that were written.  Bytes from elsewhere are
\* decoded to the number they stand for, except where TopGroupWraps, or
\* refused, and only if they are longer than the word or unfinished.
IntegersExact ==
    /\ number >= 0 /\ decoded # NotCalled /\ encoded.read > 0 =>
         decoded = [read |-> encoded.read, value |-> number]
    /\ decoded.read > 0 /\ ~TopGroupWraps => decoded.value = NumberAt(decoded.read)
    /\ number < 0 /\ decoded = Failed =>
         \/ \A i \in 2 .. Len(bytes) : bytes[i] >= Group
         \/ Len(bytes) > MaxShift \div GroupBits + 2
         \/ NumberAt(Len(bytes)) >= Word
=============================================================================
