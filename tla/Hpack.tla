------------------------------- MODULE Hpack -------------------------------
(***************************************************************************)
(* HPACK coding of header blocks (hpack.c): integers with a prefix, and    *)
(* header fields as literals.  The static table is declared, and not used  *)
(* by the code; there is no dynamic table.                                 *)
(*                                                                         *)
(* The widths are constants.  The code has groups of 7 bits in bytes of 8, *)
(* words of 32 bits and a largest shift of 28.                             *)
(***************************************************************************)
EXTENDS Integers, Sequences, Numbers

CONSTANTS
    GroupBits,   \* bits of an integer in one continuation byte (7)
    WordBits,    \* width of the decoded integer (32, uint32_t)
    MaxShift,    \* HPACK_MAX_SHIFT_BITS (28)
    MaxBytes     \* HPACK_INTEGER_MAX_BYTES (5)

\* As in the code: the last group that is accepted reaches past the word.
ASSUME HpackAssumption ==
    /\ GroupBits \in Nat \ {0}
    /\ WordBits \in Nat /\ MaxShift \in Nat /\ MaxBytes \in Nat
    /\ MaxShift % GroupBits = 0
    /\ MaxShift < WordBits /\ WordBits < MaxShift + GroupBits
    /\ MaxBytes = MaxShift \div GroupBits + 1

Group == Power(2, GroupBits)      \* 0x80: the flag of a continued integer
Word == Power(2, WordBits)
Byte == 0 .. 2 * Group - 1
Failed == [read |-> -1]           \* the return value -1

\* What is left of a number after so many rounds of the loop, and the rounds
\* after which a group is left.
Left(value, rounds) == value \div Power(Group, rounds)
Rounds(value) ==
    CHOOSE n \in 0 .. MaxBytes : /\ Left(value, n) < Group
                                /\ \A i \in 0 .. n - 1 : Left(value, i) >= Group

\* A number below max_prefix is the first byte; otherwise the rest follows in
\* groups, the least significant first, all but the last with the flag set.
Groups(value) ==
    [i \in 1 .. Rounds(value) + 1 |->
        IF i <= Rounds(value) THEN (Left(value, i - 1) % Group) + Group
                              ELSE Left(value, i - 1)]

Bug_Code(value, prefix) ==
    LET maxPrefix == Power(2, prefix) - 1
    IN  IF value <= maxPrefix THEN <<value>>
                              ELSE <<maxPrefix>> \o Groups(value - maxPrefix)
Code(value, prefix) ==
    LET maxPrefix == Power(2, prefix) - 1
    IN  IF value < maxPrefix THEN <<value>>
                             ELSE <<maxPrefix>> \o Groups(value - maxPrefix)

\* hpack_encode_integer, into a buffer with room for so many bytes.
EncodeInteger(value, prefix, room) ==
    LET code == Code(value, prefix)
    IN  IF prefix > GroupBits \/ Len(code) > room
          THEN Failed
          ELSE [read |-> Len(code), bytes |-> code]

\* The sum would not fit into the word.
Bug_WouldOverflow(value, toAdd) == value > Word - toAdd
WouldOverflow(value, toAdd) == value > Word - 1 - toAdd

\* hpack_decode_integer.  value[i] is *value after the byte at i, to_add is
\* computed in a word, and the call ends at the first byte without the flag.
DecodeInteger(input, prefix) ==
    LET Shift(i) == GroupBits * (i - 2)
        ToAdd(i) == ((input[i] % Group) * Power(2, Shift(i))) % Word
        value[i \in 1 .. Len(input)] ==
            IF i = 1 THEN input[1] % Power(2, prefix) ELSE (value[i - 1] + ToAdd(i)) % Word
        Ends == {i \in 2 .. Len(input) : input[i] < Group}
    IN  IF input = <<>> \/ prefix > GroupBits THEN Failed
        ELSE IF value[1] < Power(2, prefix) - 1 THEN [read |-> 1, value |-> value[1]]
        ELSE IF Ends = {} THEN Failed
        ELSE LET end == CHOOSE i \in Ends : \A j \in Ends : i <= j
             IN  IF \E i \in 2 .. end :
                        Shift(i) > MaxShift \/ WouldOverflow(value[i - 1], ToAdd(i))
                   THEN Failed
                   ELSE [read |-> end, value |-> value[end]]

-----------------------------------------------------------------------------
\* A C string ends at its first zero byte: what strlen counts.
CString(s) ==
    LET zeros == {i \in 1 .. Len(s) : s[i] = 0}
    IN  IF zeros = {} THEN s
        ELSE SubSeq(s, 1, (CHOOSE i \in zeros : \A j \in zeros : i <= j) - 1)

\* hpack_encode_literal_header.  It wants room for the longest integers, of
\* MaxBytes, whatever the lengths are.
Literal(name, value) ==
    <<0>> \o Code(Len(name), GroupBits) \o name \o Code(Len(value), GroupBits) \o value

EncodeLiteral(key, data, room) ==
    LET name == CString(key)
        value == CString(data)
    IN  IF room < 1 + MaxBytes + Len(name) + MaxBytes + Len(value)
          THEN Failed
          ELSE LET bytes == Literal(name, value)
               IN  IF Len(bytes) > room THEN Failed
                                        ELSE [read |-> Len(bytes), bytes |-> bytes]

\* hpack_decode_literal_header, as far as it depends on the input only: where
\* it gives up, "key" before the key was allocated and "value" after it.
DecodeLiteral(input) ==
    LET rest == SubSeq(input, 2, Len(input))
        k == DecodeInteger(rest, GroupBits)
        afterKey == SubSeq(rest, k.read + k.value + 1, Len(rest))
        v == DecodeInteger(afterKey, GroupBits)
    IN  IF Len(input) < 2 \/ k.read < 0 \/ k.read + k.value > Len(rest)
          THEN [read |-> -1, at |-> "key"]
        ELSE IF v.read < 0 \/ v.read + v.value > Len(afterKey)
          THEN [read |-> -1, at |-> "value"]
        ELSE [read  |-> 1 + k.read + k.value + v.read + v.value,
              key   |-> SubSeq(rest, k.read + 1, k.read + k.value),
              value |-> SubSeq(afterKey, v.read + 1, v.read + v.value)]
=============================================================================
