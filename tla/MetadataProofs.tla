--------------------------- MODULE MetadataProofs ---------------------------
(***************************************************************************)
(* Proofs about metadata on its way from one array into a header block and *)
(* into another array, for any keys, values, capacities and buffers.       *)
(***************************************************************************)
EXTENDS Metadata, HpackProofs

-----------------------------------------------------------------------------
IsSeq(s) == \E X : s \in Seq(X)

\* Appending to a sequence, whatever it contains.
LEMMA IsSeqAppend ==
    ASSUME NEW s, IsSeq(s), NEW e
    PROVE  IsSeq(Append(s, e)) /\ Len(s) \in Nat /\ Len(Append(s, e)) = Len(s) + 1
<1>1. PICK X : s \in Seq(X)
  BY Zenon DEF IsSeq
<1>2. s \in Seq(X \cup {e})
  BY <1>1
<1>3. Append(s, e) \in Seq(X \cup {e})
  BY <1>2
<1>4. IsSeq(Append(s, e))
  BY <1>3, Zenon DEF IsSeq
<1>5. Len(s) \in Nat /\ Len(Append(s, e)) = Len(s) + 1
  BY <1>1
<1> QED BY <1>4, <1>5, Zenon

\* The empty sequence.
LEMMA IsSeqEmpty == IsSeq(<<>>) /\ Len(<<>>) = 0
<1>1. <<>> \in Seq({})
  OBVIOUS
<1> QED BY <1>1, Zenon DEF IsSeq

\* An array with room for its entries; room for more than none lets it double.
RoomFor(a, least) ==
    /\ DOMAIN a = {"entries", "capacity", "memory"}
    /\ a = [entries |-> a.entries, capacity |-> a.capacity, memory |-> a.memory]
    /\ IsSeq(a.entries)
    /\ a.capacity \in Nat /\ least <= a.capacity
    /\ Len(a.entries) <= a.capacity

\* An array that grows when it is full has room for another entry,
LEMMA RoomForOneMore ==
    ASSUME NEW a, RoomFor(a, 1), NEW e, NEW b,
           b = [a EXCEPT !.capacity = GrownCapacity(a), !.entries = Append(@, e)]
    PROVE  RoomFor(b, 1) /\ b.memory = a.memory /\ Len(a.entries) \in Nat
           /\ Len(b.entries) = Len(a.entries) + 1
<1>1. b = [entries |-> Append(a.entries, e), capacity |-> GrownCapacity(a), memory |-> a.memory]
  BY Zenon DEF RoomFor
<1>2. IsSeq(Append(a.entries, e)) /\ Len(a.entries) \in Nat
      /\ Len(Append(a.entries, e)) = Len(a.entries) + 1
  BY IsSeqAppend, Zenon DEF RoomFor
<1>3. GrownCapacity(a) \in Nat /\ Len(a.entries) + 1 <= GrownCapacity(a) /\ 1 <= GrownCapacity(a)
  BY <1>2 DEF RoomFor, GrownCapacity
<1>4. b.entries = Append(a.entries, e) /\ b.capacity = GrownCapacity(a) /\ b.memory = a.memory
      /\ DOMAIN b = {"entries", "capacity", "memory"}
  BY <1>1, Zenon
<1> QED BY <1>1, <1>2, <1>3, <1>4, Zenon DEF RoomFor

\* also if it grew and the entry failed.
LEMMA RoomGrows ==
    ASSUME NEW a, RoomFor(a, 1), NEW b, b = [a EXCEPT !.capacity = GrownCapacity(a)]
    PROVE  RoomFor(b, 1)
<1>1. b = [entries |-> a.entries, capacity |-> GrownCapacity(a), memory |-> a.memory]
  BY Zenon DEF RoomFor
<1>2. Len(a.entries) \in Nat
  BY IsSeqAppend, Zenon DEF RoomFor
<1>3. GrownCapacity(a) \in Nat /\ Len(a.entries) <= GrownCapacity(a) /\ 1 <= GrownCapacity(a)
  BY <1>2 DEF RoomFor, GrownCapacity
<1> QED BY <1>1, <1>3, Zenon DEF RoomFor

\* A new array, of any capacity.
LEMMA RoomForNone ==
    ASSUME NEW c \in Nat, NEW m
    PROVE  RoomFor([entries |-> <<>>, capacity |-> c, memory |-> m], 0)
           /\ (c > 0 => RoomFor([entries |-> <<>>, capacity |-> c, memory |-> m], 1))
BY IsSeqEmpty DEF RoomFor

\* The blocks allocated are those the receiver's array holds, and an array
\* that entries are added to has a capacity that doubling increases.
BlocksInv ==
    /\ phase \in {"start", "filling", "encoded", "delivered", "decoding",
                  "decoded", "failed", "end"}
    /\ RoomFor(sent, 0) /\ RoomFor(received, 0)
    /\ received.memory \in {"null", "held", "freed"}
    /\ phase = "filling" => RoomFor(sent, 1)
    /\ phase = "decoding" => RoomFor(received, 1) /\ received.memory = "held"
    /\ phase \in {"start", "filling", "encoded", "delivered"} => received = NoArray
    /\ heap = IF received.memory = "held" THEN 1 + 2 * Len(received.entries) ELSE 0

\* Nothing is allocated at first.
LEMMA BlocksStart == MetadataInit => BlocksInv
BY RoomForNone, IsSeqEmpty DEF MetadataInit, BlocksInv, NoArray

\* What the sender does keeps the invariant,
LEMMA SenderStep ==
    ASSUME BlocksInv,
           \/ \E c \in InitialCapacities : ArrayInit(c)
           \/ \E k \in Keys, v \in Values : ArrayAdd(k, v)
           \/ ArrayAddFails
           \/ \E bs \in BufferSizes : EncodeBlock(bs)
           \/ \E n \in 0 .. Len(block) : Deliver(n)
    PROVE  BlocksInv'
<1>1. ASSUME NEW c \in InitialCapacities, ArrayInit(c) PROVE BlocksInv'
  <2> DEFINE d == IF c > 0 THEN c ELSE DefaultCapacity
  <2>1. d \in Nat /\ d > 0
    BY MetadataAssumption
  <2>2. \/ sent' = [entries |-> <<>>, capacity |-> d, memory |-> "held"]
        \/ sent' = [entries |-> <<>>, capacity |-> d, memory |-> "null"]
    BY <1>1, Zenon DEF ArrayInit, EmptyArray, NoArray
  <2> HIDE DEF d
  <2>3. RoomFor(sent', 0) /\ RoomFor(sent', 1)
    BY <2>1, <2>2, RoomForNone, Zenon
  <2> QED BY <1>1, <2>3, Zenon DEF ArrayInit, BlocksInv
<1>2. ASSUME NEW k \in Keys, NEW v \in Values, ArrayAdd(k, v) PROVE BlocksInv'
  <2>1. RoomFor(sent', 1)
    <3>1. RoomFor(sent, 1)
      BY <1>2, Zenon DEF ArrayAdd, BlocksInv
    <3>2. sent' = [sent EXCEPT !.capacity = GrownCapacity(sent),
                               !.entries = Append(@, [key |-> k, value |-> v])]
      BY <1>2, Zenon DEF ArrayAdd
    <3> DEFINE e == [key |-> k, value |-> v]
    <3> HIDE DEF e
    <3>3. sent' = [sent EXCEPT !.capacity = GrownCapacity(sent), !.entries = Append(@, e)]
      BY <3>2, Zenon DEF e
    <3> QED BY ONLY <3>1, <3>3, RoomForOneMore, Zenon
  <2>2. RoomFor(sent', 0)
    BY <2>1 DEF RoomFor
  <2> QED BY <1>2, <2>1, <2>2, Zenon DEF ArrayAdd, BlocksInv
<1>3. ASSUME ArrayAddFails PROVE BlocksInv'
  <2>1. RoomFor(sent', 1)
    BY <1>3, RoomGrows, Zenon DEF ArrayAddFails, BlocksInv
  <2>2. RoomFor(sent', 0)
    BY <2>1 DEF RoomFor
  <2> QED BY <1>3, <2>1, <2>2, Zenon DEF ArrayAddFails, BlocksInv
<1>4. ASSUME NEW bs \in BufferSizes, EncodeBlock(bs) PROVE BlocksInv'
  BY <1>4, Zenon DEF EncodeBlock, BlocksInv
<1>5. ASSUME NEW n \in 0 .. Len(block), Deliver(n) PROVE BlocksInv'
  BY <1>5, Zenon DEF Deliver, BlocksInv
<1> QED BY <1>1, <1>2, <1>3, <1>4, <1>5, Zenon

\* and so does what the receiver does, wherever it fails.
LEMMA ReceiverStep ==
    ASSUME BlocksInv,
           DecodeStart \/ DecodeHeader \/ DecodeFails \/ DecodeReturns \/ ArrayDestroy
    PROVE  BlocksInv'
<1>a. Len(received.entries) \in Nat
  BY IsSeqAppend, Zenon DEF BlocksInv, RoomFor
<1>1. CASE DecodeStart
  <2>1. heap = 0
    BY <1>1 DEF DecodeStart, BlocksInv, NoArray
  <2>2. \/ /\ received' = [entries |-> <<>>, capacity |-> DefaultCapacity, memory |-> "held"]
           /\ heap' = 1 /\ phase' = "decoding"
        \/ /\ received' = [entries |-> <<>>, capacity |-> DefaultCapacity, memory |-> "null"]
           /\ heap' = 0 /\ phase' = "failed"
    BY <1>1, <2>1 DEF DecodeStart, EmptyArray, NoArray
  <2>3. RoomFor(received', 0) /\ RoomFor(received', 1)
    <3>1. DefaultCapacity \in Nat /\ DefaultCapacity > 0
      BY MetadataAssumption
    <3> QED BY <2>2, <3>1, RoomForNone, Zenon
  <2>4. sent' = sent
    BY <1>1, Zenon DEF DecodeStart
  <2> QED BY <2>2, <2>3, <2>4, IsSeqEmpty DEF BlocksInv
<1>2. CASE DecodeHeader
  <2>1. CASE UNCHANGED <<received, heap>> /\ phase' = "failed" /\ sent' = sent
    BY <2>1, Zenon DEF BlocksInv
  <2> DEFINE dec == DecodeLiteral(Rest)
             ent == [key |-> CString(dec.key), value |-> CString(dec.value)]
  <2>2. CASE /\ received' = [received EXCEPT !.capacity = GrownCapacity(received),
                                             !.entries = Append(@, ent)]
             /\ heap' = heap + 2
             /\ UNCHANGED <<phase, sent>>
    <3> HIDE DEF ent
    <3>1. RoomFor(received, 1) /\ received.memory = "held" /\ phase = "decoding"
      BY <1>2, Zenon DEF DecodeHeader, BlocksInv
    <3>2. RoomFor(received', 1) /\ received'.memory = received.memory
          /\ Len(received'.entries) = Len(received.entries) + 1
      BY ONLY <2>2, <3>1, RoomForOneMore, Zenon
    <3>3. RoomFor(received', 0)
      BY <3>2 DEF RoomFor
    <3> QED BY <1>a, <2>2, <3>1, <3>2, <3>3 DEF BlocksInv
  <2> QED BY <1>2, <2>1, <2>2, Zenon DEF DecodeHeader
<1>3. CASE DecodeFails
  <2>1. received = [entries |-> received.entries, capacity |-> received.capacity, memory |-> "held"]
        /\ heap = 1 + 2 * Len(received.entries) /\ sent' = sent /\ phase' = "failed"
    BY <1>3, Zenon DEF DecodeFails, BlocksInv, RoomFor
  <2>2. received' = [entries |-> received.entries, capacity |-> received.capacity, memory |-> "freed"]
    BY <1>3, <2>1, Zenon DEF DecodeFails
  <2>3. heap' = 0
    BY <1>3, <1>a, <2>1 DEF DecodeFails, Cleanup
  <2>4. RoomFor(received', 0)
    BY <2>2, Zenon DEF RoomFor, BlocksInv
  <2> QED BY <2>1, <2>2, <2>3, <2>4, Zenon DEF BlocksInv
<1>4. CASE DecodeReturns
  BY <1>4, Zenon DEF DecodeReturns, BlocksInv
<1>5. CASE ArrayDestroy
  <2>1. heap' = 0
    BY <1>5, <1>a DEF ArrayDestroy, BlocksInv
  <2>2. RoomFor(received', 0) /\ received'.memory = "null"
    BY <1>5, RoomForNone, Zenon DEF ArrayDestroy, NoArray
  <2> QED BY <1>5, <2>1, <2>2, Zenon DEF ArrayDestroy, BlocksInv
<1> QED BY <1>1, <1>2, <1>3, <1>4, <1>5, Zenon

\* The receiver frees or still holds every block it allocated, and neither
\* array outgrows its capacity, for any number of entries, any initial
\* capacity and a failure of any allocation.
THEOREM BlocksCorrect == MetadataSpec => []BlocksAccounted
<1>1. BlocksInv /\ [MetadataNext]_metadataVars => BlocksInv'
  <2> SUFFICES ASSUME BlocksInv, [MetadataNext]_metadataVars PROVE BlocksInv'
    BY Zenon
  <2>1. CASE UNCHANGED metadataVars
    BY <2>1, Zenon DEF metadataVars, BlocksInv
  <2>2. CASE MetadataNext
    BY <2>2, SenderStep, ReceiverStep, Zenon DEF MetadataNext
  <2> QED BY <2>1, <2>2, Zenon
<1>2. BlocksInv => BlocksAccounted
  BY Zenon DEF BlocksInv, BlocksAccounted, RoomFor
<1> QED BY <1>1, <1>2, BlocksStart, PTL DEF MetadataSpec

-----------------------------------------------------------------------------
\* What is where in a part of a sequence, which may be empty.
LEMMA PartFacts ==
    ASSUME NEW X, NEW s \in Seq(X), NEW i \in 0 .. Len(s), NEW j \in i .. Len(s)
    PROVE  /\ SubSeq(s, i + 1, j) \in Seq(X)
           /\ Len(SubSeq(s, i + 1, j)) = j - i
           /\ \A k \in 1 .. j - i : SubSeq(s, i + 1, j)[k] = s[i + k]
<1>1. CASE i = j
  <2>1. SubSeq(s, i + 1, j) = <<>>
    BY <1>1
  <2> QED BY <1>1, <2>1
<1>2. CASE i # j
  <2> DEFINE a == i + 1
  <2>1. a \in 1 .. Len(s) /\ j \in a .. Len(s) /\ j - a + 1 = j - i
    BY <1>2
  <2>2. \A k \in 1 .. j - i : a + k - 1 = i + k
    OBVIOUS
  <2> HIDE DEF a
  <2>3. /\ SubSeq(s, a, j) \in Seq(X) /\ Len(SubSeq(s, a, j)) = j - a + 1
        /\ \A k \in 1 .. j - a + 1 : SubSeq(s, a, j)[k] = s[a + k - 1]
    BY <2>1, SubSeqFacts, Zenon
  <2>4. /\ SubSeq(s, a, j) \in Seq(X) /\ Len(SubSeq(s, a, j)) = j - i
        /\ \A k \in 1 .. j - i : SubSeq(s, a, j)[k] = s[i + k]
    BY <2>1, <2>2, <2>3, Zenon
  <2> QED BY <2>4, Zenon DEF a
<1> QED BY <1>1, <1>2, Zenon

\* A string without zero bytes is its own C string.
LEMMA CStringClean ==
    ASSUME NEW s, \A i \in 1 .. Len(s) : s[i] # 0
    PROVE  CString(s) = s
BY Zenon DEF CString

\* What strlen counts is what comes before the first zero byte.
LEMMA CStringIs ==
    ASSUME NEW s \in Seq(Byte), Len(s) < Word
    PROVE  /\ CString(s) = Cut(s)
           /\ CString(s) \in Seq(Byte) /\ Len(CString(s)) \in 0 .. Word - 1
           /\ \A i \in 1 .. Len(CString(s)) : CString(s)[i] # 0
<1> DEFINE zeros == {i \in 1 .. Len(s) : s[i] = 0}
           Ends(n) == (\A i \in 1 .. n : s[i] # 0) /\ (n = Len(s) \/ s[n + 1] = 0)
           e == CHOOSE n \in 0 .. Len(s) : Ends(n)
<1>1. Len(s) \in Nat /\ Len(s) \in 0 .. Word - 1 /\ Len(s) \in 0 .. Len(s)
  BY Widths
<1>2. Cut(s) = SubSeq(s, 1, e)
  BY Zenon DEF Cut
<1>3. CASE zeros = {}
  <2>1. \A i \in 1 .. Len(s) : s[i] # 0
    BY <1>3, Zenon
  <2>2. CString(s) = s
    BY <2>1, CStringClean, Zenon
  <2>3. Ends(Len(s))
    BY <2>1, Zenon
  <2>4. e \in 0 .. Len(s) /\ Ends(e)
    <3> HIDE DEF Ends
    <3> QED BY <1>1, <2>3, Zenon
  <2> HIDE DEF e
  <2>5. e = Len(s)
    <3>1. e \in 0 .. Len(s) /\ e # Len(s) => e + 1 \in 1 .. Len(s)
      BY <1>1
    <3> QED BY <2>1, <2>4, <3>1, Zenon
  <2>6. SubSeq(s, 1, Len(s)) = s
    OBVIOUS
  <2> QED BY <1>1, <1>2, <2>1, <2>2, <2>5, <2>6, Zenon
<1>4. CASE zeros # {}
  <2> DEFINE m == CHOOSE i \in zeros : \A j \in zeros : i <= j
             f == m - 1
  <2>1. zeros \in SUBSET Nat
    OBVIOUS
  <2>2. m \in zeros /\ \A j \in zeros : m <= j
    <3>1. \E i \in zeros : \A j \in zeros : i <= j
      <4> HIDE DEF zeros
      <4> QED BY <1>4, <2>1, LeastNumber, Zenon
    <3> HIDE DEF zeros
    <3> QED BY <3>1, Zenon
  <2>3. CString(s) = SubSeq(s, 1, f)
    BY <1>4, Zenon DEF CString
  <2>4. m \in 1 .. Len(s) /\ s[m] = 0
    BY <2>2, Zenon
  <2>5. \A j \in 1 .. Len(s) : s[j] = 0 => m <= j
    BY <2>2, Zenon
  <2> HIDE DEF m
  <2>6. f \in 0 .. Len(s) /\ f + 1 = m /\ f \in 0 .. Word - 1 /\ 0 \in 0 .. Len(s)
    BY <1>1, <2>4, Widths
  <2>7. \A j \in 1 .. f : j \in 1 .. Len(s) /\ ~(m <= j)
    BY <1>1, <2>4
  <2>8. \A j \in 1 .. f : s[j] # 0
    BY <2>5, <2>7, Zenon
  <2>9. Ends(f)
    BY <2>4, <2>6, <2>8, Zenon
  <2>10. e \in 0 .. Len(s) /\ Ends(e)
    <3> HIDE DEF Ends, f
    <3> QED BY <2>6, <2>9, Zenon
  <2> HIDE DEF e
  <2>11. e = f
    <3>1. CASE m \in 1 .. e
      BY <2>4, <2>10, <3>1, Zenon
    <3>2. CASE ~(m \in 1 .. e)
      <4>1. e < m /\ e # Len(s) /\ e + 1 \in 1 .. Len(s) /\ (m <= e + 1 => e = m - 1)
        BY <1>1, <2>4, <2>10, <3>2
      <4> QED BY <2>5, <2>10, <4>1, Zenon
    <3> QED BY <3>1, <3>2, Zenon
  <2> HIDE DEF f
  <2> DEFINE t == SubSeq(s, 0 + 1, f)
  <2>12. f \in 0 .. Len(s) /\ f - 0 = f /\ \A k \in 1 .. f : 0 + k = k
    BY <1>1, <2>6
  <2>13. t \in Seq(Byte) /\ Len(t) = f - 0 /\ \A k \in 1 .. f - 0 : t[k] = s[0 + k]
    <3>1. s \in Seq(Byte)
      OBVIOUS
    <3> QED BY ONLY <2>6, <2>12, <3>1, PartFacts
  <2>14. t = SubSeq(s, 1, f)
    OBVIOUS
  <2> HIDE DEF t
  <2>15. t \in Seq(Byte) /\ Len(t) = f /\ \A k \in 1 .. f : t[k] # 0
    BY <2>8, <2>12, <2>13, Zenon
  <2> QED BY <1>2, <2>3, <2>6, <2>11, <2>14, <2>15, Zenon
<1> QED BY <1>3, <1>4, Zenon

\* What is where in a literal.
Lies(b, at, s) == \A k \in 1 .. Len(s) : b[at + k] = s[k]
LiteralAt(b, a, name, c, value) ==
    /\ b \in Seq(Byte) /\ Len(b) = 1 + Len(a) + Len(name) + Len(c) + Len(value)
    /\ Lies(b, 1, a) /\ Lies(b, 1 + Len(a), name) /\ Lies(b, 1 + Len(a) + Len(name), c)
    /\ Lies(b, 1 + Len(a) + Len(name) + Len(c), value)

\* Joining puts the second behind the first, and leaves what the first holds.
LEMMA JoinLies ==
    ASSUME NEW s \in Seq(Byte), NEW t \in Seq(Byte)
    PROVE  /\ s \o t \in Seq(Byte) /\ Len(s \o t) = Len(s) + Len(t)
           /\ Lies(s \o t, Len(s), t)
           /\ \A at \in Nat, x \in Seq(Byte) :
                 at + Len(x) <= Len(s) /\ Lies(s, at, x) => Lies(s \o t, at, x)
<1>1. /\ s \o t \in Seq(Byte) /\ Len(s \o t) = Len(s) + Len(t)
      /\ \A k \in 1 .. Len(s) : (s \o t)[k] = s[k]
      /\ \A k \in 1 .. Len(t) : (s \o t)[Len(s) + k] = t[k]
  <2>1. s \in Seq(Byte)
    OBVIOUS
  <2>2. t \in Seq(Byte)
    OBVIOUS
  <2> QED BY ONLY <2>1, <2>2, JoinFacts
<1>2. ASSUME NEW at \in Nat, NEW x \in Seq(Byte), at + Len(x) <= Len(s), Lies(s, at, x)
      PROVE  Lies(s \o t, at, x)
  <2>1. \A k \in 1 .. Len(x) : at + k \in 1 .. Len(s)
    BY <1>2
  <2> QED BY <1>1, <1>2, <2>1, Zenon DEF Lies
<1> QED BY <1>1, <1>2, Zenon DEF Lies

\* Joined, the parts of a literal lie one behind the other.
LEMMA LiteralIs ==
    ASSUME NEW a \in Seq(Byte), NEW name \in Seq(Byte), NEW c \in Seq(Byte), NEW value \in Seq(Byte)
    PROVE  LiteralAt(<<0>> \o a \o name \o c \o value, a, name, c, value)
<1> DEFINE z == <<0>>
           q == z \o a
           r == q \o name
           t == r \o c
           b == t \o value
<1>1. z \in Seq(Byte) /\ Len(z) = 1
  BY Widths DEF Byte
<1>2. Len(a) \in Nat /\ Len(name) \in Nat /\ Len(c) \in Nat /\ Len(value) \in Nat
  OBVIOUS
<1> HIDE DEF z
<1>3. q \in Seq(Byte) /\ Len(q) = Len(z) + Len(a) /\ Lies(q, Len(z), a)
  BY <1>1, JoinLies, Zenon
<1> HIDE DEF q
<1>4. /\ r \in Seq(Byte) /\ Len(r) = Len(q) + Len(name) /\ Lies(r, Len(q), name)
      /\ \A at \in Nat, x \in Seq(Byte) : at + Len(x) <= Len(q) /\ Lies(q, at, x) => Lies(r, at, x)
  BY <1>3, JoinLies, Zenon
<1> HIDE DEF r
<1>5. /\ t \in Seq(Byte) /\ Len(t) = Len(r) + Len(c) /\ Lies(t, Len(r), c)
      /\ \A at \in Nat, x \in Seq(Byte) : at + Len(x) <= Len(r) /\ Lies(r, at, x) => Lies(t, at, x)
  BY <1>4, JoinLies, Zenon
<1> HIDE DEF t
<1>6. /\ b \in Seq(Byte) /\ Len(b) = Len(t) + Len(value) /\ Lies(b, Len(t), value)
      /\ \A at \in Nat, x \in Seq(Byte) : at + Len(x) <= Len(t) /\ Lies(t, at, x) => Lies(b, at, x)
  BY <1>5, JoinLies, Zenon
<1> HIDE DEF b
<1> DEFINE la == Len(a)
           ln == Len(name)
           lc == Len(c)
           lv == Len(value)
<1>7. Len(q) = 1 + la /\ Len(r) = 1 + la + ln /\ Len(t) = 1 + la + ln + lc /\ Len(b) = 1 + la + ln + lc + lv
  BY <1>1, <1>3, <1>4, <1>5, <1>6, Zenon
<1> HIDE DEF la, ln, lc, lv
<1>8. /\ 1 \in Nat /\ 1 + la \in Nat /\ 1 + la + ln \in Nat
      /\ 1 + la <= 1 + la /\ 1 + la <= 1 + la + ln /\ 1 + la <= 1 + la + ln + lc
      /\ 1 + la + ln <= 1 + la + ln /\ 1 + la + ln <= 1 + la + ln + lc
      /\ 1 + la + ln + lc <= 1 + la + ln + lc
  <2>1. la \in Nat /\ ln \in Nat /\ lc \in Nat
    BY <1>2, Zenon DEF la, ln, lc
  <2> QED BY ONLY <2>1
<1>9. Lies(b, 1, a)
  <2>1. Lies(q, 1, a)
    BY <1>1, <1>3, Zenon
  <2>2. Lies(r, 1, a)
    BY <1>4, <1>7, <1>8, <2>1, Zenon DEF la
  <2>3. Lies(t, 1, a)
    BY <1>5, <1>7, <1>8, <2>2, Zenon DEF la
  <2> QED BY <1>6, <1>7, <1>8, <2>3, Zenon DEF la
<1>10. Lies(b, 1 + la, name)
  <2>1. Lies(r, 1 + la, name)
    BY <1>4, <1>7, Zenon
  <2>2. Lies(t, 1 + la, name)
    BY <1>5, <1>7, <1>8, <2>1, Zenon DEF ln
  <2> QED BY <1>6, <1>7, <1>8, <2>2, Zenon DEF ln
<1>11. Lies(b, 1 + la + ln, c)
  <2>1. Lies(t, 1 + la + ln, c)
    BY <1>5, <1>7, Zenon
  <2> QED BY <1>6, <1>7, <1>8, <2>1, Zenon DEF lc
<1>12. Lies(b, 1 + la + ln + lc, value)
  BY <1>6, <1>7, Zenon
<1>13. LiteralAt(b, a, name, c, value)
  BY <1>6, <1>7, <1>9, <1>10, <1>11, <1>12, Zenon DEF LiteralAt, la, ln, lc, lv
<1> QED BY <1>13, Zenon DEF b, t, r, q, z

\* hpack_decode_literal_header finds the name and the value of a literal that
\* its input begins with, and gives up on the beginning of a literal.
LEMMA LiteralDecoded ==
    ASSUME NEW name \in Seq(Byte), Len(name) \in 0 .. Word - 1,
           NEW value \in Seq(Byte), Len(value) \in 0 .. Word - 1,
           NEW given \in Seq(Byte), Len(given) \in Nat \ {0},
           \A j \in 1 .. Len(given) :
              j <= Len(Literal(name, value)) => given[j] = Literal(name, value)[j]
    PROVE  /\ Len(Literal(name, value)) <= Len(given) =>
                DecodeLiteral(given)
                  = [read |-> Len(Literal(name, value)), key |-> name, value |-> value]
           /\ Len(given) < Len(Literal(name, value)) => DecodeLiteral(given).read = -1
<1> DEFINE a == Code(Len(name), GroupBits)
           c == Code(Len(value), GroupBits)
           b == Literal(name, value)
           la == Len(a)
           ln == Len(name)
           lc == Len(c)
           lv == Len(value)
           N == Len(given)
           B == Len(b)
           rest == SubSeq(given, 2, Len(given))
           k == DecodeInteger(rest, GroupBits)
           after == SubSeq(rest, k.read + k.value + 1, Len(rest))
           v == DecodeInteger(after, GroupBits)
           d == DecodeLiteral(given)
<1>0. GroupBits \in 0 .. GroupBits
  BY Widths
<1>1. a \in Seq(Byte) /\ la \in Nat \ {0} /\ c \in Seq(Byte) /\ lc \in Nat \ {0}
  BY <1>0, CodeBytes, Zenon
<1>2. ln \in Nat /\ lv \in Nat /\ N \in Nat \ {0}
  OBVIOUS
<1>3. LiteralAt(b, a, name, c, value)
  <2> HIDE DEF a, c
  <2>1. LiteralAt(<<0>> \o a \o name \o c \o value, a, name, c, value)
    BY <1>1, LiteralIs, Zenon
  <2> QED BY <2>1, Zenon DEF Literal, a, c
<1>4. \A j \in 1 .. N : j <= B => given[j] = b[j]
  BY Zenon
<1>5. /\ Len(given) < 2 \/ k.read < 0 \/ k.read + k.value > Len(rest) => d.read = -1
      /\ ~(Len(given) < 2 \/ k.read < 0 \/ k.read + k.value > Len(rest)) =>
            /\ v.read < 0 \/ v.read + v.value > Len(after) => d.read = -1
            /\ ~(v.read < 0 \/ v.read + v.value > Len(after)) =>
                 d = [read  |-> 1 + k.read + k.value + v.read + v.value,
                      key   |-> SubSeq(rest, k.read + 1, k.read + k.value),
                      value |-> SubSeq(after, v.read + 1, v.read + v.value)]
  BY Zenon DEF DecodeLiteral
<1> HIDE DEF d, v
<1>6. B = 1 + la + ln + lc + lv /\ b \in Seq(Byte)
  BY <1>3, Zenon DEF LiteralAt
<1>7. /\ \A j \in 1 .. la : b[1 + j] = a[j]
      /\ \A j \in 1 .. ln : b[1 + la + j] = name[j]
      /\ \A j \in 1 .. lc : b[1 + la + ln + j] = c[j]
      /\ \A j \in 1 .. lv : b[1 + la + ln + lc + j] = value[j]
  BY <1>3, Zenon DEF LiteralAt, Lies
<1>8. Failed.read < 0
  BY DEF Failed
<1> HIDE DEF B, b, N
<1>9. B \in Nat \ {0} /\ B > 2
  <2> HIDE DEF la, ln, lc, lv
  <2> QED BY ONLY <1>1, <1>2, <1>6
<1>10. CASE N < 2
  <2>1. d.read = -1 /\ ~(B <= N)
    BY <1>2, <1>5, <1>9, <1>10 DEF N
  <2> QED BY <2>1, Zenon DEF b, B, N, d
<1>11. CASE ~(N < 2)
  <2> DEFINE R == N - 1
  <2>1. R \in Nat \ {0} /\ 1 \in 0 .. N /\ N \in 1 .. N
    BY <1>2, <1>11
  <2>2. rest \in Seq(Byte) /\ Len(rest) = R /\ \A j \in 1 .. R : rest[j] = given[1 + j]
    <3> DEFINE t == SubSeq(given, 1 + 1, N)
    <3>1. t \in Seq(Byte) /\ Len(t) = N - 1 /\ \A j \in 1 .. N - 1 : t[j] = given[1 + j]
      <4>1. 1 \in 0 .. Len(given) /\ N \in 1 .. Len(given)
        BY <2>1, Zenon DEF N
      <4>2. given \in Seq(Byte)
        OBVIOUS
      <4> QED BY ONLY <4>1, <4>2, PartFacts
    <3>2. t = rest
      BY DEF N
    <3> HIDE DEF t, rest
    <3> QED BY <3>1, <3>2, Zenon
  <2> HIDE DEF R
  <2>3. R = N - 1
    BY DEF R
  <2>4. \A j \in 1 .. R : 1 + j \in 1 .. N
    BY <1>2, <2>3
  <2>5. \A j \in 1 .. R : 1 + j <= B => rest[j] = b[1 + j]
    BY <1>4, <2>2, <2>4, Zenon
  <2> HIDE DEF k
  <2>6. CASE R < la
    <3>1. \A j \in 1 .. R : j \in 1 .. la /\ 1 + j <= B
      <4> HIDE DEF la, ln, lc, lv
      <4> QED BY <1>1, <1>2, <1>6, <2>1, <2>6
    <3>2. \A j \in 1 .. Len(rest) : rest[j] = a[j]
      BY <1>7, <2>2, <2>5, <3>1, Zenon
    <3>3. k = Failed
      BY <1>0, <2>2, <2>6, <3>2, DecodeCut, Zenon DEF k
    <3>4. d.read = -1
      BY <1>5, <1>8, <3>3, Zenon
    <3>5. ~(B <= N)
      <4> HIDE DEF la, ln, lc, lv
      <4> QED BY <1>1, <1>2, <1>6, <2>1, <2>3, <2>6
    <3> QED BY <3>4, <3>5, Zenon DEF b, B, N, d
  <2>7. CASE ~(R < la)
    <3>1. /\ la <= R
          /\ \A j \in 1 .. la : j \in 1 .. R /\ 1 + j <= B
      <4> HIDE DEF la, ln, lc, lv
      <4> QED BY <1>1, <1>2, <1>6, <2>1, <2>7
    <3>2. Begins(rest, a)
      BY <1>7, <2>2, <2>5, <3>1, Zenon DEF Begins
    <3>3. k = [read |-> la, value |-> ln]
      BY <1>0, <2>2, <3>2, DecodeCode, Zenon DEF k
    <3>4. k.read = la /\ k.value = ln
      <4> HIDE DEF la, ln
      <4> QED BY ONLY <3>3
    <3>5. ~(k.read < 0) /\ ~(Len(given) < 2)
      <4>1. ~(la < 0)
        <5> HIDE DEF la
        <5> QED BY ONLY <1>1
      <4> QED BY <1>11, <3>4, <4>1, Zenon DEF N
    <3> DEFINE K == la + ln
    <3>6. CASE K > R
      <4>1. d.read = -1
        BY <1>5, <2>2, <3>4, <3>6, Zenon
      <4>2. ~(B <= N)
        <5> HIDE DEF la, ln, lc, lv
        <5> QED BY <1>1, <1>2, <1>6, <2>1, <2>3, <3>6
      <4> QED BY <4>1, <4>2, Zenon DEF b, B, N, d
    <3>7. CASE ~(K > R)
      <4> DEFINE A == R - K
      <4>1. K \in 0 .. R /\ R \in K .. R /\ A \in Nat /\ K \in Nat
        <5> HIDE DEF la, ln
        <5> QED BY <1>1, <1>2, <2>1, <3>7
      <4>2. ~(k.read + k.value > Len(rest)) /\ after = SubSeq(rest, K + 1, R)
        BY <2>2, <3>4, <3>7, Zenon
      <4>3. /\ after \in Seq(Byte) /\ Len(after) = A
            /\ \A j \in 1 .. A : after[j] = rest[K + j]
        <5> DEFINE t == SubSeq(rest, K + 1, R)
        <5> HIDE DEF K, after, rest
        <5>1. rest \in Seq(Byte)
          BY <2>2, Zenon
        <5>2. K \in 0 .. Len(rest) /\ R \in K .. Len(rest)
          BY <2>2, <4>1, Zenon
        <5>3. t \in Seq(Byte) /\ Len(t) = R - K /\ \A j \in 1 .. R - K : t[j] = rest[K + j]
          BY ONLY <5>1, <5>2, PartFacts
        <5> QED BY <4>2, <5>3, Zenon
      <4> HIDE DEF A, K
      <4>4. A = R - K /\ K = la + ln
        BY Zenon DEF A, K
      <4> HIDE DEF la, ln, lc, lv
      <4>5. \A j \in 1 .. A : K + j \in 1 .. R /\ 1 + (K + j) = 1 + la + ln + j
        BY ONLY <1>1, <1>2, <2>1, <4>1, <4>4
      <4>6. \A j \in 1 .. A : 1 + la + ln + j <= B => after[j] = b[1 + la + ln + j]
        <5> SUFFICES ASSUME NEW j \in 1 .. A, 1 + la + ln + j <= B
                     PROVE  after[j] = b[1 + la + ln + j]
          BY Zenon
        <5>1. 1 + (K + j) = 1 + la + ln + j /\ K + j \in 1 .. R
          BY <4>5, Zenon
        <5>2. 1 + (K + j) <= B
          BY <5>1, Zenon
        <5>3. rest[K + j] = b[1 + (K + j)]
          BY <2>5, <5>1, <5>2, Zenon
        <5> QED BY <4>3, <5>1, <5>3, Zenon
      <4> HIDE DEF after
      <4>7. CASE A < lc
        <5>1. \A j \in 1 .. A : j \in 1 .. lc /\ 1 + la + ln + j <= B
          BY ONLY <1>1, <1>2, <1>6, <4>1, <4>7
        <5>2. \A j \in 1 .. Len(after) : after[j] = c[j]
          BY <1>7, <4>3, <4>6, <5>1, Zenon
        <5>3. v = Failed
          BY <1>0, <4>3, <4>7, <5>2, DecodeCut, Zenon DEF v, lc, lv
        <5>4. d.read = -1
          BY <1>5, <1>8, <3>5, <4>2, <5>3, Zenon
        <5>5. ~(B <= N)
          BY ONLY <1>1, <1>2, <1>6, <2>1, <2>3, <4>1, <4>4, <4>7
        <5> QED BY <5>4, <5>5, Zenon DEF b, B, N, d
      <4>8. CASE ~(A < lc)
        <5>1. /\ lc <= A
              /\ \A j \in 1 .. lc : j \in 1 .. A /\ 1 + la + ln + j <= B
          BY ONLY <1>1, <1>2, <1>6, <4>1, <4>8
        <5>2. Begins(after, c)
          BY <1>7, <4>3, <4>6, <5>1, Zenon DEF Begins, lc
        <5>3. v = [read |-> lc, value |-> lv]
          BY <1>0, <4>3, <5>2, DecodeCode, Zenon DEF v, lc, lv
        <5>4. v.read = lc /\ v.value = lv
          BY ONLY <5>3
        <5>5. ~(v.read < 0)
          <6>1. ~(lc < 0)
            BY ONLY <1>1
          <6> QED BY <5>4, <6>1, Zenon
        <5>6. CASE lc + lv > A
          <6>1. d.read = -1
            BY <1>5, <3>5, <4>2, <4>3, <5>4, <5>6, Zenon
          <6>2. ~(B <= N)
            BY ONLY <1>1, <1>2, <1>6, <2>1, <2>3, <4>1, <4>4, <5>6
          <6> QED BY <6>1, <6>2, Zenon DEF b, B, N, d
        <5>7. CASE ~(lc + lv > A)
          <6> DEFINE x == SubSeq(rest, la + 1, la + ln)
                     y == SubSeq(after, lc + 1, lc + lv)
          <6>1. d = [read |-> 1 + la + ln + lc + lv, key |-> x, value |-> y]
            BY <1>5, <3>4, <3>5, <4>2, <4>3, <5>4, <5>5, <5>7, Zenon
          <6>2. /\ la \in 0 .. R /\ la + ln \in la .. R /\ (la + ln) - la = ln
                /\ lc \in 0 .. A /\ lc + lv \in lc .. A /\ (lc + lv) - lc = lv
                /\ \A j \in 1 .. ln : la + j \in 1 .. R /\ 1 + (la + j) <= B /\ 1 + (la + j) = 1 + la + j
                /\ \A j \in 1 .. lv : /\ lc + j \in 1 .. A /\ 1 + la + ln + (lc + j) <= B
                                      /\ 1 + la + ln + (lc + j) = 1 + la + ln + lc + j
                /\ ~(N < B)
            BY ONLY <1>1, <1>2, <1>6, <2>1, <2>3, <4>1, <4>4, <5>1, <5>7
          <6>3. x = name
            <7> HIDE DEF rest
            <7>1. rest \in Seq(Byte)
              BY <2>2, Zenon
            <7>2. la \in 0 .. Len(rest) /\ la + ln \in la .. Len(rest)
              BY <2>2, <6>2, Zenon
            <7>3. /\ x \in Seq(Byte) /\ Len(x) = (la + ln) - la
                  /\ \A j \in 1 .. (la + ln) - la : x[j] = rest[la + j]
              BY ONLY <7>1, <7>2, PartFacts
            <7> HIDE DEF x
            <7>4. \A j \in 1 .. ln : x[j] = name[j]
              <8> SUFFICES ASSUME NEW j \in 1 .. ln PROVE x[j] = name[j]
                BY Zenon
              <8>1. x[j] = rest[la + j]
                BY <6>2, <7>3, Zenon
              <8>2. rest[la + j] = b[1 + (la + j)]
                BY <2>5, <6>2, Zenon
              <8>3. b[1 + la + j] = name[j]
                BY <1>7, Zenon
              <8>4. 1 + (la + j) = 1 + la + j
                BY <6>2, Zenon
              <8> QED BY <8>1, <8>2, <8>3, <8>4, Zenon
            <7> QED BY <6>2, <7>3, <7>4, SameSeq, Zenon DEF ln
          <6>4. y = value
            <7>1. after \in Seq(Byte)
              BY <4>3, Zenon
            <7>2. lc \in 0 .. Len(after) /\ lc + lv \in lc .. Len(after)
              BY <4>3, <6>2, Zenon
            <7>3. /\ y \in Seq(Byte) /\ Len(y) = (lc + lv) - lc
                  /\ \A j \in 1 .. (lc + lv) - lc : y[j] = after[lc + j]
              BY ONLY <7>1, <7>2, PartFacts
            <7> HIDE DEF y
            <7>4. \A j \in 1 .. lv : y[j] = value[j]
              <8> SUFFICES ASSUME NEW j \in 1 .. lv PROVE y[j] = value[j]
                BY Zenon
              <8>1. y[j] = after[lc + j]
                BY <6>2, <7>3, Zenon
              <8>2. after[lc + j] = b[1 + la + ln + (lc + j)]
                BY <4>6, <6>2, Zenon
              <8>3. b[1 + la + ln + lc + j] = value[j]
                BY <1>7, Zenon
              <8>4. 1 + la + ln + (lc + j) = 1 + la + ln + lc + j
                BY <6>2, Zenon
              <8> QED BY <8>1, <8>2, <8>3, <8>4, Zenon
            <7> QED BY <6>2, <7>3, <7>4, SameSeq, Zenon DEF lv
          <6>5. d = [read |-> B, key |-> name, value |-> value]
            BY <1>6, <6>1, <6>3, <6>4, Zenon
          <6> QED BY <6>2, <6>5, Zenon DEF b, B, N, d
        <5> QED BY <5>6, <5>7, Zenon
      <4> QED BY <4>7, <4>8, Zenon
    <3> QED BY <3>6, <3>7, Zenon
  <2> QED BY <2>6, <2>7, Zenon
<1> QED BY <1>10, <1>11, Zenon

-----------------------------------------------------------------------------
Entry == [key : Keys, value : Values]

\* The literal of an entry, and the entry as it is received.
LiteralOf(e) == Literal(CString(e.key), CString(e.value))
CutEntry(e) == [key |-> Cut(e.key), value |-> Cut(e.value)]

\* It is a string of bytes, and not empty.
LEMMA LiteralOfIs ==
    ASSUME NEW e \in Entry
    PROVE  LiteralOf(e) \in Seq(Byte) /\ Len(LiteralOf(e)) \in Nat \ {0}
<1> DEFINE name == CString(e.key)
           value == CString(e.value)
           a == Code(Len(name), GroupBits)
           c == Code(Len(value), GroupBits)
<1>1. e.key \in Keys /\ e.value \in Values
  BY DEF Entry
<1>2. e.key \in Seq(Byte) /\ Len(e.key) < Word /\ e.value \in Seq(Byte) /\ Len(e.value) < Word
  BY <1>1, MetadataAssumption, Zenon
<1>3. /\ name \in Seq(Byte) /\ Len(name) \in 0 .. Word - 1
      /\ value \in Seq(Byte) /\ Len(value) \in 0 .. Word - 1
  BY <1>2, CStringIs, Zenon
<1> HIDE DEF name, value
<1>4. a \in Seq(Byte) /\ Len(a) \in Nat \ {0} /\ c \in Seq(Byte) /\ Len(c) \in Nat \ {0}
  <2>1. GroupBits \in 0 .. GroupBits
    BY Widths
  <2> QED BY <1>3, <2>1, CodeBytes, Zenon
<1>5. LiteralOf(e) = <<0>> \o a \o name \o c \o value
  BY Zenon DEF LiteralOf, Literal, name, value
<1> HIDE DEF a, c
<1>6. LiteralAt(LiteralOf(e), a, name, c, value)
  BY <1>3, <1>4, <1>5, LiteralIs, Zenon
<1>7. /\ LiteralOf(e) \in Seq(Byte)
      /\ Len(LiteralOf(e)) = 1 + Len(a) + Len(name) + Len(c) + Len(value)
  BY <1>6, Zenon DEF LiteralAt
<1>8. Len(name) \in Nat /\ Len(value) \in Nat
  BY <1>3
<1>9. 1 + Len(a) + Len(name) + Len(c) + Len(value) \in Nat \ {0}
  BY ONLY <1>4, <1>8
<1> QED BY <1>7, <1>9, Zenon

\* One more entry in the block.
Coded == {Failed} \cup [read : Nat, bytes : Seq(Byte)]
Added(before, e, room) ==
    LET next == EncodeLiteral(e.key, e.value, room - before.read)
    IN  IF before = Failed \/ next = Failed THEN Failed
        ELSE [read |-> before.read + next.read, bytes |-> before.bytes \o next.bytes]

\* It is appended to the block, or the encoder gives up.
LEMMA AddedIs ==
    ASSUME NEW before \in Coded, NEW e \in Entry, NEW room
    PROVE  /\ Added(before, e, room) \in Coded
           /\ Added(before, e, room) # Failed =>
                /\ before # Failed /\ before.bytes \in Seq(Byte)
                /\ Added(before, e, room).bytes = before.bytes \o LiteralOf(e)
<1> DEFINE x == Added(before, e, room)
           l == LiteralOf(e)
           next == EncodeLiteral(e.key, e.value, room - before.read)
<1>1. next = Failed \/ next = [read |-> Len(l), bytes |-> l]
  BY Zenon DEF EncodeLiteral, LiteralOf
<1>2. l \in Seq(Byte) /\ Len(l) \in Nat
  BY LiteralOfIs
<1>3. \/ x = Failed
      \/ /\ before # Failed /\ next # Failed
         /\ x = [read |-> before.read + next.read, bytes |-> before.bytes \o next.bytes]
  BY Zenon DEF Added
<1> HIDE DEF next, l, x
<1>4. CASE x = Failed
  BY <1>4, Zenon DEF Coded, x
<1>5. CASE x # Failed
  <2>1. before.read \in Nat /\ before.bytes \in Seq(Byte) /\ before # Failed
    BY <1>3, <1>5 DEF Coded
  <2>2. next.read = Len(l) /\ next.bytes = l
    <3>1. next = [read |-> Len(l), bytes |-> l]
      BY <1>1, <1>3, <1>5, Zenon
    <3> QED BY ONLY <3>1
  <2>3. x = [read |-> before.read + Len(l), bytes |-> before.bytes \o l]
    BY <1>3, <1>5, <2>2, Zenon
  <2> DEFINE b == before.bytes \o l
             r == before.read + Len(l)
  <2>4. b \in Seq(Byte)
    <3>1. before.bytes \in Seq(Byte)
      BY <2>1, Zenon
    <3>2. l \in Seq(Byte)
      BY <1>2, Zenon
    <3> QED BY ONLY <3>1, <3>2, JoinFacts
  <2>5. r \in Nat
    BY <1>2, <2>1
  <2> HIDE DEF b, r
  <2>6. x = [read |-> r, bytes |-> b]
    BY <2>3, Zenon DEF b, r
  <2>7. x \in Coded /\ x.bytes = b
    BY ONLY <2>4, <2>5, <2>6 DEF Coded
  <2> QED BY <2>1, <2>7, Zenon DEF x, b, l
<1> QED BY <1>4, <1>5, Zenon

\* What hpack_encode_metadata has in its buffer after each entry.
Encoding(entries, room, u) ==
    /\ u[0] = [read |-> 0, bytes |-> <<>>]
    /\ \A i \in 1 .. Len(entries) : u[i] = Added(u[i - 1], entries[i], room)
    /\ \A i \in 0 .. Len(entries) : u[i] \in Coded
    /\ EncodeEntries(entries, room) = u[Len(entries)]

\* The recursion of hpack_encode_metadata has a solution.
LEMMA EncodingExists ==
    ASSUME NEW entries \in Seq(Entry), NEW room
    PROVE  \E u : Encoding(entries, room, u)
<1> DEFINE n == Len(entries)
           c == [read |-> 0, bytes |-> <<>>]
           step == [p \in Coded \X (1 .. n) |-> Added(p[1], entries[p[2]], room)]
           Body(f) == [i \in 0 .. Len(entries) |->
                         IF i = 0 THEN [read |-> 0, bytes |-> <<>>]
                         ELSE Added(f[i - 1], entries[i], room)]
           u == CHOOSE f : f = Body(f)
<1>1. n \in Nat /\ c \in Coded
  BY DEF Coded
<1>2. \A i \in 1 .. n : entries[i] \in Entry
  OBVIOUS
<1>3. step \in [Coded \X (1 .. n) -> Coded]
  <2> SUFFICES ASSUME NEW p \in Coded \X (1 .. n) PROVE Added(p[1], entries[p[2]], room) \in Coded
    BY Zenon
  <2>1. p[1] \in Coded /\ p[2] \in 1 .. n
    <3> HIDE DEF n
    <3> QED OBVIOUS
  <2> QED BY <1>2, <2>1, AddedIs, Zenon
<1>4. PICK g \in [0 .. n -> Coded] : Computes(g, n, c, step)
  <2> HIDE DEF c, step, n
  <2> QED BY <1>1, <1>3, RecursionExists, Zenon
<1>5. ASSUME NEW i \in 1 .. n PROVE g[i] = Added(g[i - 1], entries[i], room)
  <2>1. i - 1 \in 0 .. n
    BY <1>1
  <2>2. g[i - 1] \in Coded
    BY <2>1, Zenon
  <2> DEFINE q == <<g[i - 1], i>>
  <2>3. q \in Coded \X (1 .. n) /\ q[1] = g[i - 1] /\ q[2] = i /\ g[i] = step[q]
    BY <1>4, <2>2, Zenon DEF Computes
  <2> HIDE DEF q
  <2>4. step[q] = Added(q[1], entries[q[2]], room)
    BY <2>3, Zenon
  <2> QED BY <2>3, <2>4, Zenon
<1> HIDE DEF step
<1>6. \A i \in 0 .. n : i = 0 \/ i \in 1 .. n
  BY <1>1
<1>7. g = Body(g)
  <2>1. \A i \in 0 .. n : g[i] = Body(g)[i]
    BY <1>4, <1>5, <1>6, Zenon DEF Computes
  <2> QED BY <2>1, Zenon
<1>8. u = Body(u)
  <2> HIDE DEF Body
  <2> QED BY <1>7, Zenon
<1>9. EncodeEntries(entries, room) = u[n]
  BY Zenon DEF EncodeEntries, Added
<1> HIDE DEF u
<1>10. u[0] = c /\ \A i \in 1 .. n : u[i] = Added(u[i - 1], entries[i], room)
  <2>1. \A i \in 0 .. n : u[i] = Body(u)[i]
    BY <1>8, Zenon
  <2>2. 0 \in 0 .. n /\ \A i \in 1 .. n : i \in 0 .. n /\ i # 0
    BY <1>1
  <2> QED BY <2>1, <2>2, Zenon
<1>11. \A i \in 0 .. n : u[i] \in Coded
  <2> DEFINE E == {k \in 0 .. n : u[k] \in Coded}
  <2>1. 0 \in E
    BY <1>1, <1>10
  <2>2. ASSUME NEW k \in 0 .. n - 1, k \in E PROVE k + 1 \in E
    <3>1. k + 1 \in 1 .. n /\ (k + 1) - 1 = k /\ k + 1 \in 0 .. n
      BY <1>1
    <3>2. u[k + 1] = Added(u[k], entries[k + 1], room)
      BY <1>10, <3>1, Zenon
    <3>3. u[k] \in Coded /\ entries[k + 1] \in Entry
      BY <1>2, <2>2, <3>1, Zenon
    <3>4. u[k + 1] \in Coded
      <4> DEFINE w == u[k]
                 e == entries[k + 1]
      <4>1. w \in Coded /\ e \in Entry /\ u[k + 1] = Added(w, e, room)
        BY <3>2, <3>3, Zenon
      <4> HIDE DEF w, e
      <4>2. Added(w, e, room) \in Coded
        BY <4>1, AddedIs, Zenon
      <4> QED BY <4>1, <4>2, Zenon
    <3> QED BY <3>1, <3>4, Zenon
  <2> HIDE DEF E, n
  <2>3. \A k \in 0 .. n : k \in E
    BY <1>1, <2>1, <2>2, InductionUpTo, Zenon
  <2> QED BY <2>3, Zenon DEF E
<1> QED BY <1>9, <1>10, <1>11, Zenon DEF Encoding

\* The literals of the entries lie in the block one behind the other; off[i]
\* is where the literal of entry i ends.
Laid(entries, b, off) ==
    /\ b \in Seq(Byte)
    /\ off \in [0 .. Len(entries) -> Nat] /\ off[0] = 0 /\ off[Len(entries)] = Len(b)
    /\ \A i \in 1 .. Len(entries) :
         /\ off[i] = off[i - 1] + Len(LiteralOf(entries[i])) /\ off[i] <= Len(b)
         /\ Lies(b, off[i - 1], LiteralOf(entries[i]))

\* hpack_encode_metadata lays them so.
LEMMA EncodedLaid ==
    ASSUME NEW entries \in Seq(Entry), NEW room, EncodeEntries(entries, room) # Failed
    PROVE  \E off : Laid(entries, EncodeEntries(entries, room).bytes, off)
<1> DEFINE n == Len(entries)
<1>1. PICK u : Encoding(entries, room, u)
  BY EncodingExists, Zenon
<1> DEFINE b == u[n].bytes
           c(i) == u[i].bytes
           l(i) == LiteralOf(entries[i])
           Within(i, k) ==
             u[i] # Failed /\ c(i) \in Seq(Byte) /\ Len(c(i)) <= Len(c(k)) /\ Lies(c(k), 0, c(i))
           E == {k \in 0 .. n : u[k] # Failed => \A i \in 0 .. k : Within(i, k)}
<1>2. n \in Nat /\ \A i \in 1 .. n : entries[i] \in Entry
  OBVIOUS
<1>3. ASSUME NEW i \in 1 .. n, u[i] # Failed
      PROVE  /\ u[i - 1] # Failed /\ c(i - 1) \in Seq(Byte) /\ l(i) \in Seq(Byte)
             /\ c(i) = c(i - 1) \o l(i)
  <2>1. i - 1 \in 0 .. n
    BY <1>2
  <2>2. u[i - 1] \in Coded /\ u[i] = Added(u[i - 1], entries[i], room)
    BY <1>1, <2>1, Zenon DEF Encoding
  <2>3. entries[i] \in Entry
    BY <1>2, Zenon
  <2>4. l(i) \in Seq(Byte)
    BY <2>3, LiteralOfIs, Zenon
  <2> DEFINE w == u[i - 1]
             e == entries[i]
             x == Added(w, e, room)
  <2>5. x # Failed => w # Failed /\ w.bytes \in Seq(Byte) /\ x.bytes = w.bytes \o LiteralOf(e)
    <3>1. w \in Coded /\ e \in Entry
      BY <2>2, <2>3, Zenon
    <3> HIDE DEF w, e
    <3> QED BY <3>1, AddedIs, Zenon
  <2> HIDE DEF x
  <2>6. x = u[i]
    BY <2>2, Zenon DEF x
  <2> QED BY <1>3, <2>4, <2>5, <2>6, Zenon
<1>4. u[0] # Failed /\ c(0) = <<>>
  <2>1. u[0] = [read |-> 0, bytes |-> <<>>]
    BY <1>1, Zenon DEF Encoding
  <2> QED BY <2>1 DEF Failed
<1>5. \A s \in Seq(Byte) : Len(s) \in Nat /\ Len(s) <= Len(s) /\ 0 + Len(s) = Len(s) /\ Lies(s, 0, s)
  BY DEF Lies
<1>6. 0 \in E
  <2>1. <<>> \in Seq(Byte)
    OBVIOUS
  <2>2. Within(0, 0)
    BY <1>4, <1>5, <2>1, Zenon
  <2>3. 0 \in 0 .. n /\ \A i \in 0 .. 0 : i = 0
    BY <1>2
  <2> HIDE DEF Within
  <2> QED BY <2>2, <2>3, Zenon
<1>7. ASSUME NEW k \in 0 .. n - 1, k \in E PROVE k + 1 \in E
  <2> DEFINE m == k + 1
  <2>1. m \in 1 .. n /\ m - 1 = k /\ m \in 0 .. n /\ \A i \in 0 .. m : i \in 0 .. k \/ i = m
    BY <1>2
  <2> HIDE DEF m
  <2>2. ASSUME u[m] # Failed, NEW i \in 0 .. m PROVE Within(i, m)
    <3>1. /\ u[k] # Failed /\ c(k) \in Seq(Byte) /\ l(m) \in Seq(Byte) /\ c(m) = c(k) \o l(m)
      BY <1>3, <2>1, <2>2, Zenon
    <3>2. /\ c(m) \in Seq(Byte) /\ Len(c(m)) = Len(c(k)) + Len(l(m))
          /\ \A x \in Seq(Byte) : 0 + Len(x) <= Len(c(k)) /\ Lies(c(k), 0, x) => Lies(c(m), 0, x)
      <4>1. 0 \in Nat
        OBVIOUS
      <4> DEFINE s == c(k)
                 t == l(m)
      <4>2. s \in Seq(Byte) /\ t \in Seq(Byte) /\ c(m) = s \o t
        BY <3>1, Zenon
      <4> HIDE DEF s, t
      <4>3. /\ s \o t \in Seq(Byte) /\ Len(s \o t) = Len(s) + Len(t)
            /\ \A x \in Seq(Byte) : 0 + Len(x) <= Len(s) /\ Lies(s, 0, x) => Lies(s \o t, 0, x)
        BY <4>1, <4>2, JoinLies, Zenon
      <4> QED BY <4>2, <4>3, Zenon DEF s, t
    <3>3. CASE i = m
      BY <1>5, <2>2, <3>2, <3>3, Zenon
    <3>4. CASE i \in 0 .. k
      <4>1. u[i] # Failed /\ c(i) \in Seq(Byte) /\ Len(c(i)) <= Len(c(k)) /\ Lies(c(k), 0, c(i))
        BY <1>7, <3>1, <3>4, Zenon
      <4>2. Lies(c(m), 0, c(i))
        BY <1>5, <3>2, <4>1, Zenon
      <4>3. Len(c(i)) <= Len(c(m))
        <5>1. Len(c(i)) \in Nat /\ Len(c(k)) \in Nat /\ Len(l(m)) \in Nat
          BY <1>5, <3>1, <4>1, Zenon
        <5> HIDE DEF c, l
        <5> QED BY ONLY <3>2, <4>1, <5>1
      <4> QED BY <4>1, <4>2, <4>3, Zenon
    <3> QED BY <2>1, <3>3, <3>4, Zenon
  <2> HIDE DEF Within
  <2> QED BY <2>1, <2>2, Zenon DEF m
<1>8. \A i \in 0 .. n : Within(i, n)
  <2> HIDE DEF E
  <2>1. \A k \in 0 .. n : k \in E
    <3> HIDE DEF n
    <3> QED BY <1>2, <1>6, <1>7, InductionUpTo, Zenon
  <2>2. n \in 0 .. n
    BY <1>2
  <2>3. u[n] # Failed
    BY <1>1, Zenon DEF Encoding
  <2> QED BY <2>1, <2>2, <2>3, Zenon DEF E
<1> DEFINE off == [i \in 0 .. n |-> Len(c(i))]
<1>9. b \in Seq(Byte) /\ 0 \in 0 .. n /\ n \in 0 .. n
  BY <1>2, <1>8
<1>10. off \in [0 .. n -> Nat]
  BY <1>5, <1>8, Zenon
<1>11. off[0] = 0 /\ off[n] = Len(b)
  <2>1. Len(<<>>) = 0
    OBVIOUS
  <2> QED BY <1>4, <1>9, <2>1, Zenon
<1>12. ASSUME NEW i \in 1 .. n
       PROVE  off[i] = off[i - 1] + Len(l(i)) /\ off[i] <= Len(b) /\ Lies(b, off[i - 1], l(i))
  <2> DEFINE h == c(i - 1)
             t == l(i)
             s == c(i)
  <2>1. i \in 0 .. n /\ i - 1 \in 0 .. n
    BY <1>2
  <2>2. u[i] # Failed /\ s \in Seq(Byte) /\ Len(s) <= Len(b) /\ Lies(b, 0, s)
    BY <1>8, <2>1, Zenon
  <2>3. h \in Seq(Byte) /\ t \in Seq(Byte) /\ s = h \o t
    BY <1>3, <2>2, Zenon
  <2>4. off[i] = Len(s) /\ off[i - 1] = Len(h)
    BY <2>1, Zenon
  <2> HIDE DEF h, t, s, b
  <2>5. Len(s) = Len(h) + Len(t) /\ Lies(s, Len(h), t)
    BY <2>3, JoinLies, Zenon
  <2>6. Len(h) \in Nat /\ Len(t) \in Nat
    BY <1>5, <2>3, Zenon
  <2>7. Lies(b, Len(h), t)
    <3> SUFFICES ASSUME NEW j \in 1 .. Len(t) PROVE b[Len(h) + j] = t[j]
      BY Zenon DEF Lies
    <3>1. Len(h) + j \in 1 .. Len(s) /\ 0 + (Len(h) + j) = Len(h) + j
      BY <2>5, <2>6
    <3>2. b[0 + (Len(h) + j)] = s[Len(h) + j]
      BY <2>2, <3>1, Zenon DEF Lies
    <3>3. s[Len(h) + j] = t[j]
      BY <2>5, Zenon DEF Lies
    <3> QED BY <3>1, <3>2, <3>3, Zenon
  <2> QED BY <2>2, <2>4, <2>5, <2>7, Zenon DEF t
<1>13. b = EncodeEntries(entries, room).bytes
  BY <1>1, Zenon DEF Encoding
<1> HIDE DEF off, b
<1>14. Laid(entries, b, off)
  BY <1>9, <1>10, <1>11, <1>12, Zenon DEF Laid
<1> QED BY <1>13, <1>14, Zenon

\* What the receiver has decoded so far.
Received(off) ==
    /\ Len(received.entries) \in 0 .. Len(sent.entries)
    /\ pos = off[Len(received.entries)] /\ pos <= Len(arrived)
    /\ \A i \in 1 .. Len(received.entries) : received.entries[i] = CutEntry(sent.entries[i])

\* The block holds the literals of what is sent, the receiver has its first
\* bytes, and reads it literal by literal.
SentInv ==
    /\ sent.entries \in Seq(Entry)
    /\ phase \in {"start", "filling", "encoded", "delivered"} => pos = 0
    /\ phase \in {"encoded", "delivered", "decoding", "decoded"} =>
         \E off : /\ Laid(sent.entries, block, off)
                  /\ phase \in {"decoding", "decoded"} => Received(off)
    /\ phase \in {"delivered", "decoding", "decoded"} =>
         /\ arrived \in Seq(Byte) /\ Len(arrived) <= Len(block)
         /\ \A j \in 1 .. Len(arrived) : arrived[j] = block[j]
    /\ phase = "decoded" => pos >= Len(arrived)

\* What is where after appending to a sequence, whatever it contains.
LEMMA IsSeqAppended ==
    ASSUME NEW s, IsSeq(s), NEW e
    PROVE  /\ \A i \in 1 .. Len(s) : Append(s, e)[i] = s[i]
           /\ Append(s, e)[Len(s) + 1] = e
<1>1. PICK X : s \in Seq(X)
  BY Zenon DEF IsSeq
<1> QED BY <1>1

\* Nothing is sent at first.
LEMMA SentStart == MetadataInit => SentInv
<1> SUFFICES ASSUME MetadataInit PROVE SentInv
  BY Zenon
<1>1. sent.entries = <<>> /\ phase = "start" /\ pos = 0
  BY DEF MetadataInit, NoArray
<1>2. <<>> \in Seq(Entry)
  OBVIOUS
<1> QED BY <1>1, <1>2 DEF SentInv

\* What the sender does.
LEMMA SentSenderStep ==
    ASSUME BlocksInv, SentInv,
           \/ \E c \in InitialCapacities : ArrayInit(c)
           \/ \E k \in Keys, v \in Values : ArrayAdd(k, v)
           \/ ArrayAddFails
           \/ \E bs \in BufferSizes : EncodeBlock(bs)
           \/ \E n \in 0 .. Len(block) : Deliver(n)
    PROVE  SentInv'
<1>1. ASSUME NEW c \in InitialCapacities, ArrayInit(c) PROVE SentInv'
  <2> DEFINE d == IF c > 0 THEN c ELSE DefaultCapacity
  <2>1. \/ sent' = [entries |-> <<>>, capacity |-> d, memory |-> "held"]
        \/ sent' = [entries |-> <<>>, capacity |-> d, memory |-> "null"]
    BY <1>1, Zenon DEF ArrayInit, EmptyArray, NoArray
  <2> HIDE DEF d
  <2>2. sent'.entries = <<>> /\ <<>> \in Seq(Entry)
    BY <2>1
  <2>3. phase' \in {"filling", "end"} /\ pos' = pos /\ pos = 0
    BY <1>1, Zenon DEF ArrayInit, SentInv
  <2>4. \A x \in {"filling", "end"} : ~(x \in {"encoded", "delivered", "decoding", "decoded"})
                                      /\ ~(x \in {"delivered", "decoding", "decoded"}) /\ x # "decoded"
    OBVIOUS
  <2> QED BY <2>2, <2>3, <2>4, Zenon DEF SentInv
<1>2. ASSUME NEW k \in Keys, NEW v \in Values, ArrayAdd(k, v) PROVE SentInv'
  <2> DEFINE e == [key |-> k, value |-> v]
  <2>1. e \in Entry
    BY Zenon DEF Entry
  <2> HIDE DEF e
  <2>2. sent' = [sent EXCEPT !.capacity = GrownCapacity(sent), !.entries = Append(@, e)]
    BY <1>2, Zenon DEF ArrayAdd, e
  <2>3. sent = [entries |-> sent.entries, capacity |-> sent.capacity, memory |-> sent.memory]
    BY Zenon DEF BlocksInv, RoomFor
  <2>4. sent' = [entries |-> Append(sent.entries, e), capacity |-> GrownCapacity(sent), memory |-> sent.memory]
    BY <2>2, <2>3, Zenon
  <2>5. sent'.entries = Append(sent.entries, e)
    BY <2>4, Zenon
  <2>6. Append(sent.entries, e) \in Seq(Entry)
    <3>1. sent.entries \in Seq(Entry)
      BY Zenon DEF SentInv
    <3> QED BY ONLY <2>1, <3>1
  <2>7. phase' = "filling" /\ pos' = pos /\ phase = "filling"
    BY <1>2, Zenon DEF ArrayAdd
  <2> QED BY <2>5, <2>6, <2>7, Zenon DEF SentInv
<1>3. ASSUME ArrayAddFails PROVE SentInv'
  <2>1. sent = [entries |-> sent.entries, capacity |-> sent.capacity, memory |-> sent.memory]
    BY Zenon DEF BlocksInv, RoomFor
  <2>2. sent' = sent \/ sent' = [sent EXCEPT !.capacity = GrownCapacity(sent)]
    BY <1>3, Zenon DEF ArrayAddFails
  <2>3. sent'.entries = sent.entries
    BY <2>1, <2>2, Zenon
  <2>4. phase' = "filling" /\ pos' = pos /\ phase = "filling"
    BY <1>3, Zenon DEF ArrayAddFails
  <2> QED BY <2>3, <2>4, Zenon DEF SentInv
<1>4. ASSUME NEW bs \in BufferSizes, EncodeBlock(bs) PROVE SentInv'
  <2> DEFINE x == EncodeEntries(sent.entries, bs)
  <2>1. sent' = sent /\ pos' = pos /\ phase = "filling" /\ pos = 0 /\ sent.entries \in Seq(Entry)
    BY <1>4, Zenon DEF EncodeBlock, SentInv
  <2>2. phase' = "end" \/ (phase' = "encoded" /\ block' = x.bytes /\ x # Failed)
    BY <1>4, Zenon DEF EncodeBlock
  <2>3. x # Failed => \E off : Laid(sent.entries, x.bytes, off)
    BY <2>1, EncodedLaid, Zenon
  <2> HIDE DEF x
  <2>4. CASE phase' = "end"
    BY <2>1, <2>4, Zenon DEF SentInv
  <2>5. CASE phase' = "encoded" /\ block' = x.bytes /\ x # Failed
    <3>1. PICK off : Laid(sent'.entries, block', off)
      BY <2>1, <2>3, <2>5, Zenon
    <3> QED BY <2>1, <2>5, <3>1, Zenon DEF SentInv
  <2> QED BY <2>2, <2>4, <2>5, Zenon
<1>5. ASSUME NEW n \in 0 .. Len(block), Deliver(n) PROVE SentInv'
  <2>1. /\ phase = "encoded" /\ phase' = "delivered" /\ sent' = sent /\ pos' = pos /\ block' = block
        /\ arrived' = SubSeq(block, 1, n)
    BY <1>5, Zenon DEF Deliver
  <2>2. PICK off : Laid(sent.entries, block, off)
    BY <2>1, Zenon DEF SentInv
  <2>3. block \in Seq(Byte)
    BY <2>2, Zenon DEF Laid
  <2> DEFINE t == SubSeq(block, 0 + 1, n)
  <2>4. 0 \in 0 .. Len(block) /\ n \in 0 .. Len(block) /\ n - 0 = n /\ n <= Len(block)
        /\ \A j \in 1 .. n : 0 + j = j
    BY <2>3
  <2>5. t \in Seq(Byte) /\ Len(t) = n - 0 /\ \A j \in 1 .. n - 0 : t[j] = block[0 + j]
    BY ONLY <2>3, <2>4, PartFacts
  <2>6. t = arrived'
    BY <2>1
  <2> HIDE DEF t
  <2>7. /\ arrived' \in Seq(Byte) /\ Len(arrived') <= Len(block')
        /\ \A j \in 1 .. Len(arrived') : arrived'[j] = block'[j]
    BY <2>1, <2>4, <2>5, <2>6, Zenon
  <2>8. Laid(sent'.entries, block', off)
    BY <2>1, <2>2, Zenon
  <2> QED BY <2>1, <2>7, <2>8, Zenon DEF SentInv
<1> QED BY <1>1, <1>2, <1>3, <1>4, <1>5, Zenon

\* One header more: the literal that comes next, or the beginning of it, which
\* is refused.
LEMMA SentHeaderStep ==
    ASSUME BlocksInv, SentInv, DecodeHeader
    PROVE  SentInv'
<1> DEFINE d == DecodeLiteral(Rest)
           entry == [key |-> CString(d.key), value |-> CString(d.value)]
           k == Len(received.entries)
           m == Len(sent.entries)
           e == sent.entries[k + 1]
           name == CString(e.key)
           val == CString(e.value)
           L == LiteralOf(e)
<1>1. /\ phase = "decoding" /\ pos < Len(arrived) /\ d.read > 0
      /\ sent' = sent /\ block' = block /\ arrived' = arrived
      /\ \/ /\ received' = [received EXCEPT !.capacity = GrownCapacity(received),
                                            !.entries = Append(@, entry)]
            /\ pos' = pos + d.read
            /\ phase' = phase
         \/ phase' = "failed"
  BY Zenon DEF DecodeHeader
<1>2. CASE phase' = "failed"
  BY <1>1, <1>2, Zenon DEF SentInv
<1>3. CASE /\ received' = [received EXCEPT !.capacity = GrownCapacity(received),
                                            !.entries = Append(@, entry)]
            /\ pos' = pos + d.read
            /\ phase' = phase
  <2>1. PICK off : Laid(sent.entries, block, off) /\ Received(off)
    BY <1>1, Zenon DEF SentInv
  <2>2. /\ arrived \in Seq(Byte) /\ Len(arrived) <= Len(block) /\ block \in Seq(Byte)
        /\ \A j \in 1 .. Len(arrived) : arrived[j] = block[j]
    BY <1>1, <2>1, Zenon DEF SentInv, Laid
  <2>3. sent.entries \in Seq(Entry)
    BY Zenon DEF SentInv
  <2>4. m \in Nat
    BY <2>3
  <2>5. k \in 0 .. m /\ pos = off[k] /\ pos <= Len(arrived)
        /\ \A i \in 1 .. k : received.entries[i] = CutEntry(sent.entries[i])
    BY <2>1, Zenon DEF Received
  <2>6. /\ off \in [0 .. m -> Nat] /\ off[m] = Len(block)
        /\ \A i \in 1 .. m : off[i] = off[i - 1] + Len(LiteralOf(sent.entries[i]))
                             /\ Lies(block, off[i - 1], LiteralOf(sent.entries[i]))
    BY <2>1, Zenon DEF Laid
  <2>7. pos \in Nat /\ Len(arrived) \in Nat /\ Len(block) \in Nat
    BY <2>2, <2>5, <2>6
  <2>8. k # m
    <3>1. pos # Len(block)
      BY <1>1, <2>2, <2>7
    <3> QED BY <2>5, <2>6, <3>1, Zenon
  <2>9. k + 1 \in 1 .. m /\ (k + 1) - 1 = k /\ k + 1 \in 0 .. m /\ k \in Nat
    <3> HIDE DEF k, m
    <3> QED BY <2>4, <2>5, <2>8
  <2>10. e \in Entry
    BY <2>3, <2>9
  <2>11. off[k + 1] = pos + Len(L) /\ Lies(block, pos, L)
    BY <2>5, <2>6, <2>9, Zenon
  <2>12. L \in Seq(Byte) /\ Len(L) \in Nat \ {0}
    BY <2>10, LiteralOfIs, Zenon
  <2>13. e.key \in Seq(Byte) /\ Len(e.key) < Word /\ e.value \in Seq(Byte) /\ Len(e.value) < Word
    <3>1. e.key \in Keys /\ e.value \in Values
      <4> HIDE DEF e
      <4> QED BY <2>10 DEF Entry
    <3> QED BY <3>1, MetadataAssumption, Zenon
  <2> HIDE DEF e
  <2>14. /\ name = Cut(e.key) /\ name \in Seq(Byte) /\ Len(name) \in 0 .. Word - 1
         /\ val = Cut(e.value) /\ val \in Seq(Byte) /\ Len(val) \in 0 .. Word - 1
         /\ \A i \in 1 .. Len(name) : name[i] # 0
         /\ \A i \in 1 .. Len(val) : val[i] # 0
    BY <2>13, CStringIs, Zenon
  <2>15. CString(name) = name /\ CString(val) = val
    BY <2>14, CStringClean, Zenon
  <2>16. L = Literal(name, val)
    BY Zenon DEF LiteralOf
  <2> HIDE DEF name, val, L
  <2> DEFINE R == Rest
             r == Len(arrived) - pos
  <2>17. R \in Seq(Byte) /\ Len(R) = r /\ \A j \in 1 .. r : R[j] = arrived[pos + j]
    <3>1. arrived \in Seq(Byte)
      BY <2>2, Zenon
    <3>2. pos \in 0 .. Len(arrived) /\ Len(arrived) \in pos .. Len(arrived)
      BY <2>5, <2>7
    <3> DEFINE t == SubSeq(arrived, pos + 1, Len(arrived))
    <3>3. /\ t \in Seq(Byte) /\ Len(t) = Len(arrived) - pos
          /\ \A j \in 1 .. Len(arrived) - pos : t[j] = arrived[pos + j]
      BY ONLY <3>1, <3>2, PartFacts
    <3> QED BY <3>3, Zenon DEF Rest
  <2> HIDE DEF R
  <2>18. r \in Nat \ {0} /\ \A j \in 1 .. r : pos + j \in 1 .. Len(arrived)
    BY <1>1, <2>7
  <2> HIDE DEF r
  <2>19. ASSUME NEW j \in 1 .. Len(R), j <= Len(L) PROVE R[j] = L[j]
    <3>1. j \in 1 .. r /\ pos + j \in 1 .. Len(arrived)
      BY <2>17, <2>18, Zenon
    <3>2. j \in 1 .. Len(L)
      BY <2>12, <2>18, <2>19, <3>1
    <3>3. R[j] = block[pos + j]
      BY <2>2, <2>17, <3>1, Zenon
    <3> QED BY <2>11, <3>2, <3>3, Zenon DEF Lies
  <2>20. /\ Len(L) <= Len(R) => DecodeLiteral(R) = [read |-> Len(L), key |-> name, value |-> val]
         /\ Len(R) < Len(L) => DecodeLiteral(R).read = -1
    <3>1. Len(R) \in Nat \ {0}
      BY <2>17, <2>18, Zenon
    <3>2. \A j \in 1 .. Len(R) : j <= Len(Literal(name, val)) => R[j] = Literal(name, val)[j]
      BY <2>16, <2>19, Zenon
    <3>3. /\ Len(Literal(name, val)) <= Len(R) =>
               DecodeLiteral(R) = [read |-> Len(Literal(name, val)), key |-> name, value |-> val]
          /\ Len(R) < Len(Literal(name, val)) => DecodeLiteral(R).read = -1
      BY <2>14, <2>17, <3>1, <3>2, LiteralDecoded, Zenon
    <3> QED BY <2>16, <3>3, Zenon
  <2>21. d = DecodeLiteral(R)
    BY Zenon DEF R
  <2> HIDE DEF d
  <2>22. Len(L) <= Len(R)
    <3>1. ~(-1 > 0)
      OBVIOUS
    <3>2. ~(Len(R) < Len(L))
      BY <1>1, <2>20, <2>21, <3>1, Zenon
    <3> QED BY <2>12, <2>17, <2>18, <3>2
  <2>23. d = [read |-> Len(L), key |-> name, value |-> val]
    BY <2>20, <2>21, <2>22, Zenon
  <2>24. d.read = Len(L) /\ d.key = name /\ d.value = val
    BY ONLY <2>23
  <2>25. entry = CutEntry(e)
    BY <2>14, <2>15, <2>24, Zenon DEF CutEntry
  <2> HIDE DEF entry
  <2>26. received = [entries |-> received.entries, capacity |-> received.capacity, memory |-> received.memory]
         /\ IsSeq(received.entries)
    BY Zenon DEF BlocksInv, RoomFor
  <2>27. received' = [entries |-> Append(received.entries, entry), capacity |-> GrownCapacity(received),
                      memory |-> received.memory]
    BY <1>3, <2>26, Zenon
  <2>28. received'.entries = Append(received.entries, entry)
    BY <2>27, Zenon
  <2>29. Len(received'.entries) = k + 1
    BY <2>26, <2>28, IsSeqAppend, Zenon
  <2>30. /\ \A i \in 1 .. k : received'.entries[i] = received.entries[i]
         /\ received'.entries[k + 1] = entry
    <3> DEFINE s == received.entries
               a == Append(s, entry)
    <3>1. IsSeq(s)
      BY <2>26, Zenon
    <3> HIDE DEF s
    <3>2. (\A i \in 1 .. Len(s) : a[i] = s[i]) /\ a[Len(s) + 1] = entry
      BY <3>1, IsSeqAppended, Zenon
    <3> HIDE DEF a
    <3>3. received'.entries = a
      BY <2>28, Zenon DEF a, s
    <3> QED BY <3>2, <3>3, Zenon DEF s
  <2>31. pos' = off[k + 1] /\ pos' <= Len(arrived)
    <3>1. pos' = pos + Len(L)
      BY <1>3, <2>24, Zenon
    <3>2. pos + Len(L) <= Len(arrived)
      BY <2>7, <2>12, <2>17, <2>22 DEF r
    <3> QED BY <2>11, <3>1, <3>2, Zenon
  <2>32. ASSUME NEW i \in 1 .. k + 1 PROVE received'.entries[i] = CutEntry(sent.entries[i])
    <3>1. i \in 1 .. k \/ i = k + 1
      <4> HIDE DEF k
      <4> QED BY <2>9
    <3> QED BY <2>5, <2>25, <2>30, <3>1, Zenon DEF e
  <2>33. Received(off)'
    BY <1>1, <2>9, <2>29, <2>31, <2>32, Zenon DEF Received
  <2>34. Laid(sent'.entries, block', off)
    BY <1>1, <2>1, Zenon
  <2>35. phase' = "decoding"
    BY <1>1, <1>3, Zenon
  <2> QED BY <1>1, <2>2, <2>3, <2>33, <2>34, <2>35, Zenon DEF SentInv
<1> QED BY <1>1, <1>2, <1>3, Zenon

\* What else the receiver does.
LEMMA SentReceiverStep ==
    ASSUME BlocksInv, SentInv,
           DecodeStart \/ DecodeHeader \/ DecodeFails \/ DecodeReturns \/ ArrayDestroy
    PROVE  SentInv'
<1>1. CASE DecodeStart
  <2>1. /\ phase = "delivered" /\ sent' = sent /\ block' = block /\ arrived' = arrived /\ pos' = pos
        /\ \/ phase' = "failed"
           \/ /\ phase' = "decoding"
              /\ received' = [entries |-> <<>>, capacity |-> DefaultCapacity, memory |-> "held"]
    BY <1>1, Zenon DEF DecodeStart, EmptyArray
  <2>2. CASE phase' = "failed"
    BY <2>1, <2>2, Zenon DEF SentInv
  <2>3. CASE /\ phase' = "decoding"
             /\ received' = [entries |-> <<>>, capacity |-> DefaultCapacity, memory |-> "held"]
    <3>1. PICK off : Laid(sent.entries, block, off)
      BY <2>1, Zenon DEF SentInv
    <3>2. received'.entries = <<>> /\ Len(<<>>) = 0 /\ \A i \in 1 .. 0 : FALSE
      BY <2>3
    <3>3. pos' = 0 /\ off[0] = 0 /\ arrived \in Seq(Byte) /\ sent.entries \in Seq(Entry)
      BY <2>1, <3>1, Zenon DEF SentInv, Laid
    <3>4. 0 <= Len(arrived) /\ 0 \in 0 .. Len(sent.entries)
      BY <3>3
    <3>5. Received(off)'
      BY <2>1, <3>2, <3>3, <3>4, Zenon DEF Received
    <3> QED BY <2>1, <2>3, <3>1, <3>5, Zenon DEF SentInv
  <2> QED BY <2>1, <2>2, <2>3, Zenon
<1>2. CASE DecodeHeader
  BY <1>2, SentHeaderStep, Zenon
<1>3. CASE DecodeFails
  BY <1>3, Zenon DEF DecodeFails, SentInv
<1>4. CASE DecodeReturns
  <2>1. /\ phase = "decoding" /\ phase' = "decoded" /\ sent' = sent /\ block' = block
        /\ arrived' = arrived /\ pos' = pos /\ received' = received /\ pos >= Len(arrived)
    BY <1>4, Zenon DEF DecodeReturns
  <2>2. PICK off : Laid(sent.entries, block, off) /\ Received(off)
    BY <2>1, Zenon DEF SentInv
  <2>3. Received(off)' /\ Laid(sent'.entries, block', off)
    BY <2>1, <2>2, Zenon DEF Received
  <2> QED BY <2>1, <2>3, Zenon DEF SentInv
<1>5. CASE ArrayDestroy
  BY <1>5, Zenon DEF ArrayDestroy, SentInv
<1> QED BY <1>1, <1>2, <1>3, <1>4, <1>5, Zenon

\* What hpack_decode_metadata returns with success is what was sent, however
\* many entries of whatever bytes there were, and wherever the block was cut.
THEOREM DecodedCorrect == MetadataSpec => []DecodedAsSent
<1> DEFINE Inv == BlocksInv /\ SentInv
<1>1. MetadataInit => Inv
  BY BlocksStart, SentStart, Zenon
<1>2. Inv /\ [MetadataNext]_metadataVars => Inv'
  <2> SUFFICES ASSUME BlocksInv, SentInv, [MetadataNext]_metadataVars PROVE BlocksInv' /\ SentInv'
    BY Zenon
  <2>1. CASE UNCHANGED metadataVars
    <3>1. /\ sent' = sent /\ block' = block /\ arrived' = arrived /\ received' = received
          /\ pos' = pos /\ heap' = heap /\ phase' = phase
      BY <2>1, Zenon DEF metadataVars
    <3>2. BlocksInv'
      BY <3>1, Zenon DEF BlocksInv
    <3>3. ASSUME NEW off PROVE Received(off)' <=> Received(off)
      BY <3>1, Zenon DEF Received
    <3>4. SentInv'
      BY <3>1, <3>3, Zenon DEF SentInv
    <3> QED BY <3>2, <3>4, Zenon
  <2>2. CASE MetadataNext
    BY <2>2, SenderStep, ReceiverStep, SentSenderStep, SentReceiverStep, Zenon DEF MetadataNext
  <2> QED BY <2>1, <2>2, Zenon
<1>3. Inv => DecodedAsSent
  <2> SUFFICES ASSUME BlocksInv, SentInv, phase = "decoded" PROVE DecodedAsSent
    BY Zenon DEF DecodedAsSent
  <2> DEFINE k == Len(received.entries)
             m == Len(sent.entries)
  <2>1. PICK off : Laid(sent.entries, block, off) /\ Received(off)
    BY Zenon DEF SentInv
  <2>2. sent.entries \in Seq(Entry) /\ pos >= Len(arrived)
    BY Zenon DEF SentInv
  <2>3. /\ k \in 0 .. m /\ pos = off[k]
        /\ \A i \in 1 .. k : received.entries[i] = CutEntry(sent.entries[i])
    BY <2>1, Zenon DEF Received
  <2>4. m \in Nat
    BY <2>2
  <2>5. ASSUME arrived = block PROVE k = m
    <3> SUFFICES ASSUME k # m PROVE FALSE
      BY Zenon
    <3>1. k + 1 \in 1 .. m /\ (k + 1) - 1 = k
      <4> HIDE DEF k, m
      <4> QED BY <2>3, <2>4
    <3> DEFINE l == Len(LiteralOf(sent.entries[k + 1]))
    <3>2. off[k + 1] = pos + l /\ off[k + 1] <= Len(block) /\ pos \in Nat /\ block \in Seq(Byte)
      BY <2>1, <2>3, <3>1, Zenon DEF Laid
    <3>3. l \in Nat \ {0}
      <4>1. sent.entries[k + 1] \in Entry
        BY <2>2, <3>1
      <4> QED BY <4>1, LiteralOfIs, Zenon
    <3>4. pos >= Len(block) /\ pos + l <= Len(block)
      BY <2>2, <2>5, <3>2, Zenon
    <3>5. Len(block) \in Nat
      BY <3>2
    <3> HIDE DEF l
    <3> QED BY <3>2, <3>3, <3>4, <3>5
  <2>6. k <= m
    <3> HIDE DEF k, m
    <3> QED BY <2>3, <2>4
  <2> QED BY <2>3, <2>5, <2>6, Zenon DEF DecodedAsSent, CutEntry
<1> HIDE DEF Inv
<1> QED BY <1>1, <1>2, <1>3, PTL DEF MetadataSpec
=============================================================================
