---------------------------- MODULE HpackProofs -----------------------------
(***************************************************************************)
(* Proofs about the integers of HPACK, for groups and words of any width:  *)
(* what hpack_encode_integer writes, and what hpack_decode_integer makes   *)
(* of that and of any other bytes.                                         *)
(***************************************************************************)
EXTENDS IntegerCoding, Induction

-----------------------------------------------------------------------------
\* The last shift, counted in groups.
Top == MaxShift \div GroupBits

\* How the widths fit together.
LEMMA Widths ==
    /\ Top \in Nat /\ MaxShift = GroupBits * Top /\ MaxBytes = Top + 1
    /\ GroupBits \in Nat \ {0} /\ WordBits \in Nat
    /\ MaxShift < WordBits /\ WordBits < GroupBits * (Top + 1)
    /\ Group \in Nat \ {0} /\ Group >= 2 /\ Word \in Nat \ {0}
<1>1. /\ GroupBits \in Nat \ {0} /\ MaxShift \in Nat /\ WordBits \in Nat
      /\ MaxShift % GroupBits = 0 /\ MaxShift < WordBits /\ WordBits < MaxShift + GroupBits
      /\ MaxBytes = Top + 1
  BY HpackAssumption DEF Top
<1>2. Top \in Int /\ MaxShift = Top * GroupBits + 0
  <2>1. MaxShift \in Int
    BY <1>1
  <2>2. Top \in Int /\ MaxShift = Top * GroupBits + (MaxShift % GroupBits)
    BY <1>1, <2>1, Remainder, Zenon DEF Top
  <2> QED BY <1>1, <2>2, Zenon
<1> HIDE DEF Top
<1>3. Top \in Nat /\ MaxShift = GroupBits * Top
  BY <1>1, <1>2
<1>4. WordBits < GroupBits * (Top + 1)
  BY <1>1, <1>3
<1>5. 2 \in Nat \ {0} /\ 1 \in 0 .. GroupBits /\ 0 \in Nat
  BY <1>1
<1>6. Group \in Nat \ {0} /\ Word \in Nat \ {0}
  BY <1>1, <1>5, PowerIs, Zenon DEF Group, Word
<1>7. Power(2, 1) <= Group
  BY <1>1, <1>5, PowerGrows DEF Group
<1>8. Power(2, 0 + 1) = 2 * 1
  BY <1>5, PowerIs
<1>9. Group >= 2
  BY <1>6, <1>7, <1>8
<1> QED BY <1>1, <1>3, <1>4, <1>6, <1>9, Zenon

\* Powers of Group are powers of 2, and the word ends within the last group.
LEMMA GroupPowers ==
    /\ \A i \in Nat : Power(Group, i) = Power(2, GroupBits * i) /\ Power(Group, i) \in Nat \ {0}
                      /\ Power(Group, i + 1) = Group * Power(Group, i)
    /\ Power(Group, 0) = 1
    /\ Word <= Power(Group, Top + 1)
<1>1. 2 \in Nat \ {0} /\ 0 \in Nat
  OBVIOUS
<1>2. ASSUME NEW i \in Nat
      PROVE  Power(Group, i) = Power(2, GroupBits * i) /\ Power(Group, i) \in Nat \ {0}
             /\ Power(Group, i + 1) = Group * Power(Group, i)
  <2>1. Power(Group, i) = Power(2, GroupBits * i)
    <3>1. GroupBits \in Nat
      BY Widths
    <3> QED BY <1>1, <3>1, PowerOfPower, Zenon DEF Group
  <2> QED BY <2>1, Widths, PowerIs, Zenon
<1>3. Power(Group, 0) = 1
  BY <1>1, Widths, PowerIs, Zenon
<1>4. Top + 1 \in Nat /\ GroupBits * (Top + 1) \in Nat /\ WordBits \in 0 .. GroupBits * (Top + 1)
  BY Widths
<1>5. Word <= Power(2, GroupBits * (Top + 1))
  BY <1>1, <1>4, PowerGrows, Zenon DEF Word
<1> QED BY <1>2, <1>3, <1>4, <1>5, Zenon

\* A number, and the groups of it that rounds of the loop have written.
LEMMA LeftIs ==
    ASSUME NEW v \in Nat, NEW k \in Nat
    PROVE  /\ Left(v, k) \in Nat
           /\ v % Power(Group, k + 1) = (Left(v, k) % Group) * Power(Group, k) + (v % Power(Group, k))
           /\ Left(v, k) < Group => v < Power(Group, k + 1)
           /\ Left(v, k) >= Group => v >= Power(Group, k + 1)
           /\ v < Power(Group, k + 1) => Left(v, k) < Group
<1> DEFINE p == Power(Group, k)
           q == Left(v, k)
           r == v % p
           G == Group
<1>1. p \in Nat \ {0} /\ Power(G, k + 1) = G * p /\ G \in Nat \ {0}
  BY Widths, GroupPowers, Zenon
<1> HIDE DEF p, G
<1>i. v \in Int
  OBVIOUS
<1>l. q = v \div p
  BY Zenon DEF Left, p
<1>2. q \in Int /\ r \in 0 .. p - 1 /\ v = q * p + r
  BY <1>1, <1>i, <1>l, Remainder, Zenon
<1>3. v % (p * G) = (q % G) * p + r
  BY <1>1, <1>i, <1>l, DivideTwice, Zenon
<1> HIDE DEF q, r
<1>4. q \in Nat
  <2> SUFFICES ASSUME q <= -1 PROVE FALSE
    BY <1>2
  <2>1. q * p <= (-1) * p
    BY <1>1, <1>2
  <2> QED BY <1>1, <1>2, <2>1
<1>5. G * p = p * G /\ p * G \in Nat
  BY <1>1
<1>6. q < G => v < G * p
  <2> SUFFICES ASSUME q <= G - 1 PROVE v < G * p
    BY <1>1, <1>2
  <2>1. q * p <= (G - 1) * p
    BY <1>1, <1>2
  <2>2. (G - 1) * p = G * p - p
    BY <1>1
  <2> QED BY <1>1, <1>2, <2>1, <2>2
<1>7. q >= G => v >= G * p
  <2> SUFFICES ASSUME q >= G PROVE v >= G * p
    BY Zenon
  <2>1. q * p >= G * p
    BY <1>1, <1>2
  <2> QED BY <1>1, <1>2, <2>1
<1>8. v < G * p => q < G
  <2>1. ~(q < G) => q >= G
    BY <1>1, <1>2
  <2>2. ~(v < G * p /\ v >= G * p)
    BY <1>5
  <2> QED BY <1>7, <2>1, <2>2, Zenon
<1> QED BY <1>1, <1>3, <1>4, <1>5, <1>6, <1>7, <1>8, Zenon DEF p, q, r, G

\* The loop ends, within the rounds that a word takes.
LEMMA RoundsIs ==
    ASSUME NEW v \in 0 .. Word - 1
    PROVE  /\ Rounds(v) \in 0 .. Top
           /\ Left(v, Rounds(v)) < Group
           /\ \A i \in 0 .. Rounds(v) - 1 : Left(v, i) >= Group
<1> DEFINE T == {n \in Nat : Left(v, n) < Group}
           Is(n) == Left(v, n) < Group /\ \A i \in 0 .. n - 1 : Left(v, i) >= Group
<1>1. Top \in T
  <2>1. v \in Nat /\ v < Power(Group, Top + 1)
    <3>1. Word \in Nat /\ Word <= Power(Group, Top + 1) /\ Power(Group, Top + 1) \in Nat
      <4>1. Top + 1 \in Nat
        BY Widths
      <4> QED BY <4>1, Widths, GroupPowers
    <3> QED BY <3>1
  <2> QED BY <2>1, Widths, LeftIs, Zenon
<1>2. PICK n \in T : \A m \in T : n <= m
  <2>1. T \in SUBSET Nat /\ T # {}
    BY <1>1, Zenon
  <2> HIDE DEF T
  <2> QED BY <2>1, LeastNumber, Zenon
<1>3. n \in 0 .. Top /\ n \in 0 .. MaxBytes
  BY <1>1, <1>2, Widths
<1>4. Is(n)
  <2>1. ASSUME NEW i \in 0 .. n - 1 PROVE Left(v, i) >= Group
    <3>1. i \in Nat /\ ~(n <= i) /\ v \in Nat
      BY <1>2, Widths
    <3>2. i \notin T
      BY <1>2, <3>1, Zenon
    <3>3. ~(Left(v, i) < Group) /\ Left(v, i) \in Nat
      BY <3>1, <3>2, LeftIs, Zenon
    <3> QED BY <3>3, Widths
  <2> QED BY <1>2, <2>1, Zenon
<1> HIDE DEF T
<1> DEFINE c == Rounds(v)
<1>5. c = CHOOSE x \in 0 .. MaxBytes : Is(x)
  BY Zenon DEF Rounds
<1>6. c \in 0 .. MaxBytes /\ Is(c)
  <2> HIDE DEF Is, c
  <2> QED BY <1>3, <1>4, <1>5, Zenon
<1>7. c \in 0 .. Top
  <2> HIDE DEF c
  <2> SUFFICES ASSUME n < c PROVE FALSE
    BY <1>3, <1>6, Widths
  <2>1. n \in 0 .. c - 1
    BY <1>3, <1>6, Widths
  <2>2. Left(v, n) >= Group /\ Left(v, n) < Group
    BY <1>4, <1>6, <2>1, Zenon
  <2>3. Left(v, n) \in Nat /\ Group \in Nat
    <3>1. v \in Nat /\ n \in Nat
      BY <1>3, Widths
    <3> QED BY <3>1, LeftIs, Widths
  <2> QED BY ONLY <2>2, <2>3
<1> QED BY <1>6, <1>7, Zenon

\* The bytes behind a full prefix.
LEMMA GroupsIs ==
    ASSUME NEW v \in 0 .. Word - 1
    PROVE  /\ Groups(v) \in Seq(Byte) /\ Len(Groups(v)) = Rounds(v) + 1
           /\ \A i \in 1 .. Rounds(v) + 1 : Groups(v)[i] % Group = Left(v, i - 1) % Group
           /\ \A i \in 1 .. Rounds(v) : Groups(v)[i] >= Group
           /\ Groups(v)[Rounds(v) + 1] < Group
<1> DEFINE n == Rounds(v)
           G == Group
           s == Groups(v)
           e(i) == IF i <= n THEN (Left(v, i - 1) % G) + G ELSE Left(v, i - 1)
<1>1. n \in Nat /\ G \in Nat \ {0} /\ v \in Nat
  BY RoundsIs, Widths
<1>2. s = [i \in 1 .. n + 1 |-> e(i)]
  BY Zenon DEF Groups
<1>3. Left(v, n) < G
  BY RoundsIs, Zenon
<1>4. ASSUME NEW i \in 1 .. n + 1
      PROVE  /\ e(i) \in Byte /\ e(i) % G = Left(v, i - 1) % G
             /\ i <= n => e(i) >= G
             /\ i = n + 1 => e(i) < G
  <2> DEFINE l == Left(v, i - 1)
             r == l % G
  <2>1. i - 1 \in Nat /\ i - 1 >= 0 /\ i \in Nat
    BY <1>1
  <2>2. l \in Nat
    BY <1>1, <2>1, LeftIs, Zenon
  <2>3. r \in 0 .. G - 1
    <3>1. l \in Int
      BY <2>2
    <3> QED BY <1>1, <3>1, Remainder, Zenon
  <2>4. CASE i <= n
    <3>1. e(i) = r + G
      BY <2>4, Zenon
    <3> HIDE DEF e, r, G, n
    <3>2. e(i) >= G /\ e(i) \in 0 .. 2 * G - 1 /\ i # n + 1
      BY <1>1, <2>3, <2>4, <3>1
    <3>3. (1 * G + r) % G = r
      BY <1>1, <2>3, RemainderUnique
    <3>4. e(i) % G = r
      <4>1. r + G = 1 * G + r
        BY <1>1, <2>3
      <4> QED BY <3>1, <3>3, <4>1, Zenon
    <3> QED BY <2>4, <3>2, <3>4, Zenon DEF Byte, r, G
  <2>5. CASE ~(i <= n)
    <3>1. e(i) = l
      BY <2>5, Zenon
    <3>2. i - 1 = n
      BY <1>1, <2>5
    <3>3. l < G
      BY <1>3, <3>2, Zenon
    <3> HIDE DEF e, l, G, n
    <3>4. l \in 0 .. 2 * G - 1
      BY <1>1, <2>2, <3>3
    <3> QED BY <2>5, <3>1, <3>3, <3>4, Zenon DEF Byte, l, G
  <2> QED BY <2>4, <2>5, Zenon
<1>5. s \in [1 .. n + 1 -> Byte] /\ n + 1 \in Nat
  <2>1. s \in [1 .. n + 1 -> Byte]
    <3> HIDE DEF e, n, s
    <3> QED BY <1>2, <1>4, Zenon
  <2> QED BY <1>1, <2>1
<1>6. s \in Seq(Byte) /\ Len(s) = n + 1
  <2> HIDE DEF s, n
  <2> QED BY ONLY <1>5, FunctionIsSeq
<1>7. \A i \in 1 .. n + 1 : s[i] = e(i)
  BY <1>2, Zenon
<1>8. n + 1 \in 1 .. n + 1 /\ \A i \in 1 .. n : i \in 1 .. n + 1 /\ i <= n
  BY <1>1
<1> HIDE DEF e, s, n, G
<1> QED BY <1>4, <1>6, <1>7, <1>8, Zenon DEF s, n, G

-----------------------------------------------------------------------------
\* What hpack_decode_integer computes on the way: u[i] is *value after the
\* byte at i.
ShiftAt(i) == GroupBits * (i - 2)
AddAt(s, i) == ((s[i] % Group) * Power(2, ShiftAt(i))) % Word
ValuesUpTo(s, p, u) ==
    /\ u[1] = s[1] % Power(2, p)
    /\ \A i \in 2 .. Len(s) : u[i] = (u[i - 1] + AddAt(s, i)) % Word
EndsOf(s) == {i \in 2 .. Len(s) : s[i] < Group}
EndOf(s) == CHOOSE i \in EndsOf(s) : \A j \in EndsOf(s) : i <= j
Refused(s, u, e) == \E i \in 2 .. e : ShiftAt(i) > MaxShift \/ WouldOverflow(u[i - 1], AddAt(s, i))

Outcome(s, p, u) ==
    IF u[1] < Power(2, p) - 1 THEN [read |-> 1, value |-> u[1]]
    ELSE IF EndsOf(s) = {} THEN Failed
    ELSE IF Refused(s, u, EndOf(s)) THEN Failed
    ELSE [read |-> EndOf(s), value |-> u[EndOf(s)]]

\* A group in its place.
LEMMA AddIs ==
    ASSUME NEW s \in Seq(Byte), NEW i \in 2 .. Len(s)
    PROVE  /\ AddAt(s, i) \in 0 .. Word - 1
           /\ s[i] % Group \in 0 .. Group - 1
           /\ Power(2, ShiftAt(i)) = Power(Group, i - 2) /\ Power(Group, i - 2) \in Nat \ {0}
           /\ AddAt(s, i) = ((s[i] % Group) * Power(Group, i - 2)) % Word
<1>1. i \in 1 .. Len(s) /\ i - 2 \in Nat
  OBVIOUS
<1>2. s[i] \in Byte
  BY ONLY <1>1, s \in Seq(Byte)
<1>3. s[i] \in Int
  BY <1>2, Widths DEF Byte
<1>4. s[i] % Group \in 0 .. Group - 1
  BY <1>3, Widths, Remainder, Zenon
<1>5. Power(2, ShiftAt(i)) = Power(Group, i - 2) /\ Power(Group, i - 2) \in Nat \ {0}
  BY <1>1, GroupPowers, Zenon DEF ShiftAt
<1> DEFINE a == s[i] % Group
           b == Power(Group, i - 2)
<1>6. a * b \in Int
  <2> HIDE DEF a, b
  <2>1. a \in Int /\ b \in Int
    <3>1. a \in 0 .. Group - 1 /\ b \in Nat
      BY <1>4, <1>5, Zenon DEF a, b
    <3> QED BY ONLY <3>1
  <2> QED BY ONLY <2>1
<1>7. AddAt(s, i) = (a * b) % Word
  BY <1>5, Zenon DEF AddAt
<1>8. (a * b) % Word \in 0 .. Word - 1
  <2> HIDE DEF a, b
  <2> QED BY <1>6, Widths, Remainder, Zenon
<1> QED BY <1>4, <1>5, <1>7, <1>8, Zenon

\* The recursion of hpack_decode_integer has a solution.
LEMMA DecodeIs ==
    ASSUME NEW s \in Seq(Byte), s # <<>>, NEW p \in 0 .. GroupBits
    PROVE  \E u \in [1 .. Len(s) -> Nat] :
              ValuesUpTo(s, p, u) /\ DecodeInteger(s, p) = Outcome(s, p, u)
<1> DEFINE n == Len(s)
           c == s[1] % Power(2, p)
           step == [q \in Nat \X (1 .. n - 1) |-> (q[1] + AddAt(s, q[2] + 1)) % Word]
           Body(f) == [i \in 1 .. n |-> IF i = 1 THEN c ELSE (f[i - 1] + AddAt(s, i)) % Word]
           u == CHOOSE f : f = Body(f)
<1>1. n \in Nat \ {0} /\ n - 1 \in Nat /\ 1 \in 1 .. n
  OBVIOUS
<1>2. c \in Nat
  <2>1. s[1] \in Int
    <3>1. s[1] \in Byte
      BY <1>1
    <3> QED BY <3>1, Widths DEF Byte
  <2>2. Power(2, p) \in Nat \ {0}
    <3>1. p \in Nat /\ 2 \in Nat \ {0}
      BY Widths
    <3> QED BY <3>1, PowerIs, Zenon
  <2>3. c \in 0 .. Power(2, p) - 1
    BY <2>1, <2>2, Remainder, Zenon
  <2> HIDE DEF c
  <2> QED BY <2>2, <2>3
<1>3. \A x \in Nat : \A i \in 2 .. n : (x + AddAt(s, i)) % Word \in Nat
  <2> SUFFICES ASSUME NEW x \in Nat, NEW i \in 2 .. n PROVE (x + AddAt(s, i)) % Word \in Nat
    BY Zenon
  <2> DEFINE a == AddAt(s, i)
  <2>1. a \in 0 .. Word - 1
    BY AddIs, Zenon
  <2> HIDE DEF a
  <2>2. x + a \in Int
    BY ONLY <2>1, x \in Nat
  <2>3. (x + a) % Word \in 0 .. Word - 1
    BY <2>2, Widths, Remainder, Zenon
  <2>4. (x + a) % Word \in Nat
    BY ONLY <2>3
  <2> QED BY <2>4, Zenon DEF a
<1>4. step \in [Nat \X (1 .. n - 1) -> Nat]
  <2> SUFFICES ASSUME NEW q \in Nat \X (1 .. n - 1) PROVE (q[1] + AddAt(s, q[2] + 1)) % Word \in Nat
    BY Zenon
  <2>1. q[1] \in Nat /\ q[2] + 1 \in 2 .. n
    BY <1>1
  <2> QED BY <1>3, <2>1, Zenon
<1>5. PICK g \in [0 .. n - 1 -> Nat] : Computes(g, n - 1, c, step)
  <2> HIDE DEF step, c, n
  <2> QED BY <1>1, <1>2, <1>4, RecursionExists, Zenon
<1> DEFINE w == [i \in 1 .. n |-> g[i - 1]]
<1>6. \A i \in 2 .. n : g[i - 1] = (g[(i - 1) - 1] + AddAt(s, i)) % Word
  <2> SUFFICES ASSUME NEW i \in 2 .. n PROVE g[i - 1] = (g[(i - 1) - 1] + AddAt(s, i)) % Word
    BY Zenon
  <2>1. i - 1 \in 1 .. n - 1 /\ (i - 1) - 1 \in 0 .. n - 1 /\ (i - 1) + 1 = i
    BY <1>1
  <2>2. g[(i - 1) - 1] \in Nat
    BY <2>1, Zenon
  <2> DEFINE q == <<g[(i - 1) - 1], i - 1>>
  <2>3. g[i - 1] = step[q] /\ q \in Nat \X (1 .. n - 1) /\ q[1] = g[(i - 1) - 1] /\ q[2] = i - 1
    BY <1>5, <2>1, <2>2, Zenon DEF Computes
  <2> HIDE DEF q
  <2>4. step[q] = (q[1] + AddAt(s, q[2] + 1)) % Word
    BY <2>3, Zenon
  <2> QED BY <2>1, <2>3, <2>4, Zenon
<1>7. w = Body(w)
  <2>1. \A i \in 1 .. n : i = 1 \/ (i \in 2 .. n /\ i - 1 \in 1 .. n)
    BY <1>1
  <2>2. g[1 - 1] = c
    BY <1>5 DEF Computes
  <2>3. ASSUME NEW i \in 1 .. n
        PROVE  w[i] = IF i = 1 THEN c ELSE (w[i - 1] + AddAt(s, i)) % Word
    BY <1>6, <2>1, <2>2, Zenon
  <2> QED BY <2>3, Zenon
<1>8. u = Body(u)
  <2> HIDE DEF Body
  <2> QED BY <1>7, Zenon
<1>9. DecodeInteger(s, p) = Outcome(s, p, u)
  <2>1. ~(s = <<>> \/ p > GroupBits)
    BY Widths
  <2> QED BY <2>1, Zenon DEF DecodeInteger, Outcome, EndsOf, EndOf, Refused, AddAt, ShiftAt
<1> HIDE DEF u
<1>10. /\ u[1] = c
       /\ \A i \in 2 .. n : u[i] = (u[i - 1] + AddAt(s, i)) % Word
  <2>1. \A i \in 1 .. n : u[i] = Body(u)[i]
    BY <1>8, Zenon
  <2>2. 1 \in 1 .. n /\ \A i \in 2 .. n : i \in 1 .. n /\ i # 1
    BY <1>1
  <2> QED BY <2>1, <2>2, Zenon
<1>11. \A i \in 1 .. n : u[i] \in Nat
  <2> DEFINE E == {k \in 0 .. n - 1 : u[k + 1] \in Nat}
  <2>1. 0 \in E
    BY <1>1, <1>2, <1>10
  <2>2. ASSUME NEW k \in 0 .. (n - 1) - 1, k \in E PROVE k + 1 \in E
    <3>1. (k + 1) + 1 \in 2 .. n /\ ((k + 1) + 1) - 1 = k + 1 /\ k + 1 \in 0 .. n - 1
      BY <1>1
    <3>2. u[(k + 1) + 1] = (u[k + 1] + AddAt(s, (k + 1) + 1)) % Word /\ u[k + 1] \in Nat
      BY <1>10, <2>2, <3>1, Zenon
    <3>3. u[(k + 1) + 1] \in Nat
      BY <1>3, <3>1, <3>2, Zenon
    <3> QED BY <3>1, <3>3, Zenon
  <2>3. \A k \in 0 .. (n - 1) - 1 : k \in E => k + 1 \in E
    BY <2>2, Zenon
  <2>4. \A k \in 0 .. n - 1 : k \in E
    <3> HIDE DEF E, n
    <3> QED BY <1>1, <2>1, <2>3, InductionUpTo, Zenon
  <2>5. \A i \in 1 .. n : i - 1 \in 0 .. n - 1 /\ (i - 1) + 1 = i
    BY <1>1
  <2> QED BY <2>4, <2>5, Zenon
<1>12. u \in [1 .. n -> Nat]
  BY <1>8, <1>11, Zenon
<1> QED BY <1>9, <1>10, <1>12, Zenon DEF ValuesUpTo

-----------------------------------------------------------------------------
\* The largest number a prefix holds fits into a group.
LEMMA PrefixIs ==
    ASSUME NEW p \in 0 .. GroupBits
    PROVE  Power(2, p) \in 1 .. Group /\ Power(2, p) \in Nat \ {0}
<1>1. p \in Nat /\ 2 \in Nat \ {0} /\ GroupBits \in Nat
  BY Widths
<1>2. Power(2, p) \in Nat \ {0}
  BY <1>1, PowerIs, Zenon
<1>3. Power(2, p) <= Group
  BY <1>1, PowerGrows, Zenon DEF Group
<1> QED BY <1>2, <1>3, Widths

\* What is written for a number that the prefix does not hold: v is the rest.
Written(c, p, v) ==
    /\ c \in Seq(Byte) /\ Len(c) = Rounds(v) + 2
    /\ c[1] = Power(2, p) - 1
    /\ \A i \in 2 .. Rounds(v) + 2 : c[i] % Group = Left(v, i - 2) % Group
    /\ \A i \in 2 .. Rounds(v) + 1 : c[i] >= Group
    /\ c[Rounds(v) + 2] < Group

\* A number that the prefix holds is one byte.
LEMMA CodeShort ==
    ASSUME NEW p \in 0 .. GroupBits, NEW value \in 0 .. Word - 1, value < Power(2, p) - 1
    PROVE  Code(value, p) = <<value>> /\ <<value>> \in Seq(Byte) /\ Len(<<value>>) = 1
<1>1. Code(value, p) = <<value>>
  BY Zenon DEF Code
<1>2. value \in Byte
  BY PrefixIs, Widths DEF Byte
<1> QED BY <1>1, <1>2

\* A number that it does not hold is the full prefix, and the rest in groups.
LEMMA CodeLong ==
    ASSUME NEW p \in 0 .. GroupBits, NEW value \in 0 .. Word - 1, ~(value < Power(2, p) - 1)
    PROVE  /\ value - (Power(2, p) - 1) \in 0 .. Word - 1
           /\ Written(Code(value, p), p, value - (Power(2, p) - 1))
<1> DEFINE M == Power(2, p) - 1
           v == value - M
           a == <<M>>
           b == Groups(v)
           c == a \o b
           n == Rounds(v)
<1>1. M \in 0 .. Group - 1 /\ Group \in Nat \ {0} /\ Word \in Nat
  BY PrefixIs, Widths
<1>2. v \in 0 .. Word - 1
  <2> HIDE DEF M
  <2>1. ~(value < M)
    BY Zenon DEF M
  <2> QED BY <1>1, <2>1
<1>3. Code(value, p) = c
  BY Zenon DEF Code
<1> HIDE DEF M, v
<1>4. /\ b \in Seq(Byte) /\ Len(b) = n + 1 /\ n \in Nat
      /\ \A i \in 1 .. n + 1 : b[i] % Group = Left(v, i - 1) % Group
      /\ \A i \in 1 .. n : b[i] >= Group
      /\ b[n + 1] < Group
  <2>1. n \in 0 .. Top
    BY <1>2, RoundsIs, Zenon
  <2>2. n \in Nat
    BY <2>1, Widths
  <2> QED BY <1>2, <2>2, GroupsIs, Zenon
<1>5. a \in Seq(Byte) /\ Len(a) = 1 /\ a[1] = M
  <2>1. M \in Byte
    BY <1>1 DEF Byte
  <2> QED BY <2>1
<1> HIDE DEF a, b, n
<1>6. /\ c \in Seq(Byte) /\ Len(c) = Len(a) + Len(b)
      /\ \A k \in 1 .. Len(a) : c[k] = a[k]
      /\ \A k \in 1 .. Len(b) : c[Len(a) + k] = b[k]
  <2>1. a \in Seq(Byte)
    BY <1>5, Zenon
  <2>2. b \in Seq(Byte)
    BY <1>4, Zenon
  <2> QED BY ONLY <2>1, <2>2, JoinFacts
<1> HIDE DEF c
<1>7. Len(c) = n + 2 /\ c[1] = M /\ \A k \in 1 .. n + 1 : c[1 + k] = b[k]
  <2>1. 1 \in 1 .. 1
    OBVIOUS
  <2>2. 1 + (n + 1) = n + 2
    BY <1>4
  <2> QED BY <1>4, <1>5, <1>6, <2>1, <2>2, Zenon
<1>8. \A i \in 2 .. n + 2 : i - 1 \in 1 .. n + 1 /\ 1 + (i - 1) = i /\ (i - 1) - 1 = i - 2
  BY <1>4
<1>9. \A i \in 2 .. n + 2 : c[i] = b[i - 1]
  BY <1>7, <1>8, Zenon
<1>10. \A i \in 2 .. n + 2 : c[i] % Group = Left(v, i - 2) % Group
  BY <1>4, <1>8, <1>9, Zenon
<1>11. \A i \in 2 .. n + 1 : c[i] >= Group
  <2>1. \A i \in 2 .. n + 1 : i - 1 \in 1 .. n /\ i \in 2 .. n + 2
    BY <1>4
  <2> QED BY <1>4, <1>9, <2>1, Zenon
<1>12. c[n + 2] < Group
  <2>1. n + 2 \in 2 .. n + 2 /\ (n + 2) - 1 = n + 1
    BY <1>4
  <2> QED BY <1>4, <1>9, <2>1, Zenon
<1>13. Written(c, p, v)
  BY <1>6, <1>7, <1>10, <1>11, <1>12, Zenon DEF Written, M, n
<1> QED BY <1>2, <1>3, <1>13, Zenon DEF v, M

\* The bytes that s begins with.
Begins(s, c) == Len(c) <= Len(s) /\ \A i \in 1 .. Len(c) : s[i] = c[i]

\* A digit more of a number.
LEMMA DigitIs ==
    ASSUME NEW v \in 0 .. Word - 1, NEW k \in Nat
    PROVE  /\ v % Power(Group, k) \in 0 .. v /\ v % Power(Group, k + 1) \in 0 .. v
           /\ (Left(v, k) % Group) * Power(Group, k) \in 0 .. Word - 1
           /\ v % Power(Group, k + 1)
                = (v % Power(Group, k)) + (Left(v, k) % Group) * Power(Group, k)
<1> DEFINE a == v % Power(Group, k)
           b == v % Power(Group, k + 1)
           l == Left(v, k) % Group
           q == Power(Group, k)
           d == l * q
<1>1. v \in Nat /\ v \in Int /\ k + 1 \in Nat /\ Group \in Nat \ {0} /\ Word \in Nat
  BY Widths
<1>2. \A m \in Nat \ {0} : v % m \in 0 .. v
  <2> SUFFICES ASSUME NEW m \in Nat \ {0} PROVE v % m \in 0 .. v
    BY Zenon
  <2>1. v % m \in 0 .. m - 1
    BY <1>1, Remainder, Zenon
  <2>2. CASE v < m
    <3>1. v % m = v
      BY <1>1, <2>2, SmallQuotient
    <3> QED BY <1>1, <3>1
  <2>3. CASE ~(v < m)
    BY <1>1, <2>1, <2>3
  <2> QED BY <2>2, <2>3, Zenon
<1>3. Power(Group, k) \in Nat \ {0} /\ Power(Group, k + 1) \in Nat \ {0}
  BY <1>1, GroupPowers, Zenon
<1>4. a \in 0 .. v /\ b \in 0 .. v
  BY <1>2, <1>3, Zenon
<1>5. b = d + a /\ Left(v, k) \in Nat
  BY <1>1, LeftIs, Zenon
<1>6. l \in 0 .. Group - 1
  <2>1. Left(v, k) \in Int
    BY <1>5
  <2> QED BY <1>1, <2>1, Remainder, Zenon
<1>7. q \in Nat
  BY <1>3
<1> HIDE DEF a, b, l, q
<1>8. d \in Nat
  BY ONLY <1>1, <1>6, <1>7
<1> HIDE DEF d
<1>9. d \in 0 .. Word - 1 /\ b = a + d
  BY <1>1, <1>4, <1>5, <1>8
<1> QED BY <1>4, <1>9, Zenon DEF a, b, d, l, q

\* The first byte without the flag is the end.
LEMMA EndIs ==
    ASSUME NEW s \in Seq(Byte), NEW e \in 2 .. Len(s), s[e] < Group,
           \A i \in 2 .. e - 1 : s[i] >= Group
    PROVE  EndsOf(s) # {} /\ EndOf(s) = e
<1> DEFINE Is(i) == i \in EndsOf(s) /\ \A j \in EndsOf(s) : i <= j
<1>1. e \in EndsOf(s)
  BY Zenon DEF EndsOf
<1>2. ASSUME NEW j \in EndsOf(s) PROVE e <= j
  <2>1. j \in 2 .. Len(s) /\ s[j] < Group
    BY <1>2, Zenon DEF EndsOf
  <2> SUFFICES ASSUME j < e PROVE FALSE
    BY <2>1
  <2>2. j \in 2 .. e - 1
    BY <2>1
  <2>3. s[j] >= Group
    BY <2>2, Zenon
  <2>4. s[j] \in Int
    <3>1. s[j] \in Byte
      BY <2>1
    <3> QED BY <3>1, Widths DEF Byte
  <2> QED BY <2>1, <2>3, <2>4, Widths
<1>3. ASSUME NEW i \in EndsOf(s), \A j \in EndsOf(s) : i <= j PROVE i = e
  <2>1. i <= e /\ e <= i
    BY <1>1, <1>2, <1>3, Zenon
  <2>2. i \in Int /\ e \in Int
    BY <1>3 DEF EndsOf
  <2> QED BY ONLY <2>1, <2>2
<1>4. EndOf(s) = CHOOSE i \in EndsOf(s) : \A j \in EndsOf(s) : i <= j
  BY Zenon DEF EndOf
<1> DEFINE c == EndOf(s)
<1>5. c \in EndsOf(s) /\ \A j \in EndsOf(s) : c <= j
  <2> HIDE DEF c
  <2>1. c = CHOOSE i \in EndsOf(s) : \A j \in EndsOf(s) : i <= j
    BY <1>4, Zenon DEF c
  <2> QED BY <1>1, <1>2, <2>1, Zenon
<1> QED BY <1>1, <1>3, <1>5, Zenon

\* What was written is decoded to the number that was encoded, whatever
\* follows it.
LEMMA DecodeCode ==
    ASSUME NEW p \in 0 .. GroupBits, NEW value \in 0 .. Word - 1, NEW s \in Seq(Byte),
           Begins(s, Code(value, p))
    PROVE  DecodeInteger(s, p) = [read |-> Len(Code(value, p)), value |-> value]
<1> DEFINE P == Power(2, p)
           M == P - 1
           c == Code(value, p)
           v == value - M
           n == Rounds(v)
           e == n + 2
           G == Group
<1>1. P \in Nat \ {0} /\ P <= G /\ G \in Nat \ {0} /\ Word \in Nat \ {0} /\ M \in 0 .. P - 1 /\ value \in Nat
  BY PrefixIs, Widths
<1>2. Len(c) <= Len(s) /\ \A i \in 1 .. Len(c) : s[i] = c[i]
  BY Zenon DEF Begins
<1>3. CASE value < M
  <2>1. c = <<value>> /\ Len(<<value>>) = 1
    BY <1>3, CodeShort, Zenon
  <2>2. <<value>>[1] = value /\ 1 \in 1 .. 1
    OBVIOUS
  <2>3. s[1] = value
    BY <1>2, <2>1, <2>2, Zenon
  <2>4. s # <<>>
    <3>1. 1 <= Len(s)
      BY <1>2, <2>1, Zenon
    <3> QED BY <3>1
  <2>5. PICK u \in [1 .. Len(s) -> Nat] : ValuesUpTo(s, p, u) /\ DecodeInteger(s, p) = Outcome(s, p, u)
    BY <2>4, DecodeIs, Zenon
  <2>6. value % P = value
    <3> HIDE DEF P
    <3>1. value \in 0 .. P - 1
      BY <1>1, <1>3
    <3> QED BY <1>1, <3>1, SmallQuotient, Zenon
  <2>7. u[1] = value
    BY <2>3, <2>5, <2>6, Zenon DEF ValuesUpTo
  <2>8. Outcome(s, p, u) = [read |-> 1, value |-> value]
    BY <1>3, <2>7, Zenon DEF Outcome
  <2> QED BY <2>1, <2>5, <2>8, Zenon
<1>4. CASE ~(value < M)
  <2>1. v \in 0 .. Word - 1 /\ Written(c, p, v)
    BY <1>4, CodeLong, Zenon
  <2> HIDE DEF c, v
  <2>2. n \in 0 .. Top /\ n \in Nat /\ e \in Nat /\ Top \in Nat
    <3>1. n \in 0 .. Top
      BY <2>1, RoundsIs, Zenon
    <3> QED BY <3>1, Widths
  <2>3. Len(c) = e /\ c[1] = M
    BY <2>1, Zenon DEF Written
  <2> HIDE DEF n
  <2>4. \A i \in 1 .. e : s[i] = c[i] /\ i \in 1 .. Len(s)
    <3>1. e <= Len(s)
      BY <1>2, <2>3, Zenon
    <3>2. \A i \in 1 .. e : i \in 1 .. Len(s)
      BY <2>2, <3>1
    <3> QED BY <1>2, <2>3, <3>2, Zenon
  <2>5. 1 \in 1 .. e /\ e \in 2 .. Len(s) /\ e \in 1 .. e
        /\ \A i \in 2 .. e : i \in 1 .. e /\ i \in 2 .. Len(s)
    BY <1>2, <2>2, <2>3
  <2>6. s # <<>>
    BY <2>5
  <2>7. PICK u \in [1 .. Len(s) -> Nat] : ValuesUpTo(s, p, u) /\ DecodeInteger(s, p) = Outcome(s, p, u)
    BY <2>6, DecodeIs, Zenon
  <2>8. EndsOf(s) # {} /\ EndOf(s) = e
    <3>1. c[e] < G /\ \A i \in 2 .. n + 1 : c[i] >= G
      BY <2>1, Zenon DEF Written, n
    <3>2. \A i \in 2 .. e - 1 : i \in 2 .. n + 1 /\ i \in 1 .. e
      BY <2>2
    <3>3. s[e] < G /\ \A i \in 2 .. e - 1 : s[i] >= G
      BY <2>4, <2>5, <3>1, <3>2, Zenon
    <3> QED BY <2>5, <3>3, EndIs, Zenon
  <2> DEFINE A(k) == v % Power(G, k)
             d(k) == (Left(v, k) % G) * Power(G, k)
  <2>9. ASSUME NEW k \in 0 .. n
        PROVE  /\ AddAt(s, k + 2) = d(k) /\ A(k) \in 0 .. v /\ A(k + 1) \in 0 .. v
               /\ d(k) \in 0 .. Word - 1 /\ A(k + 1) = A(k) + d(k)
    <3>1. k \in Nat /\ k + 2 \in 2 .. e /\ (k + 2) - 2 = k
      BY <2>2
    <3>2. /\ A(k) \in 0 .. v /\ A(k + 1) \in 0 .. v /\ d(k) \in 0 .. Word - 1
          /\ A(k + 1) = A(k) + d(k)
      BY <2>1, <3>1, DigitIs, Zenon
    <3>3. k + 2 \in 2 .. Len(s) /\ k + 2 \in 1 .. e
      BY <2>5, <3>1, Zenon
    <3>4. AddAt(s, k + 2) = ((s[k + 2] % G) * Power(G, (k + 2) - 2)) % Word
      BY <3>3, AddIs, Zenon
    <3>5. s[k + 2] % G = Left(v, (k + 2) - 2) % G
      <4>1. \A i \in 2 .. n + 2 : c[i] % G = Left(v, i - 2) % G
        BY <2>1, Zenon DEF Written, n
      <4> QED BY <2>4, <3>1, <3>3, <4>1, Zenon
    <3>6. AddAt(s, k + 2) = d(k) % Word
      BY <3>1, <3>4, <3>5, Zenon
    <3>7. d(k) % Word = d(k)
      <4> HIDE DEF d
      <4> QED BY <1>1, <3>2, SmallQuotient, Zenon
    <3> QED BY <3>2, <3>6, <3>7, Zenon
  <2> HIDE DEF A, d, M, e
  <2>10. v \in 0 .. Word - 1 /\ M \in Nat /\ M + v \in 0 .. Word - 1 /\ M + v = value
    <3>1. M \in Nat
      BY <1>1
    <3> QED BY <1>1, <2>1, <3>1 DEF v
  <2>11. \A k \in 0 .. n + 1 : u[k + 1] = M + A(k)
    <3> DEFINE E == {k \in 0 .. n + 1 : u[k + 1] = M + A(k)}
    <3>1. 0 \in E
      <4>1. u[1] = M % P
        <5>1. s[1] = M
          BY <2>3, <2>4, <2>5, Zenon DEF M
        <5> QED BY <2>7, <5>1, Zenon DEF ValuesUpTo
      <4>2. M % P = M
        <5> HIDE DEF P
        <5> QED BY <1>1, SmallQuotient, Zenon
      <4>3. A(0) = 0
        <5>1. Power(G, 0) = 1
          BY GroupPowers, Zenon
        <5>2. v % 1 = 0
          <6>1. v \in Int /\ 1 \in Nat \ {0}
            BY <2>10
          <6>2. v % 1 \in 0 .. 1 - 1
            BY <6>1, Remainder, Zenon
          <6> QED BY <6>2
        <5> QED BY <5>1, <5>2, Zenon DEF A
      <4>4. M + 0 = M /\ 0 + 1 = 1 /\ 0 \in 0 .. n + 1
        BY <2>2, <2>10
      <4> QED BY <4>1, <4>2, <4>3, <4>4, Zenon
    <3>2. ASSUME NEW k \in 0 .. (n + 1) - 1, k \in E PROVE k + 1 \in E
      <4>1. k \in 0 .. n /\ k + 2 \in 2 .. e /\ (k + 2) - 1 = k + 1 /\ (k + 1) + 1 = k + 2 /\ k + 1 \in 0 .. n + 1
        BY <2>2, <3>2 DEF e
      <4>2. u[k + 2] = (u[k + 1] + AddAt(s, k + 2)) % Word
        <5>1. k + 2 \in 2 .. Len(s)
          BY <2>5, <4>1, Zenon
        <5> QED BY <2>7, <4>1, <5>1, Zenon DEF ValuesUpTo
      <4>3. AddAt(s, k + 2) = d(k) /\ A(k) \in 0 .. v /\ A(k + 1) \in 0 .. v
            /\ d(k) \in 0 .. Word - 1 /\ A(k + 1) = A(k) + d(k)
        BY <2>9, <4>1, Zenon
      <4>4. u[k + 1] = M + A(k)
        BY <3>2, Zenon
      <4>5. (M + A(k)) + d(k) = M + A(k + 1) /\ M + A(k + 1) \in 0 .. Word - 1
        <5> DEFINE x == A(k)
                   y == A(k + 1)
                   z == d(k)
        <5>1. x \in 0 .. v /\ y \in 0 .. v /\ z \in 0 .. Word - 1 /\ y = x + z /\ v \in 0 .. Word - 1
              /\ M \in Nat /\ M + v \in 0 .. Word - 1 /\ Word \in Nat
          BY <1>1, <2>10, <4>3, Zenon
        <5> HIDE DEF x, y, z
        <5>2. (M + x) + z = M + y /\ M + y \in 0 .. Word - 1
          BY ONLY <5>1
        <5> QED BY <5>2, Zenon DEF x, y, z
      <4>6. (M + A(k + 1)) % Word = M + A(k + 1)
        BY <1>1, <4>5, SmallQuotient, Zenon
      <4>7. u[(k + 1) + 1] = M + A(k + 1)
        BY <4>1, <4>2, <4>3, <4>4, <4>5, <4>6, Zenon
      <4> QED BY <4>1, <4>7, Zenon
    <3>3. \A k \in 0 .. (n + 1) - 1 : k \in E => k + 1 \in E
      BY <3>2, Zenon
    <3>4. \A k \in 0 .. n + 1 : k \in E
      <4>1. n + 1 \in Nat
        BY <2>2
      <4> HIDE DEF E
      <4> QED BY <3>1, <3>3, <4>1, InductionUpTo, Zenon
    <3> QED BY <3>4, Zenon
  <2>12. ~Refused(s, u, e)
    <3> SUFFICES ASSUME NEW i \in 2 .. e
                 PROVE  ~(ShiftAt(i) > MaxShift) /\ ~WouldOverflow(u[i - 1], AddAt(s, i))
      BY Zenon DEF Refused
    <3> DEFINE k == i - 2
    <3>1. k \in 0 .. n /\ k \in 0 .. n + 1 /\ k + 2 = i /\ i - 1 = k + 1 /\ k \in 0 .. Top
      BY <2>2 DEF e
    <3>2. ShiftAt(i) = GroupBits * k
      BY Zenon DEF ShiftAt
    <3> HIDE DEF k
    <3>3. GroupBits * k <= GroupBits * Top /\ GroupBits * k \in Nat /\ GroupBits * Top \in Nat
      BY <2>2, <3>1, Widths
    <3>4. ~(ShiftAt(i) > MaxShift)
      BY <3>2, <3>3, Widths
    <3>5. u[i - 1] = M + A(k) /\ AddAt(s, i) = d(k) /\ A(k) \in 0 .. v /\ A(k + 1) \in 0 .. v
          /\ d(k) \in 0 .. Word - 1 /\ A(k + 1) = A(k) + d(k)
      BY <2>9, <2>11, <3>1, Zenon
    <3>6. ~(M + A(k) > Word - 1 - d(k))
      <4> DEFINE x == A(k)
                 y == A(k + 1)
                 z == d(k)
      <4>1. x \in 0 .. v /\ y \in 0 .. v /\ z \in 0 .. Word - 1 /\ y = x + z
        BY <3>5, Zenon
      <4>2. Word \in Nat
        BY <1>1, Zenon
      <4> HIDE DEF x, y, z, v
      <4>3. ~(M + x > Word - 1 - z)
        BY ONLY <2>10, <4>1, <4>2
      <4> QED BY <4>3, Zenon DEF x, z
    <3> QED BY <3>4, <3>5, <3>6, Zenon DEF WouldOverflow
  <2>13. u[e] = value
    <3>1. n + 1 \in 0 .. n + 1 /\ (n + 1) + 1 = e
      BY <2>2 DEF e
    <3>2. A(n + 1) = v
      <4>1. Left(v, n) < G
        BY <2>1, RoundsIs, Zenon DEF n
      <4>2. v < Power(G, n + 1) /\ Power(G, n + 1) \in Nat \ {0}
        <5>1. v \in Nat /\ n + 1 \in Nat
          BY <2>2, <2>10
        <5> QED BY <2>2, <4>1, <5>1, LeftIs, GroupPowers, Zenon
      <4>3. v \in 0 .. Power(G, n + 1) - 1
        BY <2>10, <4>2
      <4> QED BY <4>2, <4>3, SmallQuotient, Zenon DEF A
    <3> QED BY <2>10, <2>11, <3>1, <3>2, Zenon
  <2>14. ~(u[1] < P - 1)
    <3>1. u[0 + 1] = M + A(0) /\ A(0) \in 0 .. v /\ 0 + 1 = 1
      <4>1. 0 \in 0 .. n + 1 /\ 0 \in 0 .. n
        BY <2>2
      <4>2. 0 + 1 = 1
        OBVIOUS
      <4> QED BY <2>9, <2>11, <4>1, <4>2, Zenon
    <3>2. ~(M + A(0) < M)
      BY <2>10, <3>1
    <3> QED BY <3>1, <3>2, Zenon DEF M
  <2>15. Outcome(s, p, u) = [read |-> e, value |-> value]
    BY <2>8, <2>12, <2>13, <2>14, Zenon DEF Outcome
  <2> QED BY <2>3, <2>7, <2>15, Zenon DEF c
<1> QED BY <1>3, <1>4, Zenon

\* Of what was written, less than all is not decoded.
LEMMA DecodeCut ==
    ASSUME NEW p \in 0 .. GroupBits, NEW value \in 0 .. Word - 1, NEW s \in Seq(Byte),
           Len(s) < Len(Code(value, p)), \A i \in 1 .. Len(s) : s[i] = Code(value, p)[i]
    PROVE  DecodeInteger(s, p) = Failed
<1> DEFINE M == Power(2, p) - 1
           c == Code(value, p)
           v == value - M
           n == Rounds(v)
<1>1. CASE s = <<>>
  BY <1>1, Zenon DEF DecodeInteger
<1>2. CASE s # <<>>
  <2>0. Len(s) \in Nat /\ Len(s) >= 1
    BY <1>2
  <2>1. ~(value < M)
    <3> SUFFICES ASSUME value < M PROVE FALSE
      BY Zenon
    <3>1. Len(c) = 1
      BY CodeShort, Zenon
    <3> QED BY <2>0, <3>1
  <2>2. v \in 0 .. Word - 1 /\ Written(c, p, v)
    BY <2>1, CodeLong, Zenon
  <2>3. /\ Len(c) = n + 2 /\ c[1] = M
        /\ \A i \in 2 .. n + 1 : c[i] >= Group
    BY <2>2, Zenon DEF Written
  <2>4. n \in Nat
    <3>1. n \in 0 .. Top
      BY <2>2, RoundsIs, Zenon
    <3> QED BY <3>1, Widths
  <2>5. \A i \in 2 .. Len(s) : i \in 1 .. Len(s) /\ i \in 2 .. n + 1
    <3>1. Len(s) < n + 2
      BY <2>3, Zenon
    <3> HIDE DEF n
    <3> QED BY <2>0, <2>4, <3>1
  <2>6. EndsOf(s) = {}
    <3> SUFFICES ASSUME NEW i \in 2 .. Len(s), s[i] < Group PROVE FALSE
      BY Zenon DEF EndsOf
    <3>1. s[i] >= Group
      BY <2>3, <2>5, Zenon
    <3>2. s[i] \in Int
      <4>1. s[i] \in Byte
        BY <2>5
      <4> QED BY <4>1, Widths DEF Byte
    <3> QED BY <3>1, <3>2, Widths
  <2>7. PICK u \in [1 .. Len(s) -> Nat] : ValuesUpTo(s, p, u) /\ DecodeInteger(s, p) = Outcome(s, p, u)
    BY <1>2, DecodeIs, Zenon
  <2>8. u[1] = M
    <3>1. s[1] = M
      <4>1. 1 \in 1 .. Len(s)
        BY <2>0
      <4> QED BY <2>3, <4>1, Zenon
    <3> DEFINE P == Power(2, p)
    <3>2. P \in Nat \ {0}
      BY PrefixIs, Zenon
    <3> HIDE DEF P
    <3>3. P - 1 \in 0 .. P - 1
      BY <3>2
    <3>4. (P - 1) % P = P - 1
      BY <3>2, <3>3, SmallQuotient, Zenon
    <3> QED BY <2>7, <3>1, <3>4, Zenon DEF ValuesUpTo, P
  <2>9. ~(M < M)
    BY PrefixIs
  <2> QED BY <2>6, <2>7, <2>8, <2>9, Zenon DEF Outcome
<1> QED BY <1>1, <1>2, Zenon

-----------------------------------------------------------------------------
\* The sums that NumberAt computes, without a width.
Summand(s, i) == (s[i] % Group) * Power(2, ShiftAt(i))
SumsUpTo(s, p, n, w) ==
    /\ w[1] = s[1] % Power(2, p)
    /\ \A i \in 2 .. n : w[i] = w[i - 1] + Summand(s, i)

\* It is a natural number, and to_add is what is left of it in a word.
LEMMA SummandIs ==
    ASSUME NEW s \in Seq(Byte), NEW i \in 2 .. Len(s)
    PROVE  Summand(s, i) \in Nat /\ AddAt(s, i) = Summand(s, i) % Word
<1> DEFINE a == s[i] % Group
           b == Power(2, ShiftAt(i))
<1>1. a \in 0 .. Group - 1 /\ b \in Nat
  BY AddIs
<1>2. a * b \in Nat
  <2> HIDE DEF a, b
  <2> QED BY ONLY <1>1
<1> QED BY <1>2, Zenon DEF Summand, AddAt

\* The recursion of NumberAt has a solution.
LEMMA NumberIs ==
    ASSUME bytes \in Seq(Byte), prefix \in 0 .. GroupBits, NEW n \in 1 .. Len(bytes)
    PROVE  \E w \in [1 .. n -> Nat] : SumsUpTo(bytes, prefix, n, w) /\ NumberAt(n) = w[n]
<1> DEFINE s == bytes
           p == prefix
           c == s[1] % Power(2, p)
           step == [q \in Nat \X (1 .. n - 1) |-> q[1] + Summand(s, q[2] + 1)]
           Body(f) == [i \in 1 .. n |-> IF i = 1 THEN c ELSE f[i - 1] + Summand(s, i)]
           u == CHOOSE f : f = Body(f)
<1>1. n \in Nat \ {0} /\ n - 1 \in Nat /\ 1 \in 1 .. n /\ \A i \in 2 .. n : i \in 2 .. Len(s)
  OBVIOUS
<1>2. c \in Nat
  <2>1. s[1] \in Int
    <3>1. s[1] \in Byte
      BY <1>1
    <3> QED BY <3>1, Widths DEF Byte
  <2>2. Power(2, p) \in Nat \ {0}
    BY PrefixIs, Zenon
  <2>3. c \in 0 .. Power(2, p) - 1
    BY <2>1, <2>2, Remainder, Zenon
  <2> HIDE DEF c
  <2> QED BY <2>2, <2>3
<1>3. \A x \in Nat : \A i \in 2 .. n : x + Summand(s, i) \in Nat
  <2> SUFFICES ASSUME NEW x \in Nat, NEW i \in 2 .. n PROVE x + Summand(s, i) \in Nat
    BY Zenon
  <2> DEFINE a == Summand(s, i)
  <2>1. a \in Nat
    BY <1>1, SummandIs, Zenon
  <2> HIDE DEF a
  <2>2. x + a \in Nat
    BY ONLY <2>1, x \in Nat
  <2> QED BY <2>2, Zenon DEF a
<1>4. step \in [Nat \X (1 .. n - 1) -> Nat]
  <2> SUFFICES ASSUME NEW q \in Nat \X (1 .. n - 1) PROVE q[1] + Summand(s, q[2] + 1) \in Nat
    BY Zenon
  <2>1. q[1] \in Nat /\ q[2] + 1 \in 2 .. n
    BY <1>1
  <2> QED BY <1>3, <2>1, Zenon
<1>5. PICK g \in [0 .. n - 1 -> Nat] : Computes(g, n - 1, c, step)
  <2> HIDE DEF step, c
  <2> QED BY <1>1, <1>2, <1>4, RecursionExists, Zenon
<1> DEFINE w == [i \in 1 .. n |-> g[i - 1]]
<1>6. \A i \in 2 .. n : g[i - 1] = g[(i - 1) - 1] + Summand(s, i)
  <2> SUFFICES ASSUME NEW i \in 2 .. n PROVE g[i - 1] = g[(i - 1) - 1] + Summand(s, i)
    BY Zenon
  <2>1. i - 1 \in 1 .. n - 1 /\ (i - 1) - 1 \in 0 .. n - 1 /\ (i - 1) + 1 = i
    BY <1>1
  <2>2. g[(i - 1) - 1] \in Nat
    BY <2>1, Zenon
  <2> DEFINE q == <<g[(i - 1) - 1], i - 1>>
  <2>3. g[i - 1] = step[q] /\ q \in Nat \X (1 .. n - 1) /\ q[1] = g[(i - 1) - 1] /\ q[2] = i - 1
    BY <1>5, <2>1, <2>2, Zenon DEF Computes
  <2> HIDE DEF q
  <2>4. step[q] = q[1] + Summand(s, q[2] + 1)
    BY <2>3, Zenon
  <2> QED BY <2>1, <2>3, <2>4, Zenon
<1>7. w = Body(w)
  <2>1. \A i \in 1 .. n : i = 1 \/ (i \in 2 .. n /\ i - 1 \in 1 .. n)
    BY <1>1
  <2>2. g[1 - 1] = c
    BY <1>5 DEF Computes
  <2>3. ASSUME NEW i \in 1 .. n
        PROVE  w[i] = IF i = 1 THEN c ELSE w[i - 1] + Summand(s, i)
    BY <1>6, <2>1, <2>2, Zenon
  <2> QED BY <2>3, Zenon
<1>8. u = Body(u)
  <2> HIDE DEF Body
  <2> QED BY <1>7, Zenon
<1>9. NumberAt(n) = u[n]
  BY Zenon DEF NumberAt, Summand, ShiftAt
<1> HIDE DEF u
<1>10. /\ u[1] = c
       /\ \A i \in 2 .. n : u[i] = u[i - 1] + Summand(s, i)
  <2>1. \A i \in 1 .. n : u[i] = Body(u)[i]
    BY <1>8, Zenon
  <2>2. 1 \in 1 .. n /\ \A i \in 2 .. n : i \in 1 .. n /\ i # 1
    BY <1>1
  <2> QED BY <2>1, <2>2, Zenon
<1>11. \A i \in 1 .. n : u[i] \in Nat
  <2> DEFINE E == {k \in 0 .. n - 1 : u[k + 1] \in Nat}
  <2>1. 0 \in E
    BY <1>1, <1>2, <1>10
  <2>2. ASSUME NEW k \in 0 .. (n - 1) - 1, k \in E PROVE k + 1 \in E
    <3>1. (k + 1) + 1 \in 2 .. n /\ ((k + 1) + 1) - 1 = k + 1 /\ k + 1 \in 0 .. n - 1
      BY <1>1
    <3>2. u[(k + 1) + 1] = u[k + 1] + Summand(s, (k + 1) + 1) /\ u[k + 1] \in Nat
      BY <1>10, <2>2, <3>1, Zenon
    <3>3. u[(k + 1) + 1] \in Nat
      BY <1>3, <3>1, <3>2, Zenon
    <3> QED BY <3>1, <3>3, Zenon
  <2>3. \A k \in 0 .. (n - 1) - 1 : k \in E => k + 1 \in E
    BY <2>2, Zenon
  <2>4. \A k \in 0 .. n - 1 : k \in E
    <3> HIDE DEF E
    <3> QED BY <1>1, <2>1, <2>3, InductionUpTo, Zenon
  <2>5. \A i \in 1 .. n : i - 1 \in 0 .. n - 1 /\ (i - 1) + 1 = i
    BY <1>1
  <2> QED BY <2>4, <2>5, Zenon
<1>12. u \in [1 .. n -> Nat]
  BY <1>8, <1>11, Zenon
<1> QED BY <1>9, <1>10, <1>12, Zenon DEF SumsUpTo

\* A group below the last shift fits into the word, and so does one at the last
\* shift that has no bits beyond it.
LEMMA SummandFits ==
    ASSUME NEW s \in Seq(Byte), NEW i \in 2 .. Len(s), ~(ShiftAt(i) > MaxShift),
           i = Top + 2 => ~(s[i] % Group >= Power(2, WordBits - MaxShift))
    PROVE  i - 2 \in 0 .. Top /\ Summand(s, i) \in 0 .. Word - 1
<1> DEFINE k == i - 2
           a == s[i] % Group
           b == Power(Group, k)
           G == Group
<1>1. /\ Top \in Nat /\ MaxShift = GroupBits * Top /\ GroupBits \in Nat \ {0} /\ k \in Nat
      /\ G \in Nat \ {0} /\ Word \in Nat \ {0} /\ WordBits \in Nat /\ MaxShift < WordBits
  BY Widths
<1>2. k \in 0 .. Top
  <2>1. ~(GroupBits * k > GroupBits * Top)
    BY <1>1, Zenon DEF ShiftAt
  <2> HIDE DEF k
  <2> SUFFICES ASSUME k >= Top + 1 PROVE FALSE
    BY <1>1
  <2>2. GroupBits * k >= GroupBits * (Top + 1)
    BY <1>1
  <2>3. GroupBits * (Top + 1) = GroupBits * Top + GroupBits
    BY <1>1
  <2>4. GroupBits * k \in Nat /\ GroupBits * Top \in Nat
    BY <1>1
  <2> QED BY <1>1, <2>1, <2>2, <2>3, <2>4
<1>3. a \in 0 .. G - 1 /\ b \in Nat \ {0} /\ Summand(s, i) = a * b
  BY AddIs, Zenon DEF Summand
<1>4. Power(G, Top) = Power(2, MaxShift) /\ Power(G, k + 1) = G * b
  BY <1>1, GroupPowers, Zenon
<1>5. Word = Power(2, MaxShift) * Power(2, WordBits - MaxShift)
      /\ Power(2, MaxShift) \in Nat \ {0} /\ Power(2, WordBits - MaxShift) \in Nat \ {0}
  <2>1. MaxShift \in Nat /\ WordBits - MaxShift \in Nat /\ MaxShift + (WordBits - MaxShift) = WordBits
        /\ 2 \in Nat \ {0}
    BY <1>1
  <2>2. Word = Power(2, MaxShift + (WordBits - MaxShift))
    BY <2>1, Zenon DEF Word
  <2> QED BY <2>1, <2>2, PowerSum, PowerIs, Zenon
<1> DEFINE x == Power(2, MaxShift)
           y == Power(2, WordBits - MaxShift)
<1>6. Word = x * y /\ x \in Nat \ {0} /\ y \in Nat \ {0}
  BY <1>5, Zenon
<1>7. CASE k = Top
  <2>1. i = Top + 2
    BY <1>1, <1>7
  <2>2. ~(a >= y) /\ b = x
    BY <1>4, <1>7, <2>1, Zenon
  <2> HIDE DEF a, b, x, y, k
  <2>3. a <= y - 1
    BY <1>1, <1>3, <1>6, <2>2
  <2>4. a * x <= (y - 1) * x
    BY <1>3, <1>6, <2>3
  <2>5. (y - 1) * x = x * y - x
    BY <1>6
  <2>6. a * b \in 0 .. Word - 1
    BY <1>1, <1>3, <1>6, <2>2, <2>4, <2>5
  <2> QED BY <1>2, <1>3, <2>6, Zenon DEF k
<1>8. CASE k # Top
  <2>1. k + 1 \in 0 .. Top
    <3> HIDE DEF k
    <3> QED BY ONLY <1>1, <1>2, <1>8
  <2>2. Power(G, k + 1) <= Power(G, Top)
    BY <1>1, <2>1, PowerGrows, Zenon
  <2>3. G * b <= x
    BY <1>4, <2>2, Zenon
  <2> HIDE DEF a, b, x, y, k, G
  <2>4. a * b <= (G - 1) * b
    BY <1>1, <1>3
  <2>5. (G - 1) * b = G * b - b
    BY <1>1, <1>3
  <2>6. x <= Word
    BY <1>6
  <2>7. a * b \in Nat /\ G * b \in Nat
    BY <1>1, <1>3
  <2>8. a * b \in 0 .. Word - 1
    BY <1>1, <1>3, <1>6, <2>3, <2>4, <2>5, <2>6, <2>7
  <2> QED BY <1>2, <1>3, <2>8, Zenon DEF k
<1> QED BY <1>7, <1>8, Zenon

\* What is not refused, and does not wrap, is decoded exactly.
LEMMA ValueExact ==
    ASSUME NEW s \in Seq(Byte), NEW p, NEW e \in 1 .. Len(s),
           NEW u \in [1 .. Len(s) -> Nat], ValuesUpTo(s, p, u), ~Refused(s, u, e),
           NEW w \in [1 .. e -> Nat], SumsUpTo(s, p, e, w),
           e = Top + 2 => ~(s[e] % Group >= Power(2, WordBits - MaxShift))
    PROVE  u[e] = w[e]
<1> DEFINE E == {k \in 0 .. e - 1 : u[k + 1] = w[k + 1]}
<1>0. e \in Nat /\ e - 1 \in Nat /\ Top \in Nat /\ Word \in Nat \ {0}
  BY Widths
<1>1. 0 \in E
  <2>1. 0 \in 0 .. e - 1 /\ 0 + 1 = 1
    OBVIOUS
  <2> QED BY <2>1, Zenon DEF ValuesUpTo, SumsUpTo
<1>2. ASSUME NEW k \in 0 .. (e - 1) - 1, k \in E PROVE k + 1 \in E
  <2> DEFINE i == k + 2
             a == Summand(s, i)
             x == u[k + 1]
  <2>1. i \in 2 .. e /\ i \in 2 .. Len(s) /\ i - 1 = k + 1 /\ (k + 1) + 1 = i /\ k + 1 \in 0 .. e - 1
        /\ k + 1 \in 1 .. Len(s)
    BY <1>0
  <2>2. ~(ShiftAt(i) > MaxShift) /\ ~WouldOverflow(u[i - 1], AddAt(s, i))
    BY <2>1, Zenon DEF Refused
  <2>3. i = Top + 2 => i = e
    <3> SUFFICES ASSUME i = Top + 2, i < e PROVE FALSE
      BY <2>1
    <3>1. e \in 2 .. e /\ e - 2 > Top /\ e \in 2 .. Len(s) /\ e # Top + 2
      BY <1>0, <2>1
    <3>2. ~(ShiftAt(e) > MaxShift)
      BY <3>1, Zenon DEF Refused
    <3>3. e - 2 \in 0 .. Top
      BY <3>1, <3>2, SummandFits, Zenon
    <3> QED BY <1>0, <3>1, <3>3
  <2>4. a \in 0 .. Word - 1
    BY <2>1, <2>2, <2>3, SummandFits, Zenon
  <2>5. AddAt(s, i) = a % Word
    BY <2>1, SummandIs, Zenon
  <2> HIDE DEF a, x, i
  <2>6. AddAt(s, i) = a
    <3>1. a % Word = a
      BY <1>0, <2>4, SmallQuotient, Zenon
    <3> QED BY <2>5, <3>1, Zenon
  <2>7. u[i - 1] = x /\ x \in Nat
    BY <2>1, Zenon DEF x
  <2>8. ~(x > Word - 1 - a)
    BY <2>2, <2>6, <2>7, Zenon DEF WouldOverflow
  <2>9. x + a \in 0 .. Word - 1
    BY ONLY <1>0, <2>4, <2>7, <2>8
  <2>10. (x + a) % Word = x + a
    BY <1>0, <2>9, SmallQuotient, Zenon
  <2>11. u[i] = x + a
    BY <2>1, <2>6, <2>7, <2>10, Zenon DEF ValuesUpTo
  <2>12. w[i] = x + a
    <3>1. w[i - 1] = x
      BY <1>2, <2>1, Zenon DEF x
    <3> QED BY <2>1, <3>1, Zenon DEF SumsUpTo, a
  <2> QED BY <2>1, <2>11, <2>12, Zenon
<1>3. \A k \in 0 .. (e - 1) - 1 : k \in E => k + 1 \in E
  BY <1>2, Zenon
<1>4. \A k \in 0 .. e - 1 : k \in E
  <2> HIDE DEF E
  <2> QED BY <1>0, <1>1, <1>3, InductionUpTo, Zenon
<1>5. e - 1 \in 0 .. e - 1 /\ (e - 1) + 1 = e
  BY <1>0
<1> QED BY <1>4, <1>5, Zenon

\* Wrapped or not, what is decoded is no more than the sum, and the sum grows.
LEMMA ValueBelow ==
    ASSUME NEW s \in Seq(Byte), NEW p, NEW u \in [1 .. Len(s) -> Nat], ValuesUpTo(s, p, u),
           NEW w \in [1 .. Len(s) -> Nat], SumsUpTo(s, p, Len(s), w)
    PROVE  /\ \A i \in 1 .. Len(s) : u[i] <= w[i]
           /\ \A i \in 1 .. Len(s) : w[i] <= w[Len(s)]
<1> DEFINE n == Len(s)
<1>0. n \in Nat /\ Word \in Nat \ {0}
  BY Widths
<1>a. \A x \in Nat : x % Word \in Nat /\ x % Word <= x
  <2> SUFFICES ASSUME NEW x \in Nat PROVE x % Word \in Nat /\ x % Word <= x
    BY Zenon
  <2>1. x % Word \in 0 .. Word - 1
    <3>1. x \in Int
      OBVIOUS
    <3> QED BY <1>0, <3>1, Remainder, Zenon
  <2>2. x \in Nat
    OBVIOUS
  <2>3. x < Word => x % Word = x
    <3>1. x < Word => x \in 0 .. Word - 1
      BY ONLY <1>0, <2>2
    <3> QED BY <1>0, <3>1, SmallQuotient, Zenon
  <2> QED BY ONLY <1>0, <2>1, <2>2, <2>3
<1>1. ASSUME NEW i \in 2 .. n
      PROVE  /\ i - 1 \in 1 .. n /\ w[i - 1] <= w[i]
             /\ u[i - 1] <= w[i - 1] => u[i] <= w[i]
  <2> DEFINE a == Summand(s, i)
             b == AddAt(s, i)
             x == u[i - 1]
             y == w[i - 1]
  <2>1. i - 1 \in 1 .. n
    BY <1>0
  <2>2. a \in Nat /\ b = a % Word
    BY SummandIs, Zenon
  <2>3. x \in Nat /\ y \in Nat /\ u[i] = (x + b) % Word /\ w[i] = y + a
    BY <2>1, Zenon DEF ValuesUpTo, SumsUpTo
  <2> HIDE DEF a, b, x, y
  <2>4. b \in Nat /\ b <= a
    BY <1>a, <2>2, Zenon
  <2>5. x + b \in Nat
    BY ONLY <2>3, <2>4
  <2>6. (x + b) % Word <= x + b /\ (x + b) % Word \in Nat
    BY <1>a, <2>5, Zenon
  <2> DEFINE z == (x + b) % Word
  <2>7. u[i] = z /\ z \in Nat /\ z <= x + b
    BY <2>3, <2>6, Zenon
  <2> HIDE DEF z
  <2>8. y <= y + a /\ (x <= y => z <= y + a)
    BY ONLY <2>2, <2>3, <2>4, <2>7
  <2> QED BY <2>1, <2>3, <2>7, <2>8, Zenon DEF x, y
<1>2. \A i \in 1 .. n : u[i] <= w[i]
  <2> SUFFICES ASSUME NEW m \in 1 .. n PROVE u[m] <= w[m]
    BY Zenon
  <2> DEFINE E == {k \in 0 .. m - 1 : u[k + 1] <= w[k + 1]}
  <2>0. m - 1 \in Nat
    OBVIOUS
  <2>1. 0 \in E
    <3>1. 0 \in 0 .. m - 1 /\ 0 + 1 = 1 /\ 1 \in 1 .. n
      OBVIOUS
    <3>2. u[1] = w[1] /\ u[1] \in Nat
      BY <3>1, Zenon DEF ValuesUpTo, SumsUpTo
    <3>3. u[1] <= w[1]
      BY <3>2
    <3> QED BY <3>1, <3>3, Zenon
  <2>2. ASSUME NEW k \in 0 .. (m - 1) - 1, k \in E PROVE k + 1 \in E
    <3>1. (k + 1) + 1 \in 2 .. n /\ ((k + 1) + 1) - 1 = k + 1 /\ k + 1 \in 0 .. m - 1
      BY <1>0
    <3>2. u[(k + 1) + 1] <= w[(k + 1) + 1]
      BY <1>1, <2>2, <3>1, Zenon
    <3> QED BY <3>1, <3>2, Zenon
  <2>3. \A k \in 0 .. (m - 1) - 1 : k \in E => k + 1 \in E
    BY <2>2, Zenon
  <2>4. \A k \in 0 .. m - 1 : k \in E
    <3> HIDE DEF E
    <3> QED BY <2>0, <2>1, <2>3, InductionUpTo, Zenon
  <2>5. m - 1 \in 0 .. m - 1 /\ (m - 1) + 1 = m
    OBVIOUS
  <2> QED BY <2>4, <2>5, Zenon
<1>3. \A i \in 1 .. n : w[i] <= w[n]
  <2> SUFFICES ASSUME NEW m \in 1 .. n PROVE w[m] <= w[n]
    BY Zenon
  <2> DEFINE E == {k \in 0 .. n - m : w[m] <= w[m + k]}
  <2>0. n - m \in Nat
    BY <1>0
  <2>1. 0 \in E
    <3>1. 0 \in 0 .. n - m /\ m + 0 = m /\ w[m] \in Nat
      BY <1>0
    <3>2. w[m] <= w[m]
      BY <3>1
    <3> QED BY <3>1, <3>2, Zenon
  <2>2. ASSUME NEW k \in 0 .. (n - m) - 1, k \in E PROVE k + 1 \in E
    <3>1. m + (k + 1) \in 2 .. n /\ (m + (k + 1)) - 1 = m + k /\ k + 1 \in 0 .. n - m
          /\ m + k \in 1 .. n /\ m + (k + 1) \in 1 .. n
      BY <1>0
    <3>2. w[m + k] <= w[m + (k + 1)] /\ w[m] <= w[m + k]
      BY <1>1, <2>2, <3>1, Zenon
    <3>3. w[m + k] \in Nat /\ w[m + (k + 1)] \in Nat /\ w[m] \in Nat
      BY <3>1, Zenon
    <3> DEFINE x == w[m]
               y == w[m + k]
               z == w[m + (k + 1)]
    <3>4. x <= y /\ y <= z /\ x \in Nat /\ y \in Nat /\ z \in Nat
      BY <3>2, <3>3, Zenon
    <3> HIDE DEF x, y, z
    <3>5. x <= z
      BY ONLY <3>4
    <3> QED BY <3>1, <3>5, Zenon DEF x, z
  <2>3. \A k \in 0 .. (n - m) - 1 : k \in E => k + 1 \in E
    BY <2>2, Zenon
  <2>4. \A k \in 0 .. n - m : k \in E
    <3> HIDE DEF E, n
    <3> QED BY <2>0, <2>1, <2>3, InductionUpTo, Zenon
  <2>5. n - m \in 0 .. n - m /\ m + (n - m) = n
    BY <1>0
  <2> QED BY <2>4, <2>5, Zenon
<1> QED BY <1>2, <1>3, Zenon

-----------------------------------------------------------------------------
\* What the calls of the coder have left behind.
IntegerInv ==
    /\ prefix \in Nat /\ number \in -1 .. Word - 1 /\ bytes \in Seq(Byte)
    /\ number < 0 => prefix = GroupBits /\ Len(bytes) >= 2 /\ bytes[1] = Power(2, GroupBits) - 1
    /\ number >= 0 /\ encoded.read > 0 =>
         prefix <= GroupBits /\ bytes = Code(number, prefix) /\ encoded.read = Len(bytes)
    /\ \/ decoded = NotCalled
       \/ decoded = DecodeInteger(bytes, prefix) /\ (number >= 0 => encoded # NotCalled)

\* Every code is a string of bytes.
LEMMA CodeBytes ==
    ASSUME NEW p \in 0 .. GroupBits, NEW value \in 0 .. Word - 1
    PROVE  Code(value, p) \in Seq(Byte) /\ Len(Code(value, p)) \in Nat \ {0}
<1>1. CASE value < Power(2, p) - 1
  <2>1. Code(value, p) = <<value>> /\ <<value>> \in Seq(Byte) /\ Len(<<value>>) = 1 /\ 1 \in Nat \ {0}
    BY <1>1, CodeShort
  <2> QED BY <2>1, Zenon
<1>2. CASE ~(value < Power(2, p) - 1)
  <2> DEFINE v == value - (Power(2, p) - 1)
  <2>1. v \in 0 .. Word - 1 /\ Written(Code(value, p), p, v)
    BY <1>2, CodeLong, Zenon
  <2> HIDE DEF v
  <2>2. Rounds(v) \in 0 .. Top
    BY <2>1, RoundsIs, Zenon
  <2>3. Rounds(v) + 2 \in Nat \ {0}
    BY <2>2, Widths
  <2> QED BY <2>1, <2>3, Zenon DEF Written
<1> QED BY <1>1, <1>2, Zenon

\* The bytes from elsewhere.
LEMMA ContinuedBytes ==
    ASSUME NEW n \in 1 .. MaxGroups, NEW b \in Continued(GroupBits, n)
    PROVE  b \in Seq(Byte) /\ Len(b) >= 2 /\ b[1] = Power(2, GroupBits) - 1
<1> DEFINE M == Power(2, GroupBits) - 1
           x == <<M>>
<1>1. PICK s \in [1 .. n -> Byte] : b = x \o s
  BY Zenon DEF Continued
<1>2. n \in Nat /\ n >= 1 /\ M \in Byte
  BY Widths DEF Group, Byte
<1>3. s \in Seq(Byte) /\ Len(s) = n
  BY ONLY <1>1, <1>2, FunctionIsSeq
<1> HIDE DEF M
<1>4. x \in Seq(Byte) /\ Len(x) = 1 /\ x[1] = M
  BY <1>2
<1> HIDE DEF x
<1>5. /\ x \o s \in Seq(Byte) /\ Len(x \o s) = Len(x) + Len(s)
      /\ \A k \in 1 .. Len(x) : (x \o s)[k] = x[k]
  <2>1. x \in Seq(Byte)
    BY <1>4, Zenon
  <2>2. s \in Seq(Byte)
    BY <1>3, Zenon
  <2> QED BY ONLY <2>1, <2>2, JoinFacts
<1>6. Len(x) + Len(s) >= 2 /\ 1 \in 1 .. Len(x)
  BY <1>2, <1>3, <1>4
<1>7. b[1] = M
  BY <1>1, <1>4, <1>5, <1>6, Zenon
<1> QED BY <1>1, <1>5, <1>6, <1>7, Zenon DEF M

\* At first nothing is encoded or decoded.
LEMMA IntegerStart == IntegerInit => IntegerInv
<1> SUFFICES ASSUME IntegerInit PROVE IntegerInv
  BY Zenon
<1>1. ~(NotCalled.read > 0)
  BY DEF NotCalled
<1>2. decoded = NotCalled /\ encoded = NotCalled
  BY Zenon DEF IntegerInit
<1>3. CASE prefix \in 0 .. GroupBits + 1 /\ number \in 0 .. Word - 1 /\ bytes = <<>>
  <2>1. prefix \in Nat /\ number \in -1 .. Word - 1 /\ ~(number < 0) /\ bytes \in Seq(Byte)
    BY <1>3, Widths
  <2> QED BY <1>1, <1>2, <2>1, Zenon DEF IntegerInv
<1>4. CASE /\ prefix = GroupBits /\ number = -1
           /\ bytes \in UNION {Continued(GroupBits, n) : n \in 1 .. MaxGroups}
  <2>1. prefix \in Nat /\ number \in -1 .. Word - 1
    BY <1>4, Widths
  <2>2. bytes \in Seq(Byte) /\ Len(bytes) >= 2 /\ bytes[1] = Power(2, GroupBits) - 1
    BY <1>4, ContinuedBytes, Zenon
  <2> QED BY <1>1, <1>2, <1>4, <2>1, <2>2, Zenon DEF IntegerInv
<1> QED BY <1>3, <1>4, Zenon DEF IntegerInit

\* Encoding and decoding keep the invariant.
LEMMA IntegerStep == IntegerInv /\ [IntegerNext]_integerVars => IntegerInv'
<1> SUFFICES ASSUME IntegerInv, [IntegerNext]_integerVars PROVE IntegerInv'
  BY Zenon
<1>1. CASE UNCHANGED integerVars
  BY <1>1, Zenon DEF integerVars, IntegerInv
<1>2. ASSUME NEW room \in Rooms, EncodeNumber(room) PROVE IntegerInv'
  <2> DEFINE c == Code(number, prefix)
  <2>1. /\ number >= 0 /\ encoded = NotCalled
        /\ encoded' = EncodeInteger(number, prefix, room)
        /\ bytes' = IF encoded'.read > 0 THEN encoded'.bytes ELSE <<>>
        /\ prefix' = prefix /\ number' = number /\ decoded' = decoded
    BY <1>2, Zenon DEF EncodeNumber
  <2>2. number \in 0 .. Word - 1 /\ ~(number < 0) /\ prefix \in Nat
    BY <2>1, Widths DEF IntegerInv
  <2>3. decoded = NotCalled
    BY <2>1, Zenon DEF IntegerInv
  <2>4. CASE prefix > GroupBits \/ Len(c) > room
    <3>1. encoded' = Failed
      BY <2>1, <2>4, Zenon DEF EncodeInteger
    <3>2. ~(Failed.read > 0) /\ <<>> \in Seq(Byte)
      BY DEF Failed
    <3> QED BY <2>1, <2>2, <2>3, <3>1, <3>2, Zenon DEF IntegerInv
  <2>5. CASE ~(prefix > GroupBits \/ Len(c) > room)
    <3>1. encoded' = [read |-> Len(c), bytes |-> c]
      BY <2>1, <2>5, Zenon DEF EncodeInteger
    <3>2. prefix \in 0 .. GroupBits /\ prefix <= GroupBits
      BY <2>2, <2>5, Widths
    <3>3. c \in Seq(Byte) /\ Len(c) \in Nat \ {0}
      BY <2>2, <3>2, CodeBytes, Zenon
    <3>4. encoded'.read = Len(c) /\ encoded'.bytes = c
      BY <3>1, Zenon
    <3> HIDE DEF c
    <3>5. Len(c) > 0
      BY <3>3
    <3>6. bytes' = c
      BY <2>1, <3>4, <3>5, Zenon
    <3> QED BY <2>1, <2>2, <2>3, <3>2, <3>3, <3>4, <3>6, Zenon DEF IntegerInv, c
  <2> QED BY <2>4, <2>5, Zenon
<1>3. CASE DecodeNumber
  BY <1>3, Zenon DEF DecodeNumber, IntegerInv
<1> QED BY <1>1, <1>2, <1>3, Zenon DEF IntegerNext

\* What the decoder does with any bytes.
LEMMA DecodedNumber ==
    ASSUME bytes \in Seq(Byte), prefix \in 0 .. GroupBits, bytes # <<>>,
           decoded = DecodeInteger(bytes, prefix)
    PROVE  /\ decoded.read > 0 /\ ~TopGroupWraps => decoded.value = NumberAt(decoded.read)
           /\ decoded = Failed /\ bytes[1] = Power(2, prefix) - 1 /\ Len(bytes) >= 2 =>
                \/ \A i \in 2 .. Len(bytes) : bytes[i] >= Group
                \/ Len(bytes) > Top + 2
                \/ NumberAt(Len(bytes)) >= Word
<1> DEFINE s == bytes
           p == prefix
           n == Len(bytes)
<1>1. PICK u \in [1 .. n -> Nat] : ValuesUpTo(s, p, u) /\ DecodeInteger(s, p) = Outcome(s, p, u)
  BY DecodeIs, Zenon
<1>2. n \in Nat /\ 1 \in 1 .. n /\ n \in 1 .. n /\ Top \in Nat /\ Word \in Nat \ {0}
  BY Widths
<1>3. ASSUME EndsOf(s) # {} PROVE EndOf(s) \in 2 .. n /\ EndOf(s) \in 1 .. n
  <2>1. EndsOf(s) \in SUBSET Nat
    BY DEF EndsOf
  <2>2. \E x \in EndsOf(s) : \A y \in EndsOf(s) : x <= y
    BY <1>3, <2>1, LeastNumber, Zenon
  <2>3. EndOf(s) \in EndsOf(s)
    BY <2>2, Zenon DEF EndOf
  <2>4. EndOf(s) \in 2 .. n
    BY <2>3, Zenon DEF EndsOf
  <2> QED BY <1>2, <2>4
<1>4. ASSUME decoded.read > 0, ~TopGroupWraps PROVE decoded.value = NumberAt(decoded.read)
  <2>1. CASE u[1] < Power(2, p) - 1
    <3>1. decoded = [read |-> 1, value |-> u[1]]
      BY <1>1, <2>1, Zenon DEF Outcome
    <3>2. decoded.read = 1 /\ decoded.value = u[1]
      BY <3>1
    <3>3. PICK w \in [1 .. 1 -> Nat] : SumsUpTo(s, p, 1, w) /\ NumberAt(1) = w[1]
      BY <1>2, NumberIs, Zenon
    <3> QED BY <1>1, <3>2, <3>3, Zenon DEF ValuesUpTo, SumsUpTo
  <2>2. CASE ~(u[1] < Power(2, p) - 1)
    <3> DEFINE e == EndOf(s)
    <3>1. ~(Failed.read > 0)
      BY DEF Failed
    <3>2. EndsOf(s) # {} /\ ~Refused(s, u, e) /\ decoded = [read |-> e, value |-> u[e]]
      BY <1>1, <1>4, <2>2, <3>1, Zenon DEF Outcome
    <3>3. decoded.read = e /\ decoded.value = u[e]
      <4>1. decoded = [read |-> e, value |-> u[e]]
        BY <3>2, Zenon
      <4> HIDE DEF e
      <4> QED BY ONLY <4>1
    <3>4. e \in 1 .. n
      BY <1>3, <3>2, Zenon
    <3> HIDE DEF e
    <3>5. e = Top + 2 => ~(s[e] % Group >= Power(2, WordBits - MaxShift))
      BY <1>4, <3>3, Zenon DEF TopGroupWraps, Top
    <3>6. PICK w \in [1 .. e -> Nat] : SumsUpTo(s, p, e, w) /\ NumberAt(e) = w[e]
      BY <3>4, NumberIs, Zenon
    <3>7. ~Refused(s, u, e)
      BY <3>2, Zenon DEF e
    <3>8. u[e] = w[e]
      BY <1>1, <3>4, <3>5, <3>6, <3>7, ValueExact, Zenon
    <3> QED BY <3>3, <3>6, <3>8, Zenon
  <2> QED BY <2>1, <2>2, Zenon
<1>5. ASSUME decoded = Failed, bytes[1] = Power(2, prefix) - 1, Len(bytes) >= 2,
             ~(\A i \in 2 .. n : s[i] >= Group), ~(n > Top + 2)
      PROVE  NumberAt(n) >= Word
  <2>1. ~(u[1] < Power(2, p) - 1)
    <3> DEFINE P == Power(2, p)
    <3>1. P \in Nat \ {0}
      BY PrefixIs, Zenon
    <3>2. u[1] = (P - 1) % P
      BY <1>1, <1>5, Zenon DEF ValuesUpTo
    <3> HIDE DEF P
    <3>3. P - 1 \in 0 .. P - 1
      BY <3>1
    <3>4. (P - 1) % P = P - 1
      BY <3>1, <3>3, SmallQuotient, Zenon
    <3>5. ~(P - 1 < P - 1)
      BY <3>1
    <3> QED BY <3>2, <3>4, <3>5, Zenon DEF P
  <2>2. EndsOf(s) # {}
    <3>1. PICK i \in 2 .. n : ~(s[i] >= Group)
      BY <1>5, Zenon
    <3>2. s[i] \in Int
      <4>1. s[i] \in Byte
        BY <3>1
      <4> QED BY <4>1, Widths DEF Byte
    <3>3. s[i] < Group
      BY <3>1, <3>2, Widths
    <3> QED BY <3>1, <3>3, Zenon DEF EndsOf
  <2> DEFINE e == EndOf(s)
  <2>3. e \in 2 .. n
    BY <1>3, <2>2, Zenon
  <2>4. Refused(s, u, e)
    <3> SUFFICES ASSUME ~Refused(s, u, e) PROVE FALSE
      BY Zenon
    <3>1. Failed = [read |-> e, value |-> u[e]]
      BY <1>1, <1>5, <2>1, <2>2, Zenon DEF Outcome
    <3>2. Failed.read = -1
      BY DEF Failed
    <3>3. [read |-> e, value |-> u[e]].read = e
      BY Zenon
    <3>4. e # -1
      BY <2>3
    <3> QED BY <3>1, <3>2, <3>3, <3>4, Zenon
  <2>5. PICK i \in 2 .. e : ShiftAt(i) > MaxShift \/ WouldOverflow(u[i - 1], AddAt(s, i))
    BY <2>4, Zenon DEF Refused
  <2> HIDE DEF e
  <2>6. i \in 2 .. n /\ i \in 1 .. n /\ i - 1 \in 1 .. n
    BY <1>2, <2>3, <2>5
  <2>7. ~(ShiftAt(i) > MaxShift)
    <3>1. i - 2 \in 0 .. Top
      BY <1>2, <1>5, <2>6
    <3> DEFINE k == i - 2
    <3>2. ShiftAt(i) = GroupBits * k /\ k \in 0 .. Top
      BY <3>1, Zenon DEF ShiftAt
    <3> HIDE DEF k
    <3>3. GroupBits * k <= GroupBits * Top /\ GroupBits * k \in Nat /\ GroupBits * Top \in Nat
      BY <3>2, Widths
    <3> QED BY <3>2, <3>3, Widths
  <2>8. u[i - 1] > Word - 1 - AddAt(s, i)
    BY <2>5, <2>7, Zenon DEF WouldOverflow
  <2>9. PICK w \in [1 .. n -> Nat] : SumsUpTo(s, p, n, w) /\ NumberAt(n) = w[n]
    BY <1>2, NumberIs, Zenon
  <2>10. u[i - 1] <= w[i - 1] /\ w[i] <= w[n]
    BY <1>1, <2>6, <2>9, ValueBelow, Zenon
  <2> DEFINE a == Summand(s, i)
             b == AddAt(s, i)
             x == u[i - 1]
             y == w[i - 1]
             z == w[n]
  <2>11. x \in Nat /\ y \in Nat /\ z \in Nat /\ a \in Nat /\ b = a % Word /\ w[i] = y + a
    BY <1>1, <1>2, <2>6, <2>9, SummandIs, Zenon DEF SumsUpTo
  <2>12. x > Word - 1 - b /\ x <= y /\ y + a <= z
    BY <2>8, <2>10, <2>11, Zenon
  <2> HIDE DEF a, b, x, y, z
  <2>13. b \in Nat /\ b <= a
    <3>1. a \in Int
      BY ONLY <2>11
    <3>2. a % Word \in 0 .. Word - 1
      BY <1>2, <3>1, Remainder, Zenon
    <3>3. a < Word => a % Word = a
      <4>1. a < Word => a \in 0 .. Word - 1
        BY ONLY <1>2, <2>11
      <4> QED BY <1>2, <4>1, SmallQuotient, Zenon
    <3> QED BY <1>2, <2>11, <3>2, <3>3
  <2>14. z >= Word
    BY ONLY <1>2, <2>11, <2>12, <2>13
  <2> QED BY <2>9, <2>14, Zenon DEF z
<1> QED BY <1>4, <1>5, Zenon

\* hpack_encode_integer and hpack_decode_integer are inverse for integers of
\* any width, and the decoder is exact on any bytes but where the group at the
\* top of the word wraps.
THEOREM IntegersCorrect == IntegerSpec => []IntegersExact
<1>1. IntegerInv => IntegersExact
  <2> SUFFICES ASSUME IntegerInv PROVE IntegersExact
    BY Zenon
  <2>0. /\ ~(NotCalled.read > 0) /\ NotCalled # Failed /\ ~(Failed.read > 0)
    BY DEF NotCalled, Failed
  <2>1. ASSUME number >= 0, decoded # NotCalled, encoded.read > 0
        PROVE  decoded = [read |-> encoded.read, value |-> number]
    <3>1. /\ prefix <= GroupBits /\ bytes = Code(number, prefix) /\ encoded.read = Len(bytes)
          /\ decoded = DecodeInteger(bytes, prefix) /\ prefix \in Nat /\ number \in -1 .. Word - 1
          /\ bytes \in Seq(Byte)
      BY <2>1, Zenon DEF IntegerInv
    <3>2. prefix \in 0 .. GroupBits /\ number \in 0 .. Word - 1
      BY <2>1, <3>1, Widths
    <3>3. Begins(bytes, Code(number, prefix))
      <4>1. Len(bytes) <= Len(bytes)
        BY <3>1
      <4> QED BY <3>1, <4>1, Zenon DEF Begins
    <3>4. DecodeInteger(bytes, prefix) = [read |-> Len(Code(number, prefix)), value |-> number]
      BY <3>1, <3>2, <3>3, DecodeCode, Zenon
    <3> QED BY <3>1, <3>4, Zenon
  <2>2. ASSUME decoded # NotCalled, decoded.read > 0 PROVE prefix \in 0 .. GroupBits /\ bytes # <<>>
    <3>1. decoded = DecodeInteger(bytes, prefix) /\ prefix \in Nat
      BY <2>2, Zenon DEF IntegerInv
    <3>2. ~(prefix > GroupBits) /\ bytes # <<>>
      BY <2>0, <2>2, <3>1, Zenon DEF DecodeInteger
    <3> QED BY <3>1, <3>2, Widths
  <2>3. decoded.read > 0 /\ ~TopGroupWraps => decoded.value = NumberAt(decoded.read)
    BY <2>0, <2>2, DecodedNumber, Zenon DEF IntegerInv
  <2>4. ASSUME number < 0, decoded = Failed
        PROVE  \/ \A i \in 2 .. Len(bytes) : bytes[i] >= Group
               \/ Len(bytes) > Top + 2
               \/ NumberAt(Len(bytes)) >= Word
    <3>1. /\ prefix = GroupBits /\ Len(bytes) >= 2 /\ bytes[1] = Power(2, prefix) - 1
          /\ decoded = DecodeInteger(bytes, prefix) /\ bytes \in Seq(Byte)
      BY <2>0, <2>4, Zenon DEF IntegerInv
    <3>2. prefix \in 0 .. GroupBits /\ bytes # <<>>
      BY <3>1, Widths
    <3> QED BY <2>4, <3>1, <3>2, DecodedNumber, Zenon
  <2> QED BY <2>1, <2>3, <2>4, Zenon DEF IntegersExact, Top
<1> QED BY <1>1, IntegerStart, IntegerStep, PTL DEF IntegerSpec
=============================================================================
