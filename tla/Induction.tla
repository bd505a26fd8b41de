----------------------------- MODULE Induction -----------------------------
(***************************************************************************)
(* Induction over the natural numbers for sets instead of formulas, the    *)
(* existence of functions defined by recursion on a natural number, and    *)
(* what the operators of Lists compute for every list; remainders, powers  *)
(* and quotients.                                                          *)
(***************************************************************************)
EXTENDS Lists, Numbers, FiniteSetTheorems, TLAPS

\* A non-empty set of natural numbers has a least element: the intervals
\* 0 .. x are finite sets, and strict inclusion of finite sets is well-founded.
LEMMA LeastNumber ==
    ASSUME NEW T \in SUBSET Nat, T # {}
    PROVE  \E x \in T : \A y \in T : x <= y
<1> DEFINE R == StrictSubsetOrdering(Nat)
           I == {0 .. x : x \in T}
<1>1. IsWellFoundedOn(R, FiniteSubsetsOf(Nat))
  BY FS_StrictSubsetOrderingWellFounded, Zenon
<1>2. I \subseteq FiniteSubsetsOf(Nat)
  <2>1. \A x \in T : IsFiniteSet(0 .. x) /\ 0 .. x \subseteq Nat
    BY FS_Interval
  <2> QED BY <2>1, Zenon DEF FiniteSubsetsOf
<1>3. I # {}
  BY Zenon
<1>4. \E x \in I : \A y \in I : ~(<<y, x>> \in R)
  <2> HIDE DEF R, I
  <2> QED BY <1>1, <1>2, <1>3, WFMin, Zenon
<1>5. PICK x \in T : \A y \in T : ~(<<0 .. y, 0 .. x>> \in R)
  BY <1>4, Zenon
<1>6. ASSUME NEW y \in T, y < x PROVE FALSE
  <2>1. /\ 0 .. y \subseteq 0 .. x /\ 0 .. y # 0 .. x
        /\ 0 .. y \in SUBSET Nat /\ 0 .. x \in SUBSET Nat
    <3>1. x \in 0 .. x /\ x \notin 0 .. y
      BY <1>6
    <3> QED BY <3>1, <1>6
  <2>2. <<0 .. y, 0 .. x>> \in R
    BY <2>1, Zenon DEF StrictSubsetOrdering
  <2> QED BY <2>2, <1>5, Zenon
<1> QED BY <1>6

\* A set that has 0, and the successor of each of its numbers below n, has
\* every number up to n.
LEMMA InductionUpTo ==
    ASSUME NEW n \in Nat, NEW S, 0 \in S, \A k \in 0 .. n - 1 : k \in S => k + 1 \in S
    PROVE  \A k \in 0 .. n : k \in S
<1> SUFFICES ASSUME {k \in 0 .. n : k \notin S} # {} PROVE FALSE
  BY Zenon
<1> DEFINE T == {k \in 0 .. n : k \notin S}
<1>1. PICK x \in T : \A y \in T : x <= y
  <2>1. T \in SUBSET Nat
    OBVIOUS
  <2> HIDE DEF T
  <2> QED BY <2>1, LeastNumber, Zenon DEF T
<1>2. x \in 0 .. n /\ x \notin S /\ x # 0
  BY Zenon
<1>3. x - 1 \in 0 .. n - 1 /\ x - 1 \notin T
  BY <1>1, <1>2
<1>4. x - 1 \in S
  BY <1>3
<1>5. (x - 1) + 1 \in S
  BY <1>3, <1>4, Zenon
<1> QED BY <1>2, <1>5

\* g is computed up to n by recursion, from c and with the function step.
Computes(g, n, c, step) ==
    g[0] = c /\ \A i \in 1 .. n : g[i] = step[<<g[i - 1], i>>]

\* A recursion whose step is a function has a solution.
LEMMA RecursionExists ==
    ASSUME NEW n \in Nat, NEW D, NEW c \in D, NEW step \in [D \X (1 .. n) -> D]
    PROVE  \E g \in [0 .. n -> D] : Computes(g, n, c, step)
<1> DEFINE Solves(g, k) == Computes(g, k, c, step)
           S == {k \in 0 .. n : \E g \in [0 .. k -> D] : Solves(g, k)}
<1> USE DEF Computes
<1>1. 0 \in S
  <2>1. [i \in 0 .. 0 |-> c] \in [0 .. 0 -> D] /\ Solves([i \in 0 .. 0 |-> c], 0)
    OBVIOUS
  <2> HIDE DEF Solves, Computes
  <2> QED BY <2>1
<1>2. ASSUME NEW k \in 0 .. n - 1, k \in S PROVE k + 1 \in S
  <2>1. PICK g \in [0 .. k -> D] : Solves(g, k)
    BY <1>2, Zenon
  <2> DEFINE h == [i \in 0 .. k + 1 |-> IF i = k + 1 THEN step[<<g[k], k + 1>>] ELSE g[i]]
  <2>2. step[<<g[k], k + 1>>] \in D
    OBVIOUS
  <2>3. h \in [0 .. k + 1 -> D]
    BY <2>2
  <2>4. \A i \in 0 .. k : h[i] = g[i]
    OBVIOUS
  <2>5. h[k + 1] = step[<<h[(k + 1) - 1], k + 1>>]
    <3>1. h[k + 1] = step[<<g[k], k + 1>>]
      OBVIOUS
    <3>2. (k + 1) - 1 = k /\ h[k] = g[k]
      BY <2>4
    <3> QED BY <3>1, <3>2, Zenon
  <2>6. ASSUME NEW i \in 1 .. k PROVE h[i] = step[<<h[i - 1], i>>]
    BY <2>1, <2>4
  <2> HIDE DEF h
  <2>7. Solves(h, k + 1)
    <3>1. \A i \in 1 .. k + 1 : i \in 1 .. k \/ i = k + 1
      OBVIOUS
    <3>2. h[0] = c
      BY <2>1, <2>4
    <3> QED BY <2>5, <2>6, <3>1, <3>2, Zenon
  <2> HIDE DEF Solves, Computes
  <2> QED BY <2>3, <2>7
<1> HIDE DEF S, Computes
<1>3. \A k \in 0 .. n : k \in S
  BY <1>1, <1>2, InductionUpTo, Zenon
<1>4. n \in S
  BY <1>3
<1> QED BY <1>4, Zenon DEF S

-----------------------------------------------------------------------------
\* The function by whose recursion Filter is defined.
Filtering(s, S, upTo) ==
    /\ upTo[0] = <<>>
    /\ \A i \in 1 .. Len(s) :
         upTo[i] = IF s[i] \in S THEN Append(upTo[i - 1], s[i]) ELSE upTo[i - 1]
    /\ Filter(s, S) = upTo[Len(s)]

\* The recursion of Filter has a solution, and Filter is its last value.
LEMMA FilterRecursion ==
    ASSUME NEW X, NEW s \in Seq(X), NEW S
    PROVE  \E upTo \in [0 .. Len(s) -> Seq(X)] : Filtering(s, S, upTo)
<1> DEFINE n == Len(s)
           D == Seq(X)
           step == [p \in D \X (1 .. n) |-> IF s[p[2]] \in S THEN Append(p[1], s[p[2]]) ELSE p[1]]
           Body(f) == [i \in 0 .. Len(s) |->
                         IF i = 0 THEN <<>>
                         ELSE IF s[i] \in S THEN Append(f[i - 1], s[i]) ELSE f[i - 1]]
           upTo == CHOOSE f : f = Body(f)
<1>1. n \in Nat /\ <<>> \in D
  OBVIOUS
<1>2. step \in [D \X (1 .. n) -> D]
  OBVIOUS
<1>3. PICK g \in [0 .. n -> D] : Computes(g, n, <<>>, step)
  <2> HIDE DEF D, step, n
  <2> QED BY <1>1, <1>2, RecursionExists, Zenon
<1>4. ASSUME NEW i \in 1 .. n
      PROVE  g[i] = IF s[i] \in S THEN Append(g[i - 1], s[i]) ELSE g[i - 1]
  <2>1. i - 1 \in 0 .. n
    OBVIOUS
  <2>2. g[i - 1] \in D
    BY <2>1, Zenon
  <2>3. <<g[i - 1], i>> \in D \X (1 .. n)
    BY <2>2, Zenon
  <2>4. step[<<g[i - 1], i>>] = IF s[i] \in S THEN Append(g[i - 1], s[i]) ELSE g[i - 1]
    <3> HIDE DEF D, n
    <3> QED BY <2>3, Zenon
  <2> QED BY <1>3, <2>4, Zenon DEF Computes
<1> HIDE DEF step
<1>5. g = Body(g)
  <2>1. \A i \in 0 .. n : i = 0 \/ i \in 1 .. n
    OBVIOUS
  <2>2. \A i \in 0 .. n : g[i] = Body(g)[i]
    BY <1>3, <1>4, <2>1, Zenon DEF Computes
  <2> QED BY <2>2, Zenon
<1>6. upTo = Body(upTo)
  <2> HIDE DEF Body
  <2> QED BY <1>5, Zenon
<1>7. Filter(s, S) = upTo[n]
  BY Zenon DEF Filter
<1> HIDE DEF upTo
<1>8. /\ upTo[0] = <<>>
      /\ \A i \in 1 .. n : upTo[i] = IF s[i] \in S THEN Append(upTo[i - 1], s[i]) ELSE upTo[i - 1]
  <2>1. \A i \in 0 .. n : upTo[i] = Body(upTo)[i]
    BY <1>6, Zenon
  <2>2. \A i \in 1 .. n : i \in 0 .. n /\ i # 0
    OBVIOUS
  <2>3. 0 \in 0 .. n
    OBVIOUS
  <2> QED BY <2>1, <2>2, <2>3, Zenon
<1>9. \A i \in 0 .. n : i \in {k \in 0 .. n : upTo[k] = g[k]}
  <2> DEFINE E == {k \in 0 .. n : upTo[k] = g[k]}
  <2>1. 0 \in E
    BY <1>3, <1>8 DEF Computes
  <2>2. ASSUME NEW k \in 0 .. n - 1, k \in E PROVE k + 1 \in E
    <3>1. k + 1 \in 1 .. n /\ (k + 1) - 1 = k
      OBVIOUS
    <3> QED BY <1>4, <1>8, <2>2, <3>1
  <2>3. \A k \in 0 .. n - 1 : k \in E => k + 1 \in E
    BY <2>2, Zenon
  <2>4. \A k \in 0 .. n : k \in E
    <3> HIDE DEF E, n
    <3> QED BY <1>1, <2>1, <2>3, InductionUpTo, Zenon
  <2> QED BY <2>4, Zenon
<1>10. upTo = g
  BY <1>6, <1>9, Zenon
<1> QED BY <1>7, <1>8, <1>10, Zenon DEF Filtering

\* Appending adds one element.
LEMMA ElementsAppend ==
    ASSUME NEW X, NEW s \in Seq(X), NEW e \in X
    PROVE  Elements(Append(s, e)) = Elements(s) \cup {e}
<1>1. Len(Append(s, e)) = Len(s) + 1 /\ Len(s) \in Nat
  OBVIOUS
<1>2. \A i \in 1 .. Len(s) : Append(s, e)[i] = s[i]
  OBVIOUS
<1>3. Append(s, e)[Len(s) + 1] = e
  OBVIOUS
<1>4. ASSUME NEW x \in Elements(Append(s, e)) PROVE x \in Elements(s) \cup {e}
  <2>1. PICK i \in 1 .. Len(s) + 1 : x = Append(s, e)[i]
    BY <1>1, Zenon DEF Elements
  <2>2. CASE i = Len(s) + 1
    BY <1>3, <2>1, <2>2, Zenon
  <2>3. CASE i \in 1 .. Len(s)
    BY <1>2, <2>1, <2>3, Zenon DEF Elements
  <2> QED BY <1>1, <2>2, <2>3
<1>5. ASSUME NEW x \in Elements(s) PROVE x \in Elements(Append(s, e))
  <2>1. PICK i \in 1 .. Len(s) : x = s[i]
    BY Zenon DEF Elements
  <2>2. i \in 1 .. Len(Append(s, e)) /\ x = Append(s, e)[i]
    BY <1>1, <1>2, <2>1
  <2> QED BY <2>2, Zenon DEF Elements
<1>6. e \in Elements(Append(s, e))
  <2>1. Len(s) + 1 \in 1 .. Len(Append(s, e))
    BY <1>1
  <2> QED BY <1>3, <2>1, Zenon DEF Elements
<1> QED BY <1>4, <1>5, <1>6, Zenon

\* So does putting an element in front.
LEMMA ElementsCons ==
    ASSUME NEW X, NEW s \in Seq(X), NEW e \in X
    PROVE  <<e>> \o s \in Seq(X) /\ Elements(<<e>> \o s) = Elements(s) \cup {e}
<1> DEFINE t == <<e>> \o s
<1>1. t \in Seq(X) /\ Len(t) = Len(s) + 1 /\ Len(s) \in Nat
  OBVIOUS
<1>2. t[1] = e /\ \A i \in 1 .. Len(s) : t[i + 1] = s[i]
  OBVIOUS
<1> HIDE DEF t
<1>3. ASSUME NEW x \in Elements(t) PROVE x \in Elements(s) \cup {e}
  <2>1. PICK i \in 1 .. Len(s) + 1 : x = t[i]
    BY <1>1, Zenon DEF Elements
  <2>2. CASE i = 1
    BY <1>2, <2>1, <2>2, Zenon
  <2>3. CASE i # 1
    <3>1. i - 1 \in 1 .. Len(s) /\ (i - 1) + 1 = i
      BY <1>1, <2>3
    <3>2. x = s[i - 1]
      BY <1>2, <2>1, <3>1, Zenon
    <3> QED BY <3>1, <3>2, Zenon DEF Elements
  <2> QED BY <2>2, <2>3, Zenon
<1>4. ASSUME NEW x \in Elements(s) PROVE x \in Elements(t)
  <2>1. PICK i \in 1 .. Len(s) : x = s[i]
    BY DEF Elements
  <2>2. i + 1 \in 1 .. Len(t) /\ x = t[i + 1]
    BY <1>1, <1>2, <2>1
  <2> QED BY <2>2, Zenon DEF Elements
<1>5. e \in Elements(t)
  <2>1. 1 \in 1 .. Len(t)
    BY <1>1
  <2> QED BY <1>2, <2>1, Zenon DEF Elements
<1> QED BY <1>1, <1>3, <1>4, <1>5, Zenon DEF t

\* A sequence without repetition has as many elements as its length says.
LEMMA DistinctElements ==
    ASSUME NEW X, NEW s \in Seq(X), \A i, j \in 1 .. Len(s) : s[i] = s[j] => i = j
    PROVE  IsFiniteSet(Elements(s)) /\ Cardinality(Elements(s)) = Len(s)
<1>1. Len(s) \in Nat /\ s \in [1 .. Len(s) -> Elements(s)]
  BY DEF Elements
<1>2. s \in Bijection(1 .. Len(s), Elements(s))
  BY <1>1, Zenon DEF Bijection, Injection, Surjection, IsInjective, Elements
<1>3. ExistsBijection(1 .. Len(s), Elements(s))
  BY <1>2, Zenon DEF ExistsBijection
<1> QED BY <1>1, <1>3, FS_CountingElements, FS_NatBijection, Zenon

\* Filter keeps exactly the elements of s that belong to S.
LEMMA FilterElements ==
    ASSUME NEW X, NEW s \in Seq(X), NEW S
    PROVE  /\ Filter(s, S) \in Seq(X)
           /\ Elements(Filter(s, S)) = Elements(s) \cap S
<1> DEFINE n == Len(s)
<1>1. PICK upTo \in [0 .. n -> Seq(X)] : Filtering(s, S, upTo)
  BY FilterRecursion, Zenon
<1>2. n \in Nat
  OBVIOUS
<1> DEFINE First(k) == {s[i] : i \in 1 .. k} \cap S
           T == {k \in 0 .. n : Elements(upTo[k]) = First(k)}
<1>3. 0 \in T
  <2>1. Elements(<<>>) = {}
    BY DEF Elements
  <2>2. First(0) = {}
    OBVIOUS
  <2> QED BY <1>1, <2>1, <2>2 DEF Filtering
<1>4. ASSUME NEW k \in 0 .. n - 1, k \in T PROVE k + 1 \in T
  <2>0. k + 1 \in 1 .. n /\ k \in 0 .. n /\ (k + 1) - 1 = k
    BY <1>2
  <2>1. k + 1 \in 1 .. n /\ (k + 1) - 1 = k /\ s[k + 1] \in X /\ upTo[k] \in Seq(X)
    BY <2>0
  <2>2. First(k + 1) = IF s[k + 1] \in S THEN First(k) \cup {s[k + 1]} ELSE First(k)
    <3>1. 1 .. k + 1 = (1 .. k) \cup {k + 1}
      OBVIOUS
    <3> QED BY <3>1, Zenon
  <2>3. upTo[k + 1] = IF s[k + 1] \in S THEN Append(upTo[k], s[k + 1]) ELSE upTo[k]
    BY <1>1, <2>1, Zenon DEF Filtering
  <2>4. Elements(Append(upTo[k], s[k + 1])) = Elements(upTo[k]) \cup {s[k + 1]}
    BY <2>1, ElementsAppend
  <2> HIDE DEF First
  <2>5. Elements(upTo[k]) = First(k)
    BY <1>4, Zenon
  <2>6. Elements(upTo[k + 1]) = First(k + 1)
    BY <2>2, <2>3, <2>4, <2>5, Zenon
  <2> QED BY <2>0, <2>6
<1>5. \A k \in 0 .. n - 1 : k \in T => k + 1 \in T
  BY <1>4, Zenon
<1>6. \A k \in 0 .. n : k \in T
  <2> HIDE DEF T, n
  <2> QED BY <1>2, <1>3, <1>5, InductionUpTo, Zenon
<1>7. n \in T
  <2>1. n \in 0 .. n
    BY <1>2
  <2> HIDE DEF T, n
  <2> QED BY <1>6, <2>1, Zenon
<1>8. Elements(upTo[n]) = First(n) /\ upTo[n] \in Seq(X)
  BY <1>2, <1>7, Zenon
<1> QED BY <1>1, <1>8 DEF Filtering, Elements

-----------------------------------------------------------------------------
\* Sequences are equal, and are joined, element by element.
LEMMA SameSeq ==
    ASSUME NEW X, NEW a \in Seq(X), NEW b \in Seq(X), Len(a) = Len(b),
           \A k \in 1 .. Len(a) : a[k] = b[k]
    PROVE  a = b
OBVIOUS

\* What is where in two joined sequences.
LEMMA JoinFacts ==
    ASSUME NEW X, NEW s \in Seq(X), NEW t \in Seq(X)
    PROVE  /\ s \o t \in Seq(X)
           /\ Len(s \o t) = Len(s) + Len(t)
           /\ \A k \in 1 .. Len(s) : (s \o t)[k] = s[k]
           /\ \A k \in 1 .. Len(t) : (s \o t)[Len(s) + k] = t[k]
<1>1. Len(s) \in Nat /\ Len(t) \in Nat
  OBVIOUS
<1>2. s \o t \in Seq(X) /\ Len(s \o t) = Len(s) + Len(t)
  OBVIOUS
<1>3. \A k \in 1 .. Len(s) : (s \o t)[k] = s[k]
  OBVIOUS
<1>4. ASSUME NEW k \in 1 .. Len(t) PROVE (s \o t)[Len(s) + k] = t[k]
  <2>1. Len(s) + k \in 1 .. Len(s) + Len(t) /\ Len(s) + k > Len(s) /\ (Len(s) + k) - Len(s) = k
    BY <1>1
  <2> QED BY <2>1
<1> QED BY <1>2, <1>3, <1>4, Zenon

\* Parts of a sequence, element by element.
LEMMA SubSeqFacts ==
    ASSUME NEW X, NEW s \in Seq(X), NEW i \in 1 .. Len(s), NEW j \in i .. Len(s)
    PROVE  /\ SubSeq(s, i, j) \in Seq(X)
           /\ Len(SubSeq(s, i, j)) = j - i + 1
           /\ \A k \in 1 .. j - i + 1 : SubSeq(s, i, j)[k] = s[i + k - 1]
OBVIOUS

\* A part of one element.
LEMMA SubSeqOne ==
    ASSUME NEW X, NEW s \in Seq(X), NEW i \in 1 .. Len(s)
    PROVE  SubSeq(s, i, i) = <<s[i]>>
<1> DEFINE a == SubSeq(s, i, i)
           b == <<s[i]>>
<1>1. a \in Seq(X) /\ Len(a) = 1 /\ a[1] = s[i]
  <2>1. i \in i .. Len(s) /\ i - i + 1 = 1 /\ i + 1 - 1 = i /\ 1 \in 1 .. 1
    OBVIOUS
  <2> QED BY <2>1, SubSeqFacts
<1>2. b \in Seq(X) /\ Len(b) = 1 /\ b[1] = s[i]
  OBVIOUS
<1> HIDE DEF a, b
<1>3. a = b
  BY <1>1, <1>2
<1> QED BY <1>3, Zenon DEF a, b

\* A part that is longer by one.
LEMMA SubSeqAppend ==
    ASSUME NEW X, NEW s \in Seq(X), NEW i \in 1 .. Len(s), NEW j \in i .. Len(s) - 1
    PROVE  SubSeq(s, i, j + 1) = Append(SubSeq(s, i, j), s[j + 1])
<1> DEFINE a == SubSeq(s, i, j + 1)
           c == SubSeq(s, i, j)
           b == Append(c, s[j + 1])
           m == j - i + 1
<1>1. /\ i \in Int /\ j \in Int /\ m \in Nat /\ m + 1 = (j + 1) - i + 1
      /\ j + 1 \in 1 .. Len(s) /\ j + 1 \in i .. Len(s) /\ j \in i .. Len(s)
  OBVIOUS
<1>2. a \in Seq(X) /\ Len(a) = m + 1 /\ \A k \in 1 .. m + 1 : a[k] = s[i + k - 1]
  BY <1>1, SubSeqFacts
<1>3. c \in Seq(X) /\ Len(c) = m /\ \A k \in 1 .. m : c[k] = s[i + k - 1]
  BY <1>1, SubSeqFacts, Zenon
<1>4. s[j + 1] \in X /\ i + (m + 1) - 1 = j + 1
  BY <1>1
<1> HIDE DEF a, c, m
<1>5. b \in Seq(X) /\ Len(b) = m + 1 /\ (\A k \in 1 .. m : b[k] = c[k]) /\ b[m + 1] = s[j + 1]
  BY <1>1, <1>3, <1>4
<1> HIDE DEF b
<1>6. \A k \in 1 .. m + 1 : b[k] = s[i + k - 1]
  BY <1>1, <1>3, <1>4, <1>5
<1>7. a = b
  <2>1. Len(a) = Len(b) /\ \A k \in 1 .. Len(a) : a[k] = b[k]
    BY <1>2, <1>5, <1>6, Zenon
  <2> QED BY <1>2, <1>5, <2>1, SameSeq, Zenon
<1> QED BY <1>7, Zenon DEF a, b, c

\* What follows a position is not changed by an element in front.
LEMMA SubSeqShift ==
    ASSUME NEW X, NEW s \in Seq(X), NEW e \in X, NEW i \in 1 .. Len(s)
    PROVE  SubSeq(<<e>> \o s, i + 1, Len(<<e>> \o s)) = SubSeq(s, i, Len(s))
<1> DEFINE t == <<e>> \o s
           n == Len(s)
           m == n - i + 1
<1>1. t \in Seq(X) /\ Len(t) = n + 1 /\ n \in Nat /\ \A k \in 1 .. n : t[k + 1] = s[k]
  OBVIOUS
<1> HIDE DEF t
<1>2. /\ i + 1 \in 1 .. Len(t) /\ n + 1 \in i + 1 .. Len(t) /\ n \in i .. Len(s)
      /\ m \in Nat /\ (n + 1) - (i + 1) + 1 = m
  BY <1>1
<1> DEFINE a == SubSeq(t, i + 1, n + 1)
           b == SubSeq(s, i, n)
<1>3. a \in Seq(X) /\ Len(a) = m /\ \A k \in 1 .. m : a[k] = t[(i + 1) + k - 1]
  BY <1>1, <1>2, SubSeqFacts
<1>4. b \in Seq(X) /\ Len(b) = m /\ \A k \in 1 .. m : b[k] = s[i + k - 1]
  BY <1>1, <1>2, SubSeqFacts
<1>5. ASSUME NEW k \in 1 .. m PROVE t[(i + 1) + k - 1] = s[i + k - 1]
  <2>1. i + k - 1 \in 1 .. n /\ (i + 1) + k - 1 = (i + k - 1) + 1
    BY <1>1
  <2> QED BY <1>1, <2>1, Zenon
<1> HIDE DEF a, b, m
<1>6. a = b
  BY <1>2, <1>3, <1>4, <1>5, SameSeq, Zenon
<1> QED BY <1>1, <1>6, Zenon DEF a, b, t

\* The rest of a sequence begins with its first element.
LEMMA SubSeqFront ==
    ASSUME NEW X, NEW s \in Seq(X), NEW u \in Seq(X), NEW i \in 1 .. Len(s) - 1
    PROVE  u \o SubSeq(s, i, Len(s)) = Append(u, s[i]) \o SubSeq(s, i + 1, Len(s))
<1> DEFINE n == Len(s)
           m == n - i
           c == SubSeq(s, i, n)
           d == SubSeq(s, i + 1, n)
           v == Append(u, s[i])
           a == u \o c
           b == v \o d
<1>1. /\ i + 1 \in 1 .. n /\ i \in 1 .. n /\ n \in i .. n /\ n \in i + 1 .. n /\ n \in Nat
      /\ m \in Nat /\ n - i + 1 = m + 1 /\ n - (i + 1) + 1 = m /\ Len(u) \in Nat /\ s[i] \in X
  OBVIOUS
<1>2. c \in Seq(X) /\ Len(c) = m + 1 /\ \A k \in 1 .. m + 1 : c[k] = s[i + k - 1]
  BY <1>1, SubSeqFacts
<1>3. d \in Seq(X) /\ Len(d) = m /\ \A k \in 1 .. m : d[k] = s[(i + 1) + k - 1]
  BY <1>1, SubSeqFacts
<1>4. v \in Seq(X) /\ Len(v) = Len(u) + 1 /\ (\A k \in 1 .. Len(u) : v[k] = u[k]) /\ v[Len(u) + 1] = s[i]
  BY <1>1
<1> HIDE DEF c, d, v, m
<1>5. /\ a \in Seq(X) /\ Len(a) = Len(u) + m + 1
      /\ \A k \in 1 .. Len(u) : a[k] = u[k]
      /\ \A k \in 1 .. m + 1 : a[Len(u) + k] = c[k]
  <2>1. /\ a \in Seq(X) /\ Len(a) = Len(u) + Len(c)
        /\ \A k \in 1 .. Len(u) : a[k] = u[k]
        /\ \A k \in 1 .. Len(c) : a[Len(u) + k] = c[k]
    <3>1. u \in Seq(X) /\ c \in Seq(X)
      BY <1>2, Zenon
    <3> QED BY ONLY <3>1, JoinFacts
  <2> HIDE DEF a
  <2>2. Len(u) + (m + 1) = Len(u) + m + 1
    BY <1>1
  <2> QED BY <1>2, <2>1, <2>2, Zenon
<1>6. /\ b \in Seq(X) /\ Len(b) = Len(u) + m + 1
      /\ \A k \in 1 .. Len(u) + 1 : b[k] = v[k]
      /\ \A k \in 1 .. m : b[Len(u) + 1 + k] = d[k]
  <2>1. /\ b \in Seq(X) /\ Len(b) = Len(v) + Len(d)
        /\ \A k \in 1 .. Len(v) : b[k] = v[k]
        /\ \A k \in 1 .. Len(d) : b[Len(v) + k] = d[k]
    <3>1. v \in Seq(X) /\ d \in Seq(X)
      BY <1>3, <1>4, Zenon
    <3> QED BY ONLY <3>1, JoinFacts
  <2> HIDE DEF b
  <2>2. Len(u) + 1 + m = Len(u) + m + 1
    BY <1>1
  <2> QED BY <1>3, <1>4, <2>1, <2>2, Zenon
<1> HIDE DEF a, b
<1>7. ASSUME NEW k \in 1 .. Len(u) + m + 1 PROVE a[k] = b[k]
  <2>1. CASE k <= Len(u)
    <3>1. k \in 1 .. Len(u) /\ k \in 1 .. Len(u) + 1
      BY <1>1, <2>1
    <3> QED BY <1>4, <1>5, <1>6, <3>1, Zenon
  <2>2. CASE k = Len(u) + 1
    <3>1. 1 \in 1 .. m + 1 /\ k \in 1 .. Len(u) + 1 /\ k = Len(u) + 1 /\ i + 1 - 1 = i
      BY <1>1, <2>2
    <3>2. a[k] = s[i]
      BY <1>2, <1>5, <3>1, Zenon
    <3>3. b[k] = s[i]
      BY <1>4, <1>6, <3>1, Zenon
    <3> QED BY <3>2, <3>3, Zenon
  <2>3. CASE k > Len(u) + 1
    <3> DEFINE h == k - (Len(u) + 1)
    <3>1. h \in 1 .. m /\ h + 1 \in 1 .. m + 1 /\ k = Len(u) + (h + 1) /\ k = Len(u) + 1 + h
          /\ i + (h + 1) - 1 = (i + 1) + h - 1
      BY <1>1, <2>3
    <3> HIDE DEF h
    <3>2. a[k] = s[i + (h + 1) - 1]
      BY <1>2, <1>5, <3>1, Zenon
    <3>3. b[k] = s[(i + 1) + h - 1]
      BY <1>3, <1>6, <3>1, Zenon
    <3> QED BY <3>1, <3>2, <3>3, Zenon
  <2> QED BY <1>1, <2>1, <2>2, <2>3
<1>8. a = b
  BY <1>5, <1>6, <1>7
<1> QED BY <1>8, Zenon DEF a, b, c, d, v

\* Appending is joining with one element.
LEMMA AppendJoin ==
    ASSUME NEW X, NEW s \in Seq(X), NEW e \in X
    PROVE  Append(s, e) = s \o <<e>>
OBVIOUS

\* The part that is everything.
LEMMA SubSeqWhole ==
    ASSUME NEW X, NEW s \in Seq(X), Len(s) \in 1 .. Len(s)
    PROVE  SubSeq(s, 1, Len(s)) = s
OBVIOUS

\* What is at which place of a list with a new head.
LEMMA NewHead ==
    ASSUME NEW X, NEW s \in Seq(X), NEW e \in X
    PROVE  /\ <<e>> \o s \in Seq(X) /\ Len(<<e>> \o s) = Len(s) + 1
           /\ (<<e>> \o s)[1] = e
           /\ \A k \in 1 .. Len(s) : (<<e>> \o s)[k + 1] = s[k]
           /\ \A i \in 1 .. Len(s) + 1 : i = 1 \/ (i - 1 \in 1 .. Len(s) /\ (<<e>> \o s)[i] = s[i - 1])
<1>1. <<e>> \in Seq(X) /\ Len(<<e>>) = 1 /\ <<e>>[1] = e /\ Len(s) \in Nat
  OBVIOUS
<1>2. /\ <<e>> \o s \in Seq(X) /\ Len(<<e>> \o s) = 1 + Len(s)
      /\ \A k \in 1 .. 1 : (<<e>> \o s)[k] = <<e>>[k]
      /\ \A k \in 1 .. Len(s) : (<<e>> \o s)[1 + k] = s[k]
  BY <1>1, JoinFacts
<1>3. \A k \in 1 .. Len(s) : 1 + k = k + 1
  BY <1>1
<1>4. \A i \in 1 .. Len(s) + 1 : i = 1 \/ (i - 1 \in 1 .. Len(s) /\ 1 + (i - 1) = i)
  BY <1>1
<1> DEFINE t == <<e>> \o s
<1> HIDE DEF t
<1>5. /\ t \in Seq(X) /\ Len(t) = Len(s) + 1 /\ t[1] = e
      /\ \A k \in 1 .. Len(s) : t[k + 1] = s[k]
      /\ \A i \in 1 .. Len(s) + 1 : i = 1 \/ (i - 1 \in 1 .. Len(s) /\ t[i] = s[i - 1])
  <2>1. /\ t \in Seq(X) /\ Len(t) = 1 + Len(s)
        /\ \A k \in 1 .. 1 : t[k] = <<e>>[k]
        /\ \A k \in 1 .. Len(s) : t[1 + k] = s[k]
    BY <1>2, Zenon DEF t
  <2>2. t[1] = e /\ Len(t) = Len(s) + 1
    BY <1>1, <2>1
  <2> QED BY <1>3, <1>4, <2>1, <2>2, Zenon
<1> QED BY <1>5, Zenon DEF t

-----------------------------------------------------------------------------
\* What Filter keeps of a sequence that grows at its end: of the old elements
\* the same ones, as long as the two sets agree on them.
LEMMA FilterAppend ==
    ASSUME NEW X, NEW s \in Seq(X), NEW e \in X, NEW S, NEW T,
           \A x \in Elements(s) : x \in S <=> x \in T
    PROVE  Filter(Append(s, e), T) = IF e \in T THEN Append(Filter(s, S), e) ELSE Filter(s, S)
<1> DEFINE n == Len(s)
           t == Append(s, e)
<1>1. n \in Nat /\ t \in Seq(X) /\ Len(t) = n + 1 /\ t[n + 1] = e
      /\ (\A i \in 1 .. n : t[i] = s[i]) /\ n + 1 \in 1 .. n + 1 /\ (n + 1) - 1 = n
  OBVIOUS
<1> HIDE DEF t
<1>2. PICK f \in [0 .. n -> Seq(X)] : Filtering(s, S, f)
  BY FilterRecursion, Zenon
<1>3. PICK g \in [0 .. Len(t) -> Seq(X)] : Filtering(t, T, g)
  BY <1>1, FilterRecursion, Zenon
<1> DEFINE E == {k \in 0 .. n : f[k] = g[k]}
<1>4. 0 \in E
  BY <1>1, <1>2, <1>3 DEF Filtering
<1>5. ASSUME NEW k \in 0 .. n - 1, k \in E PROVE k + 1 \in E
  <2>1. k + 1 \in 1 .. n /\ k + 1 \in 1 .. Len(t) /\ (k + 1) - 1 = k /\ k + 1 \in 0 .. n
    BY <1>1
  <2>2. t[k + 1] = s[k + 1] /\ (s[k + 1] \in S <=> s[k + 1] \in T)
    BY <1>1, <2>1, Zenon DEF Elements
  <2>3. f[k + 1] = IF s[k + 1] \in S THEN Append(f[k], s[k + 1]) ELSE f[k]
    BY <1>2, <2>1, Zenon DEF Filtering
  <2>4. g[k + 1] = IF t[k + 1] \in T THEN Append(g[k], t[k + 1]) ELSE g[k]
    BY <1>3, <2>1, Zenon DEF Filtering
  <2>5. f[k] = g[k]
    BY <1>5, Zenon
  <2> QED BY <2>1, <2>2, <2>3, <2>4, <2>5, Zenon
<1>6. \A k \in 0 .. n - 1 : k \in E => k + 1 \in E
  BY <1>5, Zenon
<1>7. \A k \in 0 .. n : k \in E
  <2> HIDE DEF E, n
  <2> QED BY <1>1, <1>4, <1>6, InductionUpTo, Zenon
<1>8. f[n] = g[n]
  BY <1>1, <1>7
<1>9. Filter(s, S) = f[n]
  BY <1>2, Zenon DEF Filtering
<1>10. Filter(t, T) = g[n + 1]
  BY <1>1, <1>3, Zenon DEF Filtering
<1>11. g[n + 1] = IF e \in T THEN Append(g[n], e) ELSE g[n]
  BY <1>1, <1>3, Zenon DEF Filtering
<1> QED BY <1>8, <1>9, <1>10, <1>11, Zenon DEF t

\* Nothing is kept of nothing.
LEMMA FilterEmpty == \A S : Filter(<<>>, S) = <<>>
<1> TAKE S
<1>1. <<>> \in Seq({}) /\ Len(<<>>) = 0
  OBVIOUS
<1>2. PICK f \in [0 .. 0 -> Seq({})] : Filtering(<<>>, S, f)
  BY <1>1, FilterRecursion, Zenon
<1> QED BY <1>1, <1>2, Zenon DEF Filtering

\* Appending to what is joined, and moving the first element across the joint.
Across(s, t, e) == Append(s \o t, e) = s \o Append(t, e)

\* An element appended to the second of two sequences is appended to both.
LEMMA AppendAcross ==
    ASSUME NEW X, NEW s \in Seq(X), NEW t \in Seq(X), NEW e \in X
    PROVE  Across(s, t, e)
<1> DEFINE a == s \o t
           u == Append(t, e)
           b == s \o u
           c == Append(a, e)
<1>1. Len(s) \in Nat /\ Len(t) \in Nat
  OBVIOUS
<1>2. /\ a \in Seq(X) /\ Len(a) = Len(s) + Len(t)
      /\ \A k \in 1 .. Len(s) : a[k] = s[k]
      /\ \A k \in 1 .. Len(t) : a[Len(s) + k] = t[k]
  BY JoinFacts
<1>3. u \in Seq(X) /\ Len(u) = Len(t) + 1 /\ u[Len(t) + 1] = e
      /\ \A k \in 1 .. Len(t) : u[k] = t[k]
  OBVIOUS
<1> HIDE DEF a, u
<1>4. /\ b \in Seq(X) /\ Len(b) = Len(s) + Len(u)
      /\ \A k \in 1 .. Len(s) : b[k] = s[k]
      /\ \A k \in 1 .. Len(u) : b[Len(s) + k] = u[k]
  <2>1. u \in Seq(X)
    BY <1>3, Zenon
  <2> QED BY ONLY <2>1, s \in Seq(X), JoinFacts
<1>5. c \in Seq(X) /\ Len(c) = Len(a) + 1 /\ c[Len(a) + 1] = e
      /\ \A k \in 1 .. Len(a) : c[k] = a[k]
  BY <1>2
<1> HIDE DEF b, c
<1>6. ASSUME NEW k \in 1 .. Len(c) PROVE c[k] = b[k]
  <2>1. CASE k \in 1 .. Len(s)
    <3>1. k \in 1 .. Len(a)
      BY <1>1, <1>2, <2>1
    <3> QED BY <1>2, <1>4, <1>5, <2>1, <3>1, Zenon
  <2>2. CASE k \notin 1 .. Len(s)
    <3> DEFINE h == k - Len(s)
    <3>1. h \in 1 .. Len(t) + 1 /\ k = Len(s) + h
      BY <1>1, <1>2, <1>5, <2>2
    <3> HIDE DEF h
    <3>2. b[k] = u[h]
      BY <1>3, <1>4, <3>1, Zenon
    <3>3. CASE h = Len(t) + 1
      <4>1. k = Len(a) + 1
        BY <1>1, <1>2, <3>1, <3>3
      <4> QED BY <1>3, <1>5, <3>2, <3>3, <4>1, Zenon
    <3>4. CASE h # Len(t) + 1
      <4>1. h \in 1 .. Len(t) /\ k \in 1 .. Len(a)
        BY <1>1, <1>2, <3>1, <3>4
      <4>2. c[k] = t[h]
        BY <1>2, <1>5, <3>1, <4>1, Zenon
      <4> QED BY <1>3, <3>2, <4>1, <4>2, Zenon
    <3> QED BY <3>3, <3>4, Zenon
  <2> QED BY <2>1, <2>2, Zenon
<1>7. Len(c) = Len(b)
  BY <1>1, <1>2, <1>3, <1>4, <1>5
<1>8. c = b
  BY <1>4, <1>5, <1>6, <1>7, SameSeq, Zenon
<1> QED BY <1>8, Zenon DEF Across, a, b, c, u

\* The head of the second moved to the end of the first leaves them joined as
\* they were.
LEMMA HeadAcross ==
    ASSUME NEW X, NEW s \in Seq(X), NEW t \in Seq(X), t # <<>>
    PROVE  /\ Append(s, Head(t)) \o Tail(t) = s \o t
           /\ Head(t) \in X /\ Tail(t) \in Seq(X) /\ Append(s, Head(t)) \in Seq(X)
<1>1. Len(t) \in Nat /\ Len(t) # 0 /\ 1 \in 1 .. Len(t)
  OBVIOUS
<1>2. Head(t) = t[1] /\ t[1] \in X
  BY <1>1
<1>3. Append(s, Head(t)) \in Seq(X)
  BY <1>2
<1>4. Tail(t) \in Seq(X) /\ Len(Tail(t)) = Len(t) - 1 /\ \A k \in 1 .. Len(t) - 1 : Tail(t)[k] = t[k + 1]
  BY <1>1
<1> DEFINE u == Append(s, Head(t))
           v == Tail(t)
           a == u \o v
           b == s \o t
<1>5. u \in Seq(X) /\ Len(u) = Len(s) + 1 /\ Len(s) \in Nat /\ u[Len(s) + 1] = t[1]
      /\ \A k \in 1 .. Len(s) : u[k] = s[k]
  BY <1>2
<1>6. v \in Seq(X) /\ Len(v) = Len(t) - 1 /\ \A k \in 1 .. Len(t) - 1 : v[k] = t[k + 1]
  BY <1>4, Zenon
<1> HIDE DEF u, v
<1>7. /\ a \in Seq(X) /\ Len(a) = Len(u) + Len(v)
      /\ \A k \in 1 .. Len(u) : a[k] = u[k]
      /\ \A k \in 1 .. Len(v) : a[Len(u) + k] = v[k]
  <2>1. u \in Seq(X) /\ v \in Seq(X)
    BY <1>5, <1>6, Zenon
  <2> QED BY ONLY <2>1, JoinFacts
<1>8. /\ b \in Seq(X) /\ Len(b) = Len(s) + Len(t)
      /\ \A k \in 1 .. Len(s) : b[k] = s[k]
      /\ \A k \in 1 .. Len(t) : b[Len(s) + k] = t[k]
  BY ONLY s \in Seq(X), t \in Seq(X), JoinFacts
<1> HIDE DEF a, b
<1>9. ASSUME NEW k \in 1 .. Len(a) PROVE a[k] = b[k]
  <2>1. CASE k \in 1 .. Len(s)
    <3>1. k \in 1 .. Len(u)
      BY <1>5, <2>1
    <3> QED BY <1>5, <1>7, <1>8, <2>1, <3>1, Zenon
  <2>2. CASE k = Len(s) + 1
    <3>1. k \in 1 .. Len(u)
      BY <1>5, <2>2
    <3> QED BY <1>1, <1>5, <1>7, <1>8, <2>2, <3>1, Zenon
  <2>3. CASE k > Len(s) + 1
    <3> DEFINE h == k - Len(u)
    <3>1. h \in 1 .. Len(v) /\ h \in 1 .. Len(t) - 1 /\ k = Len(u) + h /\ h + 1 \in 1 .. Len(t)
          /\ k = Len(s) + (h + 1)
      BY <1>1, <1>5, <1>6, <1>7, <2>3
    <3> HIDE DEF h
    <3>2. a[k] = t[h + 1]
      BY <1>6, <1>7, <3>1, Zenon
    <3>3. b[k] = t[h + 1]
      BY <1>8, <3>1, Zenon
    <3> QED BY <3>2, <3>3, Zenon
  <2> QED BY <1>5, <2>1, <2>2, <2>3
<1>10. Len(a) = Len(b)
  BY <1>1, <1>5, <1>6, <1>7, <1>8
<1>11. a = b
  BY <1>7, <1>8, <1>9, <1>10, SameSeq, Zenon
<1> QED BY <1>2, <1>3, <1>4, <1>11, Zenon DEF a, b, u, v

\* A function on 1 .. n is a sequence.
LEMMA FunctionIsSeq ==
    ASSUME NEW X, NEW n \in Nat, NEW f \in [1 .. n -> X]
    PROVE  f \in Seq(X) /\ Len(f) = n
OBVIOUS

-----------------------------------------------------------------------------
\* Division with remainder by a positive number, as SMT knows it ...
LEMMA Remainder ==
    ASSUME NEW x \in Int, NEW m \in Nat \ {0}
    PROVE  /\ x \div m \in Int
           /\ x % m \in 0 .. m - 1
           /\ x = (x \div m) * m + (x % m)
OBVIOUS

\* ... and that the remainder is unique.
LEMMA RemainderUnique ==
    ASSUME NEW q \in Int, NEW m \in Nat \ {0}, NEW r \in 0 .. m - 1
    PROVE  (q * m + r) % m = r
OBVIOUS

\* Adding to a remainder is adding to the number it is the remainder of.
LEMMA RemainderPlus ==
    ASSUME NEW x \in Int, NEW c \in Int, NEW m \in Nat \ {0}
    PROVE  ((x % m) + c) % m = (x + c) % m
<1> DEFINE a == x \div m
           r == x % m
           b == (r + c) \div m
           t == (r + c) % m
           q == a + b
<1>1. a \in Int /\ r \in Int /\ x = a * m + r
  BY Remainder
<1>2. b \in Int /\ t \in 0 .. m - 1 /\ r + c = b * m + t
  BY Remainder, <1>1
<1> HIDE DEF a, r, b, t
<1>3. x + c = q * m + t /\ q \in Int
  BY <1>1, <1>2
<1> HIDE DEF q
<1>4. (q * m + t) % m = t
  BY <1>2, <1>3, RemainderUnique, Zenon
<1> QED BY <1>3, <1>4, Zenon DEF t, r

-----------------------------------------------------------------------------
\* The function that Power computes.
PowersUpTo(b, n, p) ==
    /\ p[0] = 1 /\ \A i \in 1 .. n : p[i] = b * p[i - 1]
    /\ Power(b, n) = p[n]

\* The recursion of Power has a solution.
LEMMA PowerRecursion ==
    ASSUME NEW b \in Nat, NEW n \in Nat
    PROVE  \E p \in [0 .. n -> Nat] : PowersUpTo(b, n, p)
<1> DEFINE step == [q \in Nat \X (1 .. n) |-> b * q[1]]
           Body(f) == [i \in 0 .. n |-> IF i = 0 THEN 1 ELSE b * f[i - 1]]
           p == CHOOSE f : f = Body(f)
<1>1. step \in [Nat \X (1 .. n) -> Nat] /\ 1 \in Nat
  OBVIOUS
<1>2. PICK g \in [0 .. n -> Nat] : Computes(g, n, 1, step)
  <2> HIDE DEF step
  <2> QED BY <1>1, RecursionExists, Zenon
<1>3. g[0] = 1 /\ \A i \in 1 .. n : g[i] = b * g[i - 1]
  <2>1. ASSUME NEW i \in 1 .. n PROVE g[i] = b * g[i - 1]
    <3>1. i - 1 \in 0 .. n
      OBVIOUS
    <3>2. g[i] = step[<<g[i - 1], i>>] /\ <<g[i - 1], i>> \in Nat \X (1 .. n)
      BY <1>2, <3>1, Zenon DEF Computes
    <3> QED BY <3>2, Zenon
  <2> QED BY <1>2, <2>1, Zenon DEF Computes
<1>4. g = Body(g)
  BY <1>3
<1>5. p = Body(p)
  <2> HIDE DEF Body
  <2> QED BY <1>4, Zenon
<1>6. Power(b, n) = p[n]
  BY Zenon DEF Power
<1> HIDE DEF p
<1>7. p[0] = 1 /\ \A i \in 1 .. n : p[i] = b * p[i - 1]
  <2>1. \A i \in 0 .. n : p[i] = Body(p)[i]
    BY <1>5, Zenon
  <2>2. 0 \in 0 .. n /\ \A i \in 1 .. n : i \in 0 .. n /\ i # 0
    OBVIOUS
  <2> QED BY <2>1, <2>2, Zenon
<1>8. \A i \in 0 .. n : p[i] \in Nat
  <2> DEFINE E == {k \in 0 .. n : p[k] \in Nat}
  <2>1. 0 \in E
    BY <1>7
  <2>2. ASSUME NEW k \in 0 .. n - 1, k \in E PROVE k + 1 \in E
    <3>1. k + 1 \in 1 .. n /\ (k + 1) - 1 = k /\ k + 1 \in 0 .. n
      OBVIOUS
    <3>2. p[k + 1] = b * p[k] /\ p[k] \in Nat
      BY <1>7, <2>2, <3>1, Zenon
    <3>3. p[k + 1] \in Nat
      BY ONLY <3>2, b \in Nat
    <3> QED BY <3>1, <3>3, Zenon
  <2>3. \A k \in 0 .. n - 1 : k \in E => k + 1 \in E
    BY <2>2, Zenon
  <2>4. \A k \in 0 .. n : k \in E
    <3> HIDE DEF E
    <3> QED BY <2>1, <2>3, InductionUpTo, Zenon
  <2> QED BY <2>4, Zenon
<1>9. p \in [0 .. n -> Nat]
  BY <1>5, <1>8, Zenon
<1> QED BY <1>6, <1>7, <1>9, Zenon DEF PowersUpTo

\* b to the power 0 is 1, and each further power is b times the one before.
LEMMA PowerIs ==
    ASSUME NEW b \in Nat \ {0}, NEW n \in Nat
    PROVE  /\ Power(b, 0) = 1
           /\ Power(b, n + 1) = b * Power(b, n)
           /\ Power(b, n) \in Nat \ {0}
<1>0. b \in Nat /\ 0 \in Nat /\ n + 1 \in Nat
  OBVIOUS
<1>1. PICK p \in [0 .. n -> Nat] : PowersUpTo(b, n, p)
  BY <1>0, PowerRecursion, Zenon
<1>2. PICK q \in [0 .. n + 1 -> Nat] : PowersUpTo(b, n + 1, q)
  BY <1>0, PowerRecursion, Zenon
<1>3. Power(b, 0) = 1
  <2>1. PICK o \in [0 .. 0 -> Nat] : PowersUpTo(b, 0, o)
    BY <1>0, PowerRecursion, Zenon
  <2> QED BY <2>1, Zenon DEF PowersUpTo
<1>4. \A k \in 0 .. n : p[k] = q[k] /\ p[k] # 0
  <2> DEFINE E == {k \in 0 .. n : p[k] = q[k] /\ p[k] # 0}
  <2>1. 0 \in E
    BY <1>1, <1>2 DEF PowersUpTo
  <2>2. ASSUME NEW k \in 0 .. n - 1, k \in E PROVE k + 1 \in E
    <3>1. k + 1 \in 1 .. n /\ (k + 1) - 1 = k /\ k + 1 \in 0 .. n /\ k + 1 \in 1 .. n + 1
      OBVIOUS
    <3>2. p[k + 1] = b * p[k] /\ q[k + 1] = b * q[k] /\ p[k] = q[k] /\ p[k] \in Nat /\ p[k] # 0
      BY <1>1, <1>2, <2>2, <3>1, Zenon DEF PowersUpTo
    <3>3. p[k + 1] # 0
      BY ONLY <3>2, b \in Nat \ {0}
    <3> QED BY <3>1, <3>2, <3>3, Zenon
  <2>3. \A k \in 0 .. n - 1 : k \in E => k + 1 \in E
    BY <2>2, Zenon
  <2>4. \A k \in 0 .. n : k \in E
    <3> HIDE DEF E
    <3> QED BY <2>1, <2>3, InductionUpTo, Zenon
  <2> QED BY <2>4, Zenon
<1>5. n \in 0 .. n /\ n + 1 \in 1 .. n + 1 /\ (n + 1) - 1 = n
  OBVIOUS
<1>6. Power(b, n + 1) = q[n + 1] /\ q[n + 1] = b * q[n] /\ Power(b, n) = p[n] /\ p[n] = q[n]
  BY <1>1, <1>2, <1>4, <1>5, Zenon DEF PowersUpTo
<1>7. p[n] \in Nat /\ p[n] # 0
  BY <1>4, <1>5, Zenon
<1> QED BY <1>3, <1>6, <1>7, Zenon

-----------------------------------------------------------------------------
\* Powers of a sum.
LEMMA PowerSum ==
    ASSUME NEW b \in Nat \ {0}, NEW m \in Nat, NEW n \in Nat
    PROVE  Power(b, m + n) = Power(b, m) * Power(b, n)
<1> DEFINE E == {k \in 0 .. n : Power(b, m + k) = Power(b, m) * Power(b, k)}
<1>1. 0 \in E
  <2>1. Power(b, 0) = 1 /\ Power(b, m) \in Nat
    BY PowerIs
  <2>2. m + 0 = m /\ Power(b, m) * 1 = Power(b, m)
    BY <2>1
  <2> QED BY <2>1, <2>2
<1>2. ASSUME NEW k \in 0 .. n - 1, k \in E PROVE k + 1 \in E
  <2> DEFINE x == Power(b, m)
             y == Power(b, k)
             z == Power(b, m + k)
  <2>1. k \in Nat /\ m + k \in Nat /\ m + (k + 1) = (m + k) + 1 /\ k + 1 \in 0 .. n
    OBVIOUS
  <2>2. Power(b, k + 1) = b * y /\ Power(b, (m + k) + 1) = b * z /\ x \in Nat /\ y \in Nat
    BY <2>1, PowerIs, Zenon
  <2>3. z = x * y
    BY <1>2, Zenon
  <2> HIDE DEF x, y, z
  <2>4. b * z = x * (b * y)
    BY ONLY <2>2, <2>3, b \in Nat
  <2>5. Power(b, m + (k + 1)) = x * Power(b, k + 1)
    BY <2>1, <2>2, <2>4, Zenon
  <2> QED BY <2>1, <2>5, Zenon DEF x
<1>3. \A k \in 0 .. n - 1 : k \in E => k + 1 \in E
  BY <1>2, Zenon
<1>4. \A k \in 0 .. n : k \in E
  <2> HIDE DEF E
  <2> QED BY <1>1, <1>3, InductionUpTo, Zenon
<1>5. n \in 0 .. n
  OBVIOUS
<1> QED BY <1>4, <1>5, Zenon

\* Powers grow.
LEMMA PowerGrows ==
    ASSUME NEW b \in Nat \ {0}, NEW n \in Nat, NEW m \in 0 .. n
    PROVE  Power(b, m) <= Power(b, n)
<1>1. m \in Nat /\ n - m \in Nat /\ m + (n - m) = n
  OBVIOUS
<1>2. Power(b, n) = Power(b, m) * Power(b, n - m)
  BY <1>1, PowerSum
<1>3. Power(b, m) \in Nat \ {0} /\ Power(b, n - m) \in Nat \ {0}
  BY <1>1, PowerIs
<1> DEFINE x == Power(b, m)
           y == Power(b, n - m)
<1> HIDE DEF x, y
<1>4. x \in Nat /\ y \in Nat /\ y # 0 => x <= x * y
  OBVIOUS
<1> QED BY <1>2, <1>3, <1>4, Zenon DEF x, y

\* The quotient is unique.
LEMMA QuotientUnique ==
    ASSUME NEW q \in Int, NEW m \in Nat \ {0}, NEW r \in 0 .. m - 1
    PROVE  (q * m + r) \div m = q
OBVIOUS

\* A number below the divisor is its own remainder.
LEMMA SmallQuotient ==
    ASSUME NEW m \in Nat \ {0}, NEW v \in 0 .. m - 1
    PROVE  v \div m = 0 /\ v % m = v
OBVIOUS

\* Dividing by a product is dividing by its factors.
LEMMA DivideTwice ==
    ASSUME NEW v \in Int, NEW a \in Nat \ {0}, NEW c \in Nat \ {0}
    PROVE  /\ v \div (a * c) = (v \div a) \div c
           /\ v % (a * c) = ((v \div a) % c) * a + (v % a)
<1> DEFINE q == v \div a
           r == v % a
           p == q \div c
           s == q % c
<1>1. q \in Int /\ r \in 0 .. a - 1 /\ v = q * a + r
  BY Remainder
<1>2. p \in Int /\ s \in 0 .. c - 1 /\ q = p * c + s
  BY <1>1, Remainder
<1> HIDE DEF q, r, p, s
<1>3. a * c \in Nat \ {0}
  OBVIOUS
<1>4. v = p * (a * c) + (s * a + r)
  BY <1>1, <1>2
<1>5. s * a + r \in 0 .. a * c - 1
  <2>1. s * a \in Nat /\ s * a <= (c - 1) * a
    BY <1>2
  <2>2. (c - 1) * a = a * c - a
    OBVIOUS
  <2> QED BY <1>1, <2>1, <2>2
<1>6. v \div (a * c) = p
  BY <1>2, <1>3, <1>4, <1>5, QuotientUnique
<1>7. v % (a * c) = s * a + r
  BY <1>2, <1>3, <1>4, <1>5, RemainderUnique
<1> QED BY <1>6, <1>7, Zenon DEF p, q, r, s

\* A power of a power.
LEMMA PowerOfPower ==
    ASSUME NEW b \in Nat \ {0}, NEW m \in Nat, NEW n \in Nat
    PROVE  Power(b, m * n) = Power(Power(b, m), n)
<1> DEFINE p == Power(b, m)
           E == {k \in 0 .. n : Power(b, m * k) = Power(p, k)}
<1>0. p \in Nat \ {0}
  BY PowerIs, Zenon
<1> HIDE DEF p
<1>1. 0 \in E
  <2>1. Power(b, 0) = 1 /\ Power(p, 0) = 1
    BY <1>0, PowerIs, Zenon
  <2>2. m * 0 = 0 /\ 0 \in 0 .. n
    OBVIOUS
  <2> QED BY <2>1, <2>2, Zenon
<1>2. ASSUME NEW k \in 0 .. n - 1, k \in E PROVE k + 1 \in E
  <2>1. k \in Nat /\ m * k \in Nat /\ m * (k + 1) = m + m * k /\ k + 1 \in 0 .. n
    OBVIOUS
  <2>2. Power(b, m + m * k) = p * Power(b, m * k)
    BY <2>1, PowerSum, Zenon DEF p
  <2>3. Power(p, k + 1) = p * Power(p, k)
    BY <1>0, <2>1, PowerIs, Zenon
  <2> QED BY <1>2, <2>1, <2>2, <2>3, Zenon
<1>3. \A k \in 0 .. n - 1 : k \in E => k + 1 \in E
  BY <1>2, Zenon
<1>4. \A k \in 0 .. n : k \in E
  <2> HIDE DEF E
  <2> QED BY <1>1, <1>3, InductionUpTo, Zenon
<1>5. n \in 0 .. n
  OBVIOUS
<1> QED BY <1>4, <1>5, Zenon DEF p
=============================================================================
