-------------------------- MODULE HttpParserProofs --------------------------
(****************************************************************************)
(* HttpParser tells its callbacks what was sent, whatever the requests are, *)
(* however many there are, whatever the size of the buffer and however the  *)
(* bytes were split when they arrived.                                      *)
(*                                                                          *)
(* The first half says what a stream of requests is made of, piece by       *)
(* piece, and what the parser finds in a buffer that holds the next bytes   *)
(* of it.  Concat and Before are recursive functions, so what they add up   *)
(* to is proved from the least number principle (Induct, Least).            *)
(* Concatenation is hidden behind Join, and what has not been read yet is a *)
(* suffix of the stream, Rest(str, p); a piece in front of it is            *)
(* Join(piece, suffix).                                                     *)
(*                                                                          *)
(* The second half is the invariant, which says where in the stream the     *)
(* parser is: Stands has one case for each state of the parser, and gives   *)
(* what is left of the stream as the pieces of the requests that the parser *)
(* has not come to.                                                         *)
(****************************************************************************)
EXTENDS HttpParser, SequenceTheorems, FiniteSetTheorems, TLAPS

-----------------------------------------------------------------------------
(* Numbers *)

\* A set of numbers with zero and all successors: otherwise the predecessor
\* would map the missing ones up to some bound into one less of them.
LEMMA Induct ==
  ASSUME NEW T \in SUBSET Nat, 0 \in T, \A n \in T : n + 1 \in T
  PROVE  T = Nat
<1>1. SUFFICES ASSUME NEW x \in Nat, x \notin T PROVE FALSE
  OBVIOUS
<1> DEFINE D == {y \in 0 .. x : y \notin T}
           pred == [y \in D |-> y - 1]
<1>2. IsFiniteSet(D) /\ Cardinality(D) \in Nat
  <2>1. \A y \in D : y <= x
    OBVIOUS
  <2>2. D \in SUBSET Nat
    OBVIOUS
  <2> HIDE DEF D
  <2> QED
    BY <2>1, <2>2, FS_BoundedSetOfNaturals, FS_CardinalityType
<1>3. x \in D
  BY <1>1
<1>4. IsFiniteSet(D \ {x}) /\ Cardinality(D \ {x}) < Cardinality(D)
  <2> HIDE DEF D
  <2>1. Cardinality(D \ {x}) = Cardinality(D) - 1
    BY <1>2, <1>3, FS_RemoveElement
  <2> QED
    BY <2>1, <1>2, FS_RemoveElement
<1>5. pred \in [D -> D \ {x}]
  <2> SUFFICES ASSUME NEW y \in D PROVE y - 1 \in D \ {x}
    OBVIOUS
  <2>1. y # 0 /\ y \in 0 .. x
    OBVIOUS
  <2>2. y - 1 \notin T
    <3> SUFFICES ASSUME y - 1 \in T PROVE FALSE
      OBVIOUS
    <3>1. (y - 1) + 1 = y /\ (y - 1) + 1 \in T
      OBVIOUS
    <3> QED
      BY <3>1
  <2> QED
    BY <2>1, <2>2
<1>6. PICK y, z \in D : y # z /\ pred[y] = pred[z]
  <2> HIDE DEF D, pred
  <2> QED
    BY <1>2, <1>4, <1>5, FS_PigeonHole
<1> QED
  BY <1>6

\* Every set of numbers has a least one.
LEMMA Least ==
  ASSUME NEW S \in SUBSET Nat, NEW x \in S
  PROVE  \E m \in S : \A n \in S : m <= n
<1> SUFFICES ASSUME \A m \in S : \E n \in S : n < m PROVE FALSE
  OBVIOUS
<1> DEFINE T == {n \in Nat : \A k \in 0 .. n : k \notin S}
<1>1. 0 \in T
  OBVIOUS
<1>2. \A n \in T : n + 1 \in T
  OBVIOUS
<1>3. T = Nat
  <2> HIDE DEF T
  <2>1. T \in SUBSET Nat
    BY DEF T
  <2> QED
    BY <1>1, <1>2, <2>1, Induct
<1> QED
  BY <1>3

-----------------------------------------------------------------------------
(* Concat *)

Join(a, b) == a \o b

LEMMA JoinFacts ==
  ASSUME NEW S
  PROVE  /\ \A a, b \in Seq(S) : Join(a, b) \in Seq(S) /\ Len(Join(a, b)) = Len(a) + Len(b)
         /\ \A a \in Seq(S) : Join(a, <<>>) = a /\ Join(<<>>, a) = a
         /\ \A a, b, c \in Seq(S) : Join(Join(a, b), c) = Join(a, Join(b, c))
BY ConcatProperties, ConcatEmptySeq, ConcatAssociative DEF Join

\* f[i] is the concatenation of the first i of n sequences.
Sums(f, ls, n) == f[0] = <<>> /\ \A i \in 1 .. n : f[i] = Join(f[i - 1], ls[i])

LEMMA ConcatSums ==
  ASSUME NEW ls, Len(ls) \in Nat
  PROVE  \E f : Sums(f, ls, Len(ls)) /\ Concat(ls) = f[Len(ls)]
<1> DEFINE n == Len(ls)
           F(f, i) == IF i = 0 THEN <<>> ELSE Join(f[i - 1], ls[i])
           T == {m \in Nat : \E f : f = [i \in 0 .. m |-> F(f, i)]}
           upto == CHOOSE f : f = [i \in 0 .. n |-> F(f, i)]
<1>1. Concat(ls) = upto[n]
  BY Zenon DEF Concat, Join
<1>2. 0 \in T
  <2> DEFINE f == [i \in 0 .. 0 |-> <<>>]
  <2>1. f = [i \in 0 .. 0 |-> F(f, i)]
    OBVIOUS
  <2> QED
    BY <2>1
<1>3. ASSUME NEW m \in T PROVE m + 1 \in T
  <2>1. PICK f : f = [i \in 0 .. m |-> F(f, i)]
    OBVIOUS
  <2>2. m \in Nat
    OBVIOUS
  <2> DEFINE h == [i \in 0 .. m + 1 |-> F(f, i)]
  <2>3. \A i \in 0 .. m : f[i] = F(f, i)
    BY <2>1
  <2> HIDE DEF T
  <2>4. \A i \in 0 .. m + 1 : F(h, i) = F(f, i)
    <3> SUFFICES ASSUME NEW i \in 0 .. m + 1, i # 0 PROVE h[i - 1] = f[i - 1]
      OBVIOUS
    <3>1. i - 1 \in 0 .. m /\ i - 1 \in 0 .. m + 1
      BY <2>2
    <3> HIDE DEF F
    <3> QED
      BY <3>1, <2>3
  <2>5. h = [i \in 0 .. m + 1 |-> F(h, i)]
    BY <2>4
  <2> HIDE DEF F, h
  <2>6. \E g : g = [i \in 0 .. m + 1 |-> F(g, i)]
    BY <2>5
  <2> QED
    BY <2>2, <2>6 DEF T
<1>4. n \in T
  <2> HIDE DEF T
  <2>1. T \in SUBSET Nat
    BY DEF T
  <2> QED
    BY <1>2, <1>3, <2>1, Induct
<1> DEFINE N == n
<1> HIDE DEF N
<1>5. \E f : f = [i \in 0 .. N |-> F(f, i)]
  <2>1. N \in T
    BY <1>4 DEF N
  <2> HIDE DEF F
  <2> QED
    BY <2>1
<1>6. upto = [i \in 0 .. N |-> F(upto, i)]
  <2> HIDE DEF F
  <2>1. upto = CHOOSE f : f = [i \in 0 .. N |-> F(f, i)]
    BY Zenon DEF N
  <2> HIDE DEF upto
  <2> QED
    BY <1>5, <2>1, Zenon
<1> HIDE DEF upto
<1>7. \A i \in 0 .. N : upto[i] = F(upto, i)
  BY <1>6
<1>8. Sums(upto, ls, N)
  BY <1>7 DEF Sums, N
<1> QED
  BY <1>1, <1>8 DEF N

LEMMA SumsTyped ==
  ASSUME NEW S, NEW n \in Nat, NEW ls, NEW f, Sums(f, ls, n),
         \A i \in 1 .. n : ls[i] \in Seq(S)
  PROVE  \A i \in 0 .. n : f[i] \in Seq(S)
<1> DEFINE T == {i \in Nat : i <= n => f[i] \in Seq(S)}
<1>1. 0 \in T
  BY EmptySeq DEF Sums
<1>2. ASSUME NEW i \in T PROVE i + 1 \in T
  <2> SUFFICES ASSUME i + 1 <= n PROVE f[i + 1] \in Seq(S)
    OBVIOUS
  <2>1. i + 1 \in 1 .. n /\ (i + 1) - 1 = i /\ f[i] \in Seq(S)
    OBVIOUS
  <2>2. f[i + 1] = Join(f[i], ls[i + 1])
    BY <2>1 DEF Sums
  <2>3. f[i] \in Seq(S) /\ ls[i + 1] \in Seq(S)
    BY <2>1
  <2> HIDE DEF T
  <2>4. Join(f[i], ls[i + 1]) \in Seq(S)
    BY <2>3, JoinFacts
  <2> QED
    BY <2>2, <2>4
<1> QED
  <2> HIDE DEF T
  <2>1. T \in SUBSET Nat
    BY DEF T
  <2>2. T = Nat
    BY <1>1, <1>2, <2>1, Induct
  <2> QED
    BY <2>2 DEF T

\* The sums depend on the sequences that are summed only.
LEMMA SumsSame ==
  ASSUME NEW n \in Nat, NEW ls, NEW ms, NEW f, NEW g, Sums(f, ls, n), Sums(g, ms, n),
         \A i \in 1 .. n : ls[i] = ms[i]
  PROVE  f[n] = g[n]
<1> DEFINE T == {i \in Nat : i <= n => f[i] = g[i]}
<1>1. 0 \in T
  BY DEF Sums
<1>2. ASSUME NEW i \in T PROVE i + 1 \in T
  <2> SUFFICES ASSUME i + 1 <= n PROVE f[i + 1] = g[i + 1]
    OBVIOUS
  <2>1. i + 1 \in 1 .. n /\ (i + 1) - 1 = i /\ f[i] = g[i]
    OBVIOUS
  <2>2. f[i + 1] = Join(f[i], ls[i + 1]) /\ g[i + 1] = Join(g[i], ms[i + 1])
    BY <2>1 DEF Sums
  <2> QED
    BY <2>1, <2>2
<1> QED
  <2> HIDE DEF T
  <2>1. T \in SUBSET Nat
    BY DEF T
  <2>2. T = Nat
    BY <1>1, <1>2, <2>1, Induct
  <2> QED
    BY <2>2 DEF T

LEMMA ConcatTyped ==
  ASSUME NEW S, NEW ls \in Seq(Seq(S))
  PROVE  Concat(ls) \in Seq(S)
<1>1. Len(ls) \in Nat /\ \A i \in 1 .. Len(ls) : ls[i] \in Seq(S)
  OBVIOUS
<1>2. PICK f : Sums(f, ls, Len(ls)) /\ Concat(ls) = f[Len(ls)]
  BY <1>1, ConcatSums
<1>3. Len(ls) \in 0 .. Len(ls)
  BY <1>1
<1> QED
  BY <1>1, <1>2, <1>3, SumsTyped

LEMMA ConcatEmpty == Concat(<<>>) = <<>>
<1>1. Len(<<>>) = 0 /\ Len(<<>>) \in Nat
  OBVIOUS
<1>2. PICK f : Sums(f, <<>>, Len(<<>>)) /\ Concat(<<>>) = f[Len(<<>>)]
  BY <1>1, ConcatSums
<1> QED
  BY <1>1, <1>2 DEF Sums

LEMMA ConcatFirst ==
  ASSUME NEW S, NEW ls \in Seq(Seq(S)), ls # <<>>
  PROVE  Concat(ls) = Join(ls[1], Concat(Tail(ls)))
<1> DEFINE n == Len(ls)
           ms == Tail(ls)
<1>1. n \in Nat /\ n >= 1 /\ \A i \in 1 .. n : ls[i] \in Seq(S)
  BY EmptySeq
<1>2. Len(ms) = n - 1 /\ \A i \in 1 .. n - 1 : ms[i] = ls[i + 1]
  BY HeadTailProperties
<1> HIDE DEF n, ms
<1>3. PICK f : Sums(f, ls, n) /\ Concat(ls) = f[n]
  BY <1>1, ConcatSums DEF n
<1>4. PICK g : Sums(g, ms, n - 1) /\ Concat(ms) = g[n - 1]
  <2>1. Len(ms) \in Nat
    BY <1>1, <1>2
  <2>2. \E g : Sums(g, ms, Len(ms)) /\ Concat(ms) = g[Len(ms)]
    BY <2>1, ConcatSums
  <2> QED
    BY <1>2, <2>2
<1>5. /\ \A i \in 1 .. n - 1 : ms[i] \in Seq(S)
      /\ \A i \in 0 .. n - 1 : g[i] \in Seq(S)
  <2>1. \A i \in 1 .. n - 1 : i + 1 \in 1 .. n
    BY <1>1
  <2>2. \A i \in 1 .. n - 1 : ms[i] \in Seq(S)
    BY <1>1, <1>2, <2>1
  <2>3. n - 1 \in Nat
    BY <1>1
  <2> QED
    BY <2>2, <2>3, <1>4, SumsTyped
<1> DEFINE T == {i \in Nat : i <= n - 1 => f[i + 1] = Join(ls[1], g[i])}
<1>6. 0 \in T
  <2>1. f[1] = Join(f[0], ls[1]) /\ f[0] = <<>> /\ g[0] = <<>>
    BY <1>1, <1>3, <1>4 DEF Sums
  <2>2. ls[1] \in Seq(S)
    BY <1>1
  <2>3. f[1] = Join(<<>>, ls[1])
    BY <2>1
  <2>4. f[1] = ls[1]
    BY <2>2, <2>3, JoinFacts
  <2>5. ls[1] = Join(ls[1], g[0])
    BY <2>1, <2>2, JoinFacts
  <2> QED
    BY <2>4, <2>5
<1>7. ASSUME NEW i \in T PROVE i + 1 \in T
  <2> SUFFICES ASSUME i + 1 <= n - 1 PROVE f[i + 2] = Join(ls[1], g[i + 1])
    OBVIOUS
  <2>1. f[i + 1] = Join(ls[1], g[i]) /\ i \in Nat
    BY <1>1
  <2>2. f[i + 2] = Join(f[i + 1], ls[i + 2])
    <3>1. i + 2 \in 1 .. n /\ (i + 2) - 1 = i + 1
      BY <1>1, <2>1
    <3> QED
      BY <3>1, <1>3 DEF Sums
  <2>3. g[i + 1] = Join(g[i], ls[i + 2])
    <3>1. i + 1 \in 1 .. n - 1 /\ (i + 1) - 1 = i /\ (i + 1) + 1 = i + 2
      BY <1>1, <2>1
    <3> QED
      BY <3>1, <1>2, <1>4 DEF Sums
  <2>4. ls[1] \in Seq(S) /\ g[i] \in Seq(S) /\ ls[i + 2] \in Seq(S)
    <3>1. 1 \in 1 .. n /\ i \in 0 .. n - 1 /\ i + 2 \in 1 .. n
      BY <1>1, <2>1
    <3> QED
      BY <3>1, <1>1, <1>5
  <2> HIDE DEF T
  <2>5. Join(Join(ls[1], g[i]), ls[i + 2]) = Join(ls[1], Join(g[i], ls[i + 2]))
    <3>1. \A a, b, c \in Seq(S) : Join(Join(a, b), c) = Join(a, Join(b, c))
      BY JoinFacts
    <3> QED
      BY <2>4, <3>1, Zenon
  <2> QED
    BY <2>1, <2>2, <2>3, <2>5, Zenon
<1>8. f[n] = Join(ls[1], g[n - 1])
  <2> HIDE DEF T
  <2>1. T \in SUBSET Nat
    BY DEF T
  <2>2. T = Nat
    BY <1>6, <1>7, <2>1, Induct
  <2>3. n - 1 \in Nat /\ (n - 1) + 1 = n
    BY <1>1
  <2>4. n - 1 \in T
    BY <2>2, <2>3
  <2>5. f[(n - 1) + 1] = Join(ls[1], g[n - 1])
    BY <2>3, <2>4 DEF T
  <2> QED
    BY <2>3, <2>5
<1> QED
  BY <1>3, <1>4, <1>8 DEF ms

LEMMA ConcatLast ==
  ASSUME NEW ls, NEW n \in Nat, Len(ls) = n + 1, NEW ms, Len(ms) = n,
         \A i \in 1 .. n : ms[i] = ls[i]
  PROVE  Concat(ls) = Join(Concat(ms), ls[n + 1])
<1>1. PICK f : Sums(f, ls, n + 1) /\ Concat(ls) = f[n + 1]
  <2>1. Len(ls) \in Nat
    OBVIOUS
  <2>2. \E f : Sums(f, ls, Len(ls)) /\ Concat(ls) = f[Len(ls)]
    BY <2>1, ConcatSums
  <2> QED
    BY <2>2
<1>2. PICK g : Sums(g, ms, n) /\ Concat(ms) = g[n]
  <2>1. \E h : Sums(h, ms, Len(ms)) /\ Concat(ms) = h[Len(ms)]
    BY ConcatSums
  <2> QED
    BY <2>1
<1>3. Sums(f, ls, n)
  BY <1>1 DEF Sums
<1>4. f[n] = g[n]
  BY <1>2, <1>3, SumsSame
<1>5. n + 1 \in 1 .. n + 1 /\ (n + 1) - 1 = n
  OBVIOUS
<1> QED
  BY <1>1, <1>2, <1>4, <1>5 DEF Sums

\* What is left of a concatenation behind the first i sequences.
After(ls, i) == Concat(SubSeq(ls, i + 1, Len(ls)))

LEMMA AfterTyped ==
  ASSUME NEW S, NEW ls \in Seq(Seq(S)), NEW i \in 0 .. Len(ls)
  PROVE  After(ls, i) \in Seq(S)
<1>1. \A j \in i + 1 .. Len(ls) : ls[j] \in Seq(S)
  OBVIOUS
<1>2. i + 1 \in Int /\ Len(ls) \in Int
  OBVIOUS
<1>3. SubSeq(ls, i + 1, Len(ls)) \in Seq(Seq(S))
  BY <1>1, <1>2, SubSeqProperties
<1> QED
  BY <1>3, ConcatTyped DEF After

LEMMA AfterFirst ==
  ASSUME NEW S, NEW ls \in Seq(Seq(S)), NEW i \in Nat, i < Len(ls)
  PROVE  After(ls, i) = Join(ls[i + 1], After(ls, i + 1))
<1> DEFINE n == Len(ls)
           m == SubSeq(ls, i + 1, n)
<1>1. i + 1 \in 1 .. n /\ n \in i + 1 .. n /\ n \in Nat
  OBVIOUS
<1>2. Head(m) = ls[i + 1] /\ Tail(m) = SubSeq(ls, (i + 1) + 1, n)
  BY <1>1, HeadTailOfSubSeq
<1>3. m \in Seq(Seq(S)) /\ Len(m) = n - (i + 1) + 1
  <2>1. \A j \in i + 1 .. n : ls[j] \in Seq(S)
    BY <1>1
  <2> QED
    BY <1>1, <2>1, SubSeqProperties
<1> HIDE DEF n, m
<1>4. m # <<>> /\ m[1] = ls[i + 1]
  BY <1>1, <1>2, <1>3
<1>5. Concat(m) = Join(m[1], Concat(Tail(m)))
  BY <1>3, <1>4, ConcatFirst
<1> QED
  BY <1>2, <1>4, <1>5 DEF After, m, n

LEMMA AfterEnds ==
  ASSUME NEW S, NEW ls \in Seq(Seq(S))
  PROVE  After(ls, 0) = Concat(ls) /\ After(ls, Len(ls)) = <<>>
<1>1. SubSeq(ls, 0 + 1, Len(ls)) = ls
  BY SubSeqFull
<1>2. Len(ls) \in Int /\ Len(ls) + 1 \in Int /\ Len(ls) < Len(ls) + 1
  OBVIOUS
<1>3. SubSeq(ls, Len(ls) + 1, Len(ls)) = <<>>
  BY <1>2, SubSeqEmpty
<1> QED
  BY <1>1, <1>3, ConcatEmpty DEF After

\* A beginning of a concatenation and what is behind it.
LEMMA LenBefore ==
  ASSUME NEW S, NEW ls \in Seq(Seq(S)), NEW i \in 0 .. Len(ls)
  PROVE  Len(Concat([j \in 1 .. i |-> ls[j]])) = Len(Concat(ls)) - Len(After(ls, i))
<1> DEFINE front(n) == [j \in 1 .. n |-> ls[j]]
           T == {n \in Nat : n <= Len(ls) =>
                   Len(Concat(front(n))) = Len(Concat(ls)) - Len(After(ls, n))}
<1>1. 0 \in T
  <2>1. front(0) = <<>>
    OBVIOUS
  <2>2. Len(Concat(ls)) \in Nat
    BY ConcatTyped
  <2>3. Len(Concat(front(0))) = 0
    BY <2>1, ConcatEmpty
  <2>4. After(ls, 0) = Concat(ls)
    BY AfterEnds
  <2> QED
    BY <2>2, <2>3, <2>4
<1>2. ASSUME NEW n \in T PROVE n + 1 \in T
  <2> SUFFICES ASSUME n + 1 <= Len(ls)
               PROVE  Len(Concat(front(n + 1))) = Len(Concat(ls)) - Len(After(ls, n + 1))
    OBVIOUS
  <2>1. n \in Nat /\ n < Len(ls)
    OBVIOUS
  <2>2. Len(Concat(front(n))) = Len(Concat(ls)) - Len(After(ls, n))
    BY <2>1
  <2>3. Concat(front(n + 1)) = Join(Concat(front(n)), ls[n + 1])
    <3>1. Len(front(n + 1)) = n + 1 /\ Len(front(n)) = n
      BY <2>1
    <3>2. \A j \in 1 .. n : front(n)[j] = front(n + 1)[j]
      BY <2>1
    <3>3. front(n + 1)[n + 1] = ls[n + 1]
      BY <2>1
    <3> HIDE DEF front
    <3> QED
      BY <2>1, <3>1, <3>2, <3>3, ConcatLast
  <2>4. After(ls, n) = Join(ls[n + 1], After(ls, n + 1))
    BY <2>1, AfterFirst
  <2>5. ls[n + 1] \in Seq(S) /\ After(ls, n + 1) \in Seq(S) /\ Concat(front(n)) \in Seq(S)
    <3>1. n + 1 \in 1 .. Len(ls) /\ n + 1 \in 0 .. Len(ls)
      BY <2>1
    <3>2. \A j \in 1 .. n : ls[j] \in Seq(S)
      BY <2>1
    <3>3. front(n) \in Seq(Seq(S))
      BY <2>1, <3>2
    <3> HIDE DEF front, T
    <3>4. Concat(front(n)) \in Seq(S)
      BY <3>3, ConcatTyped
    <3>5. After(ls, n + 1) \in Seq(S)
      BY <3>1, AfterTyped
    <3>6. ls[n + 1] \in Seq(S)
      BY <3>1
    <3> QED
      BY <3>4, <3>5, <3>6
  <2>6. /\ Len(Concat(front(n + 1))) = Len(Concat(front(n))) + Len(ls[n + 1])
        /\ Len(After(ls, n)) = Len(ls[n + 1]) + Len(After(ls, n + 1))
    <3> HIDE DEF front, T
    <3>0. \A a, b \in Seq(S) : Len(Join(a, b)) = Len(a) + Len(b)
      BY JoinFacts
    <3>1. Len(Join(Concat(front(n)), ls[n + 1])) = Len(Concat(front(n))) + Len(ls[n + 1])
      BY <2>5, <3>0, Zenon
    <3>2. Len(Join(ls[n + 1], After(ls, n + 1))) = Len(ls[n + 1]) + Len(After(ls, n + 1))
      BY <2>5, <3>0, Zenon
    <3> QED
      BY <2>3, <2>4, <3>1, <3>2, Zenon
  <2>7. /\ Len(Concat(front(n))) \in Nat /\ Len(ls[n + 1]) \in Nat
        /\ Len(After(ls, n + 1)) \in Nat /\ Len(Concat(ls)) \in Nat
    <3> HIDE DEF front, T
    <3> QED
      BY <2>5, ConcatTyped, LenProperties
  <2> HIDE DEF front, T
  <2> DEFINE a == Len(Concat(front(n + 1)))
             b == Len(Concat(front(n)))
             c == Len(Concat(ls))
             d == Len(After(ls, n))
             e == Len(ls[n + 1])
             g == Len(After(ls, n + 1))
  <2>8. a = b + e /\ d = e + g /\ b = c - d /\ b \in Nat /\ e \in Nat /\ g \in Nat /\ c \in Nat
    BY <2>2, <2>6, <2>7, Zenon
  <2> HIDE DEF a, b, c, d, e, g
  <2>9. a = c - g
    BY <2>8
  <2> QED
    BY <2>9 DEF a, c, g
<1> QED
  <2> HIDE DEF T
  <2>1. T \in SUBSET Nat
    BY DEF T
  <2>2. T = Nat
    BY <1>1, <1>2, <2>1, Induct
  <2>3. \A n \in Nat : n \in T
    BY <2>2
  <2> HIDE DEF front
  <2>4. i \in T /\ i \in Nat /\ i <= Len(ls)
    BY <2>3
  <2>5. Len(Concat(front(i))) = Len(Concat(ls)) - Len(After(ls, i))
    BY <2>4 DEF T
  <2> QED
    BY <2>5 DEF front

-----------------------------------------------------------------------------
(* Bytes and lines *)

LineKinds == HeaderKinds \cup {"junk", "req", "size"}
Bytes == [k : LineKinds \cup {"data", "pad", "CR", "LF", "NUL"}, v : Nat]
Blank == <<CR, LF>>

\* A line with its end: the CR of the end is the q-th byte, and no byte in front
\* of it could be taken for the end of anything.
Terminated(a, q) ==
  /\ a \in Seq(Bytes) /\ q \in Nat \ {0} /\ Len(a) = q + 1
  /\ a[q] = CR /\ a[q + 1] = LF
  /\ \A j \in 1 .. q - 1 : a[j].k \in LineKinds \cup {"pad"}

LEMMA EndBytes ==
  /\ CR \in Bytes /\ LF \in Bytes /\ NUL \in Bytes
  /\ CR # LF /\ CR # NUL /\ LF # NUL
  /\ CR.k = "CR" /\ LF.k = "LF" /\ NUL.k = "NUL"
  /\ {"CR", "LF", "NUL", "data"} \cap (LineKinds \cup {"pad"}) = {}
BY DEF CR, LF, NUL, Byte, Bytes, LineKinds, HeaderKinds

LEMMA BlankIsTerminated == Terminated(Blank, 1)
BY EndBytes DEF Terminated, Blank

LEMMA LineIsTerminated ==
  ASSUME NEW kind \in LineKinds, NEW value \in Nat, NEW pads \in Nat
  PROVE  /\ Terminated(Line(kind, value, pads), pads + 2)
         /\ Line(kind, value, pads)[1] = Byte(kind, value)
         /\ Byte(kind, value).k = kind /\ Byte(kind, value).v = value
<1> DEFINE b == <<Byte(kind, value)>>
           p == Pads(pads)
           l == Line(kind, value, pads)
<1>1. b \in Seq(Bytes) /\ Len(b) = 1 /\ b[1] = Byte(kind, value)
      /\ Byte(kind, value).k = kind /\ Byte(kind, value).v = value
  BY DEF Byte, Bytes
<1>2. /\ p \in Seq(Bytes) /\ Len(p) = pads
      /\ \A j \in 1 .. pads : p[j].k = "pad"
  <2>1. Byte("pad", 0) \in Bytes /\ Byte("pad", 0).k = "pad"
    BY DEF Byte, Bytes
  <2> HIDE DEF p
  <2>2. p = [i \in 1 .. pads |-> Byte("pad", 0)]
    BY DEF p, Pads
  <2> QED
    BY <2>1, <2>2
<1>3. Blank \in Seq(Bytes) /\ Len(Blank) = 2 /\ Blank[1] = CR /\ Blank[2] = LF
  BY EndBytes DEF Blank
<1>4. l = Join(Join(b, p), Blank)
  BY DEF Line, Join, Blank
<1> HIDE DEF b, p, l
<1> DEFINE bp == Join(b, p)
<1>5. /\ bp \in Seq(Bytes) /\ Len(bp) = 1 + pads
      /\ bp[1] = Byte(kind, value) /\ \A j \in 2 .. pads + 1 : bp[j] = p[j - 1]
  <2>1. /\ b \o p \in Seq(Bytes) /\ Len(b \o p) = Len(b) + Len(p)
        /\ \A i \in 1 .. Len(b) + Len(p) : (b \o p)[i] = IF i <= Len(b) THEN b[i] ELSE p[i - Len(b)]
    BY <1>1, <1>2, ConcatProperties
  <2> HIDE DEF Join
  <2>2. bp = b \o p
    BY DEF Join
  <2> HIDE DEF bp
  <2>3. \A i \in 1 .. 1 + pads : bp[i] = IF i <= 1 THEN b[i] ELSE p[i - 1]
    BY <1>1, <1>2, <2>1, <2>2
  <2>4. bp \in Seq(Bytes) /\ Len(bp) = 1 + pads
    BY <1>1, <1>2, <2>1, <2>2
  <2>5. bp[1] = b[1]
    BY <2>3
  <2>6. \A j \in 2 .. pads + 1 : bp[j] = p[j - 1]
    BY <2>3
  <2> QED
    BY <1>1, <2>4, <2>5, <2>6
<1> HIDE DEF bp
<1>6. /\ l \in Seq(Bytes) /\ Len(l) = pads + 3
      /\ \A j \in 1 .. pads + 1 : l[j] = bp[j]
      /\ l[pads + 2] = CR /\ l[pads + 3] = LF
  <2>1. /\ bp \o Blank \in Seq(Bytes) /\ Len(bp \o Blank) = Len(bp) + Len(Blank)
        /\ \A i \in 1 .. Len(bp) + Len(Blank) :
             (bp \o Blank)[i] = IF i <= Len(bp) THEN bp[i] ELSE Blank[i - Len(bp)]
    BY <1>3, <1>5, ConcatProperties
  <2>2. l = bp \o Blank
    BY <1>4 DEF Join, bp
  <2>3. \A i \in 1 .. pads + 3 : l[i] = IF i <= pads + 1 THEN bp[i] ELSE Blank[i - (pads + 1)]
    BY <1>3, <1>5, <2>1, <2>2
  <2>4. l \in Seq(Bytes) /\ Len(l) = pads + 3
    BY <1>3, <1>5, <2>1, <2>2
  <2>5. /\ pads + 2 \in 1 .. pads + 3 /\ ~(pads + 2 <= pads + 1) /\ (pads + 2) - (pads + 1) = 1
        /\ pads + 3 \in 1 .. pads + 3 /\ ~(pads + 3 <= pads + 1) /\ (pads + 3) - (pads + 1) = 2
    OBVIOUS
  <2>6. l[pads + 2] = Blank[1] /\ l[pads + 3] = Blank[2]
    BY <2>3, <2>5
  <2> QED
    BY <1>3, <2>3, <2>4, <2>6
<1>7. \A j \in 1 .. (pads + 2) - 1 : l[j].k \in LineKinds \cup {"pad"}
  <2> TAKE j \in 1 .. (pads + 2) - 1
  <2>1. l[j] = bp[j] /\ j \in 1 .. pads + 1
    BY <1>6
  <2>2. CASE j = 1
    BY <1>1, <1>5, <2>1, <2>2
  <2>3. CASE j # 1
    <3>1. j \in 2 .. pads + 1 /\ j - 1 \in 1 .. pads
      BY <2>1, <2>3
    <3> QED
      BY <1>2, <1>5, <2>1, <3>1
  <2> QED
    BY <2>2, <2>3
<1>8. l[1] = Byte(kind, value)
  BY <1>5, <1>6
<1>9. Terminated(l, pads + 2)
  BY <1>6, <1>7 DEF Terminated
<1> QED
  BY <1>1, <1>8, <1>9 DEF l

-----------------------------------------------------------------------------
(* The buffer and the stream *)

Buffers == [mem : [0 .. BufSize - 1 -> Bytes], get : Nat, put : Nat]

\* What is between get_pos and put_pos are the last bytes of the f bytes of the
\* stream that have been fed.
Holds(str, b, f) ==
  /\ b \in Buffers /\ b.get <= b.put /\ b.put <= BufSize
  /\ f \in Nat /\ b.put - b.get <= f /\ f <= Len(str)
  /\ \A j \in 0 .. b.put - b.get - 1 :
       b.mem[b.get + j] = str[f - (b.put - b.get) + j + 1]

\* How far the parser has come in the stream, and the stream from there.
Pos(b, f)    == f - (b.put - b.get)
Rest(str, p) == SubSeq(str, p + 1, Len(str))

LEMMA RestIs ==
  ASSUME NEW str \in Seq(Bytes), NEW p \in 0 .. Len(str)
  PROVE  /\ Rest(str, p) \in Seq(Bytes) /\ Len(Rest(str, p)) = Len(str) - p
         /\ \A i \in 1 .. Len(str) - p : Rest(str, p)[i] = str[p + i]
<1> DEFINE n == Len(str)
<1>1. n \in Nat /\ p \in Nat /\ p <= n
  OBVIOUS
<1>2. \A i \in p + 1 .. n : str[i] \in Bytes
  OBVIOUS
<1> HIDE DEF n
<1>3. /\ SubSeq(str, p + 1, n) \in Seq(Bytes)
      /\ Len(SubSeq(str, p + 1, n)) = IF p + 1 <= n THEN n - (p + 1) + 1 ELSE 0
      /\ \A i \in 1 .. n - (p + 1) + 1 : SubSeq(str, p + 1, n)[i] = str[(p + 1) + i - 1]
  <2>1. p + 1 \in Int /\ n \in Int
    BY <1>1
  <2> QED
    BY <1>2, <2>1, SubSeqProperties
<1>4. Rest(str, p) = SubSeq(str, p + 1, n)
  BY DEF Rest, n
<1>5. n - (p + 1) + 1 = n - p /\ \A i \in 1 .. n - p : (p + 1) + i - 1 = p + i
  BY <1>1
<1>6. Len(Rest(str, p)) = n - p
  BY <1>1, <1>3, <1>4
<1>7. \A i \in 1 .. n - p : Rest(str, p)[i] = str[p + i]
  BY <1>3, <1>4, <1>5
<1> QED
  BY <1>3, <1>4, <1>6, <1>7 DEF n

LEMMA Drop ==
  ASSUME NEW str \in Seq(Bytes), NEW p \in 0 .. Len(str),
         NEW a \in Seq(Bytes), NEW b \in Seq(Bytes), Rest(str, p) = Join(a, b)
  PROVE  /\ p + Len(a) \in 0 .. Len(str) /\ Rest(str, p + Len(a)) = b
         /\ p + Len(a) = Len(str) - Len(b)
         /\ \A j \in 1 .. Len(a) : str[p + j] = a[j]
<1> DEFINE n == Len(str)
           la == Len(a)
           lb == Len(b)
           r == Rest(str, p)
           s == Rest(str, p + la)
<1>1. n \in Nat /\ la \in Nat /\ lb \in Nat /\ p \in Nat /\ p <= n
  OBVIOUS
<1>2. Len(r) = n - p /\ \A i \in 1 .. n - p : r[i] = str[p + i]
  BY RestIs
<1>3. /\ Len(r) = la + lb
      /\ \A i \in 1 .. la + lb : r[i] = IF i <= la THEN a[i] ELSE b[i - la]
  BY ConcatProperties DEF Join
<1> HIDE DEF n, la, lb, r
<1>4. n - p = la + lb
  BY <1>2, <1>3
<1>5. p + la \in 0 .. n /\ n - (p + la) = lb /\ p + la = n - lb
  BY <1>1, <1>4
<1>6. \A j \in 1 .. la : str[p + j] = a[j]
  <2> TAKE j \in 1 .. la
  <2>1. j \in 1 .. la + lb /\ j <= la
    BY <1>1
  <2>2. r[j] = str[p + j]
    BY <1>2, <1>4, <2>1
  <2>3. r[j] = a[j]
    BY <1>3, <2>1
  <2> QED
    BY <2>2, <2>3
<1>7. s \in Seq(Bytes) /\ Len(s) = lb /\ \A i \in 1 .. lb : s[i] = str[(p + la) + i]
  <2>1. p + la \in 0 .. Len(str)
    BY <1>5 DEF n
  <2>2. /\ s \in Seq(Bytes) /\ Len(s) = n - (p + la)
        /\ \A i \in 1 .. n - (p + la) : s[i] = str[(p + la) + i]
    BY <2>1, RestIs DEF n
  <2> QED
    BY <1>5, <2>2
<1> HIDE DEF s
<1>8. \A j \in 1 .. lb : s[j] = b[j]
  <2> TAKE j \in 1 .. lb
  <2>1. la + j \in 1 .. la + lb /\ ~(la + j <= la) /\ (la + j) - la = j
        /\ p + (la + j) = (p + la) + j
    BY <1>1
  <2>2. r[la + j] = b[j]
    BY <1>3, <2>1
  <2>3. r[la + j] = str[(p + la) + j]
    BY <1>2, <1>4, <2>1
  <2> QED
    BY <1>7, <2>2, <2>3
<1>9. s = b
  BY <1>7, <1>8, SeqEqual DEF lb
<1> QED
  BY <1>5, <1>6, <1>9 DEF n, la, s, lb

LEMMA SearchFromStart ==
  ASSUME NEW d, {e \in Crs : e < d} = {}
  PROVE  SearchFrom(d) = bf.get
<1> DEFINE before == {e + 1 : e \in {e \in Crs : e < d}} \cup {bf.get}
<1>1. before = {bf.get}
  OBVIOUS
<1>2. SearchFrom(d) = CHOOSE p \in before : \A q \in before : q <= p
  BY DEF SearchFrom
<1> HIDE DEF before
<1>3. SearchFrom(d) = CHOOSE p \in {bf.get} : \A q \in {bf.get} : q <= p
  BY <1>1, <1>2, Zenon
<1> QED
  BY <1>3

\* A line at the front of the stream is found as soon as all of it is in the
\* buffer: the search stops at the first CR, and there is none before its end.
LEMMA LineFound ==
  ASSUME BufSize \in Nat, NEW str \in Seq(Bytes), Holds(str, bf, fed),
         NEW a, NEW q, Terminated(a, q), NEW b \in Seq(Bytes),
         Rest(str, Pos(bf, fed)) = Join(a, b)
  PROVE  /\ HasLine <=> Size >= q + 1
         /\ HasLine => LineEnd = bf.get + q - 1
<1> DEFINE n == Len(str)
           g == bf.get
           z == Size
           p == Pos(bf, fed)
           e == g + q - 1
<1>1. /\ g \in Nat /\ z \in Nat /\ g + z <= BufSize /\ fed \in Nat /\ z <= fed /\ fed <= n
      /\ p = fed - z /\ q \in Nat /\ q >= 1 /\ Len(a) = q + 1 /\ a \in Seq(Bytes)
  BY DEF Holds, Buffers, Size, Pos, Terminated
<1>2. \A j \in 1 .. q + 1 : str[p + j] = a[j]
  <2>1. p \in 0 .. Len(str) /\ Rest(str, p) = Join(a, b)
    BY <1>1
  <2> HIDE DEF p
  <2>2. \A j \in 1 .. Len(a) : str[p + j] = a[j]
    BY <1>1, <2>1, Drop, Zenon
  <2> QED
    BY <1>1, <2>2
<1>3. \A j \in 0 .. z - 1 : bf.mem[g + j] = str[p + j + 1]
  BY DEF Holds, Size, Pos
<1> HIDE DEF n, g, z, p
<1>4. \A j \in 1 .. q + 1 : j <= z => bf.mem[g + j - 1] = a[j]
  <2> TAKE j \in 1 .. q + 1
  <2> HAVE j <= z
  <2>1. j - 1 \in 0 .. z - 1 /\ p \in Int
    BY <1>1
  <2>2. bf.mem[g + (j - 1)] = str[p + (j - 1) + 1]
    BY <1>3, <2>1
  <2>3. g + (j - 1) = g + j - 1 /\ p + (j - 1) + 1 = p + j
    BY <1>1, <2>1
  <2> QED
    BY <1>2, <2>2, <2>3
<1>5. /\ a[q] = CR /\ a[q + 1] = LF
      /\ \A j \in 1 .. q - 1 : a[j] # CR
  <2>1. a[q] = CR /\ a[q + 1] = LF /\ \A j \in 1 .. q - 1 : a[j].k \in LineKinds \cup {"pad"}
    BY DEF Terminated
  <2> QED
    BY <2>1, EndBytes, Zenon
<1>6. \A c \in Crs : c \in Nat /\ g <= c /\ c < BufSize /\ bf.mem[c] = CR /\ (c - g < z => c - g + 1 >= q)
  <2> TAKE c \in Crs
  <2>1. c \in g .. BufSize - 1 /\ bf.mem[c] = CR
    BY DEF Crs, g
  <2>2. c \in Nat /\ g <= c /\ c < BufSize
    BY <1>1, <2>1
  <2>3. ASSUME c - g < z, c - g + 1 < q PROVE FALSE
    <3>1. (c - g + 1) \in 1 .. q - 1 /\ (c - g + 1) \in 1 .. q + 1 /\ c - g + 1 <= z
          /\ g + (c - g + 1) - 1 = c
      BY <1>1, <2>2, <2>3
    <3>2. bf.mem[c] = a[c - g + 1]
      BY <1>4, <3>1
    <3> QED
      BY <1>5, <2>1, <3>1, <3>2
  <2>4. c - g + 1 \in Int /\ q \in Int
    BY <1>1, <2>2
  <2> QED
    BY <2>1, <2>2, <2>3, <2>4
<1>7. ASSUME z >= q + 1
      PROVE  e \in LineEnds /\ \A c \in LineEnds : e <= c
  <2>1. q \in 1 .. q + 1 /\ q + 1 \in 1 .. q + 1 /\ g + (q + 1) - 1 = e + 1
        /\ e \in g .. BufSize - 1 /\ e + 1 < BufSize /\ z >= 2 /\ q <= z /\ e < g + (z - 1)
    BY <1>1, <1>7
  <2>2. bf.mem[e] = CR /\ bf.mem[e + 1] = LF
    BY <1>4, <1>5, <1>7, <2>1
  <2>3. e \in Crs
    BY <2>1, <2>2 DEF Crs, g
  <2>4. \A c \in Crs : e <= c
    BY <1>1, <1>6, <1>7
  <2>5. {d \in Crs : d < e} = {} /\ \A d \in {d \in Crs : d <= e} : d = e
    <3>1. e \in Nat
      BY <1>1
    <3>2. \A c \in Crs : c \in Nat
      BY <1>6
    <3> HIDE DEF e
    <3> QED
      BY <2>4, <3>1, <3>2
  <2>6. SearchFrom(e) = g
    BY <2>5, SearchFromStart DEF g
  <2>7. LookedAt(e)
    <3>1. \A d \in {x \in Crs : x <= e} : d < SearchFrom(d) + (z - 1) /\ SearchFrom(d) = g
      BY <2>1, <2>5, <2>6
    <3> QED
      BY <3>1 DEF LookedAt, g, z
  <2>8. e \in LineEnds
    BY <2>1, <2>2, <2>3, <2>7 DEF LineEnds, z
  <2>9. LineEnds \subseteq Crs
    BY DEF LineEnds
  <2> QED
    BY <2>4, <2>8, <2>9
<1>8. ASSUME ~(z >= q + 1), NEW c \in LineEnds PROVE FALSE
  <2>1. c \in Crs /\ LookedAt(c) /\ z >= 2
    BY DEF LineEnds, z
  <2> DEFINE S == {d \in Crs : d <= c}
  <2>2. S \in SUBSET Nat /\ c \in S
    BY <1>6, <2>1
  <2>3. PICK d \in S : \A x \in S : d <= x
    <3> HIDE DEF S
    <3> QED
      BY <2>2, Least
  <2>4. {x \in Crs : x < d} = {}
    BY <1>6, <2>1, <2>3
  <2>5. SearchFrom(d) = g
    BY <2>4, SearchFromStart DEF g
  <2>6. d < g + (z - 1)
    BY <2>1, <2>5 DEF LookedAt, z
  <2>7. d \in Nat /\ g <= d /\ (d - g < z => d - g + 1 >= q)
    BY <1>6
  <2> QED
    BY <1>1, <1>8, <2>6, <2>7
<1>9. HasLine <=> z >= q + 1
  BY <1>7, <1>8 DEF HasLine
<1>10. ASSUME HasLine PROVE LineEnd = e
  <2>1. e \in LineEnds /\ \A c \in LineEnds : e <= c
    BY <1>7, <1>9, <1>10
  <2>2. LineEnds \subseteq Nat
    BY <1>6 DEF LineEnds
  <2> HIDE DEF e
  <2>3. \A c \in LineEnds : (\A d \in LineEnds : c <= d) => c = e
    BY <2>1, <2>2
  <2>4. LineEnd = CHOOSE c \in LineEnds : \A d \in LineEnds : c <= d
    BY DEF LineEnd
  <2> QED
    BY <2>1, <2>3, <2>4
<1> QED
  BY <1>9, <1>10 DEF z, g

\* Its first byte is read, and what follows the line is the rest.
LEMMA LineRead ==
  ASSUME BufSize \in Nat, NEW str \in Seq(Bytes), Holds(str, bf, fed),
         NEW a, NEW q, Terminated(a, q), NEW b \in Seq(Bytes),
         Rest(str, Pos(bf, fed)) = Join(a, b)
  PROVE  /\ HasLine => /\ LineByte = IF q = 1 THEN NUL ELSE a[1]
                       /\ Holds(str, LineTaken, fed) /\ Rest(str, Pos(LineTaken, fed)) = b
                       /\ q + 1 <= BufSize /\ LineTaken.put = bf.put
                       /\ bf.get < LineTaken.get
         /\ ~HasLine => fed + Len(b) < Len(str) /\ Size <= q
<1> DEFINE n == Len(str)
           g == bf.get
           z == Size
           p == Pos(bf, fed)
           e == g + q - 1
           v == LineTaken
<1>1. /\ g \in Nat /\ z \in Nat /\ g + z <= BufSize /\ fed \in Nat /\ z <= fed /\ fed <= n
      /\ p = fed - z /\ q \in Nat /\ q >= 1 /\ Len(a) = q + 1 /\ a \in Seq(Bytes)
      /\ bf \in Buffers /\ bf.put = g + z /\ n \in Nat /\ Len(b) \in Nat
  BY DEF Holds, Buffers, Size, Pos, Terminated
<1>2. \A j \in 0 .. z - 1 : bf.mem[g + j] = str[p + j + 1]
  BY DEF Holds, Size, Pos
<1>3. p \in 0 .. n /\ Rest(str, p) = Join(a, b)
  BY <1>1
<1>4. (HasLine <=> z >= q + 1) /\ (HasLine => LineEnd = e)
  BY LineFound
<1> HIDE DEF n, g, z, p
<1>5. /\ Rest(str, p + (q + 1)) = b /\ p + (q + 1) = n - Len(b)
      /\ \A j \in 1 .. q + 1 : str[p + j] = a[j]
  <2>1. /\ Rest(str, p + Len(a)) = b /\ p + Len(a) = Len(str) - Len(b)
        /\ \A j \in 1 .. Len(a) : str[p + j] = a[j]
    <3>1. a \in Seq(Bytes) /\ p \in 0 .. Len(str)
      BY <1>1, <1>3 DEF n
    <3> QED
      BY <1>3, <3>1, Drop
  <2> QED
    BY <1>1, <2>1 DEF n
<1>6. ASSUME HasLine PROVE LineByte = IF q = 1 THEN NUL ELSE a[1]
  <2>1. z >= q + 1 /\ LineEnd = e
    BY <1>4, <1>6
  <2>2. LineEnd = g <=> q = 1
    BY <1>1, <2>1
  <2>3. 0 \in 0 .. z - 1 /\ 1 \in 1 .. q + 1 /\ g + 0 = g /\ p + 0 + 1 = p + 1
    BY <1>1, <2>1
  <2>4. bf.mem[g] = a[1]
    BY <1>2, <1>5, <2>3
  <2> QED
    BY <2>2, <2>4 DEF LineByte, g
<1>7. ASSUME HasLine
      PROVE  Holds(str, v, fed) /\ Rest(str, Pos(v, fed)) = b /\ v.put = bf.put /\ g < v.get
  <2>1. z >= q + 1
    BY <1>4, <1>7
  <2>2. v = [bf EXCEPT !.mem[e] = NUL, !.get = e + 2]
    <3>1. LineEnd = e
      BY <1>4, <1>7
    <3> HIDE DEF e
    <3> QED
      BY <3>1, Zenon DEF LineTaken
  <2>9. e + 2 = g + (q + 1) /\ e \in 0 .. BufSize - 1
    BY <1>1, <2>1
  <2> HIDE DEF v, e
  <2>3. /\ v.get = g + (q + 1) /\ v.put = g + z
        /\ v.mem = [bf.mem EXCEPT ![e] = NUL]
    BY <1>1, <2>2, <2>9 DEF Buffers
  <2>4. v \in Buffers
    <3>1. v.mem \in [0 .. BufSize - 1 -> Bytes]
      BY <1>1, <2>3, EndBytes DEF Buffers
    <3>2. v = [mem |-> [bf.mem EXCEPT ![e] = NUL], get |-> e + 2, put |-> bf.put]
      BY <1>1, <2>2 DEF Buffers
    <3>3. e + 2 \in Nat /\ bf.put \in Nat
      BY <1>1, <2>9
    <3> QED
      BY <2>3, <3>1, <3>2, <3>3 DEF Buffers
  <2>5. v.put - v.get = z - (q + 1)
    BY <1>1, <2>3
  <2>6. \A j \in 0 .. z - (q + 1) - 1 : v.mem[g + (q + 1) + j] = str[fed - (z - (q + 1)) + j + 1]
    <3> TAKE j \in 0 .. z - (q + 1) - 1
    <3>1. /\ (q + 1) + j \in 0 .. z - 1 /\ g + (q + 1) + j = g + ((q + 1) + j)
          /\ p + ((q + 1) + j) + 1 = fed - (z - (q + 1)) + j + 1
          /\ g + (q + 1) + j # e /\ g + (q + 1) + j \in 0 .. BufSize - 1
      BY <1>1, <2>1, <2>9
    <3>2. v.mem[g + (q + 1) + j] = bf.mem[g + (q + 1) + j]
      BY <1>1, <2>3, <3>1 DEF Buffers
    <3> QED
      BY <1>2, <3>1, <3>2
  <2>7. Holds(str, v, fed)
    <3>1. v.get <= v.put /\ v.put <= BufSize /\ v.put - v.get <= fed
      BY <1>1, <2>1, <2>3, <2>5
    <3> QED
      BY <1>1, <2>3, <2>4, <2>5, <2>6, <3>1 DEF Holds, n
  <2>8. Pos(v, fed) = p + (q + 1)
    BY <1>1, <2>5 DEF Pos
  <2> QED
    BY <1>1, <1>5, <2>3, <2>7, <2>8
<1>8. HasLine => q + 1 <= BufSize
  BY <1>1, <1>4
<1>9. ~HasLine => fed + Len(b) < n /\ z <= q
  BY <1>1, <1>4, <1>5
<1> QED
  BY <1>6, <1>7, <1>8, <1>9 DEF n, g, z

\* Behind the last request there is nothing that could be a line.
LEMMA NothingThere ==
  ASSUME BufSize \in Nat, NEW str \in Seq(Bytes), Holds(str, bf, fed),
         Rest(str, Pos(bf, fed)) = <<>>
  PROVE  Size = 0 /\ ~HasLine
<1>1. /\ Size \in Nat /\ fed \in Nat /\ Size <= fed /\ fed <= Len(str)
      /\ Pos(bf, fed) = fed - Size
  BY DEF Holds, Buffers, Size, Pos
<1>2. Pos(bf, fed) \in 0 .. Len(str)
  BY <1>1
<1>3. Len(str) - Pos(bf, fed) = 0
  BY <1>2, RestIs
<1>4. Size = 0
  BY <1>1, <1>3
<1> QED
  BY <1>4 DEF HasLine, LineEnds

LEMMA CompactHolds ==
  ASSUME BufSize \in Nat, NEW str \in Seq(Bytes), NEW b, NEW f, Holds(str, b, f)
  PROVE  /\ Holds(str, BF_compact(b), f) /\ Pos(BF_compact(b), f) = Pos(b, f)
         /\ BF_compact(b).get = 0 /\ BF_compact(b).put = b.put - b.get
<1> DEFINE z == b.put - b.get
           v == BF_compact(b)
<1>1. /\ b \in Buffers /\ b.get \in Nat /\ b.put \in Nat /\ b.get <= b.put /\ b.put <= BufSize
      /\ z \in Nat /\ f \in Nat /\ b.mem \in [0 .. BufSize - 1 -> Bytes]
      /\ z <= f /\ f <= Len(str) /\ z <= BufSize
  BY DEF Holds, Buffers
<1>2. \A j \in 0 .. z - 1 : b.mem[b.get + j] = str[f - z + j + 1]
  BY DEF Holds
<1>3. /\ v.get = 0 /\ v.put = z
      /\ v.mem = [i \in 0 .. BufSize - 1 |-> IF i < z THEN b.mem[b.get + i] ELSE b.mem[i]]
  BY <1>1 DEF BF_compact
<1>4. v.mem \in [0 .. BufSize - 1 -> Bytes]
  <2>1. \A i \in 0 .. BufSize - 1 : i < z => b.get + i \in 0 .. BufSize - 1
    BY <1>1
  <2> HIDE DEF v
  <2> QED
    BY <1>1, <1>3, <2>1
<1>5. v \in Buffers
  BY <1>1, <1>3, <1>4 DEF Buffers, BF_compact
<1> HIDE DEF v
<1>6. v.put - v.get = z
  BY <1>1, <1>3
<1>7. \A j \in 0 .. z - 1 : v.mem[v.get + j] = str[f - z + j + 1]
  <2> TAKE j \in 0 .. z - 1
  <2>1. j \in 0 .. BufSize - 1 /\ j < z /\ v.get + j = j
    BY <1>1, <1>3
  <2> QED
    BY <1>2, <1>3, <2>1
<1> HIDE DEF z
<1>8. Holds(str, v, f)
  <2>1. v.get <= v.put /\ v.put <= BufSize
    BY <1>1, <1>3
  <2> QED
    BY <1>1, <1>5, <1>6, <1>7, <2>1 DEF Holds
<1>9. Pos(v, f) = Pos(b, f)
  BY <1>6 DEF Pos, z
<1> QED
  BY <1>3, <1>8, <1>9 DEF v, z

-----------------------------------------------------------------------------
(* Sizes of chunks *)

Counts(f, cs, n) == f[0] = 0 /\ \A i \in 1 .. n : f[i] = f[i - 1] + cs[i]

LEMMA BeforeCounts ==
  ASSUME NEW cs, NEW n \in Nat
  PROVE  \E f : Counts(f, cs, n) /\ Before(cs, n + 1) = f[n]
<1> DEFINE F(f, i) == IF i = 0 THEN 0 ELSE f[i - 1] + cs[i]
           T == {m \in Nat : \E f : f = [i \in 0 .. m |-> F(f, i)]}
           N == (n + 1) - 1
           sum == CHOOSE f : f = [i \in 0 .. N |-> F(f, i)]
<1>1. Before(cs, n + 1) = sum[N]
  BY Zenon DEF Before
<1>2. 0 \in T
  <2> DEFINE f == [i \in 0 .. 0 |-> 0]
  <2>1. f = [i \in 0 .. 0 |-> F(f, i)]
    OBVIOUS
  <2> QED
    BY <2>1
<1>3. ASSUME NEW m \in T PROVE m + 1 \in T
  <2>1. PICK f : f = [i \in 0 .. m |-> F(f, i)]
    OBVIOUS
  <2>2. m \in Nat
    OBVIOUS
  <2> DEFINE h == [i \in 0 .. m + 1 |-> F(f, i)]
  <2>3. \A i \in 0 .. m : f[i] = F(f, i)
    BY <2>1
  <2> HIDE DEF T
  <2>4. \A i \in 0 .. m + 1 : F(h, i) = F(f, i)
    <3> SUFFICES ASSUME NEW i \in 0 .. m + 1, i # 0 PROVE h[i - 1] = f[i - 1]
      OBVIOUS
    <3>1. i - 1 \in 0 .. m /\ i - 1 \in 0 .. m + 1
      BY <2>2
    <3> HIDE DEF F
    <3> QED
      BY <3>1, <2>3
  <2>5. h = [i \in 0 .. m + 1 |-> F(h, i)]
    BY <2>4
  <2> HIDE DEF F, h
  <2>6. \E g : g = [i \in 0 .. m + 1 |-> F(g, i)]
    BY <2>5
  <2> QED
    BY <2>2, <2>6 DEF T
<1>4. n \in T
  <2> HIDE DEF T
  <2>1. T \in SUBSET Nat
    BY DEF T
  <2> QED
    BY <1>2, <1>3, <2>1, Induct
<1>5. N = n
  OBVIOUS
<1> HIDE DEF N
<1>6. \E f : f = [i \in 0 .. N |-> F(f, i)]
  <2>1. N \in T
    BY <1>4, <1>5
  <2> HIDE DEF F
  <2> QED
    BY <2>1
<1>7. sum = [i \in 0 .. N |-> F(sum, i)]
  <2> HIDE DEF F
  <2> QED
    BY <1>6, Zenon
<1> HIDE DEF sum
<1>8. \A i \in 0 .. n : sum[i] = F(sum, i)
  BY <1>5, <1>7
<1>9. Counts(sum, cs, n)
  BY <1>8 DEF Counts
<1> QED
  BY <1>1, <1>5, <1>9

LEMMA CountsTyped ==
  ASSUME NEW n \in Nat, NEW cs, NEW f, Counts(f, cs, n), \A i \in 1 .. n : cs[i] \in Nat
  PROVE  \A i \in 0 .. n : f[i] \in Nat
<1> DEFINE T == {i \in Nat : i <= n => f[i] \in Nat}
<1>1. 0 \in T
  BY DEF Counts
<1>2. \A i \in T : i + 1 \in T
  <2> SUFFICES ASSUME NEW i \in T, i + 1 <= n PROVE f[i + 1] \in Nat
    OBVIOUS
  <2>1. i + 1 \in 1 .. n /\ (i + 1) - 1 = i /\ f[i] \in Nat
    OBVIOUS
  <2>2. f[i + 1] = f[i] + cs[i + 1] /\ cs[i + 1] \in Nat
    BY <2>1 DEF Counts
  <2> HIDE DEF T
  <2> QED
    BY <2>1, <2>2
<1>3. T = Nat
  <2> HIDE DEF T
  <2>1. T \in SUBSET Nat
    BY DEF T
  <2> QED
    BY <1>1, <1>2, <2>1, Induct
<1> QED
  BY <1>3

LEMMA CountsSame ==
  ASSUME NEW n \in Nat, NEW cs, NEW f, NEW g, Counts(f, cs, n), Counts(g, cs, n)
  PROVE  f[n] = g[n]
<1> DEFINE T == {i \in Nat : i <= n => f[i] = g[i]}
<1>1. 0 \in T
  BY DEF Counts
<1>2. \A i \in T : i + 1 \in T
  <2> SUFFICES ASSUME NEW i \in T, i + 1 <= n PROVE f[i + 1] = g[i + 1]
    OBVIOUS
  <2>1. i + 1 \in 1 .. n /\ (i + 1) - 1 = i /\ f[i] = g[i]
    OBVIOUS
  <2>2. f[i + 1] = f[i] + cs[i + 1] /\ g[i + 1] = g[i] + cs[i + 1]
    BY <2>1 DEF Counts
  <2> QED
    BY <2>1, <2>2
<1>3. T = Nat
  <2> HIDE DEF T
  <2>1. T \in SUBSET Nat
    BY DEF T
  <2> QED
    BY <1>1, <1>2, <2>1, Induct
<1> QED
  BY <1>3

LEMMA BeforeIs ==
  ASSUME NEW cs \in Seq(Nat \ {0})
  PROVE  /\ Before(cs, 1) = 0
         /\ \A i \in 1 .. Len(cs) : Before(cs, i + 1) = Before(cs, i) + cs[i]
         /\ \A i \in 1 .. Len(cs) + 1 : Before(cs, i) \in Nat
         /\ \A i \in 1 .. Len(cs) + 1 : Before(cs, i) <= Before(cs, Len(cs) + 1)
<1> DEFINE n == Len(cs)
<1>1. n \in Nat /\ \A i \in 1 .. n : cs[i] \in Nat
  OBVIOUS
<1>2. PICK f : Counts(f, cs, n) /\ Before(cs, n + 1) = f[n]
  BY <1>1, BeforeCounts
<1> HIDE DEF n
<1>3. \A i \in 0 .. n : f[i] \in Nat
  BY <1>1, <1>2, CountsTyped
<1>4. \A i \in 0 .. n : Before(cs, i + 1) = f[i]
  <2> TAKE i \in 0 .. n
  <2>1. i \in Nat /\ \A j \in 1 .. i : j \in 1 .. n
    BY <1>1
  <2>2. PICK g : Counts(g, cs, i) /\ Before(cs, i + 1) = g[i]
    BY <2>1, BeforeCounts
  <2>3. Counts(f, cs, i)
    BY <1>2, <2>1 DEF Counts
  <2> QED
    BY <2>1, <2>2, <2>3, CountsSame
<1>5. \A i \in 0 .. n : f[i] <= f[n]
  <2> DEFINE T == {k \in Nat : k <= n => f[n - k] <= f[n]}
  <2>1. 0 \in T
    <3>1. n - 0 = n /\ f[n] \in Nat
      BY <1>1, <1>3
    <3> QED
      BY <3>1
  <2>2. \A k \in T : k + 1 \in T
    <3> SUFFICES ASSUME NEW k \in T, k + 1 <= n PROVE f[n - (k + 1)] <= f[n]
      OBVIOUS
    <3>1. k \in Nat /\ f[n - k] <= f[n]
      BY <1>1
    <3> HIDE DEF T
    <3>2. n - k \in 1 .. n /\ (n - k) - 1 = n - (k + 1) /\ n - (k + 1) \in 0 .. n /\ n - k \in 0 .. n
          /\ n \in 0 .. n
      BY <1>1, <3>1
    <3>3. f[n - k] = f[n - (k + 1)] + cs[n - k]
      BY <1>2, <3>2 DEF Counts
    <3>4. f[n - k] \in Nat /\ f[n - (k + 1)] \in Nat /\ cs[n - k] \in Nat /\ f[n] \in Nat
      BY <1>1, <1>3, <3>2
    <3> QED
      BY <3>1, <3>3, <3>4
  <2>3. T = Nat
    <3> HIDE DEF T
    <3>1. T \in SUBSET Nat
      BY DEF T
    <3> QED
      BY <2>1, <2>2, <3>1, Induct
  <2> TAKE i \in 0 .. n
  <2>4. n - i \in Nat /\ n - i <= n /\ n - (n - i) = i
    BY <1>1
  <2> QED
    BY <2>3, <2>4
<1>6. Before(cs, 1) = 0
  <2>1. 0 \in 0 .. n /\ 0 + 1 = 1
    BY <1>1
  <2> QED
    BY <1>2, <1>4, <2>1 DEF Counts
<1>7. \A i \in 1 .. n : Before(cs, i + 1) = Before(cs, i) + cs[i]
  <2> TAKE i \in 1 .. n
  <2>1. i - 1 \in 0 .. n /\ i \in 0 .. n /\ (i - 1) + 1 = i
    BY <1>1
  <2>2. Before(cs, (i - 1) + 1) = f[i - 1] /\ Before(cs, i + 1) = f[i]
    BY <1>4, <2>1
  <2>3. f[i] = f[i - 1] + cs[i]
    BY <1>2 DEF Counts
  <2> QED
    BY <2>1, <2>2, <2>3
<1>8. \A i \in 1 .. n + 1 : Before(cs, i) \in Nat /\ Before(cs, i) <= Before(cs, n + 1)
  <2> TAKE i \in 1 .. n + 1
  <2>1. i - 1 \in 0 .. n /\ n \in 0 .. n /\ (i - 1) + 1 = i
    BY <1>1
  <2>2. Before(cs, (i - 1) + 1) = f[i - 1] /\ Before(cs, n + 1) = f[n]
    BY <1>4, <2>1
  <2> QED
    BY <1>3, <1>5, <2>1, <2>2
<1> QED
  BY <1>6, <1>7, <1>8 DEF n

-----------------------------------------------------------------------------
(* What is left of a request *)

LEMMA BodyBytesIs ==
  ASSUME NEW from \in Nat, NEW n \in Nat
  PROVE  /\ BodyBytes(from, n) \in Seq(Bytes) /\ Len(BodyBytes(from, n)) = n
         /\ \A i \in 1 .. n : BodyBytes(from, n)[i] = Byte("data", from + i)
         /\ n = 0 => BodyBytes(from, n) = <<>>
<1>1. \A i \in 1 .. n : Byte("data", from + i) \in Bytes
  BY DEF Byte, Bytes
<1>2. BodyBytes(from, n) \in Seq(Bytes) /\ Len(BodyBytes(from, n)) = n
      /\ \A i \in 1 .. n : BodyBytes(from, n)[i] = Byte("data", from + i)
  BY <1>1 DEF BodyBytes
<1> QED
  BY <1>2, EmptySeq

LEMMA BodyBytesJoin ==
  ASSUME NEW from \in Nat, NEW m \in Nat, NEW n \in Nat
  PROVE  Join(BodyBytes(from, m), BodyBytes(from + m, n)) = BodyBytes(from, m + n)
<1> DEFINE a == BodyBytes(from, m)
           b == BodyBytes(from + m, n)
           c == BodyBytes(from, m + n)
<1>1. /\ a \in Seq(Bytes) /\ Len(a) = m /\ \A i \in 1 .. m : a[i] = Byte("data", from + i)
      /\ b \in Seq(Bytes) /\ Len(b) = n /\ \A i \in 1 .. n : b[i] = Byte("data", (from + m) + i)
      /\ c \in Seq(Bytes) /\ Len(c) = m + n
      /\ \A i \in 1 .. m + n : c[i] = Byte("data", from + i)
  <2>1. from + m \in Nat /\ m + n \in Nat
    OBVIOUS
  <2>2. /\ a \in Seq(Bytes) /\ Len(a) = m /\ \A i \in 1 .. m : a[i] = Byte("data", from + i)
    BY BodyBytesIs
  <2>3. /\ b \in Seq(Bytes) /\ Len(b) = n /\ \A i \in 1 .. n : b[i] = Byte("data", (from + m) + i)
    BY <2>1, BodyBytesIs
  <2>4. /\ c \in Seq(Bytes) /\ Len(c) = m + n
        /\ \A i \in 1 .. m + n : c[i] = Byte("data", from + i)
    BY <2>1, BodyBytesIs
  <2> QED
    BY <2>2, <2>3, <2>4
<1> HIDE DEF a, b, c
<1>2. /\ Join(a, b) \in Seq(Bytes) /\ Len(Join(a, b)) = m + n
      /\ \A i \in 1 .. m + n : Join(a, b)[i] = IF i <= m THEN a[i] ELSE b[i - m]
  BY <1>1, ConcatProperties DEF Join
<1>3. \A i \in 1 .. m + n : Join(a, b)[i] = c[i]
  <2> TAKE i \in 1 .. m + n
  <2>1. CASE i <= m
    <3>1. i \in 1 .. m
      BY <2>1
    <3> QED
      BY <1>1, <1>2, <2>1, <3>1
  <2>2. CASE ~(i <= m)
    <3>1. i - m \in 1 .. n /\ (from + m) + (i - m) = from + i
      BY <2>2
    <3> QED
      BY <1>1, <1>2, <2>2, <3>1
  <2> QED
    BY <2>1, <2>2
<1>4. Join(a, b) = c
  BY <1>1, <1>2, <1>3, SeqEqual
<1> QED
  BY <1>4 DEF a, b, c

\* What is left of a list of pieces in front of z when i of them are gone.
Left(ls, i, z) == Join(After(ls, i), z)

LEMMA LeftIs ==
  ASSUME NEW ls \in Seq(Seq(Bytes)), NEW z \in Seq(Bytes)
  PROVE  /\ \A i \in 0 .. Len(ls) : Left(ls, i, z) \in Seq(Bytes) /\ Len(Left(ls, i, z)) >= Len(z)
         /\ \A i \in 0 .. Len(ls) : i < Len(ls) => Left(ls, i, z) = Join(ls[i + 1], Left(ls, i + 1, z))
         /\ Left(ls, Len(ls), z) = z
         /\ Left(ls, 0, z) = Join(Concat(ls), z)
<1>1. /\ \A a, b \in Seq(Bytes) : Join(a, b) \in Seq(Bytes) /\ Len(Join(a, b)) = Len(a) + Len(b)
      /\ \A a \in Seq(Bytes) : Join(a, <<>>) = a /\ Join(<<>>, a) = a
      /\ \A a, b, c \in Seq(Bytes) : Join(Join(a, b), c) = Join(a, Join(b, c))
  BY JoinFacts
<1>2. \A i \in 0 .. Len(ls) : After(ls, i) \in Seq(Bytes)
  BY AfterTyped
<1>3. \A i \in 0 .. Len(ls) : Left(ls, i, z) \in Seq(Bytes) /\ Len(Left(ls, i, z)) >= Len(z)
  <2> TAKE i \in 0 .. Len(ls)
  <2>1. Left(ls, i, z) \in Seq(Bytes) /\ Len(Left(ls, i, z)) = Len(After(ls, i)) + Len(z)
    BY <1>1, <1>2 DEF Left
  <2>2. Len(After(ls, i)) \in Nat /\ Len(z) \in Nat
    BY <1>2
  <2> QED
    BY <2>1, <2>2
<1>4. ASSUME NEW i \in 0 .. Len(ls), i < Len(ls)
      PROVE  Left(ls, i, z) = Join(ls[i + 1], Left(ls, i + 1, z))
  <2>1. i \in Nat /\ i + 1 \in 0 .. Len(ls) /\ i + 1 \in 1 .. Len(ls)
    BY <1>4
  <2>2. After(ls, i) = Join(ls[i + 1], After(ls, i + 1))
    BY <1>4, <2>1, AfterFirst
  <2>3. ls[i + 1] \in Seq(Bytes) /\ After(ls, i + 1) \in Seq(Bytes)
    BY <1>2, <2>1
  <2>4. Join(Join(ls[i + 1], After(ls, i + 1)), z) = Join(ls[i + 1], Join(After(ls, i + 1), z))
    <3>1. \A a, b, c \in Seq(Bytes) : Join(Join(a, b), c) = Join(a, Join(b, c))
      BY <1>1
    <3> QED
      BY <2>3, <3>1, Zenon
  <2> QED
    BY <2>2, <2>4, Zenon DEF Left
<1>5. Left(ls, Len(ls), z) = z /\ Left(ls, 0, z) = Join(Concat(ls), z)
  <2>1. After(ls, 0) = Concat(ls) /\ After(ls, Len(ls)) = <<>>
    BY AfterEnds
  <2> QED
    BY <1>1, <2>1, Zenon DEF Left
<1> QED
  BY <1>3, <1>4, <1>5

LinesOf(hs)  == [i \in 1 .. Len(hs) |-> Line(hs[i][1], hs[i][2], hs[i][3])]
ChunksOf(cs) == [i \in 1 .. Len(cs) |->
                   Line("size", cs[i], 0) \o BodyBytes(Before(cs, i), cs[i]) \o <<CR, LF>>]

LEMMA LinesOfAre ==
  ASSUME NEW hs \in Seq(Lines)
  PROVE  /\ LinesOf(hs) \in Seq(Seq(Bytes)) /\ Len(LinesOf(hs)) = Len(hs)
         /\ HeaderLines(hs) = Concat(LinesOf(hs))
         /\ \A i \in 1 .. Len(hs) :
              /\ hs[i][1] \in HeaderKinds \cup {"junk"} /\ hs[i][2] \in Nat /\ hs[i][3] \in Nat
              /\ Terminated(LinesOf(hs)[i], hs[i][3] + 2)
              /\ LinesOf(hs)[i][1] = Byte(hs[i][1], hs[i][2])
<1>1. \A i \in 1 .. Len(hs) :
        /\ hs[i][1] \in HeaderKinds \cup {"junk"} /\ hs[i][2] \in Nat /\ hs[i][3] \in Nat
  BY DEF Lines
<1>2. \A i \in 1 .. Len(hs) : LinesOf(hs)[i] = Line(hs[i][1], hs[i][2], hs[i][3])
  BY DEF LinesOf
<1>3. ASSUME NEW i \in 1 .. Len(hs)
      PROVE  /\ Terminated(LinesOf(hs)[i], hs[i][3] + 2)
             /\ LinesOf(hs)[i][1] = Byte(hs[i][1], hs[i][2])
  <2>1. hs[i][1] \in LineKinds
    BY <1>1 DEF LineKinds
  <2> QED
    <3>1. hs[i][2] \in Nat /\ hs[i][3] \in Nat
      BY <1>1
    <3>2. /\ Terminated(Line(hs[i][1], hs[i][2], hs[i][3]), hs[i][3] + 2)
          /\ Line(hs[i][1], hs[i][2], hs[i][3])[1] = Byte(hs[i][1], hs[i][2])
      BY <2>1, <3>1, LineIsTerminated
    <3> QED
      BY <1>2, <3>2
<1>4. \A i \in 1 .. Len(hs) : LinesOf(hs)[i] \in Seq(Bytes)
  BY <1>3, Zenon DEF Terminated
<1>5. LinesOf(hs) \in Seq(Seq(Bytes)) /\ Len(LinesOf(hs)) = Len(hs)
  <2>1. LinesOf(hs) = [i \in 1 .. Len(hs) |-> LinesOf(hs)[i]]
    BY DEF LinesOf
  <2> DEFINE f(i) == LinesOf(hs)[i]
  <2>2. \A i \in 1 .. Len(hs) : f(i) \in Seq(Bytes)
    BY <1>4
  <2>3. LinesOf(hs) = [i \in 1 .. Len(hs) |-> f(i)]
    BY <2>1
  <2> HIDE DEF f
  <2> QED
    BY <2>2, <2>3
<1>6. HeaderLines(hs) = Concat(LinesOf(hs))
  BY DEF HeaderLines, LinesOf
<1> QED
  BY <1>1, <1>3, <1>5, <1>6

-----------------------------------------------------------------------------
LEMMA JoinFive ==
  ASSUME NEW a \in Seq(Bytes), NEW b \in Seq(Bytes), NEW c \in Seq(Bytes),
         NEW d \in Seq(Bytes), NEW y \in Seq(Bytes)
  PROVE  /\ Join(Join(Join(a, b), c), d) \in Seq(Bytes)
         /\ Join(Join(Join(Join(a, b), c), d), y) = Join(a, Join(b, Join(c, Join(d, y))))
<1> DEFINE ab  == Join(a, b)
           abc == Join(ab, c)
           dy  == Join(d, y)
           cdy == Join(c, dy)
<1>1. \A u, v \in Seq(Bytes) : Join(u, v) \in Seq(Bytes)
  BY JoinFacts
<1>2. \A u, v, w \in Seq(Bytes) : Join(Join(u, v), w) = Join(u, Join(v, w))
  BY JoinFacts
<1>3. ab \in Seq(Bytes) /\ dy \in Seq(Bytes)
  BY <1>1, Zenon
<1>4. abc \in Seq(Bytes) /\ cdy \in Seq(Bytes)
  <2> HIDE DEF ab, dy
  <2> QED
    BY <1>1, <1>3, Zenon
<1>5. Join(abc, d) \in Seq(Bytes) /\ Join(Join(abc, d), y) = Join(abc, dy)
  <2> HIDE DEF abc
  <2> QED
    BY <1>1, <1>2, <1>4
<1>6. Join(abc, dy) = Join(ab, cdy)
  <2> HIDE DEF ab, dy
  <2> QED
    BY <1>2, <1>3
<1>7. Join(ab, cdy) = Join(a, Join(b, cdy))
  <2> HIDE DEF cdy
  <2> QED
    BY <1>2, <1>4
<1> QED
  BY <1>5, <1>6, <1>7, Zenon

LEMMA JoinFour ==
  ASSUME NEW a \in Seq(Bytes), NEW b \in Seq(Bytes), NEW c \in Seq(Bytes), NEW y \in Seq(Bytes)
  PROVE  Join(Join(Join(a, b), c), y) = Join(a, Join(b, Join(c, y)))
<1> DEFINE ab == Join(a, b)
           cy == Join(c, y)
<1>1. \A u, v \in Seq(Bytes) : Join(u, v) \in Seq(Bytes)
  BY JoinFacts
<1>2. \A u, v, w \in Seq(Bytes) : Join(Join(u, v), w) = Join(u, Join(v, w))
  BY JoinFacts
<1>3. ab \in Seq(Bytes) /\ cy \in Seq(Bytes)
  BY <1>1, Zenon
<1>4. Join(Join(ab, c), y) = Join(ab, cy)
  <2> HIDE DEF ab
  <2> QED
    BY <1>2, <1>3, ZenonT(30)
<1>5. Join(ab, cy) = Join(a, Join(b, cy))
  <2> HIDE DEF cy
  <2> QED
    BY <1>2, <1>3, ZenonT(30)
<1> QED
  BY <1>4, <1>5, Zenon

LEMMA ChunksOfAre ==
  ASSUME NEW cs \in Seq(Nat \ {0})
  PROVE  /\ ChunksOf(cs) \in Seq(Seq(Bytes)) /\ Len(ChunksOf(cs)) = Len(cs)
         /\ \A i \in 1 .. Len(cs) :
              /\ cs[i] \in Nat \ {0} /\ Before(cs, i) \in Nat
              /\ ChunksOf(cs)[i] = Join(Join(Line("size", cs[i], 0), BodyBytes(Before(cs, i), cs[i])), Blank)
<1> DEFINE f(i) == Join(Join(Line("size", cs[i], 0), BodyBytes(Before(cs, i), cs[i])), Blank)
<1>1. \A i \in 1 .. Len(cs) : cs[i] \in Nat \ {0} /\ cs[i] \in Nat /\ Before(cs, i) \in Nat
  <2> TAKE i \in 1 .. Len(cs)
  <2>1. i \in 1 .. Len(cs) + 1
    OBVIOUS
  <2> QED
    BY <2>1, BeforeIs
<1>2. ChunksOf(cs) = [i \in 1 .. Len(cs) |-> f(i)]
  BY DEF ChunksOf, Join, Blank
<1>3. ASSUME NEW i \in 1 .. Len(cs) PROVE f(i) \in Seq(Bytes)
  <2>1. Line("size", cs[i], 0) \in Seq(Bytes)
    <3>1. "size" \in LineKinds /\ cs[i] \in Nat /\ 0 \in Nat
      BY <1>1 DEF LineKinds
    <3> QED
      BY <3>1, LineIsTerminated DEF Terminated
  <2>2. BodyBytes(Before(cs, i), cs[i]) \in Seq(Bytes) /\ Blank \in Seq(Bytes)
    BY <1>1, BodyBytesIs, BlankIsTerminated DEF Terminated
  <2>3. \A u, v \in Seq(Bytes) : Join(u, v) \in Seq(Bytes)
    BY JoinFacts
  <2> QED
    BY <2>1, <2>2, <2>3, Zenon
<1> HIDE DEF f
<1>4. ChunksOf(cs) \in Seq(Seq(Bytes)) /\ Len(ChunksOf(cs)) = Len(cs)
      /\ \A i \in 1 .. Len(cs) : ChunksOf(cs)[i] = f(i)
  BY <1>2, <1>3
<1> QED
  BY <1>1, <1>4 DEF f

-----------------------------------------------------------------------------
(* What is left of request r, in front of y *)

TrailerLeft(r, i, y) == Left(LinesOf(r.trailer), i, Join(Blank, y))
ChunksLeft(r, c, y)  == Left(ChunksOf(r.chunks), c, Join(Line("size", 0, 0), TrailerLeft(r, 0, y)))
Body(r, y)           == IF Has(r, "chunked") THEN ChunksLeft(r, 0, y)
                        ELSE Join(BodyBytes(0, BodySize(r)), y)
HeadersLeft(r, i, y) == Left(LinesOf(r.headers), i, Join(Blank, Body(r, y)))

\* The pieces that are not in a list.
LEMMA Pieces ==
  ASSUME NEW r, IsRequest(r)
  PROVE  /\ Blank \in Seq(Bytes) /\ Len(Blank) = 2
         /\ Terminated(Line("size", 0, 0), 2) /\ Line("size", 0, 0)[1] = Byte("size", 0)
         /\ Terminated(Line("req", r.version, 0), 2)
         /\ Line("req", r.version, 0)[1] = Byte("req", r.version)
         /\ Line("size", 0, 0) \in Seq(Bytes) /\ Line("req", r.version, 0) \in Seq(Bytes)
         /\ BodySize(r) \in Nat /\ BodyBytes(0, BodySize(r)) \in Seq(Bytes)
         /\ r.headers \in Seq(Lines) /\ r.trailer \in Seq(Lines) /\ r.chunks \in Seq(Nat \ {0})
         /\ r.version \in 0 .. 2
<1>1. /\ r.headers \in Seq(Lines) /\ r.trailer \in Seq(Lines) /\ r.chunks \in Seq(Nat \ {0})
      /\ r.version \in 0 .. 2
  BY DEF IsRequest
<1>2. "size" \in LineKinds /\ "req" \in LineKinds /\ r.version \in Nat /\ 0 \in Nat /\ 0 + 2 = 2
  BY <1>1 DEF LineKinds
<1>3. /\ Terminated(Line("size", 0, 0), 2) /\ Line("size", 0, 0)[1] = Byte("size", 0)
  <2>1. /\ Terminated(Line("size", 0, 0), 0 + 2) /\ Line("size", 0, 0)[1] = Byte("size", 0)
    BY <1>2, LineIsTerminated
  <2> QED
    BY <1>2, <2>1, Zenon
<1>4. /\ Terminated(Line("req", r.version, 0), 2)
      /\ Line("req", r.version, 0)[1] = Byte("req", r.version)
  <2>1. /\ Terminated(Line("req", r.version, 0), 0 + 2)
        /\ Line("req", r.version, 0)[1] = Byte("req", r.version)
    <3> DEFINE v == r.version
    <3>1. v \in Nat /\ "req" \in LineKinds
      BY <1>2
    <3> HIDE DEF v
    <3>2. Terminated(Line("req", v, 0), 0 + 2) /\ Line("req", v, 0)[1] = Byte("req", v)
      BY <3>1, LineIsTerminated
    <3> QED
      BY <3>2 DEF v
  <2> QED
    BY <1>2, <2>1, Zenon
<1>5. Line("size", 0, 0) \in Seq(Bytes) /\ Line("req", r.version, 0) \in Seq(Bytes)
  BY <1>3, <1>4 DEF Terminated
<1>6. Blank \in Seq(Bytes) /\ Len(Blank) = 2
  BY BlankIsTerminated DEF Terminated
<1>7. BodySize(r) \in Nat
  <2>1. Len(r.chunks) + 1 \in 1 .. Len(r.chunks) + 1
    BY <1>1
  <2> QED
    BY <1>1, <2>1, BeforeIs DEF BodySize
<1>8. BodyBytes(0, BodySize(r)) \in Seq(Bytes)
  BY <1>7, BodyBytesIs
<1> QED
  BY <1>1, <1>3, <1>4, <1>5, <1>6, <1>7, <1>8

LEMMA TrailerIs ==
  ASSUME NEW r, IsRequest(r), NEW y \in Seq(Bytes)
  PROVE  /\ \A i \in 0 .. Len(r.trailer) : /\ TrailerLeft(r, i, y) \in Seq(Bytes)
                                           /\ Len(TrailerLeft(r, i, y)) >= Len(y)
         /\ \A i \in 0 .. Len(r.trailer) : i < Len(r.trailer) =>
              TrailerLeft(r, i, y) = Join(LinesOf(r.trailer)[i + 1], TrailerLeft(r, i + 1, y))
         /\ TrailerLeft(r, Len(r.trailer), y) = Join(Blank, y)
<1> DEFINE z == Join(Blank, y)
           ls == LinesOf(r.trailer)
<1>1. z \in Seq(Bytes) /\ Len(z) = 2 + Len(y)
  <2>1. \A u, v \in Seq(Bytes) : Join(u, v) \in Seq(Bytes) /\ Len(Join(u, v)) = Len(u) + Len(v)
    BY JoinFacts
  <2>2. Blank \in Seq(Bytes) /\ Len(Blank) = 2
    BY Pieces
  <2> QED
    BY <2>1, <2>2
<1>2. ls \in Seq(Seq(Bytes)) /\ Len(ls) = Len(r.trailer)
  BY Pieces, LinesOfAre
<1>3. \A i : TrailerLeft(r, i, y) = Left(ls, i, z)
  BY DEF TrailerLeft
<1> HIDE DEF z, ls
<1>4. /\ \A i \in 0 .. Len(ls) : Left(ls, i, z) \in Seq(Bytes) /\ Len(Left(ls, i, z)) >= Len(z)
      /\ \A i \in 0 .. Len(ls) : i < Len(ls) => Left(ls, i, z) = Join(ls[i + 1], Left(ls, i + 1, z))
      /\ Left(ls, Len(ls), z) = z
  BY <1>1, <1>2, LeftIs
<1>5. ASSUME NEW i \in 0 .. Len(r.trailer)
      PROVE  TrailerLeft(r, i, y) \in Seq(Bytes) /\ Len(TrailerLeft(r, i, y)) >= Len(y)
  <2>1. Left(ls, i, z) \in Seq(Bytes) /\ Len(Left(ls, i, z)) >= Len(z)
    BY <1>2, <1>4
  <2>2. Len(Left(ls, i, z)) \in Nat /\ Len(y) \in Nat
    BY <2>1
  <2> QED
    BY <1>1, <1>3, <2>1, <2>2
<1> QED
  BY <1>2, <1>3, <1>4, <1>5 DEF ls, z

LEMMA ChunksAre ==
  ASSUME NEW r, IsRequest(r), NEW y \in Seq(Bytes)
  PROVE  /\ \A c \in 0 .. Len(r.chunks) : /\ ChunksLeft(r, c, y) \in Seq(Bytes)
                                          /\ Len(ChunksLeft(r, c, y)) >= Len(y)
         /\ \A c \in 0 .. Len(r.chunks) : c < Len(r.chunks) =>
              ChunksLeft(r, c, y) =
                Join(Line("size", r.chunks[c + 1], 0),
                     Join(BodyBytes(Before(r.chunks, c + 1), r.chunks[c + 1]),
                          Join(Blank, ChunksLeft(r, c + 1, y))))
         /\ ChunksLeft(r, Len(r.chunks), y) = Join(Line("size", 0, 0), TrailerLeft(r, 0, y))
<1> DEFINE z == Join(Line("size", 0, 0), TrailerLeft(r, 0, y))
           cs == r.chunks
           ls == ChunksOf(cs)
<1>0. /\ \A u, v \in Seq(Bytes) : Join(u, v) \in Seq(Bytes) /\ Len(Join(u, v)) = Len(u) + Len(v)
      /\ \A u, v, w \in Seq(Bytes) : Join(Join(u, v), w) = Join(u, Join(v, w))
  BY JoinFacts
<1>1. z \in Seq(Bytes) /\ Len(z) >= Len(y)
  <2>1. 0 \in 0 .. Len(r.trailer)
    BY Pieces
  <2>2. TrailerLeft(r, 0, y) \in Seq(Bytes) /\ Len(TrailerLeft(r, 0, y)) >= Len(y)
    BY <2>1, TrailerIs
  <2>3. Line("size", 0, 0) \in Seq(Bytes)
    BY Pieces
  <2>4. z \in Seq(Bytes) /\ Len(z) = Len(Line("size", 0, 0)) + Len(TrailerLeft(r, 0, y))
    BY <1>0, <2>2, <2>3
  <2>5. Len(Line("size", 0, 0)) \in Nat /\ Len(TrailerLeft(r, 0, y)) \in Nat /\ Len(y) \in Nat
    BY <2>2, <2>3
  <2> QED
    BY <2>2, <2>4, <2>5
<1>2. /\ cs \in Seq(Nat \ {0}) /\ ls \in Seq(Seq(Bytes)) /\ Len(ls) = Len(cs)
      /\ \A i \in 1 .. Len(cs) :
           /\ cs[i] \in Nat \ {0} /\ Before(cs, i) \in Nat
           /\ ls[i] = Join(Join(Line("size", cs[i], 0), BodyBytes(Before(cs, i), cs[i])), Blank)
  BY Pieces, ChunksOfAre
<1>3. \A c : ChunksLeft(r, c, y) = Left(ls, c, z)
  BY DEF ChunksLeft
<1> HIDE DEF z, ls
<1>4. /\ \A i \in 0 .. Len(ls) : Left(ls, i, z) \in Seq(Bytes) /\ Len(Left(ls, i, z)) >= Len(z)
      /\ \A i \in 0 .. Len(ls) : i < Len(ls) => Left(ls, i, z) = Join(ls[i + 1], Left(ls, i + 1, z))
      /\ Left(ls, Len(ls), z) = z
  BY <1>1, <1>2, LeftIs
<1> HIDE DEF cs
<1>5. ASSUME NEW c \in 0 .. Len(cs)
      PROVE  ChunksLeft(r, c, y) \in Seq(Bytes) /\ Len(ChunksLeft(r, c, y)) >= Len(y)
  <2>1. Left(ls, c, z) \in Seq(Bytes) /\ Len(Left(ls, c, z)) >= Len(z)
    BY <1>2, <1>4
  <2>2. Len(Left(ls, c, z)) \in Nat /\ Len(y) \in Nat /\ Len(z) \in Nat
    BY <1>1, <2>1
  <2>3. ChunksLeft(r, c, y) = Left(ls, c, z)
    BY <1>3
  <2> QED
    BY <1>1, <2>1, <2>2, <2>3
<1>6. ASSUME NEW c \in 0 .. Len(cs), c < Len(cs)
      PROVE  ChunksLeft(r, c, y) =
                Join(Line("size", cs[c + 1], 0),
                     Join(BodyBytes(Before(cs, c + 1), cs[c + 1]),
                          Join(Blank, ChunksLeft(r, c + 1, y))))
  <2> DEFINE s == Line("size", cs[c + 1], 0)
             d == BodyBytes(Before(cs, c + 1), cs[c + 1])
             l == ChunksLeft(r, c + 1, y)
  <2>1. c + 1 \in 1 .. Len(cs) /\ c + 1 \in 0 .. Len(cs)
    BY <1>2, <1>6
  <2>2. cs[c + 1] \in Nat /\ Before(cs, c + 1) \in Nat /\ "size" \in LineKinds
        /\ ls[c + 1] = Join(Join(s, d), Blank)
    BY <1>2, <2>1 DEF LineKinds
  <2>3. s \in Seq(Bytes) /\ d \in Seq(Bytes) /\ l \in Seq(Bytes) /\ Blank \in Seq(Bytes)
    <3>1. s \in Seq(Bytes)
      BY <2>2, LineIsTerminated DEF Terminated
    <3>2. d \in Seq(Bytes)
      BY <2>2, BodyBytesIs
    <3>3. l \in Seq(Bytes)
      BY <1>5, <2>1
    <3> QED
      BY <3>1, <3>2, <3>3, Pieces
  <2>4. ChunksLeft(r, c, y) = Join(Join(Join(s, d), Blank), l)
    <3>1. Left(ls, c, z) = Join(ls[c + 1], Left(ls, c + 1, z))
      BY <1>2, <1>4, <1>6
    <3> HIDE DEF s, d
    <3> QED
      BY <1>3, <2>2, <3>1
  <2> HIDE DEF s, d, l
  <2>5. Join(Join(Join(s, d), Blank), l) = Join(s, Join(d, Join(Blank, l)))
    BY <2>3, JoinFour
  <2> QED
    BY <2>4, <2>5 DEF s, d, l
<1>7. ChunksLeft(r, Len(cs), y) = z
  BY <1>2, <1>3, <1>4
<1> QED
  BY <1>5, <1>6, <1>7 DEF cs, z

LEMMA HeadersAre ==
  ASSUME NEW r, IsRequest(r), NEW y \in Seq(Bytes)
  PROVE  /\ Body(r, y) \in Seq(Bytes) /\ Len(Body(r, y)) >= Len(y)
         /\ \A i \in 0 .. Len(r.headers) : /\ HeadersLeft(r, i, y) \in Seq(Bytes)
                                           /\ Len(HeadersLeft(r, i, y)) >= Len(y)
         /\ \A i \in 0 .. Len(r.headers) : i < Len(r.headers) =>
              HeadersLeft(r, i, y) = Join(LinesOf(r.headers)[i + 1], HeadersLeft(r, i + 1, y))
         /\ HeadersLeft(r, Len(r.headers), y) = Join(Blank, Body(r, y))
<1> DEFINE z == Join(Blank, Body(r, y))
           ls == LinesOf(r.headers)
<1>0. /\ \A u, v \in Seq(Bytes) : Join(u, v) \in Seq(Bytes) /\ Len(Join(u, v)) = Len(u) + Len(v)
  BY JoinFacts
<1>1. Body(r, y) \in Seq(Bytes) /\ Len(Body(r, y)) >= Len(y)
  <2>1. CASE Has(r, "chunked")
    <3>1. 0 \in 0 .. Len(r.chunks)
      BY Pieces
    <3> QED
      BY <2>1, <3>1, ChunksAre DEF Body
  <2>2. CASE ~Has(r, "chunked")
    <3>1. BodyBytes(0, BodySize(r)) \in Seq(Bytes) /\ Len(BodyBytes(0, BodySize(r))) \in Nat
          /\ Len(y) \in Nat
      BY Pieces
    <3>2. Body(r, y) = Join(BodyBytes(0, BodySize(r)), y)
      BY <2>2 DEF Body
    <3> QED
      BY <1>0, <3>1, <3>2
  <2> QED
    BY <2>1, <2>2
<1>2. z \in Seq(Bytes) /\ Len(z) >= Len(y)
  <2>1. z \in Seq(Bytes) /\ Len(z) = 2 + Len(Body(r, y))
    BY <1>0, <1>1, Pieces, ZenonT(30)
  <2>2. Len(Body(r, y)) \in Nat /\ Len(y) \in Nat
    BY <1>1
  <2> QED
    BY <1>1, <2>1, <2>2
<1>3. ls \in Seq(Seq(Bytes)) /\ Len(ls) = Len(r.headers)
  BY Pieces, LinesOfAre
<1>4. \A i : HeadersLeft(r, i, y) = Left(ls, i, z)
  BY DEF HeadersLeft
<1> HIDE DEF z, ls
<1>5. /\ \A i \in 0 .. Len(ls) : Left(ls, i, z) \in Seq(Bytes) /\ Len(Left(ls, i, z)) >= Len(z)
      /\ \A i \in 0 .. Len(ls) : i < Len(ls) => Left(ls, i, z) = Join(ls[i + 1], Left(ls, i + 1, z))
      /\ Left(ls, Len(ls), z) = z
  BY <1>2, <1>3, LeftIs
<1>6. ASSUME NEW i \in 0 .. Len(r.headers)
      PROVE  HeadersLeft(r, i, y) \in Seq(Bytes) /\ Len(HeadersLeft(r, i, y)) >= Len(y)
  <2>1. Left(ls, i, z) \in Seq(Bytes) /\ Len(Left(ls, i, z)) >= Len(z)
    BY <1>3, <1>5
  <2>2. Len(Left(ls, i, z)) \in Nat /\ Len(y) \in Nat /\ Len(z) \in Nat
    BY <1>2, <2>1
  <2>3. HeadersLeft(r, i, y) = Left(ls, i, z)
    BY <1>4
  <2> QED
    BY <1>2, <2>1, <2>2, <2>3
<1> QED
  BY <1>1, <1>3, <1>4, <1>5, <1>6 DEF ls, z

LEMMA EncodeIs ==
  ASSUME NEW r, IsRequest(r)
  PROVE  /\ Encode(r) \in Seq(Bytes)
         /\ \A y \in Seq(Bytes) :
              Join(Encode(r), y) = Join(Line("req", r.version, 0), HeadersLeft(r, 0, y))
<1> DEFINE l == Line("req", r.version, 0)
           h == HeaderLines(r.headers)
           c == Concat(ChunksOf(r.chunks))
           t == HeaderLines(r.trailer)
           n == Line("size", 0, 0)
           p == BodyBytes(0, BodySize(r))
           d == IF Has(r, "chunked") THEN Join(Join(Join(c, n), t), Blank) ELSE p
<1>1. Encode(r) = Join(Join(Join(l, h), Blank), d)
  BY Zenon DEF Encode, Join, Blank, ChunksOf
<1>2. l \in Seq(Bytes) /\ n \in Seq(Bytes) /\ p \in Seq(Bytes) /\ Blank \in Seq(Bytes)
  BY Pieces
<1>3. LinesOf(r.headers) \in Seq(Seq(Bytes)) /\ h = Concat(LinesOf(r.headers))
  BY Pieces, LinesOfAre
<1>4. LinesOf(r.trailer) \in Seq(Seq(Bytes)) /\ t = Concat(LinesOf(r.trailer))
  BY Pieces, LinesOfAre
<1>5. ChunksOf(r.chunks) \in Seq(Seq(Bytes))
  BY Pieces, ChunksOfAre
<1>6. h \in Seq(Bytes) /\ t \in Seq(Bytes) /\ c \in Seq(Bytes)
  <2>1. h \in Seq(Bytes)
    BY <1>3, ConcatTyped
  <2>2. t \in Seq(Bytes)
    BY <1>4, ConcatTyped
  <2>3. c \in Seq(Bytes)
    BY <1>5, ConcatTyped
  <2> QED
    BY <2>1, <2>2, <2>3
<1>7. \A y \in Seq(Bytes) : TrailerLeft(r, 0, y) = Join(t, Join(Blank, y))
  <2> TAKE y \in Seq(Bytes)
  <2>1. Join(Blank, y) \in Seq(Bytes)
    BY <1>2, JoinFacts
  <2> QED
    BY <1>4, <2>1, LeftIs DEF TrailerLeft
<1>8. ASSUME Has(r, "chunked"), NEW y \in Seq(Bytes)
      PROVE  Body(r, y) = Join(c, Join(n, Join(t, Join(Blank, y))))
  <2>1. Join(n, TrailerLeft(r, 0, y)) \in Seq(Bytes)
    <3>1. 0 \in 0 .. Len(r.trailer)
      BY Pieces
    <3>2. TrailerLeft(r, 0, y) \in Seq(Bytes)
      BY <3>1, TrailerIs
    <3> QED
      BY <1>2, <3>2, JoinFacts
  <2>2. ChunksLeft(r, 0, y) = Join(c, Join(n, TrailerLeft(r, 0, y)))
    BY <1>5, <2>1, LeftIs DEF ChunksLeft
  <2> QED
    BY <1>7, <1>8, <2>2 DEF Body
<1> HIDE DEF l, h, c, t, n, p
<1>9. d \in Seq(Bytes) /\ \A y \in Seq(Bytes) : Join(d, y) = Body(r, y)
  <2>1. CASE Has(r, "chunked")
    <3>1. d = Join(Join(Join(c, n), t), Blank)
      BY <2>1
    <3> HIDE DEF d
    <3>2. d \in Seq(Bytes)
      BY <1>2, <1>6, <3>1, JoinFive
    <3>3. \A y \in Seq(Bytes) : Join(d, y) = Join(c, Join(n, Join(t, Join(Blank, y))))
      BY <1>2, <1>6, <3>1, JoinFive
    <3> QED
      BY <1>8, <2>1, <3>2, <3>3
  <2>2. CASE ~Has(r, "chunked")
    BY <1>2, <2>2 DEF Body, p
  <2> QED
    BY <2>1, <2>2
<1> HIDE DEF d
<1>10. Encode(r) \in Seq(Bytes)
  BY <1>1, <1>2, <1>6, <1>9, JoinFive, EmptySeq
<1>11. ASSUME NEW y \in Seq(Bytes)
       PROVE  Join(Encode(r), y) = Join(l, HeadersLeft(r, 0, y))
  <2>1. Join(Encode(r), y) = Join(l, Join(h, Join(Blank, Join(d, y))))
    BY <1>1, <1>2, <1>6, <1>9, JoinFive
  <2>2. Join(Blank, Body(r, y)) \in Seq(Bytes)
    BY <1>2, HeadersAre, JoinFacts
  <2>3. HeadersLeft(r, 0, y) = Join(h, Join(Blank, Body(r, y)))
    BY <1>3, <2>2, LeftIs DEF HeadersLeft
  <2>4. Join(d, y) = Body(r, y)
    BY <1>9
  <2> QED
    BY <2>1, <2>3, <2>4
<1> QED
  BY <1>10, <1>11 DEF l

-----------------------------------------------------------------------------
(* The stream of requests *)

Encoded(s)  == [i \in 1 .. Len(s) |-> Encode(s[i])]
StreamOf(s) == Concat(Encoded(s))
Later(s, k) == After(Encoded(s), k)   \* behind the first k requests

LEMMA StreamIs ==
  ASSUME NEW R, \A r \in R : IsRequest(r), NEW s \in Seq(R)
  PROVE  /\ StreamOf(s) \in Seq(Bytes)
         /\ \A k \in 0 .. Len(s) : Later(s, k) \in Seq(Bytes)
         /\ Later(s, 0) = StreamOf(s) /\ Later(s, Len(s)) = <<>>
         /\ \A k \in 0 .. Len(s) : k < Len(s) =>
              Later(s, k) = Join(Line("req", s[k + 1].version, 0),
                                 HeadersLeft(s[k + 1], 0, Later(s, k + 1)))
         /\ \A k \in 0 .. Len(s) : Len(Concat([j \in 1 .. k |-> Encode(s[j])]))
                                     = Len(StreamOf(s)) - Len(Later(s, k))
         /\ \A k \in 0 .. Len(s) : k < Len(s) => Len(Later(s, k + 1)) <= Len(Later(s, k))
<1> DEFINE e == Encoded(s)
<1>1. \A i \in 1 .. Len(s) : IsRequest(s[i]) /\ e[i] = Encode(s[i]) /\ Encode(s[i]) \in Seq(Bytes)
  <2> TAKE i \in 1 .. Len(s)
  <2>1. IsRequest(s[i]) /\ e[i] = Encode(s[i])
    BY DEF Encoded
  <2> QED
    BY <2>1, EncodeIs
<1>2. e \in Seq(Seq(Bytes)) /\ Len(e) = Len(s)
  <2> DEFINE f(i) == Encode(s[i])
  <2>1. \A i \in 1 .. Len(s) : f(i) \in Seq(Bytes)
    BY <1>1
  <2>2. e = [i \in 1 .. Len(s) |-> f(i)]
    BY DEF Encoded
  <2> HIDE DEF f, e
  <2> QED
    BY <2>1, <2>2
<1>3. StreamOf(s) = Concat(e) /\ \A k : Later(s, k) = After(e, k)
  BY DEF StreamOf, Later
<1> HIDE DEF e
<1>4. StreamOf(s) \in Seq(Bytes)
  BY <1>2, <1>3, ConcatTyped
<1>5. \A k \in 0 .. Len(s) : Later(s, k) \in Seq(Bytes)
  BY <1>2, <1>3, AfterTyped
<1>6. Later(s, 0) = StreamOf(s) /\ Later(s, Len(s)) = <<>>
  BY <1>2, <1>3, AfterEnds
<1>7. ASSUME NEW k \in 0 .. Len(s), k < Len(s)
      PROVE  /\ Later(s, k) = Join(Line("req", s[k + 1].version, 0),
                                   HeadersLeft(s[k + 1], 0, Later(s, k + 1)))
             /\ Len(Later(s, k + 1)) <= Len(Later(s, k))
  <2>1. k \in Nat /\ k + 1 \in 1 .. Len(s) /\ k + 1 \in 0 .. Len(s)
    BY <1>7
  <2>2. After(e, k) = Join(e[k + 1], After(e, k + 1))
    BY <1>2, <1>7, <2>1, AfterFirst
  <2>3. Later(s, k) = Join(Encode(s[k + 1]), Later(s, k + 1))
    BY <1>1, <1>3, <2>1, <2>2
  <2>4. IsRequest(s[k + 1]) /\ Encode(s[k + 1]) \in Seq(Bytes) /\ Later(s, k + 1) \in Seq(Bytes)
    BY <1>1, <1>5, <2>1
  <2>5. Join(Encode(s[k + 1]), Later(s, k + 1)) =
          Join(Line("req", s[k + 1].version, 0), HeadersLeft(s[k + 1], 0, Later(s, k + 1)))
    BY <2>4, EncodeIs
  <2>6. Len(Later(s, k)) = Len(Encode(s[k + 1])) + Len(Later(s, k + 1))
    BY <2>3, <2>4, JoinFacts
  <2>7. Len(Encode(s[k + 1])) \in Nat /\ Len(Later(s, k + 1)) \in Nat
    BY <2>4
  <2> QED
    BY <2>3, <2>5, <2>6, <2>7
<1>8. ASSUME NEW k \in 0 .. Len(s)
      PROVE  Len(Concat([j \in 1 .. k |-> Encode(s[j])])) = Len(StreamOf(s)) - Len(Later(s, k))
  <2>1. Len(Concat([j \in 1 .. k |-> e[j]])) = Len(Concat(e)) - Len(After(e, k))
    BY <1>2, LenBefore
  <2>2. [j \in 1 .. k |-> Encode(s[j])] = [j \in 1 .. k |-> e[j]]
    BY <1>1
  <2> QED
    BY <1>3, <2>1, <2>2
<1> QED
  BY <1>4, <1>5, <1>6, <1>7, <1>8

LEMMA LaterShrinks ==
  ASSUME NEW R, \A r \in R : IsRequest(r), NEW s \in Seq(R),
         NEW i \in 0 .. Len(s), NEW j \in 0 .. Len(s), i <= j
  PROVE  Len(Later(s, j)) <= Len(Later(s, i))
<1> DEFINE T == {d \in Nat : i + d <= Len(s) => Len(Later(s, i + d)) <= Len(Later(s, i))}
<1>0. /\ \A k \in 0 .. Len(s) : Len(Later(s, k)) \in Nat
      /\ \A k \in 0 .. Len(s) : k < Len(s) => Len(Later(s, k + 1)) <= Len(Later(s, k))
  <2>1. \A k \in 0 .. Len(s) : Later(s, k) \in Seq(Bytes)
    BY StreamIs
  <2>2. \A k \in 0 .. Len(s) : k < Len(s) => Len(Later(s, k + 1)) <= Len(Later(s, k))
    BY StreamIs
  <2> QED
    BY <2>1, <2>2
<1>1. 0 \in T
  <2>1. i + 0 = i /\ Len(Later(s, i)) \in Nat
    BY <1>0
  <2> QED
    BY <2>1
<1>2. \A d \in T : d + 1 \in T
  <2> SUFFICES ASSUME NEW d \in T, i + (d + 1) <= Len(s)
               PROVE  Len(Later(s, i + (d + 1))) <= Len(Later(s, i))
    OBVIOUS
  <2>1. d \in Nat /\ (i + d <= Len(s) => Len(Later(s, i + d)) <= Len(Later(s, i)))
    OBVIOUS
  <2> HIDE DEF T
  <2>2. i + d \in 0 .. Len(s) /\ i + d < Len(s) /\ (i + d) + 1 = i + (d + 1)
        /\ i + (d + 1) \in 0 .. Len(s)
    BY <2>1
  <2>3. Len(Later(s, i + (d + 1))) <= Len(Later(s, i + d))
    BY <1>0, <2>2
  <2>4. Len(Later(s, i + d)) <= Len(Later(s, i))
    BY <2>1, <2>2
  <2> QED
    BY <1>0, <2>2, <2>3, <2>4
<1>3. T = Nat
  <2> HIDE DEF T
  <2>1. T \in SUBSET Nat
    BY DEF T
  <2> QED
    BY <1>1, <1>2, <2>1, Induct
<1>4. j - i \in Nat /\ i + (j - i) = j
  OBVIOUS
<1>5. j - i \in T
  <2> HIDE DEF T
  <2> QED
    BY <1>3, <1>4
<1> QED
  BY <1>4, <1>5

-----------------------------------------------------------------------------
(* What the headers say *)

Said == [version : Nat, length : Nat, flags : SUBSET HeaderKinds]

Lengths(hs, i) == {j \in 1 .. i : hs[j][1] = "length" /\ hs[j][2] > 0}

\* The request when the first i headers have been read.
ReadUpTo(r, i, rq) ==
  /\ rq \in Said /\ rq.version = r.version
  /\ \A k \in HeaderKinds \ {"length"} :
       k \in rq.flags <=> k # "other" /\ \E j \in 1 .. i : r.headers[j][1] = k
  /\ "length" \in rq.flags <=> Lengths(r.headers, i) # {}
  /\ Lengths(r.headers, i) = {} => rq.length = 0
  /\ Lengths(r.headers, i) # {} =>
       \E m \in Lengths(r.headers, i) :
         /\ \A j \in Lengths(r.headers, i) : j <= m
         /\ rq.length = r.headers[m][2]

LEMMA ReadNone ==
  ASSUME NEW r, r.version \in Nat, NEW rq, rq = [NoRequest EXCEPT !.version = r.version]
  PROVE  ReadUpTo(r, 0, rq)
<1>1. rq = [version |-> r.version, length |-> 0, flags |-> {}]
  BY DEF NoRequest
<1>2. Lengths(r.headers, 0) = {} /\ 1 .. 0 = {}
  BY DEF Lengths
<1>3. rq \in Said
  <2>1. \A v \in Nat : [version |-> v, length |-> 0, flags |-> {}] \in Said
    BY DEF Said
  <2> QED
    BY <1>1, <2>1, Zenon
<1>4. rq.version = r.version /\ rq.length = 0 /\ rq.flags = {}
  BY <1>1
<1> QED
  BY <1>2, <1>3, <1>4 DEF ReadUpTo

LEMMA ReadNext ==
  ASSUME NEW r, r.headers \in Seq(Lines), NEW i \in Nat, i < Len(r.headers),
         NEW rq, ReadUpTo(r, i, rq), NEW b, b.k \in HeaderKinds,
         b.k = r.headers[i + 1][1], b.v = r.headers[i + 1][2]
  PROVE  ReadUpTo(r, i + 1, HeaderRead(rq, b))
<1> DEFINE hs == r.headers
           k  == b.k
           v  == b.v
           n  == HeaderRead(rq, b)
<1>1. v \in Nat /\ k \in HeaderKinds
  <2>1. i + 1 \in 1 .. Len(r.headers)
    OBVIOUS
  <2> QED
    BY <2>1 DEF Lines
<1>2. 1 .. i + 1 = (1 .. i) \cup {i + 1}
  OBVIOUS
<1>3. hs[i + 1][1] = k /\ hs[i + 1][2] = v
  OBVIOUS
<1>4. rq \in Said /\ rq.version = r.version
  BY DEF ReadUpTo
<1> HIDE DEF hs, k, v, n
<1>5. Lengths(hs, i + 1) = IF k = "length" /\ v > 0 THEN Lengths(hs, i) \cup {i + 1} ELSE Lengths(hs, i)
  BY <1>2, <1>3 DEF Lengths
<1>6. \A x \in HeaderKinds :
        (\E j \in 1 .. i + 1 : hs[j][1] = x) <=> (\E j \in 1 .. i : hs[j][1] = x) \/ k = x
  BY <1>2, <1>3
<1>7. \A x \in HeaderKinds \ {"length"} :
        x \in rq.flags <=> x # "other" /\ \E j \in 1 .. i : hs[j][1] = x
  BY DEF ReadUpTo, hs
<1>8. /\ "length" \in rq.flags <=> Lengths(hs, i) # {}
      /\ Lengths(hs, i) = {} => rq.length = 0
      /\ Lengths(hs, i) # {} =>
           \E m \in Lengths(hs, i) :
             /\ \A j \in Lengths(hs, i) : j <= m
             /\ rq.length = hs[m][2]
  BY DEF ReadUpTo, hs
<1>9. CASE k = "length" /\ v > 0
  <2>1. n = [rq EXCEPT !.flags = @ \cup {"length"}, !.length = v]
    BY <1>1, <1>4, <1>9 DEF n, HeaderRead, Said, k, v
  <2>2. n \in Said /\ n.version = rq.version /\ n.flags = rq.flags \cup {"length"} /\ n.length = v
    BY <1>1, <1>4, <1>9, <2>1 DEF Said
  <2>3. /\ i + 1 \in Lengths(hs, i + 1) /\ \A j \in Lengths(hs, i + 1) : j <= i + 1
    BY <1>5, <1>9 DEF Lengths
  <2>4. \A x \in HeaderKinds \ {"length"} :
          x \in n.flags <=> x # "other" /\ \E j \in 1 .. i + 1 : hs[j][1] = x
    BY <1>6, <1>7, <1>9, <2>2
  <2>5. ReadUpTo(r, i + 1, n)
    BY <1>3, <1>4, <2>2, <2>3, <2>4 DEF ReadUpTo, hs
  <2> QED
    BY <2>5 DEF n
<1>10. CASE k = "length" /\ ~(v > 0)
  <2>1. n = rq
    BY <1>1, <1>10 DEF n, HeaderRead, k, v
  <2>2. \A x \in HeaderKinds \ {"length"} :
          x \in n.flags <=> x # "other" /\ \E j \in 1 .. i + 1 : hs[j][1] = x
    BY <1>6, <1>7, <1>10, <2>1
  <2>3. Lengths(hs, i + 1) = Lengths(hs, i)
    BY <1>5, <1>10
  <2>4. ReadUpTo(r, i + 1, n)
    BY <1>4, <1>8, <2>1, <2>2, <2>3 DEF ReadUpTo, hs
  <2> QED
    BY <2>4 DEF n
<1>11. CASE k = "other"
  <2>1. n = rq
    BY <1>1, <1>11 DEF n, HeaderRead, k, v
  <2>2. \A x \in HeaderKinds \ {"length"} :
          x \in n.flags <=> x # "other" /\ \E j \in 1 .. i + 1 : hs[j][1] = x
    BY <1>6, <1>7, <1>11, <2>1
  <2>3. Lengths(hs, i + 1) = Lengths(hs, i)
    BY <1>5, <1>11
  <2>4. ReadUpTo(r, i + 1, n)
    BY <1>4, <1>8, <2>1, <2>2, <2>3 DEF ReadUpTo, hs
  <2> QED
    BY <2>4 DEF n
<1>12. CASE k \notin {"length", "other"}
  <2>1. n = [rq EXCEPT !.flags = @ \cup {k}]
    BY <1>12 DEF n, HeaderRead, k, v
  <2>2. n \in Said /\ n.version = rq.version /\ n.flags = rq.flags \cup {k} /\ n.length = rq.length
    BY <1>1, <1>4, <1>12, <2>1 DEF Said
  <2>3. \A x \in HeaderKinds \ {"length"} :
          x \in n.flags <=> x # "other" /\ \E j \in 1 .. i + 1 : hs[j][1] = x
    BY <1>1, <1>6, <1>7, <1>12, <2>2
  <2>4. Lengths(hs, i + 1) = Lengths(hs, i) /\ ("length" \in n.flags <=> "length" \in rq.flags)
    BY <1>5, <1>12, <2>2
  <2>5. ReadUpTo(r, i + 1, n)
    BY <1>4, <1>8, <2>2, <2>3, <2>4 DEF ReadUpTo, hs
  <2> QED
    BY <2>5 DEF n
<1> QED
  BY <1>9, <1>10, <1>11, <1>12

LEMMA ReadAll ==
  ASSUME NEW r, IsRequest(r), \A i \in 1 .. Len(r.headers) : r.headers[i][1] \in HeaderKinds,
         NEW rq, ReadUpTo(r, Len(r.headers), rq)
  PROVE  /\ rq = Announced(r)
         /\ "chunked" \in rq.flags <=> Has(r, "chunked")
         /\ ~Has(r, "chunked") => /\ BodySize(r) = rq.length /\ r.trailer = <<>>
                                  /\ "length" \in rq.flags <=> rq.length > 0
<1> DEFINE hs == r.headers
           n  == Len(hs)
           L  == Lengths(hs, n)
           K  == {hs[i][1] : i \in DOMAIN hs}
<1>1. hs \in Seq(Lines) /\ n \in Nat /\ DOMAIN hs = 1 .. n
  BY DEF IsRequest
<1>2. {i \in DOMAIN hs : hs[i][1] = "length" /\ hs[i][2] > 0} = L
  BY <1>1 DEF Lengths
<1>3. K \subseteq HeaderKinds
  BY <1>1
<1>4. /\ rq \in Said /\ rq.version = r.version
      /\ \A k \in HeaderKinds \ {"length"} : k \in rq.flags <=> k # "other" /\ k \in K
      /\ "length" \in rq.flags <=> L # {}
      /\ L = {} => rq.length = 0
      /\ L # {} => \E m \in L : (\A j \in L : j <= m) /\ rq.length = hs[m][2]
  BY <1>1 DEF ReadUpTo
<1>5. L \subseteq 1 .. n /\ \A j \in L : hs[j][2] > 0
  BY DEF Lengths
<1> HIDE DEF hs, n, L, K
<1>6. rq.length = IF L = {} THEN 0 ELSE hs[CHOOSE i \in L : \A j \in L : j <= i][2]
  <2>1. CASE L = {}
    BY <1>4, <2>1
  <2>2. CASE L # {}
    <3>1. PICK m \in L : (\A j \in L : j <= m) /\ rq.length = hs[m][2]
      BY <1>4, <2>2
    <3>2. \A i \in L : (\A j \in L : j <= i) => i = m
      BY <1>5, <3>1
    <3>3. (CHOOSE i \in L : \A j \in L : j <= i) = m
      BY <3>1, <3>2
    <3> QED
      BY <2>2, <3>1, <3>3
  <2> QED
    BY <2>1, <2>2
<1>7. rq.flags = (K \ {"other", "length"}) \cup IF L = {} THEN {} ELSE {"length"}
  <2>1. rq.flags \subseteq HeaderKinds
    BY <1>4 DEF Said
  <2>2. \A k \in HeaderKinds : k \in rq.flags <=>
          k \in (K \ {"other", "length"}) \cup IF L = {} THEN {} ELSE {"length"}
    BY <1>4
  <2> QED
    BY <1>3, <2>1, <2>2 DEF HeaderKinds
<1>8. Announced(r) =
        [version |-> r.version,
         length  |-> IF L = {} THEN 0 ELSE hs[CHOOSE i \in L : \A j \in L : j <= i][2],
         flags   |-> (K \ {"other", "length"}) \cup IF L = {} THEN {} ELSE {"length"}]
  <2> DEFINE A == {i \in DOMAIN r.headers : r.headers[i][1] = "length" /\ r.headers[i][2] > 0}
             Z == {r.headers[i][1] : i \in DOMAIN r.headers}
  <2>1. Announced(r) =
          [version |-> r.version,
           length  |-> IF A = {} THEN 0
                       ELSE r.headers[CHOOSE i \in A : \A j \in A : j <= i][2],
           flags   |-> (Z \ {"other", "length"}) \cup IF A = {} THEN {} ELSE {"length"}]
    BY Zenon DEF Announced
  <2>2. A = L /\ Z = K /\ r.headers = hs
    BY <1>2, Zenon DEF hs, K
  <2> HIDE DEF A, Z
  <2> QED
    BY <2>1, <2>2
<1>9. rq = [version |-> rq.version, length |-> rq.length, flags |-> rq.flags]
  BY <1>4 DEF Said
<1>10. rq = Announced(r)
  BY <1>4, <1>6, <1>7, <1>8, <1>9
<1>11. "chunked" \in rq.flags <=> Has(r, "chunked")
  <2>1. "chunked" \in HeaderKinds \ {"length"}
    BY DEF HeaderKinds
  <2>2. "chunked" \in K <=> Has(r, "chunked")
    BY DEF K, hs, Has
  <2> QED
    BY <1>4, <2>1, <2>2
<1>12. ASSUME ~Has(r, "chunked")
       PROVE  /\ BodySize(r) = rq.length /\ r.trailer = <<>>
              /\ "length" \in rq.flags <=> rq.length > 0
  <2>1. BodySize(r) = Announced(r).length /\ r.trailer = <<>>
    BY <1>12 DEF IsRequest
  <2>2. L # {} => rq.length > 0
    BY <1>4, <1>5
  <2> QED
    BY <1>4, <1>10, <2>1, <2>2
<1> QED
  BY <1>10, <1>11, <1>12

-----------------------------------------------------------------------------
(* The inductive invariant *)

States  == {"REQUEST_LINE", "HEADERS", "CONTENT_LENGTH", "CHUNK_HEADER",
            "CHUNK_DATA", "CHUNK_EOF", "CHUNK_TRAILER", "next_request"}
Parsers == [state : States, left : Nat]
Records == [request : Said, body : Seq(Bytes), done : BOOLEAN]

GoodUpTo(hs, i) == \A j \in 1 .. i : hs[j][1] # "junk" /\ 3 + hs[j][3] <= BufSize
AllDone(rc)     == \A i \in 1 .. Len(rc) : rc[i].done

\* What the callbacks have been told of the requests s.
History(s, rc) ==
  /\ rc \in Seq(Records) /\ Len(rc) <= Len(s)
  /\ \A i \in 1 .. Len(rc) :
       /\ rc[i].request = Announced(s[i])
       /\ Len(rc[i].body) <= BodySize(s[i])
       /\ rc[i].body = BodyBytes(0, Len(rc[i].body))
       /\ rc[i].done => Len(rc[i].body) = BodySize(s[i]) /\ WellFormed(s[i])
       /\ i < Len(rc) => rc[i].done

\* Where the parser is in request r, when rest is what it has not read yet, y
\* are the requests behind r and m bytes of the body have been told.
AtHeaders(r, y, rest, rq) ==
  \E i \in 0 .. Len(r.headers) :
    rest = HeadersLeft(r, i, y) /\ ReadUpTo(r, i, rq) /\ GoodUpTo(r.headers, i)

AtContent(r, y, rest, left, m) ==
  /\ rest = Join(BodyBytes(m, left), y) /\ m + left = BodySize(r) /\ r.trailer = <<>>

AtChunkHeader(r, y, rest, m) ==
  \E c \in 0 .. Len(r.chunks) : rest = ChunksLeft(r, c, y) /\ m = Before(r.chunks, c + 1)

AtChunkData(r, y, rest, left, m) ==
  \E c \in 1 .. Len(r.chunks) :
    /\ rest = Join(BodyBytes(m, left), Join(Blank, ChunksLeft(r, c, y)))
    /\ m + left = Before(r.chunks, c + 1)

AtChunkEof(r, y, rest, m) ==
  \E c \in 1 .. Len(r.chunks) :
    rest = Join(Blank, ChunksLeft(r, c, y)) /\ m = Before(r.chunks, c + 1)

AtTrailer(r, y, rest, m) ==
  /\ m = BodySize(r)
  /\ \E i \in 0 .. Len(r.trailer) : rest = TrailerLeft(r, i, y) /\ GoodUpTo(r.trailer, i)

AtEnd(r, y, rest, m) ==
  rest = y /\ m = BodySize(r) /\ GoodUpTo(r.trailer, Len(r.trailer))

InBody(r, y, rest, p, m) ==
  /\ r.version \in {0, 1} /\ GoodUpTo(r.headers, Len(r.headers))
  /\ p.state = "CONTENT_LENGTH" => AtContent(r, y, rest, p.left, m)
  /\ p.state = "CHUNK_HEADER"   => AtChunkHeader(r, y, rest, m)
  /\ p.state = "CHUNK_DATA"     => AtChunkData(r, y, rest, p.left, m)
  /\ p.state = "CHUNK_EOF"      => AtChunkEof(r, y, rest, m)
  /\ p.state = "CHUNK_TRAILER"  => AtTrailer(r, y, rest, m)
  /\ p.state = "next_request"   => AtEnd(r, y, rest, m)

Stands(s, rest, p, rq, rc) ==
  LET n == Len(rc)
  IN CASE p.state = "REQUEST_LINE" ->
            AllDone(rc) /\ rq = NoRequest /\ rest = Later(s, n)
       [] p.state = "HEADERS" ->
            /\ AllDone(rc) /\ n < Len(s) /\ s[n + 1].version \in {0, 1}
            /\ AtHeaders(s[n + 1], Later(s, n + 1), rest, rq)
       [] OTHER ->
            /\ n > 0 /\ ~rc[n].done
            /\ InBody(s[n], Later(s, n), rest, p, Len(rc[n].body))

Malformed(s, rc) ==
  \E i \in 1 .. Len(s) : /\ ~WellFormed(s[i])
                         /\ \A j \in 1 .. i - 1 : j \in 1 .. Len(rc) /\ rc[j].done

\* The request that is being read, and that not all of it has been fed.
Current(p, rc) == IF p.state \in {"REQUEST_LINE", "HEADERS"} THEN Len(rc) + 1 ELSE Len(rc)
Waits(s, f, p, rc) ==
  (\A i \in 1 .. Len(s) : s[i].trailer = <<>>) /\ Current(p, rc) <= Len(s) =>
    f + Len(Later(s, Current(p, rc))) < Len(StreamOf(s))

Good(s, f, b, p, rq, st, rc) ==
  /\ s \in Seq(Requests) /\ Holds(StreamOf(s), b, f) /\ p \in Parsers /\ History(s, rc)
  /\ p.state \in {"CONTENT_LENGTH", "CHUNK_DATA"} => p.left > 0
  /\ st \in {"running", "need_more", "completed", "error", "refused"}
  /\ st \notin {"error", "refused"} => Stands(s, Rest(StreamOf(s), Pos(b, f)), p, rq, rc)
  /\ st = "error" /\ BufSize >= 3 => Malformed(s, rc)
  /\ st = "need_more" => b.get = 0 /\ (BufSize >= 3 => b.put < BufSize) /\ Waits(s, f, p, rc)

Inv == Good(sent, fed, bf, parser, request, status, received)

LEMMA StreamSame == Stream = StreamOf(sent)
BY DEF Stream, StreamOf, Encoded

\* The facts that every step starts from.
LEMMA Facts ==
  ASSUME NEW s \in Seq(Requests)
  PROVE  /\ BufSize \in Nat \ {0} /\ BufSize \in Nat
         /\ StreamOf(s) \in Seq(Bytes) /\ Len(s) \in Nat
         /\ \A i \in 1 .. Len(s) : IsRequest(s[i])
         /\ \A k \in 0 .. Len(s) : Later(s, k) \in Seq(Bytes) /\ Len(Later(s, k)) \in Nat
<1>1. \A r \in Requests : IsRequest(r)
  BY HttpAssumption
<1>2. BufSize \in Nat \ {0}
  BY HttpAssumption
<1>3. StreamOf(s) \in Seq(Bytes) /\ \A k \in 0 .. Len(s) : Later(s, k) \in Seq(Bytes)
  BY <1>1, StreamIs
<1>4. \A i \in 1 .. Len(s) : IsRequest(s[i])
  BY <1>1
<1> QED
  BY <1>2, <1>3, <1>4

LEMMA NeedMoreKeeps ==
  ASSUME Inv, status = "running", NeedMore, sent' = sent,
         BufSize >= 3 => Size < BufSize, Waits(sent, fed, parser, received)
  PROVE  Inv'
<1>1. /\ bf' = BF_compact(bf) /\ fed' = fed /\ parser' = parser /\ request' = request
      /\ received' = received /\ status' = "need_more"
  BY DEF NeedMore, Return
<1>2. BufSize \in Nat /\ StreamOf(sent) \in Seq(Bytes) /\ Holds(StreamOf(sent), bf, fed)
  BY Facts DEF Inv, Good
<1>3. /\ Holds(StreamOf(sent), bf', fed) /\ Pos(bf', fed) = Pos(bf, fed)
      /\ bf'.get = 0 /\ bf'.put = Size
  BY <1>1, <1>2, CompactHolds DEF Size
<1>4. Good(sent, fed, bf', parser, request, "need_more", received)
  BY <1>3 DEF Inv, Good
<1> QED
  BY <1>1, <1>4 DEF Inv

LEMMA ErrorKeeps ==
  ASSUME Inv, status = "running", Return("error"), sent' = sent,
         Holds(StreamOf(sent), bf', fed), BufSize >= 3 => Malformed(sent, received)
  PROVE  Inv'
<1>1. /\ fed' = fed /\ parser' = parser /\ request' = request
      /\ received' = received /\ status' = "error"
  BY DEF Return
<1>2. Good(sent, fed, bf', parser, request, "error", received)
  BY DEF Inv, Good
<1> QED
  BY <1>1, <1>2 DEF Inv

\* The parser goes on, or a callback refuses.
LEMMA GoOnKeeps ==
  ASSUME Inv, sent' = sent, fed' = fed, status' = "running",
         Holds(StreamOf(sent), bf', fed), parser' \in Parsers, History(sent, received'),
         parser'.state \in {"CONTENT_LENGTH", "CHUNK_DATA"} => parser'.left > 0,
         Stands(sent, Rest(StreamOf(sent), Pos(bf', fed)), parser', request', received')
  PROVE  Inv'
<1>1. Good(sent, fed, bf', parser', request', "running", received')
  BY DEF Inv, Good
<1> QED
  BY <1>1 DEF Inv

LEMMA RefuseKeeps ==
  ASSUME Inv, sent' = sent, fed' = fed, status' = "refused",
         Holds(StreamOf(sent), bf', fed), parser' = parser, History(sent, received')
  PROVE  Inv'
<1>1. Good(sent, fed, bf', parser, request', "refused", received')
  BY DEF Inv, Good
<1> QED
  BY <1>1 DEF Inv

LEMMA NoLineKeeps ==
  ASSUME Inv, status = "running", NoLine, sent' = sent,
         ~HasLine => Waits(sent, fed, parser, received),
         ~HasLine /\ BF_is_full /\ BufSize >= 3 => Malformed(sent, received)
  PROVE  Inv'
<1>1. ~HasLine /\ IF BF_is_full THEN Error ELSE NeedMore
  BY DEF NoLine
<1>2. CASE BF_is_full
  <2>1. bf' = bf /\ Return("error")
    BY <1>1, <1>2 DEF Error
  <2>2. Holds(StreamOf(sent), bf', fed)
    BY <2>1 DEF Inv, Good
  <2> QED
    BY <1>1, <1>2, <2>1, <2>2, ErrorKeeps
<1>3. CASE ~BF_is_full
  <2>1. bf.get \in Nat /\ bf.put \in Nat /\ bf.get <= bf.put /\ bf.put <= BufSize /\ BufSize \in Nat
    BY Facts DEF Inv, Good, Holds, Buffers
  <2>2. Size < BufSize
    BY <1>3, <2>1 DEF BF_is_full, Size
  <2> QED
    BY <1>1, <1>3, <2>2, NeedMoreKeeps
<1> QED
  BY <1>2, <1>3

LEMMA WaitsIf ==
  ASSUME NEW s \in Seq(Requests), NEW f \in Nat, NEW b \in Seq(Bytes), NEW p, NEW rc,
         f + Len(b) < Len(StreamOf(s)),
         Current(p, rc) \in 0 .. Len(s), Len(Later(s, Current(p, rc))) <= Len(b)
  PROVE  Waits(s, f, p, rc)
<1> DEFINE k == Len(Later(s, Current(p, rc)))
<1>1. k \in Nat /\ Len(StreamOf(s)) \in Nat /\ Len(b) \in Nat
  BY Facts
<1>2. k <= Len(b)
  OBVIOUS
<1> HIDE DEF k
<1>3. f + k < Len(StreamOf(s))
  BY <1>1, <1>2
<1> QED
  BY <1>3 DEF Waits, k

-----------------------------------------------------------------------------
(* Requests that are malformed *)

LEMMA WellFormedIs ==
  ASSUME NEW r, IsRequest(r)
  PROVE  WellFormed(r) <=> /\ r.version \in {0, 1}
                           /\ GoodUpTo(r.headers, Len(r.headers))
                           /\ GoodUpTo(r.trailer, Len(r.trailer))
<1>1. DOMAIN r.headers = 1 .. Len(r.headers) /\ DOMAIN r.trailer = 1 .. Len(r.trailer)
  BY DEF IsRequest
<1> QED
  BY <1>1 DEF WellFormed, GoodUpTo

LEMMA MalformedNext ==
  ASSUME NEW s \in Seq(Requests), NEW rc, Len(rc) \in Nat, AllDone(rc), Len(rc) < Len(s),
         ~WellFormed(s[Len(rc) + 1])
  PROVE  Malformed(s, rc)
<1>1. Len(rc) + 1 \in 1 .. Len(s) /\ (Len(rc) + 1) - 1 = Len(rc)
  OBVIOUS
<1>2. \A j \in 1 .. Len(rc) : j \in 1 .. Len(rc) /\ rc[j].done
  BY DEF AllDone
<1> QED
  BY <1>1, <1>2 DEF Malformed

LEMMA MalformedThis ==
  ASSUME NEW s \in Seq(Requests), NEW rc, History(s, rc), Len(rc) > 0, ~WellFormed(s[Len(rc)])
  PROVE  Malformed(s, rc)
<1>1. Len(rc) \in 1 .. Len(s)
  BY DEF History
<1>2. \A j \in 1 .. Len(rc) - 1 : j \in 1 .. Len(rc) /\ rc[j].done
  BY DEF History
<1> QED
  BY <1>1, <1>2 DEF Malformed

-----------------------------------------------------------------------------
(* Lines of the header and of the trailer *)

LEMMA NextLine ==
  ASSUME NEW hs \in Seq(Lines), NEW z \in Seq(Bytes), NEW i \in 0 .. Len(hs)
  PROVE  \E a, q, b :
           /\ Terminated(a, q) /\ b \in Seq(Bytes) /\ Len(z) <= Len(b)
           /\ Left(LinesOf(hs), i, Join(Blank, z)) = Join(a, b)
           /\ \/ /\ i < Len(hs) /\ b = Left(LinesOf(hs), i + 1, Join(Blank, z))
                 /\ a[1] = Byte(hs[i + 1][1], hs[i + 1][2]) /\ q = hs[i + 1][3] + 2
              \/ i = Len(hs) /\ q = 1 /\ b = z
<1> DEFINE ls == LinesOf(hs)
           y  == Join(Blank, z)
<1>1. /\ ls \in Seq(Seq(Bytes)) /\ Len(ls) = Len(hs)
      /\ \A j \in 1 .. Len(hs) : /\ Terminated(ls[j], hs[j][3] + 2)
                                 /\ ls[j][1] = Byte(hs[j][1], hs[j][2])
  BY LinesOfAre
<1>2. y \in Seq(Bytes) /\ Len(y) = 2 + Len(z)
  <2>1. Blank \in Seq(Bytes) /\ Len(Blank) = 2
    BY BlankIsTerminated DEF Terminated
  <2>2. \A u, v \in Seq(Bytes) : Join(u, v) \in Seq(Bytes) /\ Len(Join(u, v)) = Len(u) + Len(v)
    BY JoinFacts
  <2> QED
    BY <2>1, <2>2
<1> HIDE DEF ls, y
<1>3. /\ \A j \in 0 .. Len(ls) : Left(ls, j, y) \in Seq(Bytes) /\ Len(Left(ls, j, y)) >= Len(y)
      /\ \A j \in 0 .. Len(ls) : j < Len(ls) => Left(ls, j, y) = Join(ls[j + 1], Left(ls, j + 1, y))
      /\ Left(ls, Len(ls), y) = y
  BY <1>1, <1>2, LeftIs
<1>4. CASE i < Len(hs)
  <2> DEFINE a == ls[i + 1]
             b == Left(ls, i + 1, y)
             q == hs[i + 1][3] + 2
  <2>1. i + 1 \in 1 .. Len(hs) /\ i + 1 \in 0 .. Len(ls)
    BY <1>1, <1>4
  <2>2. Terminated(a, q) /\ a[1] = Byte(hs[i + 1][1], hs[i + 1][2])
    BY <1>1, <2>1
  <2>3. b \in Seq(Bytes) /\ Len(z) <= Len(b)
    <3>1. b \in Seq(Bytes) /\ Len(b) >= Len(y)
      BY <1>3, <2>1
    <3>2. Len(b) \in Nat /\ Len(z) \in Nat
      BY <3>1
    <3> QED
      BY <1>2, <3>1, <3>2
  <2>4. Left(ls, i, y) = Join(a, b)
    BY <1>1, <1>3, <1>4
  <2> HIDE DEF a, q
  <2> QED
    BY <1>4, <2>2, <2>3, <2>4 DEF ls, y, q
<1>5. CASE i = Len(hs)
  <2>1. Left(ls, i, y) = Join(Blank, z)
    BY <1>1, <1>3, <1>5 DEF y
  <2>2. Len(z) <= Len(z)
    OBVIOUS
  <2> QED
    BY <1>5, <2>1, <2>2, BlankIsTerminated DEF ls, y
<1> QED
  BY <1>4, <1>5

\* What the parser finds in front of line i + 1 of a header or a trailer.
LEMMA LineIs ==
  ASSUME BufSize \in Nat, NEW str \in Seq(Bytes), Holds(str, bf, fed),
         NEW hs \in Seq(Lines), NEW z \in Seq(Bytes), NEW i \in 0 .. Len(hs),
         Rest(str, Pos(bf, fed)) = Left(LinesOf(hs), i, Join(Blank, z))
  PROVE  /\ HasLine /\ i < Len(hs) =>
              /\ LineByte = Byte(hs[i + 1][1], hs[i + 1][2])
              /\ Rest(str, Pos(LineTaken, fed)) = Left(LinesOf(hs), i + 1, Join(Blank, z))
              /\ 3 + hs[i + 1][3] <= BufSize
         /\ HasLine /\ i = Len(hs) => LineByte = NUL /\ Rest(str, Pos(LineTaken, fed)) = z
         /\ HasLine => /\ Holds(str, LineTaken, fed)
                       /\ LineTaken.put = bf.put /\ bf.get < LineTaken.get
         /\ ~HasLine => fed + Len(z) < Len(str)
         /\ ~HasLine /\ BF_is_full =>
              IF i < Len(hs) THEN BufSize < 3 + hs[i + 1][3] ELSE BufSize <= 1
<1>1. PICK a, q, b :
        /\ Terminated(a, q) /\ b \in Seq(Bytes) /\ Len(z) <= Len(b)
        /\ Left(LinesOf(hs), i, Join(Blank, z)) = Join(a, b)
        /\ \/ /\ i < Len(hs) /\ b = Left(LinesOf(hs), i + 1, Join(Blank, z))
              /\ a[1] = Byte(hs[i + 1][1], hs[i + 1][2]) /\ q = hs[i + 1][3] + 2
           \/ i = Len(hs) /\ q = 1 /\ b = z
  BY NextLine
<1>2. /\ HasLine => /\ LineByte = IF q = 1 THEN NUL ELSE a[1]
                    /\ Holds(str, LineTaken, fed) /\ Rest(str, Pos(LineTaken, fed)) = b
                    /\ q + 1 <= BufSize /\ LineTaken.put = bf.put
                    /\ bf.get < LineTaken.get
      /\ ~HasLine => fed + Len(b) < Len(str) /\ Size <= q
  BY <1>1, LineRead
<1>3. fed \in Nat /\ Len(b) \in Nat /\ Len(z) \in Nat /\ Len(str) \in Nat /\ q \in Nat
  BY <1>1 DEF Holds, Terminated
<1>4. BF_is_full => Size = BufSize
  BY DEF BF_is_full, Size
<1>5. i < Len(hs) => hs[i + 1][3] \in Nat
  <2>1. i < Len(hs) => i + 1 \in 1 .. Len(hs)
    OBVIOUS
  <2> QED
    BY <2>1 DEF Lines
<1>6. ASSUME ~HasLine PROVE fed + Len(z) < Len(str)
  BY <1>1, <1>2, <1>3, <1>6
<1>7. CASE i < Len(hs)
  <2>1. b = Left(LinesOf(hs), i + 1, Join(Blank, z))
        /\ a[1] = Byte(hs[i + 1][1], hs[i + 1][2]) /\ q = hs[i + 1][3] + 2
    BY <1>1, <1>7
  <2>2. q # 1 /\ (q + 1 <= BufSize => 3 + hs[i + 1][3] <= BufSize)
        /\ (BufSize <= q => BufSize < 3 + hs[i + 1][3])
    BY <1>5, <1>7, <2>1
  <2> QED
    BY <1>2, <1>4, <1>6, <1>7, <2>1, <2>2
<1>8. CASE i = Len(hs)
  <2>1. q = 1 /\ b = z /\ ~(i < Len(hs))
    BY <1>1, <1>8
  <2> QED
    BY <1>2, <1>4, <1>6, <1>8, <2>1
<1> QED
  BY <1>7, <1>8

-----------------------------------------------------------------------------
(* Every step keeps the invariant *)

LEMMA InvFacts ==
  ASSUME Inv
  PROVE  /\ sent \in Seq(Requests) /\ StreamOf(sent) \in Seq(Bytes) /\ BufSize \in Nat
         /\ Holds(StreamOf(sent), bf, fed) /\ parser \in Parsers /\ fed \in Nat
         /\ History(sent, received) /\ received \in Seq(Records)
         /\ Len(received) \in Nat /\ Len(sent) \in Nat /\ Len(received) <= Len(sent)
         /\ \A i \in 1 .. Len(sent) : IsRequest(sent[i])
         /\ \A k \in 0 .. Len(sent) : Later(sent, k) \in Seq(Bytes)
         /\ status = "running" =>
              Stands(sent, Rest(StreamOf(sent), Pos(bf, fed)), parser, request, received)
<1>1. /\ sent \in Seq(Requests) /\ Holds(StreamOf(sent), bf, fed) /\ parser \in Parsers
      /\ History(sent, received)
      /\ status = "running" =>
           Stands(sent, Rest(StreamOf(sent), Pos(bf, fed)), parser, request, received)
  BY DEF Inv, Good
<1>2. received \in Seq(Records) /\ Len(received) \in Nat /\ Len(received) <= Len(sent)
  BY <1>1 DEF History
<1>3. fed \in Nat
  BY <1>1 DEF Holds
<1> QED
  BY <1>1, <1>2, <1>3, Facts

LEMMA RequestLineKeeps ==
  ASSUME Inv, RequestLine
  PROVE  Inv'
<1> DEFINE n   == Len(received)
           str == StreamOf(sent)
           r   == sent[n + 1]
           b   == HeadersLeft(r, 0, Later(sent, n + 1))
<1>1. /\ sent \in Seq(Requests) /\ str \in Seq(Bytes) /\ BufSize \in Nat
      /\ Holds(str, bf, fed) /\ parser \in Parsers /\ fed \in Nat /\ History(sent, received)
      /\ n \in Nat /\ Len(sent) \in Nat /\ n <= Len(sent)
      /\ \A i \in 1 .. Len(sent) : IsRequest(sent[i])
      /\ \A k \in 0 .. Len(sent) : Later(sent, k) \in Seq(Bytes)
  BY InvFacts
<1>2. status = "running" /\ parser.state = "REQUEST_LINE" /\ sent' = sent
  BY DEF RequestLine, In, NoLine, Error, NeedMore, Return, GoOn
<1>3. AllDone(received) /\ request = NoRequest /\ Rest(str, Pos(bf, fed)) = Later(sent, n)
  BY <1>2, InvFacts DEF Stands
<1>4. Current(parser, received) = n + 1
  BY <1>2 DEF Current
<1>5. CASE n = Len(sent)
  <2>1. Later(sent, n) = <<>>
    BY <1>1, <1>5, HttpAssumption, StreamIs
  <2>2. Size = 0 /\ ~HasLine
    BY <1>1, <1>3, <2>1, NothingThere
  <2>3. NoLine
    BY <2>2 DEF RequestLine
  <2>4. Waits(sent, fed, parser, received)
    BY <1>1, <1>4, <1>5 DEF Waits
  <2>5. ~BF_is_full
    <3>1. BufSize # 0
      BY HttpAssumption
    <3> QED
      BY <1>1, <2>2, <3>1 DEF BF_is_full, Size
  <2> QED
    BY <1>2, <2>3, <2>4, <2>5, NoLineKeeps
<1>6. CASE n < Len(sent)
  <2> DEFINE a == Line("req", r.version, 0)
  <2>1. n + 1 \in 1 .. Len(sent) /\ n + 1 \in 0 .. Len(sent) /\ n \in 0 .. Len(sent)
    BY <1>1, <1>6
  <2>2. IsRequest(r) /\ Later(sent, n + 1) \in Seq(Bytes)
    BY <1>1, <2>1
  <2>3. Later(sent, n) = Join(a, b)
    BY <1>1, <1>6, <2>1, HttpAssumption, StreamIs
  <2>4. Terminated(a, 2) /\ a[1] = Byte("req", r.version) /\ r.version \in 0 .. 2
    BY <2>2, Pieces
  <2>5. b \in Seq(Bytes) /\ Len(Later(sent, n + 1)) <= Len(b)
    <3>1. r.headers \in Seq(Lines)
      BY <2>2, Pieces
    <3>2. 0 \in 0 .. Len(r.headers)
      BY <3>1
    <3>3. b \in Seq(Bytes) /\ Len(b) >= Len(Later(sent, n + 1))
      BY <2>2, <3>2, HeadersAre
    <3>4. Len(b) \in Nat /\ Len(Later(sent, n + 1)) \in Nat
      BY <2>2, <3>3
    <3> QED
      BY <3>3, <3>4
  <2> HIDE DEF a, b, r, str, n
  <2>6. /\ HasLine => /\ LineByte = a[1]
                      /\ Holds(str, LineTaken, fed) /\ Rest(str, Pos(LineTaken, fed)) = b
        /\ ~HasLine => fed + Len(b) < Len(str) /\ Size <= 2
    <3>1. Rest(str, Pos(bf, fed)) = Join(a, b)
      BY <1>3, <2>3
    <3> QED
      BY <1>1, <2>4, <2>5, <3>1, LineRead
  <2>7. LineByte = a[1] => LineByte.k = "req" /\ LineByte.v = r.version
    BY <2>4 DEF Byte
  <2>8. ASSUME NoLine PROVE Inv'
    <3>1. ~HasLine => Waits(sent, fed, parser, received)
      BY <1>1, <1>4, <2>1, <2>5, <2>6, WaitsIf DEF str
    <3>2. ~HasLine /\ BF_is_full => BufSize <= 2
      BY <1>1, <2>6 DEF BF_is_full, Size
    <3>3. ~(BufSize <= 2 /\ BufSize >= 3)
      BY <1>1
    <3> QED
      BY <1>2, <2>8, <3>1, <3>2, <3>3, NoLineKeeps
  <2>9. ASSUME HasLine, LineByte.k # "req" \/ LineByte.v > 1, bf' = LineTaken, Return("error")
        PROVE  Inv'
    <3>1. r.version > 1
      BY <2>6, <2>7, <2>9
    <3>2. ~WellFormed(r)
      BY <3>1 DEF WellFormed
    <3>3. Malformed(sent, received)
      BY <1>1, <1>3, <1>6, <3>2, MalformedNext DEF r, n
    <3>4. Holds(StreamOf(sent), bf', fed)
      BY <2>6, <2>9 DEF str
    <3> QED
      BY <1>2, <2>9, <3>3, <3>4, ErrorKeeps
  <2>10. ASSUME HasLine, LineByte.k = "req", LineByte.v <= 1,
                GoOn(LineTaken, [parser EXCEPT !.state = "HEADERS"],
                     [request EXCEPT !.version = LineByte.v]),
                received' = received
         PROVE  Inv'
    <3>1. /\ bf' = LineTaken /\ parser' = [parser EXCEPT !.state = "HEADERS"]
          /\ request' = [NoRequest EXCEPT !.version = r.version]
          /\ fed' = fed /\ status' = "running"
      BY <1>2, <1>3, <2>6, <2>7, <2>10 DEF GoOn
    <3>2. parser' \in Parsers /\ parser'.state = "HEADERS"
      BY <1>1, <3>1 DEF Parsers, States
    <3>3. r.version \in {0, 1}
      BY <2>4, <2>6, <2>7, <2>10
    <3>4. AtHeaders(r, Later(sent, n + 1), b, request')
      <4>1. ReadUpTo(r, 0, request')
        <5>1. r.version \in Nat
          BY <3>3
        <5> QED
          BY <3>1, <5>1, ReadNone
      <4>2. GoodUpTo(r.headers, 0)
        BY DEF GoodUpTo
      <4>3. 0 \in 0 .. Len(r.headers)
        BY <2>2, Pieces
      <4> QED
        BY <4>1, <4>2, <4>3 DEF AtHeaders, b
    <3>5. Rest(str, Pos(bf', fed)) = b /\ Holds(str, bf', fed)
      BY <2>6, <2>10, <3>1
    <3>6. Stands(sent, Rest(str, Pos(bf', fed)), parser', request', received)
      BY <1>3, <1>6, <3>2, <3>3, <3>4, <3>5 DEF Stands, r, n
    <3> QED
      BY <1>1, <1>2, <2>10, <3>1, <3>2, <3>5, <3>6, GoOnKeeps DEF str
  <2> QED
    BY <2>8, <2>9, <2>10 DEF RequestLine
<1> QED
  BY <1>1, <1>5, <1>6

LEMMA InHeaders ==
  ASSUME Inv, status = "running", parser.state = "HEADERS"
  PROVE  LET n == Len(received)
             r == sent[n + 1]
             y == Later(sent, n + 1)
         IN /\ AllDone(received) /\ n < Len(sent) /\ r.version \in {0, 1} /\ IsRequest(r)
            /\ n + 1 \in 1 .. Len(sent) /\ y \in Seq(Bytes) /\ Body(r, y) \in Seq(Bytes)
            /\ Len(y) <= Len(Body(r, y)) /\ r.headers \in Seq(Lines)
            /\ Current(parser, received) = n + 1
            /\ \E i \in 0 .. Len(r.headers) :
                 /\ Rest(StreamOf(sent), Pos(bf, fed)) = Left(LinesOf(r.headers), i, Join(Blank, Body(r, y)))
                 /\ ReadUpTo(r, i, request) /\ GoodUpTo(r.headers, i)
<1> DEFINE n == Len(received)
           r == sent[n + 1]
           y == Later(sent, n + 1)
<1>1. /\ AllDone(received) /\ n < Len(sent) /\ r.version \in {0, 1}
      /\ AtHeaders(r, y, Rest(StreamOf(sent), Pos(bf, fed)), request)
  BY InvFacts DEF Stands
<1>2. n + 1 \in 1 .. Len(sent) /\ n + 1 \in 0 .. Len(sent)
  BY <1>1, InvFacts
<1>3. IsRequest(r) /\ y \in Seq(Bytes)
  BY <1>2, InvFacts
<1>4. Current(parser, received) = n + 1
  BY DEF Current
<1> HIDE DEF n, r, y
<1>5. Body(r, y) \in Seq(Bytes) /\ Len(Body(r, y)) >= Len(y) /\ r.headers \in Seq(Lines)
  BY <1>3, HeadersAre, Pieces
<1>6. Len(Body(r, y)) \in Nat /\ Len(y) \in Nat
  BY <1>3, <1>5
<1>7. Len(y) <= Len(Body(r, y))
  BY <1>5, <1>6
<1> QED
  BY <1>1, <1>2, <1>3, <1>4, <1>5, <1>7 DEF AtHeaders, HeadersLeft, n, r, y

LEMMA HeaderLineKeeps ==
  ASSUME Inv, HeaderLine
  PROVE  Inv'
<1> DEFINE n   == Len(received)
           str == StreamOf(sent)
           r   == sent[n + 1]
           y   == Later(sent, n + 1)
           hs  == r.headers
           z   == Body(r, y)
<1>1. /\ sent \in Seq(Requests) /\ str \in Seq(Bytes) /\ BufSize \in Nat
      /\ Holds(str, bf, fed) /\ parser \in Parsers /\ fed \in Nat /\ History(sent, received)
      /\ n \in Nat /\ Len(sent) \in Nat
  BY InvFacts
<1>2. status = "running" /\ parser.state = "HEADERS" /\ sent' = sent
  BY DEF HeaderLine, In, NoLine, Error, NeedMore, Return, GoOn
<1>3. /\ AllDone(received) /\ n < Len(sent) /\ r.version \in {0, 1} /\ IsRequest(r)
      /\ n + 1 \in 1 .. Len(sent) /\ y \in Seq(Bytes) /\ z \in Seq(Bytes) /\ hs \in Seq(Lines)
      /\ Len(y) <= Len(z) /\ Current(parser, received) = n + 1
  BY <1>2, InHeaders
<1>4. PICK i \in 0 .. Len(hs) : /\ Rest(str, Pos(bf, fed)) = Left(LinesOf(hs), i, Join(Blank, z))
                                /\ ReadUpTo(r, i, request) /\ GoodUpTo(hs, i)
  BY <1>2, InHeaders
<1> HIDE DEF n, str, y, z, r, hs
<1>5. /\ HasLine /\ i < Len(hs) =>
           /\ LineByte = Byte(hs[i + 1][1], hs[i + 1][2])
           /\ Rest(str, Pos(LineTaken, fed)) = Left(LinesOf(hs), i + 1, Join(Blank, z))
           /\ 3 + hs[i + 1][3] <= BufSize
      /\ HasLine /\ i = Len(hs) => LineByte = NUL /\ Rest(str, Pos(LineTaken, fed)) = z
      /\ HasLine => Holds(str, LineTaken, fed)
      /\ ~HasLine => fed + Len(z) < Len(str)
      /\ ~HasLine /\ BF_is_full =>
           IF i < Len(hs) THEN BufSize < 3 + hs[i + 1][3] ELSE BufSize <= 1
  BY <1>1, <1>3, <1>4, LineIs
<1>6. i \in Nat /\ i + 1 \in Nat /\ (i < Len(hs) => i + 1 \in 1 .. Len(hs)) /\ (i < Len(hs) \/ i = Len(hs))
  BY <1>3
<1>7. \A j \in 1 .. Len(hs) : /\ hs[j][1] \in HeaderKinds \cup {"junk"}
                              /\ hs[j][2] \in Nat /\ hs[j][3] \in Nat
  BY <1>3, LinesOfAre
<1>8. ASSUME i < Len(hs), hs[i + 1][1] = "junk" \/ ~(3 + hs[i + 1][3] <= BufSize)
      PROVE  Malformed(sent, received)
  <2>1. ~GoodUpTo(hs, Len(hs))
    BY <1>6, <1>8 DEF GoodUpTo
  <2>2. ~WellFormed(r)
    BY <1>3, <2>1, WellFormedIs DEF hs
  <2> QED
    BY <1>1, <1>3, <2>2, MalformedNext DEF n, r
<1>9. ASSUME NoLine PROVE Inv'
  <2>1. ~HasLine => Waits(sent, fed, parser, received)
    <3>1. n + 1 \in 0 .. Len(sent)
      BY <1>1, <1>3
    <3> QED
      BY <1>1, <1>3, <1>5, <3>1, WaitsIf DEF str, y
  <2>2. ~HasLine /\ BF_is_full /\ BufSize >= 3 => Malformed(sent, received)
    <3> SUFFICES ASSUME ~HasLine, BF_is_full, BufSize >= 3 PROVE Malformed(sent, received)
      OBVIOUS
    <3>1. i < Len(hs) /\ BufSize < 3 + hs[i + 1][3]
      BY <1>1, <1>5
    <3>2. ~(3 + hs[i + 1][3] <= BufSize)
      BY <1>1, <1>6, <1>7, <3>1
    <3> QED
      BY <1>8, <3>1, <3>2
  <2> QED
    BY <1>2, <1>9, <2>1, <2>2, NoLineKeeps
<1>10. NUL.k \notin HeaderKinds /\ "NUL" \notin LineKinds
  BY DEF NUL, Byte, HeaderKinds, LineKinds
<1>11. LineByte = Byte(hs[i + 1][1], hs[i + 1][2]) => LineByte.k = hs[i + 1][1] /\ LineByte.v = hs[i + 1][2]
  BY DEF Byte
<1>12. ASSUME HasLine, LineByte # NUL, LineByte.k \notin HeaderKinds,
              bf' = LineTaken, Return("error")
       PROVE  Inv'
  <2>1. i < Len(hs)
    BY <1>5, <1>6, <1>12
  <2>2. hs[i + 1][1] = "junk"
    BY <1>5, <1>6, <1>7, <1>11, <1>12, <2>1
  <2>3. Holds(StreamOf(sent), bf', fed)
    BY <1>5, <1>12 DEF str
  <2> QED
    BY <1>2, <1>8, <1>12, <2>1, <2>2, <2>3, ErrorKeeps
<1>13. ASSUME HasLine, LineByte.k \in HeaderKinds,
              GoOn(LineTaken, parser, HeaderRead(request, LineByte)), received' = received
       PROVE  Inv'
  <2>1. /\ bf' = LineTaken /\ parser' = parser /\ request' = HeaderRead(request, LineByte)
        /\ fed' = fed /\ status' = "running"
    BY <1>2, <1>13 DEF GoOn
  <2>2. i < Len(hs)
    BY <1>5, <1>6, <1>10, <1>13
  <2>3. /\ LineByte.k = hs[i + 1][1] /\ LineByte.v = hs[i + 1][2]
        /\ Rest(str, Pos(LineTaken, fed)) = Left(LinesOf(hs), i + 1, Join(Blank, z))
        /\ 3 + hs[i + 1][3] <= BufSize /\ Holds(str, LineTaken, fed)
    BY <1>5, <1>11, <1>13, <2>2
  <2>4. ReadUpTo(r, i + 1, request')
    BY <1>3, <1>4, <1>6, <1>13, <2>1, <2>2, <2>3, ReadNext DEF hs
  <2>5. GoodUpTo(hs, i + 1)
    <3>1. \A j \in 1 .. i + 1 : j \in 1 .. i \/ j = i + 1
      BY <1>6
    <3>2. "junk" \notin HeaderKinds
      BY DEF HeaderKinds
    <3> QED
      BY <1>4, <1>13, <2>3, <3>1, <3>2 DEF GoodUpTo
  <2>6. AtHeaders(r, y, Rest(str, Pos(bf', fed)), request')
    <3>1. i + 1 \in 0 .. Len(hs)
      BY <1>6, <2>2
    <3> QED
      BY <2>1, <2>3, <2>4, <2>5, <3>1 DEF AtHeaders, HeadersLeft, hs, z
  <2>7. Stands(sent, Rest(str, Pos(bf', fed)), parser', request', received)
    BY <1>2, <1>3, <2>1, <2>6 DEF Stands, r, n, y
  <2>8. parser.state \notin {"CONTENT_LENGTH", "CHUNK_DATA"}
    BY <1>2
  <2> QED
    BY <1>1, <1>2, <1>13, <2>1, <2>3, <2>7, <2>8, GoOnKeeps DEF str
<1> QED
  BY <1>9, <1>12, <1>13 DEF HeaderLine

LEMMA HistoryNew ==
  ASSUME NEW s \in Seq(Requests), NEW rc, History(s, rc), AllDone(rc), Len(rc) < Len(s),
         NEW rq \in Said, rq = Announced(s[Len(rc) + 1]),
         NEW new, new = Append(rc, [request |-> rq, body |-> <<>>, done |-> FALSE])
  PROVE  /\ History(s, new) /\ Len(new) = Len(rc) + 1 /\ ~new[Len(rc) + 1].done
         /\ new[Len(rc) + 1].body = <<>>
<1> DEFINE n == Len(rc)
           e == [request |-> rq, body |-> <<>>, done |-> FALSE]
<1>1. rc \in Seq(Records) /\ n \in Nat /\ n <= Len(s) /\ n + 1 <= Len(s)
  BY DEF History
<1>2. e \in Records /\ e.request = rq /\ e.body = <<>> /\ e.done = FALSE
  BY EmptySeq DEF Records
<1> HIDE DEF e
<1>3. /\ new \in Seq(Records) /\ Len(new) = n + 1 /\ new[n + 1] = e
      /\ \A i \in 1 .. n : new[i] = rc[i]
  BY <1>1, <1>2 DEF e
<1> HIDE DEF n
<1>4. BodySize(s[n + 1]) \in Nat
  <2>1. n + 1 \in 1 .. Len(s)
    BY <1>1
  <2>2. IsRequest(s[n + 1])
    BY <2>1, Facts
  <2> QED
    BY <2>2, Pieces
<1>5. BodyBytes(0, 0) = <<>> /\ Len(<<>>) = 0
  BY BodyBytesIs
<1>6. ASSUME NEW i \in 1 .. n + 1
      PROVE  /\ new[i].request = Announced(s[i])
             /\ Len(new[i].body) <= BodySize(s[i])
             /\ new[i].body = BodyBytes(0, Len(new[i].body))
             /\ new[i].done => Len(new[i].body) = BodySize(s[i]) /\ WellFormed(s[i])
             /\ i < n + 1 => new[i].done
  <2>1. CASE i \in 1 .. n
    <3>1. new[i] = rc[i]
      BY <1>3, <2>1
    <3>2. /\ rc[i].request = Announced(s[i])
          /\ Len(rc[i].body) <= BodySize(s[i])
          /\ rc[i].body = BodyBytes(0, Len(rc[i].body))
          /\ rc[i].done => Len(rc[i].body) = BodySize(s[i]) /\ WellFormed(s[i])
      BY <2>1 DEF History, n
    <3>3. rc[i].done
      BY <2>1 DEF AllDone, n
    <3> QED
      BY <3>1, <3>2, <3>3
  <2>2. CASE i = n + 1
    BY <1>2, <1>3, <1>4, <1>5, <2>2 DEF n
  <2>3. i \in 1 .. n \/ i = n + 1
    BY <1>1
  <2> QED
    BY <2>1, <2>2, <2>3
<1>7. History(s, new)
  BY <1>1, <1>3, <1>6 DEF History
<1> QED
  BY <1>2, <1>3, <1>7 DEF n

\* The state that the headers call for.
LEMMA BodyBegins ==
  ASSUME NEW r, IsRequest(r), NEW y \in Seq(Bytes), ReadUpTo(r, Len(r.headers), request),
         r.version \in {0, 1}, GoodUpTo(r.headers, Len(r.headers)),
         NEW l \in Nat, NEW p,
         p = [state |-> BodyState,
              left  |-> IF BodyState = "CONTENT_LENGTH" THEN request.length ELSE l]
  PROVE  /\ request \in Said /\ request = Announced(r)
         /\ p \in Parsers /\ p.state \notin {"REQUEST_LINE", "HEADERS"}
         /\ p.state \in {"CONTENT_LENGTH", "CHUNK_DATA"} => p.left > 0
         /\ InBody(r, y, Body(r, y), p, 0)
<1>1. \A i \in 1 .. Len(r.headers) : r.headers[i][1] \in HeaderKinds
  BY Pieces, LinesOfAre DEF GoodUpTo
<1>2. /\ request = Announced(r)
      /\ "chunked" \in request.flags <=> Has(r, "chunked")
      /\ ~Has(r, "chunked") => /\ BodySize(r) = request.length /\ r.trailer = <<>>
                               /\ "length" \in request.flags <=> request.length > 0
  BY <1>1, ReadAll
<1>3. request \in Said /\ request.length \in Nat
  BY DEF ReadUpTo, Said
<1>4. p.state = BodyState /\ p.left = IF BodyState = "CONTENT_LENGTH" THEN request.length ELSE l
  OBVIOUS
<1>5. CASE Has(r, "chunked")
  <2>1. BodyState = "CHUNK_HEADER"
    BY <1>2, <1>5 DEF BodyState
  <2>2. p.state = "CHUNK_HEADER" /\ p.left = l
    BY <1>4, <2>1
  <2>3. AtChunkHeader(r, y, Body(r, y), 0)
    <3>1. 0 \in 0 .. Len(r.chunks) /\ Before(r.chunks, 0 + 1) = 0
      BY Pieces, BeforeIs
    <3> QED
      BY <1>5, <3>1 DEF AtChunkHeader, Body
  <2>4. p \in Parsers
    BY <2>1 DEF Parsers, States
  <2> QED
    BY <1>2, <1>3, <2>2, <2>3, <2>4 DEF InBody
<1>6. CASE ~Has(r, "chunked") /\ request.length > 0
  <2>1. BodyState = "CONTENT_LENGTH"
    BY <1>2, <1>6 DEF BodyState
  <2>2. p.state = "CONTENT_LENGTH" /\ p.left = request.length
    BY <1>4, <2>1
  <2>3. AtContent(r, y, Body(r, y), p.left, 0)
    BY <1>2, <1>3, <1>6, <2>2 DEF AtContent, Body
  <2>4. p \in Parsers
    BY <1>3, <2>1 DEF Parsers, States
  <2> QED
    BY <1>2, <1>3, <1>6, <2>2, <2>3, <2>4 DEF InBody
<1>7. CASE ~Has(r, "chunked") /\ ~(request.length > 0)
  <2>1. BodyState = "next_request"
    BY <1>2, <1>7 DEF BodyState
  <2>2. p.state = "next_request" /\ p.left = l
    BY <1>4, <2>1
  <2>3. BodySize(r) = 0
    BY <1>2, <1>3, <1>7
  <2>4. Body(r, y) = y
    <3>1. BodyBytes(0, 0) = <<>>
      BY BodyBytesIs
    <3>2. Join(<<>>, y) = y
      BY JoinFacts
    <3> QED
      BY <1>7, <2>3, <3>1, <3>2 DEF Body
  <2>5. AtEnd(r, y, Body(r, y), 0)
    <3>1. r.trailer = <<>> /\ Len(<<>>) = 0
      BY <1>2, <1>7
    <3>2. GoodUpTo(r.trailer, Len(r.trailer))
      BY <3>1 DEF GoodUpTo
    <3> QED
      BY <2>3, <2>4, <3>2 DEF AtEnd
  <2>6. p \in Parsers
    BY <2>1 DEF Parsers, States
  <2> QED
    BY <1>2, <1>3, <2>2, <2>5, <2>6 DEF InBody
<1> QED
  BY <1>5, <1>6, <1>7

LEMMA EndOfHeaderKeeps ==
  ASSUME Inv, NEW ok, EndOfHeader(ok)
  PROVE  Inv'
<1> DEFINE n   == Len(received)
           str == StreamOf(sent)
           r   == sent[n + 1]
           y   == Later(sent, n + 1)
           hs  == r.headers
           z   == Body(r, y)
           p   == [state |-> BodyState,
                   left  |-> IF BodyState = "CONTENT_LENGTH" THEN request.length ELSE parser.left]
<1>1. /\ sent \in Seq(Requests) /\ str \in Seq(Bytes) /\ BufSize \in Nat
      /\ Holds(str, bf, fed) /\ parser \in Parsers /\ fed \in Nat /\ History(sent, received)
      /\ n \in Nat /\ Len(sent) \in Nat
  BY InvFacts
<1>2. /\ status = "running" /\ parser.state = "HEADERS" /\ sent' = sent /\ fed' = fed
      /\ HasLine /\ LineByte = NUL
      /\ received' = Append(received, [request |-> request, body |-> <<>>, done |-> FALSE])
  BY DEF EndOfHeader, In, GoOn
<1>3. /\ AllDone(received) /\ n < Len(sent) /\ r.version \in {0, 1} /\ IsRequest(r)
      /\ n + 1 \in 1 .. Len(sent) /\ y \in Seq(Bytes) /\ z \in Seq(Bytes) /\ hs \in Seq(Lines)
  BY <1>2, InHeaders
<1>4. PICK i \in 0 .. Len(hs) : /\ Rest(str, Pos(bf, fed)) = Left(LinesOf(hs), i, Join(Blank, z))
                                /\ ReadUpTo(r, i, request) /\ GoodUpTo(hs, i)
  BY <1>2, InHeaders
<1> HIDE DEF n, str, y, z, r, hs
<1>5. /\ HasLine /\ i < Len(hs) => LineByte = Byte(hs[i + 1][1], hs[i + 1][2])
      /\ HasLine /\ i = Len(hs) => Rest(str, Pos(LineTaken, fed)) = z
      /\ HasLine => Holds(str, LineTaken, fed)
  BY <1>1, <1>3, <1>4, LineIs
<1>6. i = Len(hs)
  <2>1. ASSUME i < Len(hs) PROVE FALSE
    <3>1. i + 1 \in 1 .. Len(hs)
      BY <1>3, <2>1
    <3>2. hs[i + 1][1] \in HeaderKinds \cup {"junk"}
      BY <1>3, <3>1, LinesOfAre
    <3>3. Byte(hs[i + 1][1], hs[i + 1][2]).k = hs[i + 1][1] /\ NUL.k = "NUL"
      BY DEF Byte, NUL
    <3>4. "NUL" \notin HeaderKinds \cup {"junk"}
      BY DEF HeaderKinds
    <3> QED
      BY <1>2, <1>5, <2>1, <3>2, <3>3, <3>4
  <2> QED
    BY <1>3, <2>1
<1>7. parser.left \in Nat
  BY <1>1 DEF Parsers
<1>8. /\ request \in Said /\ request = Announced(r)
      /\ p \in Parsers /\ p.state \notin {"REQUEST_LINE", "HEADERS"}
      /\ p.state \in {"CONTENT_LENGTH", "CHUNK_DATA"} => p.left > 0
      /\ InBody(r, y, z, p, 0)
  BY <1>3, <1>4, <1>6, <1>7, BodyBegins DEF hs, z
<1>9. /\ History(sent, received') /\ Len(received') = n + 1 /\ ~received'[n + 1].done
      /\ received'[n + 1].body = <<>>
  BY <1>1, <1>2, <1>3, <1>8, HistoryNew DEF n, r
<1> HIDE DEF p
<1>10. CASE ok
  <2>1. /\ bf' = BF_compact(LineTaken) /\ parser' = p /\ request' = request /\ status' = "running"
    BY <1>2, <1>10 DEF EndOfHeader, GoOn, p
  <2>2. Holds(str, bf', fed) /\ Rest(str, Pos(bf', fed)) = z
    BY <1>1, <1>2, <1>5, <1>6, <2>1, CompactHolds
  <2>3. Stands(sent, Rest(str, Pos(bf', fed)), parser', request', received')
    <3>1. Len(received'[n + 1].body) = 0 /\ n + 1 > 0
      BY <1>1, <1>9
    <3> QED
      BY <1>8, <1>9, <2>1, <2>2, <3>1 DEF Stands, r, y
  <2> QED
    BY <1>2, <1>8, <1>9, <2>1, <2>2, <2>3, GoOnKeeps DEF str
<1>11. CASE ~ok
  <2>1. bf' = LineTaken /\ status' = "refused" /\ parser' = parser
    BY <1>11 DEF EndOfHeader
  <2>2. Holds(StreamOf(sent), bf', fed)
    BY <1>2, <1>5, <2>1 DEF str
  <2> QED
    BY <1>2, <1>9, <2>1, <2>2, RefuseKeeps
<1> QED
  BY <1>10, <1>11

-----------------------------------------------------------------------------
(* The body: with Content-Length, or one chunk of it *)

LEMMA WaitKeeps ==
  ASSUME Inv, sent' = sent, fed' = fed, status' = "need_more",
         Holds(StreamOf(sent), bf', fed), bf'.get = 0, BufSize >= 3 => bf'.put < BufSize,
         parser' \in Parsers, History(sent, received'),
         parser'.state \in {"CONTENT_LENGTH", "CHUNK_DATA"} => parser'.left > 0,
         Stands(sent, Rest(StreamOf(sent), Pos(bf', fed)), parser', request', received'),
         Waits(sent, fed, parser', received')
  PROVE  Inv'
<1>1. Good(sent, fed, bf', parser', request', "need_more", received')
  BY DEF Inv, Good
<1> QED
  BY <1>1 DEF Inv

LEMMA InBodyFacts ==
  ASSUME Inv, status = "running", parser.state \notin {"REQUEST_LINE", "HEADERS"}
  PROVE  LET n == Len(received)
             r == sent[n]
             y == Later(sent, n)
             m == Len(received[n].body)
         IN /\ n \in Nat /\ n > 0 /\ n \in 1 .. Len(sent) /\ n \in 0 .. Len(sent) /\ IsRequest(r)
            /\ y \in Seq(Bytes) /\ Len(y) \in Nat /\ ~received[n].done
            /\ InBody(r, y, Rest(StreamOf(sent), Pos(bf, fed)), parser, m)
            /\ m \in Nat /\ received[n].body = BodyBytes(0, m) /\ m <= BodySize(r)
            /\ Current(parser, received) = n
<1> DEFINE n == Len(received)
           r == sent[n]
           y == Later(sent, n)
           m == Len(received[n].body)
<1>1. /\ n > 0 /\ ~received[n].done
      /\ InBody(r, y, Rest(StreamOf(sent), Pos(bf, fed)), parser, m)
  BY InvFacts DEF Stands
<1>2. n \in Nat /\ n \in 1 .. Len(sent) /\ n \in 0 .. Len(sent) /\ n \in 1 .. n
  BY <1>1, InvFacts
<1>3. IsRequest(r) /\ y \in Seq(Bytes) /\ Len(y) \in Nat
  BY <1>2, InvFacts
<1>4. m \in Nat
  <2>1. received[n] \in Records
    BY <1>2, InvFacts
  <2> QED
    BY <2>1 DEF Records
<1>5. received[n].body = BodyBytes(0, m) /\ m <= BodySize(r)
  BY <1>2, InvFacts DEF History
<1>6. Current(parser, received) = n
  BY DEF Current
<1> QED
  BY <1>1, <1>2, <1>3, <1>4, <1>5, <1>6

\* The first t bytes of a body in the buffer.
LEMMA BodyTaken ==
  ASSUME BufSize \in Nat, NEW str \in Seq(Bytes), Holds(str, bf, fed),
         NEW m \in Nat, NEW left \in Nat, NEW t \in Nat, t <= Size, t <= left,
         NEW w \in Seq(Bytes), Rest(str, Pos(bf, fed)) = Join(BodyBytes(m, left), w),
         NEW v, v = [bf EXCEPT !.get = @ + t]
  PROVE  /\ [i \in 1 .. t |-> bf.mem[bf.get + i - 1]] = BodyBytes(m, t)
         /\ Holds(str, v, fed) /\ v.get = bf.get + t /\ v.put = bf.put
         /\ Rest(str, Pos(v, fed)) = Join(BodyBytes(m + t, left - t), w)
<1> DEFINE n == Len(str)
           g == bf.get
           z == Size
           p == Pos(bf, fed)
           a == BodyBytes(m, t)
           b == Join(BodyBytes(m + t, left - t), w)
<1>1. /\ g \in Nat /\ z \in Nat /\ g + z <= BufSize /\ fed \in Nat /\ z <= fed /\ fed <= n
      /\ p = fed - z /\ bf \in Buffers /\ bf.put = g + z /\ n \in Nat
  BY DEF Holds, Buffers, Size, Pos
<1>2. \A j \in 0 .. z - 1 : bf.mem[g + j] = str[p + j + 1]
  BY DEF Holds, Size, Pos
<1>3. left - t \in Nat /\ m + t \in Nat /\ t + (left - t) = left
  OBVIOUS
<1>4. /\ a \in Seq(Bytes) /\ Len(a) = t /\ \A i \in 1 .. t : a[i] = Byte("data", m + i)
  BY BodyBytesIs
<1>5. BodyBytes(m + t, left - t) \in Seq(Bytes)
  BY <1>3, BodyBytesIs
<1>6. b \in Seq(Bytes)
  BY <1>5, JoinFacts
<1>7. Rest(str, p) = Join(a, b)
  <2>1. Join(a, BodyBytes(m + t, left - t)) = BodyBytes(m, left)
    BY <1>3, BodyBytesJoin
  <2>2. \A u, x, l \in Seq(Bytes) : Join(Join(u, x), l) = Join(u, Join(x, l))
    BY JoinFacts
  <2>3. Join(Join(a, BodyBytes(m + t, left - t)), w) = Join(a, b)
    BY <1>4, <1>5, <2>2
  <2> QED
    BY <2>1, <2>3
<1> HIDE DEF a, b, n, g, z, p
<1>8. /\ Rest(str, p + t) = b /\ \A j \in 1 .. t : str[p + j] = a[j]
  <2>1. p \in 0 .. Len(str)
    BY <1>1 DEF n
  <2>2. Rest(str, p + Len(a)) = b /\ \A j \in 1 .. Len(a) : str[p + j] = a[j]
    BY <1>4, <1>6, <1>7, <2>1, Drop
  <2> QED
    BY <1>4, <2>2
<1>9. t <= z
  BY DEF z
<1>10. \A i \in 1 .. t : bf.mem[g + i - 1] = a[i]
  <2> TAKE i \in 1 .. t
  <2>1. i - 1 \in 0 .. z - 1 /\ g + (i - 1) = g + i - 1 /\ p + (i - 1) + 1 = p + i
    BY <1>1, <1>9
  <2>2. bf.mem[g + (i - 1)] = str[p + (i - 1) + 1]
    BY <1>2, <2>1
  <2> QED
    BY <1>8, <2>1, <2>2
<1>11. [i \in 1 .. t |-> bf.mem[g + i - 1]] = a
  <2>1. a = [i \in 1 .. t |-> a[i]]
    BY <1>4
  <2> QED
    BY <1>10, <2>1
<1>12. v \in Buffers /\ v.get = g + t /\ v.put = g + z /\ v.mem = bf.mem
  <2>1. /\ bf.mem \in [0 .. BufSize - 1 -> Bytes] /\ bf.get = g
        /\ bf = [mem |-> bf.mem, get |-> bf.get, put |-> bf.put]
    BY <1>1 DEF Buffers, g
  <2>2. v = [mem |-> bf.mem, get |-> g + t, put |-> bf.put]
    BY <2>1
  <2>3. g + t \in Nat /\ g + z \in Nat
    BY <1>1
  <2> QED
    BY <1>1, <2>1, <2>2, <2>3 DEF Buffers
<1>13. v.put - v.get = z - t
  BY <1>1, <1>12
<1>14. \A j \in 0 .. z - t - 1 : v.mem[g + t + j] = str[fed - (z - t) + j + 1]
  <2> TAKE j \in 0 .. z - t - 1
  <2>1. t + j \in 0 .. z - 1 /\ g + (t + j) = g + t + j /\ p + (t + j) + 1 = fed - (z - t) + j + 1
    BY <1>1, <1>9, SMTT(30)
  <2>2. bf.mem[g + (t + j)] = str[p + (t + j) + 1]
    BY <1>2, <2>1
  <2> QED
    BY <1>12, <2>1, <2>2
<1>15. Holds(str, v, fed)
  <2>1. v.get <= v.put /\ v.put <= BufSize /\ v.put - v.get <= fed
    BY <1>1, <1>9, <1>12, <1>13
  <2> QED
    BY <1>1, <1>12, <1>13, <1>14, <2>1 DEF Holds, n
<1>16. Pos(v, fed) = p + t
  BY <1>1, <1>13 DEF Pos
<1> QED
  BY <1>1, <1>8, <1>11, <1>12, <1>15, <1>16 DEF a, b, g, z

\* The history once ev_body has been told more, and once ev_finish was called.
Longer(rc, bytes) == [rc EXCEPT ![Len(rc)].body = Join(@, bytes)]
Ended(rc)         == [rc EXCEPT ![Len(rc)].done = TRUE]

\* The n-th request is the last one; it has m bytes of its body, and is not done.
Open(s, rc, n, m) ==
  /\ History(s, rc) /\ Len(rc) = n /\ Len(rc) > 0 /\ ~rc[Len(rc)].done
  /\ m = Len(rc[Len(rc)].body) /\ m <= BodySize(s[Len(rc)])

LEMMA HistoryTold ==
  ASSUME NEW s \in Seq(Requests), NEW rc, NEW m \in Nat, NEW t \in Nat, NEW k \in Nat, k = m + t,
         Open(s, rc, Len(rc), m), k <= BodySize(s[Len(rc)])
  PROVE  Open(s, Longer(rc, BodyBytes(m, t)), Len(rc), k)
<1> DEFINE new == Longer(rc, BodyBytes(m, t))
<1> SUFFICES /\ History(s, new) /\ Len(new) = Len(rc) /\ ~new[Len(rc)].done
             /\ Len(new[Len(rc)].body) = m + t
  BY DEF Open
<1>0. /\ History(s, rc) /\ Len(rc) > 0 /\ ~rc[Len(rc)].done
      /\ m = Len(rc[Len(rc)].body) /\ m + t <= BodySize(s[Len(rc)])
  BY DEF Open
<1> DEFINE n == Len(rc)
           b == Join(rc[n].body, BodyBytes(m, t))
<1>1. rc \in Seq(Records) /\ n \in Nat /\ n <= Len(s) /\ n \in 1 .. n
  BY <1>0 DEF History
<1>2. rc[n] \in Records /\ rc[n].body = BodyBytes(0, m)
  BY <1>0, <1>1 DEF History
<1>3. b = BodyBytes(0, m + t)
  <2>1. Join(BodyBytes(0, m), BodyBytes(0 + m, t)) = BodyBytes(0, m + t)
    BY BodyBytesJoin
  <2> QED
    BY <1>2, <2>1
<1>4. b \in Seq(Bytes) /\ Len(b) = m + t
  <2>1. m + t \in Nat
    OBVIOUS
  <2> QED
    BY <1>3, <2>1, BodyBytesIs
<1>5. new = [rc EXCEPT ![n].body = b]
  BY DEF Longer
<1> HIDE DEF b, n, new
<1>6. /\ new \in Seq(Records) /\ Len(new) = n
      /\ new[n].body = b /\ new[n].done = rc[n].done /\ new[n].request = rc[n].request
      /\ \A i \in 1 .. n : i # n => new[i] = rc[i]
  <2> DEFINE e == [rc[n] EXCEPT !.body = b]
  <2>1. e \in Records /\ e.body = b /\ e.done = rc[n].done /\ e.request = rc[n].request
    BY <1>2, <1>4 DEF Records
  <2>2. new = [rc EXCEPT ![n] = e]
    BY <1>5
  <2> HIDE DEF e
  <2>3. n \in 1 .. Len(rc) /\ Len(rc) = n
    BY <1>1 DEF n
  <2>4. /\ [rc EXCEPT ![n] = e] \in Seq(Records) /\ Len([rc EXCEPT ![n] = e]) = Len(rc)
        /\ \A j \in 1 .. Len(rc) : [rc EXCEPT ![n] = e][j] = IF j = n THEN e ELSE rc[j]
    BY <1>1, <2>1, <2>3, ExceptSeq
  <2>5. /\ new \in Seq(Records) /\ Len(new) = n
        /\ \A j \in 1 .. n : new[j] = IF j = n THEN e ELSE rc[j]
    BY <2>2, <2>3, <2>4
  <2> QED
    BY <1>1, <2>1, <2>5
<1>7. ~rc[n].done /\ m + t <= BodySize(s[n])
  BY <1>0 DEF n
<1>8. ASSUME NEW i \in 1 .. n
      PROVE  /\ new[i].request = Announced(s[i])
             /\ Len(new[i].body) <= BodySize(s[i])
             /\ new[i].body = BodyBytes(0, Len(new[i].body))
             /\ new[i].done => Len(new[i].body) = BodySize(s[i]) /\ WellFormed(s[i])
             /\ i < n => new[i].done
  <2>1. /\ rc[i].request = Announced(s[i])
        /\ Len(rc[i].body) <= BodySize(s[i])
        /\ rc[i].body = BodyBytes(0, Len(rc[i].body))
        /\ rc[i].done => Len(rc[i].body) = BodySize(s[i]) /\ WellFormed(s[i])
        /\ i < n => rc[i].done
    BY <1>0 DEF History, n
  <2>2. CASE i = n
    BY <1>1, <1>3, <1>4, <1>6, <1>7, <2>1, <2>2
  <2>3. CASE i # n
    BY <1>6, <2>1, <2>3
  <2> QED
    BY <2>2, <2>3
<1>9. History(s, new)
  BY <1>1, <1>6, <1>8 DEF History
<1> QED
  BY <1>4, <1>6, <1>7, <1>9 DEF n

Over(s, rc, n) == History(s, rc) /\ Len(rc) = n /\ AllDone(rc)

LEMMA HistoryDone ==
  ASSUME NEW s \in Seq(Requests), NEW rc, Open(s, rc, Len(rc), BodySize(s[Len(rc)])),
         WellFormed(s[Len(rc)])
  PROVE  Over(s, Ended(rc), Len(rc))
<1> DEFINE n   == Len(rc)
           new == Ended(rc)
<1>0. Len(rc[n].body) = BodySize(s[n]) /\ WellFormed(s[n])
  BY DEF Open
<1>1. rc \in Seq(Records) /\ n \in Nat /\ n <= Len(s) /\ n \in 1 .. n
  BY DEF Open, History
<1>2. rc[n] \in Records
  BY <1>1
<1> HIDE DEF n, new
<1>3. /\ new \in Seq(Records) /\ Len(new) = n
      /\ new[n].body = rc[n].body /\ new[n].done = TRUE /\ new[n].request = rc[n].request
      /\ \A i \in 1 .. n : i # n => new[i] = rc[i]
  <2> DEFINE e == [rc[n] EXCEPT !.done = TRUE]
  <2>1. e \in Records /\ e.body = rc[n].body /\ e.done = TRUE /\ e.request = rc[n].request
    BY <1>2 DEF Records
  <2>2. new = [rc EXCEPT ![n] = e]
    BY DEF Ended, n, new
  <2> HIDE DEF e
  <2>3. n \in 1 .. Len(rc) /\ Len(rc) = n
    BY <1>1 DEF n
  <2>4. /\ [rc EXCEPT ![n] = e] \in Seq(Records) /\ Len([rc EXCEPT ![n] = e]) = Len(rc)
        /\ \A j \in 1 .. Len(rc) : [rc EXCEPT ![n] = e][j] = IF j = n THEN e ELSE rc[j]
    BY <1>1, <2>1, <2>3, ExceptSeq
  <2>5. /\ new \in Seq(Records) /\ Len(new) = n
        /\ \A j \in 1 .. n : new[j] = IF j = n THEN e ELSE rc[j]
    BY <2>2, <2>3, <2>4
  <2> QED
    BY <1>1, <2>1, <2>5
<1>4. ASSUME NEW i \in 1 .. n
      PROVE  /\ new[i].request = Announced(s[i])
             /\ Len(new[i].body) <= BodySize(s[i])
             /\ new[i].body = BodyBytes(0, Len(new[i].body))
             /\ new[i].done => Len(new[i].body) = BodySize(s[i]) /\ WellFormed(s[i])
             /\ new[i].done
  <2>1. /\ rc[i].request = Announced(s[i])
        /\ Len(rc[i].body) <= BodySize(s[i])
        /\ rc[i].body = BodyBytes(0, Len(rc[i].body))
        /\ rc[i].done => Len(rc[i].body) = BodySize(s[i]) /\ WellFormed(s[i])
        /\ i < n => rc[i].done
    BY DEF Open, History, n
  <2>2. CASE i = n
    BY <1>0, <1>3, <2>1, <2>2 DEF n
  <2>3. CASE i # n
    <3>1. i < n
      BY <1>1, <2>3
    <3> QED
      BY <1>3, <2>1, <2>3, <3>1
  <2> QED
    BY <2>2, <2>3
<1>5. History(s, new)
  BY <1>1, <1>3, <1>4 DEF History
<1>6. AllDone(new)
  BY <1>3, <1>4 DEF AllDone
<1> QED
  BY <1>3, <1>5, <1>6 DEF Over, n, new

\* What follows the bytes that are being read, of a body or of a chunk.
LEMMA InData ==
  ASSUME NEW r, IsRequest(r), NEW y \in Seq(Bytes), NEW rest, NEW p \in Parsers, NEW m \in Nat,
         p.state \in {"CONTENT_LENGTH", "CHUNK_DATA"}, InBody(r, y, rest, p, m)
  PROVE  \E w \in Seq(Bytes) :
           /\ rest = Join(BodyBytes(m, p.left), w) /\ Len(y) <= Len(w) /\ m + p.left <= BodySize(r)
           /\ \A k, l \in Nat : k + l = m + p.left =>
                /\ l > 0 => InBody(r, y, Join(BodyBytes(k, l), w), [state |-> p.state, left |-> l], k)
                /\ l = 0 => InBody(r, y, w, [state |-> IF p.state = "CHUNK_DATA" THEN "CHUNK_EOF"
                                                       ELSE "next_request", left |-> l], k)
<1>1. /\ p.left \in Nat /\ r.version \in {0, 1} /\ GoodUpTo(r.headers, Len(r.headers))
      /\ BodySize(r) \in Nat /\ Len(y) \in Nat
  BY Pieces DEF Parsers, InBody
<1>2. CASE p.state = "CONTENT_LENGTH"
  <2>1. rest = Join(BodyBytes(m, p.left), y) /\ m + p.left = BodySize(r) /\ r.trailer = <<>>
    BY <1>2 DEF InBody, AtContent
  <2>2. GoodUpTo(r.trailer, Len(r.trailer))
    <3>1. Len(<<>>) = 0
      OBVIOUS
    <3> QED
      BY <2>1, <3>1 DEF GoodUpTo
  <2>3. ASSUME NEW k \in Nat, NEW l \in Nat, k + l = m + p.left
        PROVE  /\ InBody(r, y, Join(BodyBytes(k, l), y), [state |-> "CONTENT_LENGTH", left |-> l], k)
               /\ l = 0 => InBody(r, y, y, [state |-> "next_request", left |-> l], k)
    <3>1. AtContent(r, y, Join(BodyBytes(k, l), y), l, k)
      BY <2>1, <2>3 DEF AtContent
    <3>2. InBody(r, y, Join(BodyBytes(k, l), y), [state |-> "CONTENT_LENGTH", left |-> l], k)
      BY <1>1, <3>1 DEF InBody
    <3>3. l = 0 => AtEnd(r, y, y, k)
      BY <1>1, <2>1, <2>2, <2>3 DEF AtEnd
    <3>4. l = 0 => InBody(r, y, y, [state |-> "next_request", left |-> l], k)
      BY <1>1, <3>3 DEF InBody
    <3> QED
      BY <3>2, <3>4
  <2>4. Len(y) <= Len(y) /\ m + p.left <= BodySize(r)
    BY <1>1, <2>1
  <2> QED
    BY <1>2, <2>1, <2>3, <2>4
<1>3. CASE p.state = "CHUNK_DATA"
  <2>1. PICK c \in 1 .. Len(r.chunks) :
          /\ rest = Join(BodyBytes(m, p.left), Join(Blank, ChunksLeft(r, c, y)))
          /\ m + p.left = Before(r.chunks, c + 1)
    BY <1>3 DEF InBody, AtChunkData
  <2> DEFINE w == Join(Blank, ChunksLeft(r, c, y))
  <2>2. w \in Seq(Bytes) /\ Len(y) <= Len(w)
    <3>1. c \in 0 .. Len(r.chunks) /\ Blank \in Seq(Bytes) /\ Len(Blank) = 2
      BY Pieces
    <3>2. ChunksLeft(r, c, y) \in Seq(Bytes) /\ Len(ChunksLeft(r, c, y)) >= Len(y)
      BY <3>1, ChunksAre
    <3>3. w \in Seq(Bytes) /\ Len(w) = 2 + Len(ChunksLeft(r, c, y))
      <4>1. \A u, v \in Seq(Bytes) : Join(u, v) \in Seq(Bytes) /\ Len(Join(u, v)) = Len(u) + Len(v)
        BY JoinFacts
      <4> QED
        BY <3>1, <3>2, <4>1
    <3>4. Len(ChunksLeft(r, c, y)) \in Nat
      BY <3>2
    <3> QED
      BY <1>1, <3>2, <3>3, <3>4
  <2>3. m + p.left <= BodySize(r)
    <3>1. c + 1 \in 1 .. Len(r.chunks) + 1 /\ r.chunks \in Seq(Nat \ {0})
      BY Pieces
    <3>2. Before(r.chunks, c + 1) <= Before(r.chunks, Len(r.chunks) + 1)
      BY <3>1, BeforeIs
    <3> QED
      BY <2>1, <3>2 DEF BodySize
  <2>4. ASSUME NEW k \in Nat, NEW l \in Nat, k + l = m + p.left
        PROVE  /\ InBody(r, y, Join(BodyBytes(k, l), w), [state |-> "CHUNK_DATA", left |-> l], k)
               /\ l = 0 => InBody(r, y, w, [state |-> "CHUNK_EOF", left |-> l], k)
    <3>1. AtChunkData(r, y, Join(BodyBytes(k, l), w), l, k)
      BY <2>1, <2>4 DEF AtChunkData
    <3>2. InBody(r, y, Join(BodyBytes(k, l), w), [state |-> "CHUNK_DATA", left |-> l], k)
      BY <1>1, <3>1 DEF InBody
    <3>3. l = 0 => AtChunkEof(r, y, w, k)
      BY <1>1, <2>1, <2>4 DEF AtChunkEof
    <3>4. l = 0 => InBody(r, y, w, [state |-> "CHUNK_EOF", left |-> l], k)
      BY <1>1, <3>3 DEF InBody
    <3> QED
      BY <3>2, <3>4
  <2> HIDE DEF w
  <2>5. rest = Join(BodyBytes(m, p.left), w)
    BY <2>1 DEF w
  <2> QED
    BY <1>3, <2>2, <2>3, <2>4, <2>5
<1> QED
  BY <1>2, <1>3

LEMMA BodyDataKeeps ==
  ASSUME Inv, NEW ok, BodyData(ok)
  PROVE  Inv'
<1> DEFINE n    == Len(received)
           str  == StreamOf(sent)
           r    == sent[n]
           y    == Later(sent, n)
           m    == Len(received[n].body)
           left == parser.left
           t    == Take
           v    == [bf EXCEPT !.get = @ + t]
           next == IF parser.state = "CHUNK_DATA" THEN "CHUNK_EOF" ELSE "next_request"
<1>1. /\ sent \in Seq(Requests) /\ str \in Seq(Bytes) /\ BufSize \in Nat
      /\ Holds(str, bf, fed) /\ parser \in Parsers /\ fed \in Nat /\ History(sent, received)
      /\ n \in Nat /\ Len(sent) \in Nat /\ bf.get \in Nat /\ bf.put \in Nat /\ bf.get <= bf.put
      /\ left \in Nat
  BY InvFacts DEF Holds, Buffers, Parsers
<1>2. /\ status = "running" /\ parser.state \in {"CONTENT_LENGTH", "CHUNK_DATA"}
      /\ sent' = sent /\ fed' = fed /\ Size > 0 /\ left > 0
      /\ received' = Told([i \in 1 .. t |-> bf.mem[bf.get + i - 1]])
  BY DEF BodyData, GoOn
<1>3. /\ n > 0 /\ n \in 0 .. Len(sent) /\ IsRequest(r)
      /\ y \in Seq(Bytes) /\ Len(y) \in Nat /\ ~received[n].done
      /\ InBody(r, y, Rest(str, Pos(bf, fed)), parser, m)
      /\ m \in Nat /\ m <= BodySize(r) /\ Current(parser, received) = n
  BY <1>2, InBodyFacts
<1> HIDE DEF n, str, r, y, m
<1>4. PICK w \in Seq(Bytes) :
        /\ Rest(str, Pos(bf, fed)) = Join(BodyBytes(m, left), w) /\ Len(y) <= Len(w)
        /\ m + left <= BodySize(r)
        /\ \A k, l \in Nat : k + l = m + left =>
             /\ l > 0 => InBody(r, y, Join(BodyBytes(k, l), w), [state |-> parser.state, left |-> l], k)
             /\ l = 0 => InBody(r, y, w, [state |-> next, left |-> l], k)
  BY <1>1, <1>2, <1>3, InData, ZenonT(30)
<1>5. Size \in Nat /\ t \in Nat /\ t > 0 /\ t <= Size /\ t <= left /\ (t < left => t = Size)
  BY <1>1, <1>2 DEF Size, Take
<1> HIDE DEF t, left, next
<1>6. /\ [i \in 1 .. t |-> bf.mem[bf.get + i - 1]] = BodyBytes(m, t)
      /\ Holds(str, v, fed) /\ v.get = bf.get + t /\ v.put = bf.put
      /\ Rest(str, Pos(v, fed)) = Join(BodyBytes(m + t, left - t), w)
  <2>1. v = [bf EXCEPT !.get = @ + t]
    OBVIOUS
  <2>2. Rest(str, Pos(bf, fed)) = Join(BodyBytes(m, left), w)
    BY <1>4
  <2>3. m \in Nat /\ left \in Nat /\ t \in Nat /\ t <= Size /\ t <= left
    BY <1>1, <1>3, <1>5
  <2> HIDE DEF v
  <2> QED
    BY <1>1, <2>1, <2>2, <2>3, BodyTaken, SMTT(30)
<1>7. BodySize(r) \in Nat /\ m + t <= BodySize(r)
  <2>1. BodySize(r) \in Nat
    BY <1>3, Pieces
  <2> QED
    BY <1>1, <1>3, <1>4, <1>5, <2>1
<1>8. /\ History(sent, received') /\ Len(received') = n /\ ~received'[n].done
      /\ Len(received'[n].body) = m + t
  <2>1. received' = [received EXCEPT ![Len(received)].body = @ \o BodyBytes(m, t)]
    BY <1>2, <1>6 DEF Told
  <2> QED
    <3>1. Open(sent, received, Len(received), m) /\ m + t \in Nat /\ m + t <= BodySize(sent[Len(received)])
      BY <1>1, <1>3, <1>5, <1>7 DEF Open, n, m, r
    <3>2. received' = Longer(received, BodyBytes(m, t))
      BY <2>1 DEF Join, Longer
    <3>3. Open(sent, received', Len(received), m + t)
      BY <1>1, <1>3, <1>5, <3>1, <3>2, HistoryTold
    <3> QED
      BY <3>3 DEF Open, n
<1> HIDE DEF v
<1>9. CASE ~ok
  <2>1. status' = "refused" /\ bf' = bf /\ parser' = parser
    BY <1>9 DEF BodyData
  <2> QED
    BY <1>1, <1>2, <1>8, <2>1, RefuseKeeps DEF str
<1>10. CASE ok /\ left = t
  <2>1. /\ bf' = v /\ parser' = [[parser EXCEPT !.left = @ - t] EXCEPT !.state = next]
        /\ request' = request /\ status' = "running"
    <3>1. [parser EXCEPT !.left = @ - t].left = 0
      BY <1>1, <1>5, <1>10 DEF Parsers, left
    <3> QED
      BY <1>2, <1>10, <3>1 DEF BodyData, GoOn, v, t, next
  <2>2. parser' = [state |-> next, left |-> 0]
    <3>1. parser = [state |-> parser.state, left |-> t]
      BY <1>1, <1>10 DEF Parsers, left
    <3>2. t - t = 0
      BY <1>5
    <3>3. [parser EXCEPT !.left = @ - t] = [state |-> parser.state, left |-> 0]
      BY <3>1, <3>2
    <3> QED
      BY <2>1, <3>3
  <2>3. parser' \in Parsers /\ parser'.state \in {"CHUNK_EOF", "next_request"}
    BY <2>2 DEF Parsers, States, next
  <2>4. Rest(str, Pos(v, fed)) = w
    <3>1. m + t \in Nat /\ left - t = 0
      BY <1>3, <1>5, <1>10
    <3>2. BodyBytes(m + t, left - t) = <<>>
      BY <3>1, BodyBytesIs
    <3>3. Join(<<>>, w) = w
      BY JoinFacts
    <3> QED
      BY <1>6, <3>2, <3>3
  <2>5. InBody(r, y, w, parser', m + t)
    <3>1. m + t \in Nat /\ 0 \in Nat /\ (m + t) + 0 = m + left
      BY <1>3, <1>5, <1>10
    <3> QED
      BY <1>4, <2>2, <3>1
  <2>6. Stands(sent, Rest(str, Pos(bf', fed)), parser', request', received')
    BY <1>3, <1>8, <2>1, <2>3, <2>4, <2>5 DEF Stands, r, y
  <2>7. parser'.state \notin {"CONTENT_LENGTH", "CHUNK_DATA"}
    BY <2>3
  <2> QED
    BY <1>2, <1>6, <1>8, <2>1, <2>3, <2>6, <2>7, GoOnKeeps DEF str
<1>11. CASE ok /\ left # t
  <2>1. /\ bf' = BF_compact(v) /\ parser' = [parser EXCEPT !.left = @ - t] /\ status' = "need_more"
    <3>1. [parser EXCEPT !.left = @ - t].left # 0
      BY <1>1, <1>5, <1>11 DEF Parsers, left
    <3> QED
      BY <1>11, <3>1 DEF BodyData, v, t
  <2>2. parser' = [state |-> parser.state, left |-> left - t]
    BY <1>1, <2>1 DEF Parsers, left
  <2>3. left - t \in Nat /\ left - t > 0 /\ t = Size /\ m + t \in Nat /\ (m + t) + (left - t) = m + left
    BY <1>1, <1>3, <1>5, <1>11
  <2>4. parser' \in Parsers /\ parser'.left > 0 /\ parser'.state = parser.state
    BY <1>1, <2>2, <2>3 DEF Parsers
  <2>5. v.put - v.get = 0
    BY <1>1, <1>6, <2>3, SMTT(30) DEF Size
  <2>6. /\ Holds(str, bf', fed) /\ Pos(bf', fed) = Pos(v, fed) /\ Pos(v, fed) = fed
        /\ bf'.get = 0 /\ bf'.put = 0
    <3>1. Pos(v, fed) = fed
      BY <1>1, <2>5 DEF Pos
    <3> QED
      BY <1>1, <1>6, <2>1, <2>5, <3>1, CompactHolds
  <2>7. InBody(r, y, Join(BodyBytes(m + t, left - t), w), parser', m + t)
    BY <1>4, <2>2, <2>3
  <2>8. Stands(sent, Rest(str, Pos(bf', fed)), parser', request', received')
    BY <1>2, <1>3, <1>6, <1>8, <2>4, <2>6, <2>7 DEF Stands, r, y
  <2>9. Waits(sent, fed, parser', received')
    <3> DEFINE a == BodyBytes(m + t, left - t)
    <3>1. a \in Seq(Bytes) /\ Len(a) = left - t
      BY <2>3, BodyBytesIs
    <3>2. fed \in 0 .. Len(str)
      BY <1>1 DEF Holds
    <3>3. Rest(str, fed) = Join(a, w)
      BY <1>6, <2>6
    <3> HIDE DEF a
    <3>4. fed + Len(a) = Len(str) - Len(w)
      <4>1. \A q \in 0 .. Len(str), u, x \in Seq(Bytes) :
               Rest(str, q) = Join(u, x) => q + Len(u) = Len(str) - Len(x)
        BY <1>1, Drop
      <4>2. w \in Seq(Bytes) /\ a \in Seq(Bytes)
        BY <3>1
      <4> QED
        BY <3>2, <3>3, <4>1, <4>2
    <3>5. Len(w) \in Nat /\ Len(str) \in Nat
      BY <1>1
    <3>6. fed + Len(w) < Len(StreamOf(sent))
      BY <1>1, <2>3, <3>1, <3>4, <3>5 DEF str
    <3>7. Current(parser', received') = n
      BY <1>2, <1>8, <2>4 DEF Current
    <3> QED
      BY <1>1, <1>3, <1>4, <3>6, <3>7, WaitsIf DEF y
  <2>10. BufSize >= 3 => bf'.put < BufSize
    BY <1>1, <2>6
  <2> QED
    BY <1>2, <1>8, <2>1, <2>4, <2>6, <2>8, <2>9, <2>10, WaitKeeps DEF str
<1> QED
  BY <1>9, <1>10, <1>11

-----------------------------------------------------------------------------
(* What is around the chunks *)

\* As long as body bytes are missing, not all of the stream has been fed.
LEMMA BehindData ==
  ASSUME NEW str \in Seq(Bytes), NEW f \in 0 .. Len(str), NEW m \in Nat, NEW l \in Nat, l > 0,
         NEW w \in Seq(Bytes), Rest(str, f) = Join(BodyBytes(m, l), w)
  PROVE  f + Len(w) < Len(str)
<1> DEFINE a == BodyBytes(m, l)
<1>1. a \in Seq(Bytes) /\ Len(a) = l
  BY BodyBytesIs
<1> HIDE DEF a
<1>2. Rest(str, f) = Join(a, w)
  BY DEF a
<1>3. f + Len(a) = Len(str) - Len(w)
  <2>1. \A q \in 0 .. Len(str), u, x \in Seq(Bytes) :
           Rest(str, q) = Join(u, x) => q + Len(u) = Len(str) - Len(x)
    BY Drop
  <2> QED
    BY <1>1, <1>2, <2>1
<1>4. Len(w) \in Nat /\ Len(str) \in Nat /\ f \in Nat
  OBVIOUS
<1> QED
  BY <1>1, <1>3, <1>4

LEMMA BodyMissingKeeps ==
  ASSUME Inv, BodyMissing
  PROVE  Inv'
<1> DEFINE n    == Len(received)
           str  == StreamOf(sent)
           r    == sent[n]
           y    == Later(sent, n)
           m    == Len(received[n].body)
           left == parser.left
<1>1. /\ sent \in Seq(Requests) /\ str \in Seq(Bytes) /\ BufSize \in Nat
      /\ Holds(str, bf, fed) /\ parser \in Parsers /\ fed \in Nat
      /\ bf.get \in Nat /\ bf.put \in Nat /\ left \in Nat
  BY InvFacts DEF Holds, Buffers, Parsers
<1>2. /\ status = "running" /\ parser.state \in {"CONTENT_LENGTH", "CHUNK_DATA"} /\ sent' = sent
  BY DEF BodyMissing, NeedMore, Error, Return
<1>3. /\ n \in 0 .. Len(sent) /\ IsRequest(r) /\ y \in Seq(Bytes)
      /\ InBody(r, y, Rest(str, Pos(bf, fed)), parser, m)
      /\ m \in Nat /\ Current(parser, received) = n
  BY <1>2, InBodyFacts
<1>4. left > 0
  BY <1>2 DEF Inv, Good
<1>5. Size = 0 /\ NeedMore
  BY <1>1, <1>4 DEF BodyMissing
<1> HIDE DEF n, str, r, y, m
<1>6. PICK w \in Seq(Bytes) : Rest(str, Pos(bf, fed)) = Join(BodyBytes(m, left), w) /\ Len(y) <= Len(w)
  BY <1>1, <1>2, <1>3, InData, SMTT(30)
<1> HIDE DEF left
<1>7. Pos(bf, fed) = fed /\ fed \in 0 .. Len(str)
  BY <1>1, <1>5 DEF Pos, Size, Holds
<1>8. fed + Len(w) < Len(str)
  BY <1>1, <1>3, <1>4, <1>6, <1>7, BehindData
<1>9. Waits(sent, fed, parser, received)
  BY <1>1, <1>3, <1>6, <1>8, WaitsIf DEF str, y
<1>10. BufSize >= 3 => Size < BufSize
  BY <1>1, <1>5
<1> QED
  BY <1>2, <1>5, <1>9, <1>10, NeedMoreKeeps

LEMMA SizeLine ==
  ASSUME NEW v \in Nat
  PROVE  /\ Terminated(Line("size", v, 0), 2) /\ Line("size", v, 0) \in Seq(Bytes)
         /\ Line("size", v, 0)[1] = Byte("size", v)
<1>1. "size" \in LineKinds
  BY DEF LineKinds
<1>2. Terminated(Line("size", v, 0), 0 + 2) /\ Line("size", v, 0)[1] = Byte("size", v)
  BY <1>1, LineIsTerminated
<1> QED
  BY <1>2 DEF Terminated

LEMMA JoinIs ==
  ASSUME NEW a \in Seq(Bytes), NEW b \in Seq(Bytes), NEW n \in Nat, n <= Len(b)
  PROVE  Join(a, b) \in Seq(Bytes) /\ n <= Len(Join(a, b))
<1>1. \A u, x \in Seq(Bytes) : Join(u, x) \in Seq(Bytes) /\ Len(Join(u, x)) = Len(u) + Len(x)
  BY JoinFacts
<1>2. Join(a, b) \in Seq(Bytes) /\ Len(Join(a, b)) = Len(a) + Len(b)
  BY <1>1
<1>3. Len(a) \in Nat /\ Len(b) \in Nat
  OBVIOUS
<1> QED
  BY <1>2, <1>3

\* The line in front of a chunk, and the empty chunk that ends the body.
LEMMA NextChunk ==
  ASSUME NEW r, IsRequest(r), NEW y \in Seq(Bytes), NEW rest, NEW p, p.state = "CHUNK_HEADER",
         NEW m \in Nat, InBody(r, y, rest, p, m)
  PROVE  \E a, b \in Seq(Bytes), v \in Nat :
           /\ Terminated(a, 2) /\ Len(y) <= Len(b) /\ rest = Join(a, b) /\ a[1] = Byte("size", v)
           /\ v # 0 => InBody(r, y, b, [state |-> "CHUNK_DATA", left |-> v], m)
           /\ v = 0 => \A l \in Nat : InBody(r, y, b, [state |-> "CHUNK_TRAILER", left |-> l], m)
<1>1. PICK c \in 0 .. Len(r.chunks) : rest = ChunksLeft(r, c, y) /\ m = Before(r.chunks, c + 1)
  BY DEF InBody, AtChunkHeader
<1>2. /\ r.version \in {0, 1} /\ GoodUpTo(r.headers, Len(r.headers))
      /\ Len(y) \in Nat /\ r.chunks \in Seq(Nat \ {0}) /\ Len(r.chunks) \in Nat
      /\ r.trailer \in Seq(Lines)
  BY Pieces DEF InBody
<1>3. CASE c < Len(r.chunks)
  <2> DEFINE v == r.chunks[c + 1]
             a == Line("size", v, 0)
             w == Join(Blank, ChunksLeft(r, c + 1, y))
             d == BodyBytes(m, v)
             b == Join(d, w)
  <2>1. c + 1 \in 1 .. Len(r.chunks) /\ c + 1 \in 0 .. Len(r.chunks)
    BY <1>3
  <2>2. v \in Nat \ {0}
    BY <1>2, <2>1
  <2>3. Terminated(a, 2) /\ a \in Seq(Bytes) /\ a[1] = Byte("size", v)
    <3>1. v \in Nat
      BY <2>2
    <3> HIDE DEF v
    <3> QED
      BY <3>1, SizeLine
  <2>4. rest = Join(a, b)
    BY <1>1, <1>3, ChunksAre
  <2>5. /\ d \in Seq(Bytes) /\ Blank \in Seq(Bytes) /\ Len(Blank) = 2
        /\ ChunksLeft(r, c + 1, y) \in Seq(Bytes) /\ Len(ChunksLeft(r, c + 1, y)) >= Len(y)
    BY <2>1, <2>2, Pieces, ChunksAre, BodyBytesIs
  <2>6. b \in Seq(Bytes) /\ Len(y) <= Len(b)
    <3> DEFINE x == ChunksLeft(r, c + 1, y)
    <3>1. d \in Seq(Bytes) /\ Blank \in Seq(Bytes) /\ x \in Seq(Bytes) /\ Len(x) >= Len(y)
      BY <2>5
    <3> HIDE DEF x, d
    <3>2. Len(y) <= Len(x)
      BY <1>2, <3>1
    <3>3. Join(Blank, x) \in Seq(Bytes) /\ Len(y) <= Len(Join(Blank, x))
      BY <1>2, <3>1, <3>2, JoinIs
    <3>4. w \in Seq(Bytes) /\ Len(y) <= Len(w)
      BY <3>3 DEF x
    <3> HIDE DEF w
    <3> QED
      BY <1>2, <3>1, <3>4, JoinIs
  <2>7. m + v = Before(r.chunks, (c + 1) + 1)
    BY <1>1, <1>2, <2>1, BeforeIs
  <2>8. AtChunkData(r, y, b, v, m)
    BY <2>1, <2>7 DEF AtChunkData
  <2>9. InBody(r, y, b, [state |-> "CHUNK_DATA", left |-> v], m)
    BY <1>2, <2>8 DEF InBody
  <2> HIDE DEF a, b, v
  <2> QED
    BY <2>2, <2>3, <2>4, <2>6, <2>9
<1>4. CASE c = Len(r.chunks)
  <2> DEFINE a == Line("size", 0, 0)
             b == TrailerLeft(r, 0, y)
  <2>1. Terminated(a, 2) /\ a \in Seq(Bytes) /\ a[1] = Byte("size", 0)
    BY Pieces
  <2>2. rest = Join(a, b)
    BY <1>1, <1>4, ChunksAre
  <2>3. 0 \in 0 .. Len(r.trailer)
    BY <1>2
  <2>4. b \in Seq(Bytes) /\ Len(b) >= Len(y)
    BY <2>3, TrailerIs
  <2>5. Len(y) <= Len(b)
    <3>1. Len(b) \in Nat
      BY <2>4
    <3> QED
      BY <1>2, <2>4, <3>1
  <2>6. AtTrailer(r, y, b, m)
    <3>1. GoodUpTo(r.trailer, 0)
      BY DEF GoodUpTo
    <3>2. m = BodySize(r)
      BY <1>1, <1>4 DEF BodySize
    <3> QED
      BY <2>3, <3>1, <3>2 DEF AtTrailer
  <2>7. ASSUME NEW l \in Nat PROVE InBody(r, y, b, [state |-> "CHUNK_TRAILER", left |-> l], m)
    BY <1>2, <2>6 DEF InBody
  <2> HIDE DEF a, b
  <2> QED
    BY <2>1, <2>2, <2>4, <2>5, <2>7
<1>5. c < Len(r.chunks) \/ c = Len(r.chunks)
  BY <1>2
<1> QED
  BY <1>3, <1>4, <1>5

LEMMA ChunkHeaderKeeps ==
  ASSUME Inv, ChunkHeader
  PROVE  Inv'
<1> DEFINE n   == Len(received)
           str == StreamOf(sent)
           r   == sent[n]
           y   == Later(sent, n)
           m   == Len(received[n].body)
<1>1. /\ sent \in Seq(Requests) /\ str \in Seq(Bytes) /\ BufSize \in Nat
      /\ Holds(str, bf, fed) /\ parser \in Parsers /\ fed \in Nat /\ History(sent, received)
      /\ parser.left \in Nat
  BY InvFacts DEF Parsers
<1>2. status = "running" /\ parser.state = "CHUNK_HEADER" /\ sent' = sent
  BY DEF ChunkHeader, In, NeedMore, Return, GoOn
<1>3. /\ n > 0 /\ n \in 0 .. Len(sent) /\ IsRequest(r) /\ y \in Seq(Bytes)
      /\ ~received[n].done /\ InBody(r, y, Rest(str, Pos(bf, fed)), parser, m)
      /\ m \in Nat /\ Current(parser, received) = n
  BY <1>2, InBodyFacts
<1> HIDE DEF n, str, r, y, m
<1>4. PICK a, b \in Seq(Bytes), v \in Nat :
        /\ Terminated(a, 2) /\ Len(y) <= Len(b) /\ Rest(str, Pos(bf, fed)) = Join(a, b)
        /\ a[1] = Byte("size", v)
        /\ v # 0 => InBody(r, y, b, [state |-> "CHUNK_DATA", left |-> v], m)
        /\ v = 0 => \A l \in Nat : InBody(r, y, b, [state |-> "CHUNK_TRAILER", left |-> l], m)
  BY <1>2, <1>3, NextChunk
<1>5. /\ HasLine => /\ LineByte = a[1]
                    /\ Holds(str, LineTaken, fed) /\ Rest(str, Pos(LineTaken, fed)) = b
      /\ ~HasLine => fed + Len(b) < Len(str) /\ Size <= 2
  BY <1>1, <1>4, LineRead
<1>6. ASSUME ~HasLine, NeedMore PROVE Inv'
  <2>1. Waits(sent, fed, parser, received)
    BY <1>1, <1>3, <1>4, <1>5, <1>6, WaitsIf DEF str, y
  <2>2. BufSize >= 3 => Size < BufSize
    <3>1. Size \in Int
      BY <1>1 DEF Size, Holds, Buffers
    <3> QED
      BY <1>1, <1>5, <1>6, <3>1
  <2> QED
    BY <1>2, <1>6, <2>1, <2>2, NeedMoreKeeps
<1>7. ASSUME HasLine, NEW p, received' = received,
             p = IF v # 0 THEN [state |-> "CHUNK_DATA", left |-> v]
                          ELSE [state |-> "CHUNK_TRAILER", left |-> parser.left],
             GoOn(LineTaken, p, request)
      PROVE  Inv'
  <2>1. bf' = LineTaken /\ parser' = p /\ request' = request /\ fed' = fed /\ status' = "running"
    BY <1>2, <1>7 DEF GoOn
  <2>2. /\ p \in Parsers /\ p.state \in {"CHUNK_DATA", "CHUNK_TRAILER"}
        /\ p.state \in {"CONTENT_LENGTH", "CHUNK_DATA"} => p.left > 0
    BY <1>1, <1>7 DEF Parsers, States
  <2>3. InBody(r, y, b, p, m)
    BY <1>1, <1>4, <1>7
  <2>4. Holds(str, bf', fed) /\ Rest(str, Pos(bf', fed)) = b
    BY <1>5, <1>7, <2>1
  <2>5. Stands(sent, Rest(str, Pos(bf', fed)), parser', request', received')
    BY <1>3, <1>7, <2>1, <2>2, <2>3, <2>4 DEF Stands, n, r, y, m
  <2> QED
    BY <1>1, <1>2, <1>7, <2>1, <2>2, <2>4, <2>5, GoOnKeeps DEF str
<1>8. ASSUME HasLine PROVE LineByte.k = "size" /\ LineByte.v = v
  BY <1>4, <1>5, <1>8 DEF Byte
<1>9. [parser EXCEPT !.state = "CHUNK_TRAILER"] = [state |-> "CHUNK_TRAILER", left |-> parser.left]
  BY <1>1 DEF Parsers
<1>10. ASSUME HasLine PROVE Inv'
  <2> DEFINE p == IF v # 0 THEN [state |-> "CHUNK_DATA", left |-> v]
                           ELSE [state |-> "CHUNK_TRAILER", left |-> parser.left]
  <2>1. GoOn(LineTaken, p, request) /\ received' = received
    BY <1>8, <1>9, <1>10 DEF ChunkHeader
  <2> QED
    BY <1>7, <1>10, <2>1
<1> QED
  BY <1>6, <1>10 DEF ChunkHeader

LEMMA ChunkEofKeeps ==
  ASSUME Inv, ChunkEof
  PROVE  Inv'
<1> DEFINE n   == Len(received)
           str == StreamOf(sent)
           r   == sent[n]
           y   == Later(sent, n)
           m   == Len(received[n].body)
           p   == [parser EXCEPT !.state = "CHUNK_HEADER"]
<1>1. /\ sent \in Seq(Requests) /\ str \in Seq(Bytes) /\ BufSize \in Nat
      /\ Holds(str, bf, fed) /\ parser \in Parsers /\ fed \in Nat /\ History(sent, received)
  BY InvFacts
<1>2. status = "running" /\ parser.state = "CHUNK_EOF" /\ sent' = sent
  BY DEF ChunkEof, In, NeedMore, Return, GoOn
<1>3. /\ n > 0 /\ n \in 0 .. Len(sent) /\ IsRequest(r) /\ y \in Seq(Bytes) /\ Len(y) \in Nat
      /\ ~received[n].done /\ InBody(r, y, Rest(str, Pos(bf, fed)), parser, m)
      /\ m \in Nat /\ Current(parser, received) = n
  BY <1>2, InBodyFacts
<1> HIDE DEF n, str, r, y, m
<1>4. /\ r.version \in {0, 1} /\ GoodUpTo(r.headers, Len(r.headers))
      /\ AtChunkEof(r, y, Rest(str, Pos(bf, fed)), m)
  BY <1>2, <1>3 DEF InBody
<1>5. PICK c \in 1 .. Len(r.chunks) :
        Rest(str, Pos(bf, fed)) = Join(Blank, ChunksLeft(r, c, y)) /\ m = Before(r.chunks, c + 1)
  BY <1>4 DEF AtChunkEof
<1> DEFINE b == ChunksLeft(r, c, y)
<1>6. b \in Seq(Bytes) /\ Len(y) <= Len(b) /\ c \in 0 .. Len(r.chunks)
  <2>1. c \in 0 .. Len(r.chunks)
    BY <1>3, Pieces
  <2>2. b \in Seq(Bytes) /\ Len(b) >= Len(y)
    BY <1>3, <2>1, ChunksAre
  <2>3. Len(b) \in Nat
    BY <2>2
  <2> QED
    BY <1>3, <2>1, <2>2, <2>3
<1>7. AtChunkHeader(r, y, b, m)
  BY <1>5, <1>6 DEF AtChunkHeader
<1> HIDE DEF b
<1>8. Rest(str, Pos(bf, fed)) = Join(Blank, b)
  BY <1>5 DEF b
<1>9. /\ HasLine => Holds(str, LineTaken, fed) /\ Rest(str, Pos(LineTaken, fed)) = b
      /\ ~HasLine => fed + Len(b) < Len(str) /\ Size <= 1
  BY <1>1, <1>6, <1>8, BlankIsTerminated, LineRead
<1>10. ASSUME ~HasLine, NeedMore PROVE Inv'
  <2>1. Waits(sent, fed, parser, received)
    BY <1>1, <1>3, <1>6, <1>9, <1>10, WaitsIf DEF str, y
  <2>2. BufSize >= 3 => Size < BufSize
    <3>1. Size \in Int
      BY <1>1 DEF Size, Holds, Buffers
    <3> QED
      BY <1>1, <1>9, <1>10, <3>1
  <2> QED
    BY <1>2, <1>10, <2>1, <2>2, NeedMoreKeeps
<1>11. ASSUME HasLine, GoOn(LineTaken, p, request), received' = received PROVE Inv'
  <2>1. bf' = LineTaken /\ parser' = p /\ request' = request /\ fed' = fed /\ status' = "running"
    BY <1>2, <1>11 DEF GoOn
  <2>2. p \in Parsers /\ p.state = "CHUNK_HEADER"
    BY <1>1 DEF Parsers, States
  <2> HIDE DEF p
  <2>3. InBody(r, y, b, p, m)
    BY <1>4, <1>7, <2>2 DEF InBody
  <2>4. Holds(str, bf', fed) /\ Rest(str, Pos(bf', fed)) = b
    BY <1>9, <1>11, <2>1
  <2>5. Stands(sent, Rest(str, Pos(bf', fed)), parser', request', received')
    BY <1>3, <1>11, <2>1, <2>2, <2>3, <2>4 DEF Stands, n, r, y, m
  <2>6. parser'.state \notin {"CONTENT_LENGTH", "CHUNK_DATA"}
    BY <2>1, <2>2
  <2> QED
    BY <1>1, <1>2, <1>11, <2>1, <2>2, <2>4, <2>5, <2>6, GoOnKeeps DEF str
<1> QED
  BY <1>10, <1>11 DEF ChunkEof

-----------------------------------------------------------------------------
(* The trailer, the end of a request, and the caller *)

LEMMA ChunkTrailerKeeps ==
  ASSUME Inv, ChunkTrailer
  PROVE  Inv'
<1> DEFINE n   == Len(received)
           str == StreamOf(sent)
           r   == sent[n]
           y   == Later(sent, n)
           m   == Len(received[n].body)
           hs  == r.trailer
           p   == [parser EXCEPT !.state = "next_request"]
<1>1. /\ sent \in Seq(Requests) /\ str \in Seq(Bytes) /\ BufSize \in Nat
      /\ Holds(str, bf, fed) /\ parser \in Parsers /\ fed \in Nat /\ History(sent, received)
      /\ n \in Nat /\ Len(sent) \in Nat
  BY InvFacts
<1>2. status = "running" /\ parser.state = "CHUNK_TRAILER" /\ sent' = sent
  BY DEF ChunkTrailer, In, NoLine, Error, NeedMore, Return, GoOn
<1>3. /\ n > 0 /\ n \in 1 .. Len(sent) /\ n \in 0 .. Len(sent) /\ IsRequest(r)
      /\ y \in Seq(Bytes) /\ Len(y) \in Nat
      /\ ~received[n].done /\ InBody(r, y, Rest(str, Pos(bf, fed)), parser, m)
      /\ m \in Nat /\ Current(parser, received) = n
  BY <1>2, InBodyFacts
<1>4. hs \in Seq(Lines) /\ Len(hs) \in Nat
  BY <1>3, Pieces
<1> HIDE DEF n, str, r, y, m, hs
<1>5. /\ r.version \in {0, 1} /\ GoodUpTo(r.headers, Len(r.headers)) /\ m = BodySize(r)
      /\ AtTrailer(r, y, Rest(str, Pos(bf, fed)), m)
  BY <1>2, <1>3 DEF InBody, AtTrailer
<1>6. PICK i \in 0 .. Len(hs) :
        Rest(str, Pos(bf, fed)) = Left(LinesOf(hs), i, Join(Blank, y)) /\ GoodUpTo(hs, i)
  BY <1>5 DEF AtTrailer, TrailerLeft, hs
<1>7. /\ HasLine /\ i < Len(hs) =>
           /\ LineByte = Byte(hs[i + 1][1], hs[i + 1][2])
           /\ Rest(str, Pos(LineTaken, fed)) = Left(LinesOf(hs), i + 1, Join(Blank, y))
           /\ 3 + hs[i + 1][3] <= BufSize
      /\ HasLine /\ i = Len(hs) => LineByte = NUL /\ Rest(str, Pos(LineTaken, fed)) = y
      /\ HasLine => /\ Holds(str, LineTaken, fed)
                    /\ LineTaken.put = bf.put /\ bf.get < LineTaken.get
      /\ ~HasLine => fed + Len(y) < Len(str)
      /\ ~HasLine /\ BF_is_full =>
           IF i < Len(hs) THEN BufSize < 3 + hs[i + 1][3] ELSE BufSize <= 1
  BY <1>1, <1>3, <1>4, <1>6, LineIs
<1>8. i \in Nat /\ i + 1 \in Nat /\ (i < Len(hs) => i + 1 \in 1 .. Len(hs)) /\ (i < Len(hs) \/ i = Len(hs))
  BY <1>4
<1>9. \A j \in 1 .. Len(hs) : /\ hs[j][1] \in HeaderKinds \cup {"junk"}
                              /\ hs[j][2] \in Nat /\ hs[j][3] \in Nat
  BY <1>4, LinesOfAre
<1>10. ASSUME i < Len(hs), hs[i + 1][1] = "junk" \/ ~(3 + hs[i + 1][3] <= BufSize)
       PROVE  Malformed(sent, received)
  <2>1. ~GoodUpTo(hs, Len(hs))
    BY <1>8, <1>10 DEF GoodUpTo
  <2>2. ~WellFormed(r)
    BY <1>3, <2>1, WellFormedIs DEF hs
  <2> QED
    BY <1>1, <1>3, <2>2, MalformedThis DEF n, r
<1>11. ASSUME NoLine PROVE Inv'
  <2>1. ~HasLine => Waits(sent, fed, parser, received)
    <3>1. Len(y) <= Len(y)
      BY <1>3
    <3> QED
      BY <1>1, <1>3, <1>7, <3>1, WaitsIf DEF str, y
  <2>2. ~HasLine /\ BF_is_full /\ BufSize >= 3 => Malformed(sent, received)
    <3> SUFFICES ASSUME ~HasLine, BF_is_full, BufSize >= 3 PROVE Malformed(sent, received)
      OBVIOUS
    <3>1. i < Len(hs) /\ BufSize < 3 + hs[i + 1][3]
      BY <1>1, <1>7
    <3>2. ~(3 + hs[i + 1][3] <= BufSize)
      BY <1>1, <1>8, <1>9, <3>1
    <3> QED
      BY <1>10, <3>1, <3>2
  <2> QED
    BY <1>2, <1>11, <2>1, <2>2, NoLineKeeps
<1>12. NUL.k \notin HeaderKinds
  BY DEF NUL, Byte, HeaderKinds
<1>13. LineByte = Byte(hs[i + 1][1], hs[i + 1][2]) => LineByte.k = hs[i + 1][1]
  BY DEF Byte
<1>14. ASSUME HasLine, LineByte # NUL, LineByte.k \notin HeaderKinds,
              bf' = LineTaken, Return("error")
       PROVE  Inv'
  <2>1. i < Len(hs)
    BY <1>7, <1>8, <1>14
  <2>2. hs[i + 1][1] = "junk"
    BY <1>7, <1>8, <1>9, <1>13, <1>14, <2>1
  <2>3. Holds(StreamOf(sent), bf', fed)
    BY <1>7, <1>14 DEF str
  <2> QED
    BY <1>2, <1>10, <1>14, <2>1, <2>2, <2>3, ErrorKeeps
<1>15. ASSUME HasLine, LineByte.k \in HeaderKinds, bf' = BF_compact(LineTaken),
              status' = "need_more", fed' = fed, parser' = parser, received' = received
       PROVE  Inv'
  <2>1. i < Len(hs)
    BY <1>7, <1>8, <1>12, <1>15
  <2>2. /\ LineByte.k = hs[i + 1][1]
        /\ Rest(str, Pos(LineTaken, fed)) = TrailerLeft(r, i + 1, y)
        /\ 3 + hs[i + 1][3] <= BufSize /\ Holds(str, LineTaken, fed)
    BY <1>7, <1>13, <1>15, <2>1 DEF TrailerLeft, hs
  <2>3. GoodUpTo(hs, i + 1)
    <3>1. \A j \in 1 .. i + 1 : j \in 1 .. i \/ j = i + 1
      BY <1>8
    <3>2. "junk" \notin HeaderKinds
      BY DEF HeaderKinds
    <3> QED
      BY <1>6, <1>15, <2>2, <3>1, <3>2 DEF GoodUpTo
  <2>4. /\ Holds(str, bf', fed) /\ Rest(str, Pos(bf', fed)) = TrailerLeft(r, i + 1, y)
        /\ bf'.get = 0 /\ bf'.put = LineTaken.put - LineTaken.get
    BY <1>1, <1>15, <2>2, CompactHolds
  <2>5. bf'.put < BufSize
    <3>1. bf.get \in Nat /\ bf.put \in Nat /\ bf.put <= BufSize
      BY <1>1 DEF Holds, Buffers
    <3>2. LineTaken.get \in Nat
      BY <2>2 DEF Holds, Buffers
    <3>3. LineTaken.put = bf.put /\ bf.get < LineTaken.get
      BY <1>7, <1>15
    <3> QED
      BY <1>1, <2>4, <3>1, <3>2, <3>3
  <2>6. AtTrailer(r, y, TrailerLeft(r, i + 1, y), m)
    <3>1. i + 1 \in 0 .. Len(hs)
      BY <1>8, <2>1
    <3> QED
      BY <1>5, <2>3, <3>1 DEF AtTrailer, hs
  <2>7. InBody(r, y, TrailerLeft(r, i + 1, y), parser, m)
    BY <1>2, <1>5, <2>6 DEF InBody
  <2>8. Stands(sent, Rest(str, Pos(bf', fed)), parser', request', received')
    BY <1>2, <1>3, <1>15, <2>4, <2>7 DEF Stands, n, r, y, m
  <2>9. Waits(sent, fed, parser', received')
    <3>1. r.trailer # <<>>
      <4>1. Len(<<>>) = 0
        OBVIOUS
      <4> QED
        BY <1>8, <2>1, <4>1 DEF hs
    <3>2. ~(\A j \in 1 .. Len(sent) : sent[j].trailer = <<>>)
      BY <1>3, <3>1 DEF r
    <3> QED
      BY <3>2 DEF Waits
  <2>10. parser'.state \notin {"CONTENT_LENGTH", "CHUNK_DATA"}
    BY <1>2, <1>15
  <2> QED
    BY <1>1, <1>2, <1>15, <2>4, <2>5, <2>8, <2>9, <2>10, WaitKeeps DEF str
<1>16. ASSUME HasLine, LineByte = NUL, GoOn(BF_compact(LineTaken), p, request), received' = received
       PROVE  Inv'
  <2>1. /\ bf' = BF_compact(LineTaken) /\ parser' = p /\ request' = request
        /\ fed' = fed /\ status' = "running"
    BY <1>2, <1>16 DEF GoOn
  <2>2. i = Len(hs)
    <3>1. "NUL" \notin HeaderKinds \cup {"junk"} /\ NUL.k = "NUL"
      BY DEF HeaderKinds, NUL, Byte
    <3> QED
      BY <1>7, <1>8, <1>9, <1>13, <1>16, <3>1
  <2>3. Holds(str, bf', fed) /\ Rest(str, Pos(bf', fed)) = y
    BY <1>1, <1>7, <1>16, <2>1, <2>2, CompactHolds
  <2>4. p \in Parsers /\ p.state = "next_request"
    BY <1>1 DEF Parsers, States
  <2> HIDE DEF p
  <2>5. InBody(r, y, y, p, m)
    <3>1. AtEnd(r, y, y, m)
      BY <1>5, <1>6, <2>2 DEF AtEnd, hs
    <3> QED
      BY <1>5, <2>4, <3>1 DEF InBody
  <2>6. Stands(sent, Rest(str, Pos(bf', fed)), parser', request', received')
    BY <1>3, <1>16, <2>1, <2>3, <2>4, <2>5 DEF Stands, n, r, y, m
  <2>7. parser'.state \notin {"CONTENT_LENGTH", "CHUNK_DATA"}
    BY <2>1, <2>4
  <2> QED
    BY <1>1, <1>2, <1>16, <2>1, <2>3, <2>4, <2>6, <2>7, GoOnKeeps DEF str
<1> QED
  BY <1>11, <1>14, <1>15, <1>16 DEF ChunkTrailer

\* The request has been read whole.  What a caller puts into the buffer before it
\* lets the parser go on is not the parser's: b is the buffer without it.
LEMMA RequestEnds ==
  ASSUME NEW b, Good(sent, fed, b, parser, request, status, received), NEW ok, NextRequest(ok)
  PROVE  Good(sent', fed', b, parser', request', status', received')
<1> DEFINE n   == Len(received)
           str == StreamOf(sent)
           r   == sent[n]
           y   == Later(sent, n)
           m   == Len(received[n].body)
           p   == [parser EXCEPT !.state = "REQUEST_LINE"]
<1>1. /\ sent \in Seq(Requests) /\ Holds(str, b, fed) /\ parser \in Parsers
      /\ History(sent, received)
  BY DEF Good
<1>2. status = "running" /\ parser.state = "next_request" /\ sent' = sent /\ fed' = fed
  BY DEF NextRequest, In
<1>3. /\ n > 0 /\ IsRequest(r) /\ ~received[n].done
      /\ InBody(r, y, Rest(str, Pos(b, fed)), parser, m) /\ m <= BodySize(r)
  <2>1. Stands(sent, Rest(str, Pos(b, fed)), parser, request, received)
    BY <1>2 DEF Good
  <2>2. n > 0 /\ ~received[n].done /\ InBody(r, y, Rest(str, Pos(b, fed)), parser, m)
    BY <1>2, <2>1 DEF Stands
  <2>3. received \in Seq(Records) /\ n \in 1 .. n /\ n \in 1 .. Len(sent)
    BY <1>1, <2>2 DEF History
  <2>4. IsRequest(r)
    BY <1>1, <2>3, Facts
  <2>5. m <= BodySize(r)
    BY <1>1, <2>3 DEF History
  <2> QED
    BY <2>2, <2>4, <2>5
<1> HIDE DEF n, str, r, y, m
<1>4. /\ r.version \in {0, 1} /\ GoodUpTo(r.headers, Len(r.headers))
      /\ GoodUpTo(r.trailer, Len(r.trailer)) /\ m = BodySize(r) /\ Rest(str, Pos(b, fed)) = y
  BY <1>2, <1>3 DEF InBody, AtEnd
<1>5. CASE ok
  <2>1. /\ received' = Ended(received) /\ parser' = p /\ request' = NoRequest /\ status' = "completed"
    BY <1>5 DEF NextRequest, Ended
  <2>2. Over(sent, received', n)
    <3>1. WellFormed(sent[Len(received)])
      BY <1>3, <1>4, WellFormedIs DEF r, n
    <3>2. Open(sent, received, Len(received), BodySize(sent[Len(received)]))
      BY <1>1, <1>3, <1>4 DEF Open, r, n, m
    <3>3. Over(sent, Ended(received), Len(received))
      BY <1>1, <3>1, <3>2, HistoryDone
    <3> QED
      BY <2>1, <3>3 DEF n
  <2>3. p \in Parsers /\ p.state = "REQUEST_LINE"
    BY <1>1 DEF Parsers, States
  <2> HIDE DEF p
  <2>4. Stands(sent, Rest(str, Pos(b, fed)), p, NoRequest, received')
    <3>1. AllDone(received') /\ Len(received') = n
      BY <2>2 DEF Over
    <3> QED
      BY <1>4, <2>3, <3>1 DEF Stands, y
  <2>5. Good(sent, fed, b, p, NoRequest, "completed", received')
    <3>1. History(sent, received')
      BY <2>2 DEF Over
    <3> QED
      BY <1>1, <2>3, <2>4, <3>1 DEF Good, str
  <2> QED
    BY <1>2, <2>1, <2>5
<1>6. CASE ~ok
  <2>1. status' = "refused" /\ parser' = parser /\ received' = received
    BY <1>6 DEF NextRequest
  <2>2. Good(sent, fed, b, parser, request, "refused", received)
    BY DEF Good
  <2>3. request' = request
    BY <1>6 DEF NextRequest
  <2> QED
    BY <1>2, <2>1, <2>2, <2>3
<1> QED
  BY <1>5, <1>6

LEMMA NextRequestKeeps ==
  ASSUME Inv, NEW ok, NextRequest(ok)
  PROVE  Inv'
<1>1. bf' = bf
  BY DEF NextRequest
<1> QED
  BY <1>1, RequestEnds DEF Inv

\* The caller appends the next bytes of the stream behind put_pos.
LEMMA AppendedHolds ==
  ASSUME BufSize \in Nat, NEW str \in Seq(Bytes), NEW b, NEW f, Holds(str, b, f),
         NEW n \in Nat, n <= BufSize - b.put, f + n <= Len(str),
         NEW v, v = Appended(b, b.put, SubSeq(str, f + 1, f + n))
  PROVE  Holds(str, v, f + n) /\ Pos(v, f + n) = Pos(b, f)
<1> DEFINE l == SubSeq(str, f + 1, f + n)
           u == b.put
           g == b.get
<1>0. b.mem \in [0 .. BufSize - 1 -> Bytes] /\ b = [mem |-> b.mem, get |-> g, put |-> u]
  BY DEF Holds, Buffers
<1>1. /\ g \in Nat /\ u \in Nat /\ g <= u /\ u <= BufSize /\ f \in Nat
      /\ u - g <= f /\ f <= Len(str)
  BY DEF Holds, Buffers
<1>2. \A j \in 0 .. u - g - 1 : b.mem[g + j] = str[f - (u - g) + j + 1]
  BY DEF Holds
<1>3. l \in Seq(Bytes) /\ Len(l) = n /\ \A i \in 1 .. n : l[i] = str[f + i]
  <2>1. f + 1 \in Int /\ f + n \in Int /\ Len(str) \in Nat
    BY <1>1
  <2>2. /\ SubSeq(str, f + 1, f + n) \in Seq(Bytes)
        /\ Len(SubSeq(str, f + 1, f + n)) = IF f + 1 <= f + n THEN (f + n) - (f + 1) + 1 ELSE 0
        /\ \A i \in 1 .. (f + n) - (f + 1) + 1 : SubSeq(str, f + 1, f + n)[i] = str[(f + 1) + i - 1]
    <3>1. \A i \in (f + 1) .. (f + n) : i \in 1 .. Len(str)
      BY <1>1, <2>1
    <3> QED
      BY <2>1, <3>1, SubSeqProperties
  <2> HIDE DEF l
  <2>3. (f + n) - (f + 1) + 1 = n /\ (f + 1 <= f + n <=> n # 0)
    BY <1>1
  <2>4. \A i \in 1 .. n : (f + 1) + i - 1 = f + i
    BY <1>1
  <2> QED
    BY <2>2, <2>3, <2>4 DEF l
<1> HIDE DEF l
<1>4. v = [mem |-> [i \in 0 .. BufSize - 1 |->
                      IF i \in u .. u + n - 1 THEN l[i - u + 1] ELSE b.mem[i]],
           get |-> g, put |-> u + n]
  BY <1>0, <1>3 DEF Appended, l
<1> HIDE DEF u, g
<1>5. v \in Buffers
  <2>1. ASSUME NEW i \in 0 .. BufSize - 1
        PROVE  (IF i \in u .. u + n - 1 THEN l[i - u + 1] ELSE b.mem[i]) \in Bytes
    <3>1. i \in u .. u + n - 1 => i - u + 1 \in 1 .. n
      BY <1>1
    <3> QED
      BY <1>0, <1>3, <3>1
  <2>2. g \in Nat /\ u + n \in Nat
    BY <1>1
  <2> QED
    BY <1>4, <2>1, <2>2 DEF Buffers
<1>6. /\ v.get = g /\ v.put = u + n
      /\ \A i \in 0 .. BufSize - 1 :
           v.mem[i] = IF i \in u .. u + n - 1 THEN l[i - u + 1] ELSE b.mem[i]
  BY <1>4
<1>7. (u + n) - g \in Nat /\ (f + n) - ((u + n) - g) = f - (u - g) /\ u + n <= BufSize
  BY <1>1, SMTT(30) DEF u
<1>8. \A j \in 0 .. (u + n) - g - 1 : v.mem[g + j] = str[f - (u - g) + j + 1]
  <2> TAKE j \in 0 .. (u + n) - g - 1
  <2>1. g + j \in 0 .. BufSize - 1
    BY <1>1, <1>7
  <2>2. CASE j < u - g
    <3>1. g + j \notin u .. u + n - 1 /\ j \in 0 .. u - g - 1
      BY <1>1, <2>2
    <3> QED
      BY <1>2, <1>6, <2>1, <3>1 DEF u, g
  <2>3. CASE ~(j < u - g)
    <3> DEFINE i == (g + j) - u + 1
    <3>1. g + j \in u .. u + n - 1 /\ i \in 1 .. n /\ f + i = f - (u - g) + j + 1
      BY <1>1, <2>3
    <3>2. v.mem[g + j] = l[i]
      <4> DEFINE k == g + j
      <4>1. k \in 0 .. BufSize - 1 /\ k \in u .. u + n - 1
        BY <2>1, <3>1
      <4> HIDE DEF k
      <4>2. v.mem[k] = l[k - u + 1]
        BY <1>6, <4>1
      <4> QED
        BY <4>2 DEF k
    <3> HIDE DEF i
    <3> QED
      BY <1>3, <3>1, <3>2
  <2> QED
    BY <2>2, <2>3
<1>9. Holds(str, v, f + n)
  <2>1. /\ f + n \in Nat /\ v.get <= v.put /\ v.put <= BufSize /\ v.put - v.get <= f + n
        /\ f + n <= Len(str)
    BY <1>1, <1>6, <1>7
  <2> QED
    BY <1>5, <1>6, <1>7, <1>8, <2>1, SMTT(30) DEF Holds
<1>10. Pos(v, f + n) = Pos(b, f)
  BY <1>6, <1>7 DEF Pos, u, g
<1> QED
  BY <1>9, <1>10

LEMMA ReceiveKeeps ==
  ASSUME Inv, status = "need_more", NEW n \in 1 .. BufSize, Receive(n, bf.put)
  PROVE  Inv'
<1> DEFINE str == StreamOf(sent)
           v   == Appended(bf, bf.put, SubSeq(str, fed + 1, fed + n))
<1>1. /\ sent \in Seq(Requests) /\ str \in Seq(Bytes) /\ BufSize \in Nat
      /\ Holds(str, bf, fed)
  BY InvFacts
<1>2. n \in Nat /\ n <= BufSize - bf.put /\ fed + n <= Len(str)
  BY <1>1, StreamSame DEF Receive, PutSize
<1>3. /\ bf' = v /\ fed' = fed + n /\ status' = "running" /\ sent' = sent /\ parser' = parser
      /\ request' = request /\ received' = received
  BY StreamSame DEF Receive
<1> HIDE DEF str
<1>4. Holds(str, v, fed + n) /\ Pos(v, fed + n) = Pos(bf, fed)
  BY <1>1, <1>2, AppendedHolds
<1>5. Stands(sent, Rest(str, Pos(bf, fed)), parser, request, received)
  BY DEF Inv, Good, str
<1> HIDE DEF v
<1>6. Good(sent, fed + n, v, parser, request, "running", received)
  BY <1>4, <1>5 DEF Inv, Good, str
<1> QED
  BY <1>3, <1>6 DEF Inv

LEMMA ProcessAgainKeeps ==
  ASSUME Inv, ProcessAgain
  PROVE  Inv'
<1>1. Good(sent, fed, bf, parser, request, "running", received)
  BY DEF Inv, Good, ProcessAgain
<1> QED
  BY <1>1 DEF Inv, ProcessAgain

-----------------------------------------------------------------------------
(* The invariant *)

LEMMA InitHolds == Init => Inv
<1> SUFFICES ASSUME Init PROVE Inv
  OBVIOUS
<1> DEFINE str == StreamOf(sent)
<1>1. sent \in Seq(Requests)
  BY HttpAssumption DEF Init
<1>2. /\ fed = 0 /\ bf = [mem |-> [i \in 0 .. BufSize - 1 |-> NUL], get |-> 0, put |-> 0]
      /\ parser = [state |-> "REQUEST_LINE", left |-> 0] /\ request = NoRequest
      /\ status = "completed" /\ received = <<>>
  BY DEF Init
<1>3. str \in Seq(Bytes) /\ BufSize \in Nat /\ Len(sent) \in Nat /\ Later(sent, 0) = str
  BY <1>1, Facts, HttpAssumption, StreamIs
<1> HIDE DEF str
<1>4. bf.get = 0 /\ bf.put = 0 /\ bf \in Buffers
  BY <1>2, EndBytes DEF Buffers
<1>5. Holds(str, bf, fed) /\ Pos(bf, fed) = 0
  BY <1>2, <1>3, <1>4 DEF Holds, Pos
<1>6. Rest(str, 0) = str
  <2>1. 0 \in 0 .. Len(str) /\ Len(str) - 0 = Len(str)
    BY <1>3
  <2>2. Rest(str, 0) \in Seq(Bytes) /\ Len(Rest(str, 0)) = Len(str)
    BY <1>3, <2>1, RestIs
  <2>3. \A i \in 1 .. Len(str) : Rest(str, 0)[i] = str[i]
    <3> TAKE i \in 1 .. Len(str)
    <3>1. i \in 1 .. Len(str) - 0 /\ 0 + i = i
      BY <2>1
    <3>2. Rest(str, 0)[i] = str[0 + i]
      BY <1>3, <2>1, <3>1, RestIs
    <3> QED
      BY <3>1, <3>2
  <2> HIDE DEF str
  <2> QED
    BY <1>3, <2>2, <2>3, SeqEqual
<1>7. parser \in Parsers /\ parser.state = "REQUEST_LINE"
  BY <1>2 DEF Parsers, States
<1>8. Len(received) = 0 /\ received \in Seq(Records)
  BY <1>2
<1>9. History(sent, received) /\ AllDone(received)
  BY <1>3, <1>8 DEF History, AllDone
<1>10. Stands(sent, Rest(str, Pos(bf, fed)), parser, request, received)
  BY <1>2, <1>3, <1>5, <1>6, <1>7, <1>8, <1>9 DEF Stands
<1> QED
  BY <1>1, <1>2, <1>5, <1>7, <1>9, <1>10 DEF Inv, Good, str

LEMMA NextKeeps == Inv /\ [Next]_vars => Inv'
<1> SUFFICES ASSUME Inv, [Next]_vars PROVE Inv'
  OBVIOUS
<1>1. CASE status = "need_more" /\ \E n \in 1 .. BufSize : Receive(n, bf.put)
  BY <1>1, ReceiveKeeps
<1>2. CASE ProcessAgain
  BY <1>2, ProcessAgainKeeps
<1>3. CASE RequestLine
  BY <1>3, RequestLineKeeps
<1>4. CASE HeaderLine
  BY <1>4, HeaderLineKeeps
<1>5. CASE BodyMissing
  BY <1>5, BodyMissingKeeps
<1>6. CASE ChunkHeader
  BY <1>6, ChunkHeaderKeeps
<1>7. CASE ChunkEof
  BY <1>7, ChunkEofKeeps
<1>8. CASE ChunkTrailer
  BY <1>8, ChunkTrailerKeeps
<1>9. CASE \E ok \in Outcomes : EndOfHeader(ok)
  BY <1>9, EndOfHeaderKeeps
<1>10. CASE \E ok \in Outcomes : BodyData(ok)
  BY <1>10, BodyDataKeeps
<1>11. CASE \E ok \in Outcomes : NextRequest(ok)
  BY <1>11, NextRequestKeeps
<1>12. CASE UNCHANGED vars
  <2>1. /\ sent' = sent /\ fed' = fed /\ bf' = bf /\ parser' = parser /\ request' = request
        /\ status' = status /\ received' = received
    BY <1>12 DEF vars
  <2>2. Good(sent, fed, bf, parser, request, status, received)
    BY DEF Inv
  <2> QED
    BY <2>1, <2>2 DEF Inv
<1> QED
  BY <1>1, <1>2, <1>3, <1>4, <1>5, <1>6, <1>7, <1>8, <1>9, <1>10, <1>11, <1>12 DEF Next, Step

\* In every state the parser stands at a definite place of the stream, and the
\* buffer holds the bytes from there on that have been fed.
THEOREM InvHolds == Spec => []Inv
<1> QED
  BY InitHolds, NextKeeps, PTL DEF Spec

-----------------------------------------------------------------------------
(* The properties *)

\* BF and HTTP_PARSER keep get_pos <= put_pos <= end, and content_left is positive
\* while a body or a chunk is read.
THEOREM TypesKept == Spec => []TypeOK
<1>1. Inv => TypeOK
  <2> SUFFICES ASSUME Inv PROVE TypeOK
    OBVIOUS
  <2>1. /\ Holds(StreamOf(sent), bf, fed) /\ parser \in Parsers
        /\ parser.state \in {"CONTENT_LENGTH", "CHUNK_DATA"} => parser.left > 0
        /\ status \in {"running", "need_more", "completed", "error", "refused"}
    BY DEF Inv, Good
  <2>2. BufSize \in Nat /\ StreamOf(sent) \in Seq(Bytes)
    BY InvFacts
  <2>3. fed \in 0 .. Len(Stream) /\ bf.get \in 0 .. bf.put /\ bf.put \in 0 .. BufSize
    BY <2>1, <2>2, StreamSame DEF Holds, Buffers
  <2>4. /\ parser.left \in Nat
        /\ parser.state \in {"REQUEST_LINE", "HEADERS", "CONTENT_LENGTH", "CHUNK_HEADER",
                              "CHUNK_DATA", "CHUNK_EOF", "CHUNK_TRAILER", "next_request"}
    BY <2>1 DEF Parsers, States
  <2> QED
    BY <2>1, <2>3, <2>4 DEF TypeOK
<1> QED
  BY <1>1, InvHolds, PTL

\* HTTP_REQUEST_PARSER_process tells its callbacks what was sent: every request
\* once and in order, with its headers and its body, however the bytes were split.
THEOREM ToldAsSent == Spec => []ReceivedAsSent
<1>1. Inv => ReceivedAsSent
  <2> SUFFICES ASSUME Inv PROVE ReceivedAsSent
    OBVIOUS
  <2>1. History(sent, received)
    BY InvFacts
  <2>2. DOMAIN received = 1 .. Len(received)
    BY <2>1 DEF History
  <2> QED
    BY <2>1, <2>2 DEF History, ReceivedAsSent
<1> QED
  BY <1>1, InvHolds, PTL

\* A request that is not finished is not in front of the one that is being read,
\* and not all of that one has been fed.
LEMMA FinishedIfDone ==
  ASSUME Inv, status = "need_more", \A i \in DOMAIN sent : sent[i].trailer = <<>>,
         NEW i \in DOMAIN sent, fed >= EndOf(i)
  PROVE  Finished(i)
<1> DEFINE n == Len(received)
           k == Current(parser, received)
           e == Len(Later(sent, i))
           l == Len(Later(sent, k))
           z == Len(StreamOf(sent))
<1>1. /\ sent \in Seq(Requests) /\ StreamOf(sent) \in Seq(Bytes) /\ fed \in Nat
      /\ n \in Nat /\ Len(sent) \in Nat /\ History(sent, received) /\ received \in Seq(Records)
      /\ \A j \in 0 .. Len(sent) : Later(sent, j) \in Seq(Bytes)
  BY InvFacts
<1>2. DOMAIN sent = 1 .. Len(sent) /\ i \in 1 .. Len(sent) /\ i \in 0 .. Len(sent)
  BY <1>1
<1>3. DOMAIN received = 1 .. n
  BY <1>1
<1>4. /\ Stands(sent, Rest(StreamOf(sent), Pos(bf, fed)), parser, request, received)
      /\ Waits(sent, fed, parser, received)
  BY DEF Inv, Good
<1>5. ASSUME ~Finished(i) PROVE k \in 1 .. i
  <2>1. CASE parser.state \in {"REQUEST_LINE", "HEADERS"}
    <3>1. AllDone(received)
      BY <1>4, <2>1 DEF Stands
    <3>2. k = n + 1
      BY <2>1 DEF Current
    <3>3. i \notin 1 .. n
      BY <1>3, <1>5, <3>1 DEF AllDone, Finished
    <3> QED
      BY <1>1, <1>2, <3>2, <3>3
  <2>2. CASE parser.state \notin {"REQUEST_LINE", "HEADERS"}
    <3>1. k = n /\ n > 0
      BY <1>4, <2>2 DEF Current, Stands
    <3>2. ~(i < n)
      <4>1. ASSUME i < n PROVE FALSE
        <5>1. i \in 1 .. n
          BY <1>1, <1>2, <4>1
        <5>2. received[i].done
          BY <1>1, <4>1, <5>1 DEF History
        <5> QED
          BY <1>3, <1>5, <5>1, <5>2 DEF Finished
      <4> QED
        BY <4>1
    <3> QED
      BY <1>1, <1>2, <3>1, <3>2
  <2> QED
    BY <2>1, <2>2
<1>6. EndOf(i) = z - e /\ e \in Nat /\ z \in Nat
  <2>1. Len(Concat([j \in 1 .. i |-> Encode(sent[j])])) = Len(StreamOf(sent)) - Len(Later(sent, i))
    BY <1>1, <1>2, HttpAssumption, StreamIs
  <2>2. Later(sent, i) \in Seq(Bytes)
    BY <1>1, <1>2
  <2> QED
    BY <1>1, <2>1, <2>2 DEF EndOf
<1>7. ASSUME k \in 1 .. i PROVE FALSE
  <2>1. k \in 0 .. Len(sent) /\ k <= Len(sent) /\ k <= i
    BY <1>1, <1>2, <1>7
  <2>2. e <= l /\ l \in Nat
    <3> HIDE DEF k
    <3>1. Len(Later(sent, i)) <= Len(Later(sent, k))
      BY <1>1, <1>2, <2>1, HttpAssumption, LaterShrinks
    <3>2. Later(sent, k) \in Seq(Bytes)
      BY <1>1, <2>1
    <3> QED
      BY <3>1, <3>2
  <2>3. fed + l < z
    BY <1>2, <1>4, <2>1 DEF Waits
  <2> HIDE DEF e, l, z, k
  <2>4. fed >= z - e
    BY <1>6
  <2> QED
    BY <1>1, <1>6, <2>2, <2>3, <2>4
<1> QED
  BY <1>5, <1>7

\* A parser that asks for more has called ev_finish for every request whose last
\* byte it was given, when no request has a trailer.
THEOREM FinishedOnceReceived == Spec => []FinishedWhenReceived
<1>1. Inv => FinishedWhenReceived
  BY FinishedIfDone DEF FinishedWhenReceived, AllFinishedWhenReceived
<1> QED
  BY <1>1, InvHolds, PTL

\* The parser reports an error for a malformed request only, after all in front of
\* it have finished.  A buffer of fewer than three bytes has no room for a line:
\* HTTP_get_line would refuse the line of a good request too.
THEOREM MalformedRejected == BufSize >= 3 => (Spec => []RejectsTheMalformed)
<1> SUFFICES ASSUME BufSize >= 3 PROVE Spec => []RejectsTheMalformed
  OBVIOUS
<1>1. Inv => RejectsTheMalformed
  <2> SUFFICES ASSUME Inv PROVE RejectsTheMalformed
    OBVIOUS
  <2>1. /\ sent \in Seq(Requests) /\ Len(sent) \in Nat /\ History(sent, received)
        /\ received \in Seq(Records)
    BY InvFacts
  <2>2. DOMAIN sent = 1 .. Len(sent) /\ DOMAIN received = 1 .. Len(received)
    BY <2>1
  <2>3. status = "error" => Malformed(sent, received)
    BY DEF Inv, Good
  <2>4. ASSUME status = "error"
        PROVE  \E i \in DOMAIN sent : ~WellFormed(sent[i]) /\ \A j \in 1 .. i - 1 : Finished(j)
    BY <2>2, <2>3, <2>4 DEF Malformed, Finished
  <2>5. ASSUME NEW i \in DOMAIN sent, Finished(i) PROVE WellFormed(sent[i])
    BY <2>1, <2>2, <2>5 DEF Finished, History
  <2> QED
    BY <2>4, <2>5 DEF RejectsTheMalformed
<1> QED
  BY <1>1, InvHolds, PTL

\* A parser that asks for more has compacted the buffer, and there is room in it,
\* if a line with the size of a chunk has; see ReadyForMore.
THEOREM RoomForMore == BufSize >= 3 => (Spec => []ReadyForMore)
<1> SUFFICES ASSUME BufSize >= 3 PROVE Spec => []ReadyForMore
  OBVIOUS
<1>1. Inv => ReadyForMore
  <2> SUFFICES ASSUME Inv, status = "need_more" PROVE bf.get = 0 /\ PutSize > 0
    BY DEF ReadyForMore
  <2>1. bf.get = 0 /\ bf.put < BufSize
    BY DEF Inv, Good
  <2>2. BufSize \in Nat /\ bf.put \in Nat
    BY InvFacts DEF Holds, Buffers
  <2> QED
    BY <2>1, <2>2 DEF PutSize
<1> QED
  BY <1>1, InvHolds, PTL
=============================================================================
