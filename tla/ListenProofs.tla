----------------------------- MODULE ListenProofs -----------------------------
(***************************************************************************)
(* Proofs about Listen: for every text of any number of statements, and    *)
(* statements of any number of tokens, the lexer finds the statements and  *)
(* reads each for what it means.                                              *)
(***************************************************************************)
EXTENDS Listen, FiniteSetTheorems, SequenceTheorems, WellFoundedInduction, TLAPS

-----------------------------------------------------------------------------
(* Natural numbers and sequences.                                          *)

\* Induction over a set of numbers.
LEMMA Induction ==
    ASSUME NEW P, 0 \in P, \A n \in Nat : n \in P => n + 1 \in P
    PROVE  \A n \in Nat : n \in P
<1> DEFINE Bad == {n \in Nat : n \notin P}
<1> SUFFICES ASSUME Bad # {} PROVE FALSE
  OBVIOUS
<1>1. PICK b \in Bad : \A c \in Bad : <<c, b>> \notin OpToRel(<, Nat)
  BY NatLessThanWellFounded, WFMin
<1>2. \A c \in Bad : ~(c < b)
  BY <1>1 DEF OpToRel
<1>3. b \in Nat /\ b # 0
  OBVIOUS
<1>4. b - 1 \in Nat /\ b - 1 < b /\ b - 1 + 1 = b
  BY <1>3
<1> QED
  BY <1>2, <1>4

\* A set of numbers that is not empty has a least one.
LEMMA Least ==
    ASSUME NEW S, S \subseteq Nat, S # {}
    PROVE  \E b \in S : \A c \in S : b <= c
<1>1. PICK b \in S : \A c \in S : <<c, b>> \notin OpToRel(<, Nat)
  BY NatLessThanWellFounded, WFMin
<1>2. \A c \in S : ~(c < b)
  BY <1>1 DEF OpToRel
<1> QED
  BY <1>2

Elements(s) == {s[i] : i \in 1..Len(s)}

\* A sequence is one over its own elements.
LEMMA Sequences ==
    ASSUME NEW s, IsSequence(s)
    PROVE  s \in Seq(Elements(s)) /\ DOMAIN s = 1..Len(s) /\ Len(s) \in Nat
<1> DEFINE n == Len(s)
<1>1. n \in Nat /\ s = [i \in 1..n |-> s[i]]
  BY DEF IsSequence
<1> HIDE DEF n
<1>2. \A i \in 1..n : s[i] \in {s[j] : j \in 1..n}
  OBVIOUS
<1>3. s \in Seq({s[j] : j \in 1..n})
  BY <1>1, <1>2
<1> QED
  BY <1>1, <1>3 DEF n, Elements

\* Sequences of one length with the same elements are one.
LEMMA SameSeq ==
    ASSUME NEW S, NEW a \in Seq(S), NEW b \in Seq(S), Len(a) = Len(b),
           \A i \in 1..Len(a) : a[i] = b[i]
    PROVE  a = b
OBVIOUS

\* The rest of a sequence.
LEMMA FromIs ==
    ASSUME NEW S, NEW q \in Seq(S), NEW i \in 1..Len(q) + 1
    PROVE  /\ From(q, i) \in Seq(S) /\ Len(From(q, i)) = Len(q) + 1 - i
           /\ \A x \in 1..Len(q) + 1 - i : From(q, i)[x] = q[i + x - 1]
BY DEF From

\* A sequence without its first element.
LEMMA TailIs ==
    ASSUME NEW S, NEW s \in Seq(S), s # <<>>
    PROVE  /\ Tail(s) \in Seq(S) /\ Len(Tail(s)) = Len(s) - 1 /\ Len(s) \in Nat
           /\ \A i \in 1..Len(s) - 1 : Tail(s)[i] = s[i + 1]
OBVIOUS

-----------------------------------------------------------------------------
(* Concatenations.                                                         *)

\* The running concatenations of the first m of ss.
IsFlat(f, ss, m) == f = [i \in 1 .. m |-> IF i = 1 THEN ss[i] ELSE f[i - 1] \o ss[i]]

\* FlattenSeq chooses one such function: there is one.
LEMMA FlatExists ==
    ASSUME NEW S, NEW ss \in Seq(Seq(S)), Len(ss) # 0
    PROVE  \E f : IsFlat(f, ss, Len(ss))
<1> DEFINE P == {m \in Nat : m < Len(ss) => \E f : IsFlat(f, ss, m + 1)}
<1>1. 0 \in P
  <2>1. IsFlat([i \in 1 .. 1 |-> ss[i]], ss, 0 + 1)
    BY DEF IsFlat
  <2> QED
    BY <2>1
<1>2. ASSUME NEW n \in Nat, n \in P PROVE n + 1 \in P
  <2>1. SUFFICES ASSUME n + 1 < Len(ss) PROVE \E f : IsFlat(f, ss, n + 1 + 1)
    OBVIOUS
  <2>2. PICK f : IsFlat(f, ss, n + 1)
    BY <1>2, <2>1
  <2> DEFINE g == [i \in 1 .. n + 1 + 1 |-> IF i = n + 1 + 1 THEN f[n + 1] \o ss[i] ELSE f[i]]
  <2>3. f = [i \in 1 .. n + 1 |-> IF i = 1 THEN ss[i] ELSE f[i - 1] \o ss[i]]
    BY <2>2 DEF IsFlat
  <2>4. ASSUME NEW i \in 1 .. n + 1 + 1
        PROVE  g[i] = IF i = 1 THEN ss[i] ELSE g[i - 1] \o ss[i]
    <3>1. CASE i = n + 1 + 1
      <4>1. i # 1 /\ i - 1 = n + 1 /\ i - 1 \in 1 .. n + 1 + 1 /\ i - 1 # n + 1 + 1
        BY <3>1
      <4>2. g[i - 1] = f[n + 1]
        BY <4>1
      <4>3. g[i] = f[n + 1] \o ss[i]
        BY <3>1
      <4> QED
        BY <4>1, <4>2, <4>3
    <3>2. CASE i # n + 1 + 1
      <4>1. i \in 1 .. n + 1
        BY <3>2
      <4>2. g[i] = f[i]
        BY <3>2
      <4>3. f[i] = IF i = 1 THEN ss[i] ELSE f[i - 1] \o ss[i]
        BY <2>3, <4>1, Zenon
      <4>4. CASE i = 1
        BY <4>2, <4>3, <4>4
      <4>5. CASE i # 1
        <5>1. i - 1 \in 1 .. n + 1 + 1 /\ i - 1 # n + 1 + 1
          BY <4>1, <4>5
        <5>2. g[i - 1] = f[i - 1]
          BY <5>1
        <5> QED
          BY <4>2, <4>3, <4>5, <5>2
      <4> QED
        BY <4>4, <4>5
    <3> QED
      BY <3>1, <3>2
  <2>5. IsFlat(g, ss, n + 1 + 1)
    <3> HIDE DEF g
    <3>1. g = [i \in 1 .. n + 1 + 1 |-> g[i]]
      BY DEF g
    <3> QED
      BY <2>4, <3>1, Zenon DEF IsFlat
  <2> QED
    BY <2>5
<1>3. Len(ss) - 1 \in Nat /\ Len(ss) - 1 < Len(ss) /\ Len(ss) - 1 + 1 = Len(ss)
  OBVIOUS
<1> HIDE DEF P
<1>4. Len(ss) - 1 \in P
  BY <1>1, <1>2, <1>3, Induction
<1> QED
  BY <1>3, <1>4 DEF P

\* One step of a running concatenation.
LEMMA Unrolled ==
    ASSUME NEW f, NEW ss, NEW m \in Nat, IsFlat(f, ss, m), NEW i \in 1..m
    PROVE  (i = 1 => f[i] = ss[i]) /\ (i # 1 => f[i] = f[i - 1] \o ss[i])
<1>1. f[i] = IF i = 1 THEN ss[i] ELSE f[i - 1] \o ss[i]
  BY Zenon DEF IsFlat
<1> QED
  BY <1>1

\* What FlattenSeq returns is the last of the running concatenations.
LEMMA FlattenIs ==
    ASSUME NEW S, NEW ss \in Seq(Seq(S)), Len(ss) # 0
    PROVE  \E f : IsFlat(f, ss, Len(ss)) /\ FlattenSeq(ss) = f[Len(ss)]
<1> DEFINE f == CHOOSE f : IsFlat(f, ss, Len(ss))
<1>1. FlattenSeq(ss) = f[Len(ss)]
  BY Zenon DEF FlattenSeq, IsFlat
<1>2. IsFlat(f, ss, Len(ss))
  BY FlatExists, Zenon
<1> QED
  BY <1>1, <1>2

\* The concatenation of the first k of the sequences in g.
First(g, k) == FlattenSeq([i \in 1..k |-> g[i]])

\* Every running concatenation is a sequence.
LEMMA RunningType ==
    ASSUME NEW S, NEW ss \in Seq(Seq(S)), NEW f, IsFlat(f, ss, Len(ss))
    PROVE  \A i \in 1..Len(ss) : f[i] \in Seq(S)
<1> DEFINE P == {m \in Nat : m < Len(ss) => f[m + 1] \in Seq(S)}
<1>1. f = [i \in 1..Len(ss) |-> IF i = 1 THEN ss[i] ELSE f[i - 1] \o ss[i]]
  BY DEF IsFlat
<1>2. 0 \in P
  <2>1. ASSUME 0 < Len(ss) PROVE f[1] \in Seq(S)
    <3>1. 1 \in 1..Len(ss)
      BY <2>1
    <3>2. f[1] = ss[1]
      BY <1>1, <3>1
    <3> QED
      BY <3>1, <3>2
  <2> QED
    BY <2>1
<1>3. ASSUME NEW n \in Nat, n \in P PROVE n + 1 \in P
  <2>1. SUFFICES ASSUME n + 1 < Len(ss) PROVE f[n + 1 + 1] \in Seq(S)
    OBVIOUS
  <2>2. n + 1 + 1 \in 1..Len(ss) /\ n + 1 + 1 # 1 /\ n + 1 + 1 - 1 = n + 1
    BY <2>1
  <2>3. f[n + 1 + 1] = f[n + 1 + 1 - 1] \o ss[n + 1 + 1]
    <3>1. PICK i \in 1..Len(ss) : i = n + 1 + 1
      BY <2>2
    <3>2. i # 1 /\ Len(ss) \in Nat
      BY <3>1
    <3>3. f[i] = f[i - 1] \o ss[i]
      BY <3>2, Unrolled, Zenon
    <3>4. i - 1 = n + 1 + 1 - 1
      BY <3>1
    <3> QED
      BY <3>1, <3>3, <3>4, Zenon
  <2>4. f[n + 1] \in Seq(S) /\ ss[n + 1 + 1] \in Seq(S)
    BY <1>3, <2>1, <2>2
  <2> QED
    BY <2>2, <2>3, <2>4
<1>4. \A n \in Nat : n \in P
  <2> HIDE DEF P
  <2> QED
    BY <1>2, <1>3, Induction
<1>5. ASSUME NEW i \in 1..Len(ss) PROVE f[i] \in Seq(S)
  <2>1. i - 1 \in Nat /\ i - 1 < Len(ss) /\ i - 1 + 1 = i
    OBVIOUS
  <2>2. i - 1 \in P
    BY <1>4, <2>1
  <2> QED
    BY <2>1, <2>2
<1> QED
  BY <1>5

\* So is what the first k come to; none come to nothing.
LEMMA FirstType ==
    ASSUME NEW S, NEW g \in Seq(Seq(S)), NEW k \in 0..Len(g)
    PROVE  First(g, k) \in Seq(S) /\ (k = 0 => First(g, k) = <<>>)
<1> DEFINE h == [i \in 1..k |-> g[i]]
<1>1. h \in Seq(Seq(S)) /\ Len(h) = k
  OBVIOUS
<1>2. CASE k = 0
  <2>1. FlattenSeq(h) = h
    BY <1>1, <1>2, Zenon DEF FlattenSeq
  <2>2. h = <<>>
    BY <1>1, <1>2
  <2>3. First(g, k) = FlattenSeq(h)
    BY DEF First
  <2>4. <<>> \in Seq(S)
    OBVIOUS
  <2> HIDE DEF h
  <2> QED
    BY <2>1, <2>2, <2>3, <2>4
<1>3. CASE k # 0
  <2> HIDE DEF h
  <2>1. PICK f : IsFlat(f, h, Len(h)) /\ FlattenSeq(h) = f[Len(h)]
    BY <1>1, <1>3, FlattenIs
  <2>2. f[Len(h)] \in Seq(S)
    BY <1>1, <1>3, <2>1, RunningType
  <2> QED
    BY <1>3, <2>1, <2>2 DEF First, h
<1> QED
  BY <1>2, <1>3

\* One more piece is one more concatenation.
LEMMA FirstStep ==
    ASSUME NEW S, NEW g \in Seq(Seq(S)), NEW k \in 0..Len(g) - 1
    PROVE  First(g, k + 1) = First(g, k) \o g[k + 1]
<1> DEFINE h == [i \in 1..k + 1 |-> g[i]]
           h0 == [i \in 1..k |-> g[i]]
<1>1. k + 1 \in Nat /\ k + 1 # 0 /\ k + 1 \in 1..Len(g) /\ g[k + 1] \in Seq(S)
  OBVIOUS
<1>2. h \in Seq(Seq(S)) /\ Len(h) = k + 1 /\ \A i \in 1..k + 1 : h[i] = g[i]
  OBVIOUS
<1>3. h0 \in Seq(Seq(S)) /\ Len(h0) = k /\ \A i \in 1..k : h0[i] = g[i]
  OBVIOUS
<1> HIDE DEF h, h0
<1>4. PICK f : IsFlat(f, h, Len(h)) /\ FlattenSeq(h) = f[Len(h)]
  BY <1>1, <1>2, FlattenIs
<1>5. f = [i \in 1..k + 1 |-> IF i = 1 THEN h[i] ELSE f[i - 1] \o h[i]]
  BY <1>2, <1>4, Zenon DEF IsFlat
<1>6. CASE k = 0
  <2>1. f[1] = h[1]
    BY <1>5, <1>6
  <2>2. First(g, 1) = g[1]
    BY <1>2, <1>4, <1>6, <2>1 DEF First, h
  <2>3. First(g, 0) = <<>>
    BY FirstType
  <2> QED
    BY <1>1, <1>6, <2>2, <2>3
<1>7. CASE k # 0
  <2>1. PICK e : IsFlat(e, h0, Len(h0)) /\ FlattenSeq(h0) = e[Len(h0)]
    BY <1>3, <1>7, FlattenIs
  <2>2. e = [i \in 1..k |-> IF i = 1 THEN h0[i] ELSE e[i - 1] \o h0[i]]
    BY <1>3, <2>1, Zenon DEF IsFlat
  <2> DEFINE P == {m \in Nat : m < k => f[m + 1] = e[m + 1]}
  <2>3. 0 \in P
    <3>1. f[1] = h[1] /\ e[1] = h0[1] /\ h[1] = g[1] /\ h0[1] = g[1]
      <4>1. 1 \in 1..k + 1 /\ 1 \in 1..k
        BY <1>7
      <4> QED
        BY <4>1, <1>2, <1>3, <1>5, <2>2
    <3> QED
      BY <3>1
  <2>4. ASSUME NEW n \in Nat, n \in P PROVE n + 1 \in P
    <3>1. SUFFICES ASSUME n + 1 < k PROVE f[n + 1 + 1] = e[n + 1 + 1]
      OBVIOUS
    <3>2. /\ n + 1 + 1 \in 1..k + 1 /\ n + 1 + 1 \in 1..k /\ n + 1 + 1 # 1
          /\ n + 1 + 1 - 1 = n + 1
      BY <3>1
    <3>3. f[n + 1 + 1] = f[n + 1 + 1 - 1] \o h[n + 1 + 1]
      <4>1. IsFlat(f, h, k + 1)
        BY <1>2, <1>4
      <4>2. PICK i \in 1..k + 1 : i = n + 1 + 1
        BY <3>2
      <4>3. i # 1
        BY <4>2
      <4>4. f[i] = f[i - 1] \o h[i]
        BY <1>1, <4>1, <4>3, Unrolled, Zenon
      <4>5. i - 1 = n + 1 + 1 - 1
        BY <4>2
      <4> QED
        BY <4>2, <4>4, <4>5, Zenon
    <3>4. e[n + 1 + 1] = e[n + 1 + 1 - 1] \o h0[n + 1 + 1]
      <4>1. IsFlat(e, h0, k) /\ k \in Nat
        BY <1>3, <2>1
      <4>2. PICK i \in 1..k : i = n + 1 + 1
        BY <3>2
      <4>3. i # 1
        BY <4>2
      <4>4. e[i] = e[i - 1] \o h0[i]
        BY <4>1, <4>3, Unrolled, Zenon
      <4>5. i - 1 = n + 1 + 1 - 1
        BY <4>2
      <4> QED
        BY <4>2, <4>4, <4>5, Zenon
    <3>5. f[n + 1] = e[n + 1]
      BY <2>4, <3>1
    <3> QED
      BY <1>2, <1>3, <3>2, <3>3, <3>4, <3>5
  <2>5. k - 1 \in P
    <3> HIDE DEF P
    <3>1. k - 1 \in Nat
      BY <1>7
    <3> QED
      BY <2>3, <2>4, <3>1, Induction
  <2>6. f[k] = e[k]
    BY <2>5, <1>7
  <2>7. f[k + 1] = f[k] \o h[k + 1]
    <3>1. k + 1 \in 1..k + 1 /\ k + 1 # 1 /\ k + 1 - 1 = k
      BY <1>7
    <3>2. f[k + 1] = f[k + 1 - 1] \o h[k + 1]
      <4>1. IsFlat(f, h, k + 1)
        BY <1>2, <1>4
      <4>2. PICK i \in 1..k + 1 : i = k + 1
        BY <3>1
      <4>3. i # 1
        BY <3>1, <4>2
      <4>4. f[i] = f[i - 1] \o h[i]
        BY <1>1, <4>1, <4>3, Unrolled, Zenon
      <4>5. i - 1 = k + 1 - 1
        BY <4>2
      <4> QED
        BY <4>2, <4>4, <4>5, Zenon
    <3> QED
      BY <3>1, <3>2
  <2>8. First(g, k + 1) = f[k + 1] /\ First(g, k) = e[k] /\ h[k + 1] = g[k + 1]
    BY <1>1, <1>2, <1>3, <1>4, <2>1 DEF First, h, h0
  <2> QED
    BY <2>6, <2>7, <2>8
<1> QED
  BY <1>6, <1>7

\* A concatenation of fewer is where one of more begins.
LEMMA FirstGrows ==
    ASSUME NEW S, NEW g \in Seq(Seq(S)), NEW k \in 0..Len(g), NEW j \in 0..k
    PROVE  \E t \in Seq(S) : First(g, k) = First(g, j) \o t
<1> DEFINE Q(m) == \E t \in Seq(S) : First(g, m) = First(g, j) \o t
           P == {m \in Nat : m + j <= Len(g) => Q(m + j)}
<1>0. j \in 0..Len(g) /\ First(g, j) \in Seq(S)
  <2>1. j \in 0..Len(g)
    OBVIOUS
  <2> QED
    BY <2>1, FirstType
<1>1. Q(j)
  <2>1. First(g, j) = First(g, j) \o <<>> /\ <<>> \in Seq(S)
    BY <1>0
  <2> QED
    BY <2>1
<1>2. ASSUME NEW m \in 0..Len(g) - 1, Q(m) PROVE Q(m + 1)
  <2>1. PICK t \in Seq(S) : First(g, m) = First(g, j) \o t
    BY <1>2
  <2>2. g[m + 1] \in Seq(S)
    OBVIOUS
  <2>3. First(g, m + 1) = First(g, m) \o g[m + 1]
    BY FirstStep
  <2>4. (First(g, j) \o t) \o g[m + 1] = First(g, j) \o (t \o g[m + 1])
    <3>1. First(g, j) \in Seq(S)
      BY <1>0
    <3>2. PICK a \in Seq(S) : a = First(g, j)
      BY <3>1
    <3>3. PICK u \in Seq(S) : u = g[m + 1]
      BY <2>2
    <3>4. (a \o t) \o u = a \o (t \o u)
      BY ConcatAssociative
    <3> QED
      BY <3>2, <3>3, <3>4, Zenon
  <2>5. t \o g[m + 1] \in Seq(S)
    BY <2>2
  <2> QED
    BY <2>1, <2>3, <2>4, <2>5
<1> HIDE DEF Q
<1>4. 0 \in P
  BY <1>1
<1>5. ASSUME NEW m \in Nat, m \in P PROVE m + 1 \in P
  <2>1. SUFFICES ASSUME m + 1 + j <= Len(g) PROVE Q(m + 1 + j)
    OBVIOUS
  <2>2. m + j \in 0..Len(g) - 1 /\ m + j + 1 = m + 1 + j
    BY <2>1
  <2>3. Q(m + j)
    BY <1>5, <2>2
  <2>4. Q(m + j + 1)
    <3>1. PICK i \in 0..Len(g) - 1 : i = m + j
      BY <2>2
    <3>2. Q(i)
      BY <2>3, <3>1
    <3>3. Q(i + 1)
      BY <1>2, <3>2, Zenon
    <3> QED
      BY <3>1, <3>3
  <2> QED
    BY <2>2, <2>4
<1>3. k - j \in P
  <2> HIDE DEF P
  <2>1. k - j \in Nat
    OBVIOUS
  <2> QED
    BY <1>4, <1>5, <2>1, Induction
<1>6. k - j + j = k /\ k <= Len(g)
  OBVIOUS
<1> QED
  BY <1>3, <1>6 DEF Q

-----------------------------------------------------------------------------
(* Reading a text: positions.                                               *)

\* w stands in s at position i.
Stands(s, i, w) == i + Len(w) <= Len(s) + 1 /\ \A k \in 1..Len(w) : s[i + k - 1] = w[k]

\* Starts says what stands where.
LEMMA StartsIs ==
    ASSUME NEW S, NEW s \in Seq(S), NEW i \in 1..Len(s) + 1, NEW T, NEW p \in Seq(T)
    PROVE  Starts(s, i, p) <=> Stands(s, i, p)
<1>1. PICK r \in Seq(S) : r = From(s, i)
  BY FromIs, Zenon
<1>2. Len(r) = Len(s) + 1 - i /\ \A x \in 1..Len(s) + 1 - i : r[x] = s[i + x - 1]
  BY <1>1, FromIs, Zenon
<1>3. Len(s) \in Nat /\ Len(p) \in Nat /\ Len(r) \in Nat /\ i \in Nat
  OBVIOUS
<1>4. Starts(s, i, p) <=> Len(p) <= Len(r) /\ SubSeq(p, 1, Len(p)) = SubSeq(r, 1, Len(p))
  BY <1>1, Zenon DEF Starts, IsPrefix
<1>5. SubSeq(p, 1, Len(p)) = p
  OBVIOUS
<1>6. ASSUME Len(p) <= Len(r)
      PROVE  p = SubSeq(r, 1, Len(p)) <=> \A k \in 1..Len(p) : s[i + k - 1] = p[k]
  <2>1. PICK q \in Seq(S) : q = SubSeq(r, 1, Len(p)) /\ Len(q) = Len(p) /\ \A k \in 1..Len(p) : q[k] = r[k]
    <3>1. SubSeq(r, 1, Len(p)) \in Seq(S) /\ Len(SubSeq(r, 1, Len(p))) = Len(p)
      BY <1>3, <1>6
    <3>2. \A k \in 1..Len(p) : SubSeq(r, 1, Len(p))[k] = r[k]
      BY <1>3, <1>6
    <3> QED
      BY <3>1, <3>2, Zenon
  <2>2. \A k \in 1..Len(p) : q[k] = s[i + k - 1]
    BY <1>2, <1>3, <1>6, <2>1
  <2>3. (\A k \in 1..Len(p) : q[k] = p[k]) => p = q
    <3>1. p \in Seq(S \cup T) /\ q \in Seq(S \cup T)
      OBVIOUS
    <3> QED
      BY <2>1, <3>1, SameSeq
  <2> QED
    BY <2>1, <2>2, <2>3, Zenon
<1>7. Len(p) <= Len(r) <=> i + Len(p) <= Len(s) + 1
  BY <1>2, <1>3
<1> QED
  BY <1>4, <1>5, <1>6, <1>7, Zenon DEF Stands

\* A set of positions whose least is known.
LEMMA LeastIs ==
    ASSUME NEW R, R \subseteq Nat, NEW e \in R, \A x \in R : e <= x
    PROVE  Min(R) = e
<1>1. \A x \in R : (\A y \in R : x <= y) => x = e
  OBVIOUS
<1> QED
  BY <1>1 DEF Min

\* Past finds the first occurrence, or the end of the text.
LEMMA PastIs ==
    ASSUME NEW S, NEW s \in Seq(S), NEW i \in 1..Len(s) + 1, NEW T, NEW p \in Seq(T)
    PROVE  /\ (\A j \in i..Len(s) : ~Stands(s, j, p)) => Past(s, i, p) = Len(s) + 1
           /\ \A e \in i..Len(s) :
                Stands(s, e, p) /\ (\A j \in i..e - 1 : ~Stands(s, j, p)) => Past(s, i, p) = e + Len(p)
<1> DEFINE R == {j \in i..Len(s) : Starts(s, j, p)}
<1>1. Len(s) \in Nat /\ i \in Nat /\ Len(p) \in Nat
  OBVIOUS
<1>2. \A j \in i..Len(s) : Starts(s, j, p) <=> Stands(s, j, p)
  <2>1. \A j \in i..Len(s) : j \in 1..Len(s) + 1
    BY <1>1
  <2> QED
    BY <2>1, StartsIs, Zenon
<1>3. Past(s, i, p) = IF R = {} THEN Len(s) + 1 ELSE Min(R) + Len(p)
  BY Zenon DEF Past
<1>4. ASSUME \A j \in i..Len(s) : ~Stands(s, j, p) PROVE Past(s, i, p) = Len(s) + 1
  <2>1. R = {}
    BY <1>2, <1>4, Zenon
  <2> QED
    BY <1>3, <2>1, Zenon
<1>5. ASSUME NEW e \in i..Len(s), Stands(s, e, p), \A j \in i..e - 1 : ~Stands(s, j, p)
      PROVE  Past(s, i, p) = e + Len(p)
  <2>1. e \in R
    BY <1>2, <1>5, Zenon
  <2>2. \A x \in R : e <= x
    <3> TAKE x \in R
    <3>1. x \in i..Len(s) /\ Stands(s, x, p)
      BY <1>2, Zenon
    <3>2. ~(x \in i..e - 1)
      BY <1>5, <3>1, Zenon
    <3> HIDE DEF R
    <3> QED
      BY <1>1, <1>5, <3>1, <3>2
  <2>3. R \subseteq Nat
    BY <1>1
  <2> HIDE DEF R
  <2>4. Min(R) = e
    BY <2>1, <2>2, <2>3, LeastIs
  <2> QED
    BY <1>3, <2>1, <2>4, Zenon
<1> QED
  BY <1>4, <1>5, Zenon

\* Past never goes back nor beyond the text.
LEMMA PastWithin ==
    ASSUME NEW S, NEW s \in Seq(S), NEW i \in 1..Len(s) + 1, NEW T, NEW p \in Seq(T), Len(p) >= 1
    PROVE  /\ Past(s, i, p) \in i..Len(s) + 1
           /\ i <= Len(s) => Past(s, i, p) \in i + 1..Len(s) + 1
<1> DEFINE R == {j \in i..Len(s) : Stands(s, j, p)}
<1>1. Len(s) \in Nat /\ i \in Nat /\ Len(p) \in Nat
  OBVIOUS
<1>2. CASE R = {}
  <2>1. Past(s, i, p) = Len(s) + 1
    BY <1>2, PastIs, Zenon
  <2> QED
    BY <1>1, <2>1
<1>3. CASE R # {}
  <2>1. R \subseteq Nat
    BY <1>1
  <2>2. PICK e \in R : \A c \in R : e <= c
    <3> HIDE DEF R
    <3> QED
      BY <1>3, <2>1, Least
  <2>3. e \in i..Len(s) /\ Stands(s, e, p)
    OBVIOUS
  <2>4. \A j \in i..e - 1 : ~Stands(s, j, p)
    <3> TAKE j \in i..e - 1
    <3>1. j \in i..Len(s) /\ ~(e <= j)
      BY <1>1, <2>3
    <3> QED
      BY <2>2, <3>1, Zenon
  <2>5. Past(s, i, p) = e + Len(p)
    BY <2>3, <2>4, PastIs, Zenon
  <2>6. e + Len(p) <= Len(s) + 1
    BY <2>3, Zenon DEF Stands
  <2> HIDE DEF R
  <2> QED
    BY <1>1, <2>3, <2>5, <2>6
<1> QED
  BY <1>2, <1>3

-----------------------------------------------------------------------------
(* Functions that refer to themselves further on.                           *)

IsUnfolded(f, M, J, A, C, B) ==
    f = [i \in 1..M |-> IF J[i] = 0 THEN A[i] ELSE IF C[i] THEN B[i] \o f[J[i]] ELSE f[J[i]]]

Onward(M, J) == \A i \in 1..M : J[i] = 0 \/ J[i] \in i + 1..M

\* A function that refers to itself only further on exists: the recursions of the
\* lexer define what they say.
LEMMA Unfolds ==
    ASSUME NEW M \in Nat, NEW J, NEW A, NEW C, NEW B, Onward(M, J)
    PROVE  \E f : IsUnfolded(f, M, J, A, C, B)
<1>0. \A i \in 1..M : J[i] = 0 \/ J[i] \in i + 1..M
  BY DEF Onward
<1> DEFINE Val(f, i) == IF J[i] = 0 THEN A[i] ELSE IF C[i] THEN B[i] \o f[J[i]] ELSE f[J[i]]
           From1(m) == M + 1 - m..M
           Q(m) == \E f : f = [i \in From1(m) |-> Val(f, i)]
           P == {m \in Nat : m <= M => Q(m)}
<1>1. Q(0)
  <2> DEFINE f == [i \in From1(0) |-> <<>>]
  <2>1. From1(0) = {}
    OBVIOUS
  <2>2. f = [i \in From1(0) |-> Val(f, i)]
    BY <2>1
  <2> QED
    BY <2>2, Zenon
<1>2. ASSUME NEW m \in Nat, m + 1 <= M, Q(m) PROVE Q(m + 1)
  <2>1. PICK f : f = [i \in From1(m) |-> Val(f, i)]
    BY <1>2
  <2> DEFINE a == M - m
             f2 == [i \in From1(m + 1) |-> IF i = a THEN Val(f, i) ELSE f[i]]
  <2>2. /\ a \in 1..M /\ a \in From1(m + 1) /\ a \notin From1(m)
        /\ \A i \in From1(m + 1) : i = a \/ i \in From1(m)
        /\ \A i \in From1(m) : i \in From1(m + 1) /\ i # a
    BY <1>2
  <2>3. \A i \in From1(m) : f2[i] = f[i]
    BY <2>2
  <2>4. \A i \in From1(m + 1) : J[i] = 0 \/ J[i] \in From1(m)
    BY <1>0, <1>2
  <2>5. \A i \in From1(m + 1) : Val(f2, i) = Val(f, i)
    <3> HIDE DEF f2, From1
    <3> QED
      BY <2>3, <2>4, Zenon
  <2>6. \A i \in From1(m) : f[i] = Val(f, i)
    <3> HIDE DEF Val, From1
    <3> QED
      BY <2>1, Zenon
  <2>7. f2 = [i \in From1(m + 1) |-> Val(f2, i)]
    <3>1. \A i \in From1(m + 1) : (IF i = a THEN Val(f, i) ELSE f[i]) = Val(f2, i)
      <4> HIDE DEF f2, From1, Val, a
      <4> QED
        BY <2>2, <2>5, <2>6, Zenon
    <3> HIDE DEF From1, Val, a
    <3> QED
      BY <3>1, Zenon
  <2> QED
    BY <2>7, Zenon
<1>3. \A m \in Nat : m \in P
  <2>1. 0 \in P
    BY <1>1
  <2>2. ASSUME NEW m \in Nat, m \in P PROVE m + 1 \in P
    <3>1. m + 1 <= M => Q(m)
      <4> HIDE DEF Q
      <4> QED
        BY <2>2
    <3>2. m + 1 <= M => Q(m + 1)
      BY <1>2, <3>1, Zenon
    <3> HIDE DEF Q
    <3> QED
      BY <3>2
  <2> HIDE DEF P
  <2> QED
    BY <2>1, <2>2, Induction
<1>4. Q(M)
  <2> HIDE DEF Q
  <2> QED
    BY <1>3
<1>5. From1(M) = 1..M
  OBVIOUS
<1> QED
  BY <1>4, <1>5, Zenon DEF IsUnfolded

-----------------------------------------------------------------------------
(* What stands in a text, piece by piece.                                   *)

\* A concatenation stands where its parts stand one behind the other.
LEMMA StandsParts ==
    ASSUME NEW S, NEW s \in Seq(S), NEW i \in Nat, i >= 1, NEW T, NEW a \in Seq(T), NEW b \in Seq(T)
    PROVE  Stands(s, i, a \o b) <=> Stands(s, i, a) /\ Stands(s, i + Len(a), b)
<1>1. PICK w \in Seq(T) : w = a \o b
  BY Zenon, ConcatProperties
<1>2. /\ Len(w) = Len(a) + Len(b) /\ Len(a) \in Nat /\ Len(b) \in Nat /\ Len(s) \in Nat
      /\ \A k \in 1..Len(a) : w[k] = a[k]
      /\ \A k \in 1..Len(b) : w[Len(a) + k] = b[k]
  BY <1>1
<1>3. ASSUME Stands(s, i, w) PROVE Stands(s, i, a) /\ Stands(s, i + Len(a), b)
  <2>1. i + Len(w) <= Len(s) + 1 /\ \A k \in 1..Len(w) : s[i + k - 1] = w[k]
    BY <1>3 DEF Stands
  <2>2. \A k \in 1..Len(a) : s[i + k - 1] = a[k]
    BY <1>2, <2>1
  <2>3. ASSUME NEW k \in 1..Len(b) PROVE s[i + Len(a) + k - 1] = b[k]
    <3>1. Len(a) + k \in 1..Len(w) /\ i + (Len(a) + k) - 1 = i + Len(a) + k - 1
      BY <1>2
    <3>2. s[i + (Len(a) + k) - 1] = w[Len(a) + k]
      BY <2>1, <3>1, Zenon
    <3> QED
      BY <1>2, <3>1, <3>2, Zenon
  <2>4. i + Len(a) <= Len(s) + 1 /\ i + Len(a) + Len(b) <= Len(s) + 1
    BY <1>2, <2>1
  <2> QED
    BY <2>2, <2>3, <2>4, Zenon DEF Stands
<1>4. ASSUME Stands(s, i, a), Stands(s, i + Len(a), b) PROVE Stands(s, i, w)
  <2>1. /\ \A k \in 1..Len(a) : s[i + k - 1] = a[k]
        /\ i + Len(a) + Len(b) <= Len(s) + 1 /\ \A k \in 1..Len(b) : s[i + Len(a) + k - 1] = b[k]
    BY <1>4 DEF Stands
  <2>2. ASSUME NEW k \in 1..Len(w) PROVE s[i + k - 1] = w[k]
    <3>1. CASE k <= Len(a)
      <4>1. k \in 1..Len(a)
        BY <1>2, <3>1
      <4> QED
        BY <1>2, <2>1, <4>1, Zenon
    <3>2. CASE k > Len(a)
      <4>1. PICK m \in 1..Len(b) : k = Len(a) + m /\ i + k - 1 = i + Len(a) + m - 1
        <5>1. k - Len(a) \in 1..Len(b) /\ k = Len(a) + (k - Len(a)) /\ i + k - 1 = i + Len(a) + (k - Len(a)) - 1
          BY <1>2, <3>2
        <5> QED
          BY <5>1, Zenon
      <4> QED
        BY <1>2, <2>1, <4>1, Zenon
    <3> QED
      BY <1>2, <3>1, <3>2
  <2>3. i + Len(w) <= Len(s) + 1
    BY <1>2, <2>1
  <2> QED
    BY <2>2, <2>3, Zenon DEF Stands
<1> QED
  BY <1>1, <1>3, <1>4, Zenon

\* Each piece of what stands in a text stands behind the pieces before it.
PieceAt(s, i, g, k) ==
    /\ Len(First(g, k)) \in Nat
    /\ Stands(s, i + Len(First(g, k)), g[k + 1])
    /\ Len(First(g, k + 1)) = Len(First(g, k)) + Len(g[k + 1])

\* So does a concatenation of any number of pieces.
LEMMA PiecesStand ==
    ASSUME NEW S, NEW s \in Seq(S), NEW i \in Nat, i >= 1, NEW T, NEW g \in Seq(Seq(T)),
           Stands(s, i, First(g, Len(g)))
    PROVE  /\ \A k \in 0..Len(g) : Len(First(g, k)) \in Nat /\ i + Len(First(g, k)) <= Len(s) + 1
           /\ \A k \in 0..Len(g) - 1 : PieceAt(s, i, g, k)
<1>1. ASSUME NEW k \in 0..Len(g)
      PROVE  Len(First(g, k)) \in Nat /\ Stands(s, i, First(g, k))
  <2>1. PICK a \in Seq(T) : a = First(g, k)
    BY FirstType, Zenon
  <2>2. PICK t \in Seq(T) : First(g, Len(g)) = a \o t
    <3>1. Len(g) \in 0..Len(g) /\ k \in 0..Len(g)
      OBVIOUS
    <3> QED
      BY <2>1, <3>1, FirstGrows, Zenon
  <2>3. Stands(s, i, a)
    BY <2>2, StandsParts, Zenon
  <2> QED
    BY <2>1, <2>3
<1>2. ASSUME NEW k \in 0..Len(g)
      PROVE  Len(First(g, k)) \in Nat /\ i + Len(First(g, k)) <= Len(s) + 1
  BY <1>1, Zenon DEF Stands
<1>3. ASSUME NEW k \in 0..Len(g) - 1
      PROVE  PieceAt(s, i, g, k)
  <2>1. k \in 0..Len(g) /\ k + 1 \in 0..Len(g) /\ k + 1 \in 1..Len(g) /\ g[k + 1] \in Seq(T)
    OBVIOUS
  <2>2. PICK a \in Seq(T) : a = First(g, k)
    BY <2>1, FirstType, Zenon
  <2>3. PICK b \in Seq(T) : b = g[k + 1]
    BY <2>1, Zenon
  <2>4. First(g, k + 1) = a \o b
    BY <2>2, <2>3, FirstStep, Zenon
  <2>5. Stands(s, i, a \o b)
    BY <1>1, <2>1, <2>4, Zenon
  <2>6. Stands(s, i + Len(a), b)
    BY <2>5, StandsParts, Zenon
  <2>7. Len(a \o b) = Len(a) + Len(b)
    OBVIOUS
  <2> QED
    BY <1>1, <2>1, <2>2, <2>3, <2>4, <2>6, <2>7, Zenon DEF PieceAt
<1> QED
  BY <1>2, <1>3, Zenon

-----------------------------------------------------------------------------
(* Quotes.                                                                  *)

IsClosing(f, s, i) ==
    LET quote(j) == j <= Len(s) /\ s[j] = s[i]
    IN  f = [j \in 1..Len(s) + 2 |->
               CASE j > Len(s)                  -> Len(s) + 1
                 [] quote(j) /\ quote(j + 1)    -> f[j + 2]
                 [] quote(j) /\ ~quote(j + 1)   -> j
                 [] OTHER                       -> f[j + 1]]

\* The scan for the closing quote is well defined.
LEMMA ClosingIs ==
    ASSUME NEW S, NEW s \in Seq(S), NEW i \in 1..Len(s)
    PROVE  \E f : IsClosing(f, s, i) /\ ClosingQuote(s, i) = f[i + 1]
<1> DEFINE quote(j) == j <= Len(s) /\ s[j] = s[i]
           M == Len(s) + 2
           J == [j \in 1..M |-> IF j > Len(s) THEN 0
                                ELSE IF quote(j) THEN (IF quote(j + 1) THEN j + 2 ELSE 0)
                                ELSE j + 1]
           A == [j \in 1..M |-> IF j > Len(s) THEN Len(s) + 1 ELSE j]
           Val(f, j) ==
               CASE j > Len(s)                  -> Len(s) + 1
                 [] quote(j) /\ quote(j + 1)    -> f[j + 2]
                 [] quote(j) /\ ~quote(j + 1)   -> j
                 [] OTHER                       -> f[j + 1]
<1>1. M \in Nat /\ Onward(M, J)
  <2>1. Len(s) \in Nat
    OBVIOUS
  <2>2. ASSUME NEW j \in 1..M PROVE J[j] = 0 \/ J[j] \in j + 1..M
    <3>1. J[j] = 0 \/ (j <= Len(s) /\ (J[j] = j + 2 \/ J[j] = j + 1))
      <4>1. J[j] = IF j > Len(s) THEN 0 ELSE IF quote(j) THEN (IF quote(j + 1) THEN j + 2 ELSE 0) ELSE j + 1
        <5> HIDE DEF M
        <5> QED
          BY Zenon
      <4> HIDE DEF J, quote
      <4> QED
        BY <2>1, <4>1
    <3> HIDE DEF J
    <3> QED
      BY <2>1, <3>1
  <2> HIDE DEF J
  <2> QED
    BY <2>1, <2>2 DEF Onward
<1>2. PICK f : IsUnfolded(f, M, J, A, [j \in 1..M |-> FALSE], A)
  <2> HIDE DEF M, J, A
  <2> QED
    BY <1>1, Unfolds, Zenon
<1>3. ASSUME NEW j \in 1..M
      PROVE  (IF J[j] = 0 THEN A[j] ELSE f[J[j]]) = Val(f, j)
  <2>0. j \in Nat /\ j + 1 # 0 /\ j + 2 # 0 /\ Len(s) \in Nat
    OBVIOUS
  <2>1. CASE j > Len(s)
    BY <2>1
  <2>2. CASE ~(j > Len(s)) /\ quote(j) /\ quote(j + 1)
    <3>1. J[j] = j + 2
      BY <2>2
    <3>2. Val(f, j) = f[j + 2]
      BY <2>2
    <3> HIDE DEF J, Val
    <3> QED
      BY <2>0, <3>1, <3>2
  <2>3. CASE ~(j > Len(s)) /\ quote(j) /\ ~quote(j + 1)
    <3>1. J[j] = 0 /\ A[j] = j
      BY <2>3
    <3>2. Val(f, j) = j
      BY <2>3
    <3> HIDE DEF J, Val, A
    <3> QED
      BY <3>1, <3>2
  <2>4. CASE ~(j > Len(s)) /\ ~quote(j)
    <3>1. J[j] = j + 1
      BY <2>4
    <3>2. Val(f, j) = f[j + 1]
      BY <2>4
    <3> HIDE DEF J, Val
    <3> QED
      BY <2>0, <3>1, <3>2
  <2> QED
    BY <2>1, <2>2, <2>3, <2>4, Zenon
<1>4. f = [j \in 1..M |-> Val(f, j)]
  <2>1. f = [j \in 1..M |-> IF J[j] = 0 THEN A[j] ELSE f[J[j]]]
    <3>1. f = [j \in 1..M |-> IF J[j] = 0 THEN A[j]
                 ELSE IF [k \in 1..M |-> FALSE][j] THEN A[j] \o f[J[j]] ELSE f[J[j]]]
      BY <1>2, Zenon DEF IsUnfolded
    <3>2. \A j \in 1..M : (IF J[j] = 0 THEN A[j]
                 ELSE IF [k \in 1..M |-> FALSE][j] THEN A[j] \o f[J[j]] ELSE f[J[j]])
                   = IF J[j] = 0 THEN A[j] ELSE f[J[j]]
      <4> HIDE DEF J, A, M
      <4> QED
        BY Zenon
    <3> HIDE DEF J, A, M
    <3> QED
      BY <3>1, <3>2, Zenon
  <2> HIDE DEF J, A, M, Val
  <2> QED
    BY <1>3, <2>1, Zenon
<1>5. IsClosing(f, s, i)
  BY <1>4, Zenon DEF IsClosing
<1> DEFINE g == CHOOSE g : IsClosing(g, s, i)
<1>6. ClosingQuote(s, i) = g[i + 1]
  BY Zenon DEF ClosingQuote, IsClosing
<1>7. IsClosing(g, s, i)
  BY <1>5, Zenon
<1> QED
  BY <1>6, <1>7, Zenon

\* One step of the scan for the closing quote.
ScanStep(f, s, i, j) ==
    /\ s[j] # s[i] => f[j] = f[j + 1]
    /\ s[j] = s[i] /\ j < Len(s) /\ s[j + 1] = s[i] => f[j] = f[j + 2]
    /\ s[j] = s[i] /\ (j < Len(s) => s[j + 1] # s[i]) => f[j] = j

\* It goes on past a doubled quote and past anything but a quote.
LEMMA ClosingStep ==
    ASSUME NEW S, NEW s \in Seq(S), NEW i \in 1..Len(s), NEW f, IsClosing(f, s, i)
    PROVE  /\ f[Len(s) + 1] = Len(s) + 1 /\ f[Len(s) + 2] = Len(s) + 1
           /\ \A j \in 1..Len(s) : ScanStep(f, s, i, j)
<1> DEFINE quote(j) == j <= Len(s) /\ s[j] = s[i]
           Val(j) ==
               CASE j > Len(s)                  -> Len(s) + 1
                 [] quote(j) /\ quote(j + 1)    -> f[j + 2]
                 [] quote(j) /\ ~quote(j + 1)   -> j
                 [] OTHER                       -> f[j + 1]
<1>1. Len(s) \in Nat
  OBVIOUS
<1>2. ASSUME NEW j \in 1..Len(s) + 2 PROVE f[j] = Val(j)
  BY <1>2, Zenon DEF IsClosing
<1>3. f[Len(s) + 1] = Len(s) + 1 /\ f[Len(s) + 2] = Len(s) + 1
  <2>1. ASSUME NEW j \in 1..Len(s) + 2, j > Len(s) PROVE f[j] = Len(s) + 1
    <3>1. Val(j) = Len(s) + 1
      BY <2>1
    <3> QED
      BY <1>2, <3>1, Zenon
  <2>2. Len(s) + 1 \in 1..Len(s) + 2 /\ Len(s) + 2 \in 1..Len(s) + 2 /\ Len(s) + 1 > Len(s) /\ Len(s) + 2 > Len(s)
    BY <1>1
  <2> QED
    BY <2>1, <2>2, Zenon
<1>4. ASSUME NEW j \in 1..Len(s)
      PROVE  /\ s[j] # s[i] => f[j] = f[j + 1]
             /\ s[j] = s[i] /\ j < Len(s) /\ s[j + 1] = s[i] => f[j] = f[j + 2]
             /\ s[j] = s[i] /\ (j < Len(s) => s[j + 1] # s[i]) => f[j] = j
  <2>1. j \in 1..Len(s) + 2 /\ ~(j > Len(s)) /\ j <= Len(s) /\ (j < Len(s) <=> j + 1 <= Len(s))
    BY <1>1
  <2>2. f[j] = Val(j)
    BY <1>2, <2>1, Zenon
  <2>3. CASE s[j] # s[i]
    <3>1. Val(j) = f[j + 1]
      BY <2>1, <2>3
    <3> HIDE DEF Val
    <3> QED
      BY <2>2, <2>3, <3>1
  <2>4. CASE s[j] = s[i] /\ j < Len(s) /\ s[j + 1] = s[i]
    <3>1. Val(j) = f[j + 2]
      BY <2>1, <2>4
    <3> HIDE DEF Val
    <3> QED
      BY <2>2, <2>4, <3>1, Zenon
  <2>5. CASE s[j] = s[i] /\ (j < Len(s) => s[j + 1] # s[i])
    <3>1. Val(j) = j
      BY <2>1, <2>5
    <3> HIDE DEF Val
    <3> QED
      BY <2>2, <2>5, <3>1, Zenon
  <2> HIDE DEF Val
  <2> QED
    BY <2>3, <2>4, <2>5, Zenon
<1> QED
  BY <1>3, <1>4, Zenon DEF ScanStep

\* The closing quote is behind the opening one.
LEMMA ClosingWithin ==
    ASSUME NEW S, NEW s \in Seq(S), NEW i \in 1..Len(s)
    PROVE  ClosingQuote(s, i) \in i + 1..Len(s) + 1
<1>1. PICK f : IsClosing(f, s, i) /\ ClosingQuote(s, i) = f[i + 1]
  BY ClosingIs
<1>2. Len(s) \in Nat /\ i \in Nat
  OBVIOUS
<1> DEFINE Good(j) == f[j] \in j..Len(s) + 1
           P == {m \in Nat : \A j \in 1..Len(s) + 1 : j + m >= Len(s) + 1 => Good(j)}
<1>3. 0 \in P
  <2>1. \A j \in 1..Len(s) + 1 : j + 0 >= Len(s) + 1 => j = Len(s) + 1
    BY <1>2
  <2>2. f[Len(s) + 1] = Len(s) + 1
    BY <1>1, ClosingStep
  <2> QED
    BY <1>2, <2>1, <2>2
<1>4. ASSUME NEW m \in Nat, m \in P PROVE m + 1 \in P
  <2> SUFFICES ASSUME NEW j \in 1..Len(s) + 1, j + (m + 1) >= Len(s) + 1 PROVE Good(j)
    OBVIOUS
  <2>1. CASE j = Len(s) + 1
    BY <1>1, <1>2, <2>1, ClosingStep
  <2>2. CASE j # Len(s) + 1
    <3>1. j \in 1..Len(s) /\ j + 1 \in 1..Len(s) + 1 /\ (j < Len(s) => j + 2 \in 1..Len(s) + 1)
          /\ j + 1 + m >= Len(s) + 1 /\ j + 2 + m >= Len(s) + 1
      BY <1>2, <2>2
    <3>2. Good(j + 1) /\ (j < Len(s) => Good(j + 2))
      <4>1. \A k \in 1..Len(s) + 1 : k + m >= Len(s) + 1 => Good(k)
        BY <1>4
      <4> HIDE DEF Good
      <4> QED
        BY <3>1, <4>1, Zenon
    <3>3. f[j] = f[j + 1] \/ f[j] = j \/ (j < Len(s) /\ f[j] = f[j + 2])
      <4>1. /\ s[j] # s[i] => f[j] = f[j + 1]
            /\ s[j] = s[i] /\ j < Len(s) /\ s[j + 1] = s[i] => f[j] = f[j + 2]
            /\ s[j] = s[i] /\ (j < Len(s) => s[j + 1] # s[i]) => f[j] = j
        <5>1. ScanStep(f, s, i, j)
          BY <1>1, <3>1, ClosingStep, Zenon
        <5> QED
          BY <5>1 DEF ScanStep
      <4> QED
        BY <4>1
    <3> QED
      BY <1>2, <3>1, <3>2, <3>3
  <2> QED
    BY <2>1, <2>2
<1>5. \A m \in Nat : m \in P
  <2> HIDE DEF P
  <2> QED
    BY <1>3, <1>4, Induction
<1>6. i + 1 \in 1..Len(s) + 1 /\ i + 1 + Len(s) >= Len(s) + 1
  BY <1>2
<1>7. Good(i + 1)
  <2>1. Len(s) \in P
    BY <1>2, <1>5, Zenon
  <2>2. \A k \in 1..Len(s) + 1 : k + Len(s) >= Len(s) + 1 => Good(k)
    BY <2>1
  <2> HIDE DEF Good
  <2> QED
    BY <1>6, <2>2, Zenon
<1> QED
  BY <1>1, <1>7

\* A body with its quotes doubled, piece by piece.
DoubledOf(q, b) == [k \in 1..Len(b) |-> IF b[k] = q THEN <<q, q>> ELSE <<b[k]>>]

\* A doubled body is made of one or two cells for each of the body's.
LEMMA DoubledIs ==
    ASSUME NEW T, NEW b \in Seq(T), NEW q \in T
    PROVE  /\ DoubledOf(q, b) \in Seq(Seq(T)) /\ Len(DoubledOf(q, b)) = Len(b)
           /\ Doubled(q, b) = First(DoubledOf(q, b), Len(b)) /\ Doubled(q, b) \in Seq(T)
<1>1. Len(b) \in Nat /\ DOMAIN b = 1..Len(b)
  OBVIOUS
<1>2. \A k \in 1..Len(b) : (IF b[k] = q THEN <<q, q>> ELSE <<b[k]>>) \in Seq(T)
  OBVIOUS
<1>3. DoubledOf(q, b) \in Seq(Seq(T)) /\ Len(DoubledOf(q, b)) = Len(b)
  BY <1>1, <1>2 DEF DoubledOf
<1>4. Doubled(q, b) = First(DoubledOf(q, b), Len(b))
  <2>1. [k \in DOMAIN b |-> IF b[k] = q THEN <<q, q>> ELSE <<b[k]>>]
          = [k \in 1..Len(b) |-> DoubledOf(q, b)[k]]
    <3>1. \A k \in 1..Len(b) : DoubledOf(q, b)[k] = IF b[k] = q THEN <<q, q>> ELSE <<b[k]>>
      BY Zenon DEF DoubledOf
    <3> QED
      BY <1>1, <3>1, Zenon
  <2> QED
    BY <2>1, Zenon DEF Doubled, First
<1>5. Len(b) \in 0..Len(DoubledOf(q, b))
  BY <1>1, <1>3
<1> QED
  BY <1>3, <1>4, <1>5, FirstType, Zenon

\* Where in a text the k-th cell of a doubled body is.
DoubledAt(s, p, q, b, k) ==
    LET j == p + Len(First(DoubledOf(q, b), k))
        next == p + Len(First(DoubledOf(q, b), k + 1))
    IN  /\ j \in p..Len(s)
        /\ b[k + 1] = q => s[j] = q /\ j < Len(s) /\ s[j + 1] = q /\ next = j + 2
        /\ b[k + 1] # q => s[j] = b[k + 1] /\ next = j + 1

\* Where a doubled body stands, each of its cells does.
LEMMA DoubledStands ==
    ASSUME NEW S, NEW s \in Seq(S), NEW p \in Nat, p >= 1, NEW T, NEW b \in Seq(T), NEW q \in T,
           Stands(s, p, Doubled(q, b))
    PROVE  \A k \in 0..Len(b) - 1 : DoubledAt(s, p, q, b, k)
<1> DEFINE g == DoubledOf(q, b)
<1>1. g \in Seq(Seq(T)) /\ Len(g) = Len(b) /\ Doubled(q, b) = First(g, Len(b))
  BY DoubledIs
<1>2. ASSUME NEW k \in 0..Len(b) - 1 PROVE DoubledAt(s, p, q, b, k)
  <2>1. k + 1 \in 1..Len(b) /\ k \in 0..Len(g) - 1 /\ k \in 0..Len(g)
    BY <1>1
  <2>2. Stands(s, p, First(g, Len(g)))
    BY <1>1, Zenon
  <2> DEFINE j == p + Len(First(g, k))
             next == p + Len(First(g, k + 1))
  <2>3. Len(First(g, k)) \in Nat /\ Stands(s, j, g[k + 1])
        /\ Len(First(g, k + 1)) = Len(First(g, k)) + Len(g[k + 1])
    <3> HIDE DEF g
    <3>1. PieceAt(s, p, g, k)
      BY <1>1, <2>1, <2>2, PiecesStand, Zenon
    <3> QED
      BY <3>1, Zenon DEF PieceAt, j
  <2>4. g[k + 1] = IF b[k + 1] = q THEN <<q, q>> ELSE <<b[k + 1]>>
    BY <2>1, Zenon DEF DoubledOf
  <2> HIDE DEF g
  <2>5. j \in Nat /\ j >= p /\ Len(s) \in Nat
    BY <2>3
  <2>6. CASE b[k + 1] = q
    <3>1. g[k + 1] = <<q, q>>
      BY <2>4, <2>6, Zenon
    <3>2. Stands(s, j, <<q, q>>)
      BY <2>3, <3>1, Zenon
    <3>3. s[j] = q /\ s[j + 1] = q /\ j + 1 <= Len(s)
      <4>1. j + Len(<<q, q>>) <= Len(s) + 1 /\ \A m \in 1..Len(<<q, q>>) : s[j + m - 1] = <<q, q>>[m]
        BY <3>2, Zenon DEF Stands
      <4>2. s[j + 1 - 1] = q /\ s[j + 2 - 1] = q /\ j + 2 <= Len(s) + 1
        BY <4>1
      <4>3. j + 1 - 1 = j /\ j + 2 - 1 = j + 1
        BY <2>5
      <4> HIDE DEF j
      <4> QED
        BY <2>5, <4>2, <4>3
    <3>4. next = j + 2
      BY <2>3, <3>1
    <3> HIDE DEF j, next
    <3>5. j < Len(s) /\ j \in p..Len(s)
      BY <2>5, <3>3
    <3> QED
      BY <2>6, <3>3, <3>4, <3>5, Zenon DEF DoubledAt, j, next, g
  <2>7. CASE b[k + 1] # q
    <3>1. g[k + 1] = <<b[k + 1]>>
      BY <2>4, <2>7, Zenon
    <3>2. Stands(s, j, <<b[k + 1]>>)
      BY <2>3, <3>1, Zenon
    <3>3. s[j] = b[k + 1] /\ j <= Len(s)
      <4>1. PICK c : c = b[k + 1]
        OBVIOUS
      <4>2. j + Len(<<c>>) <= Len(s) + 1 /\ \A m \in 1..Len(<<c>>) : s[j + m - 1] = <<c>>[m]
        BY <3>2, <4>1, Zenon DEF Stands
      <4>3. s[j + 1 - 1] = c /\ j + 1 <= Len(s) + 1
        BY <4>2
      <4>4. j + 1 - 1 = j
        BY <2>5
      <4> HIDE DEF j
      <4> QED
        BY <2>5, <4>1, <4>3, <4>4
    <3>4. next = j + 1
      BY <2>3, <3>1
    <3> HIDE DEF j, next
    <3>5. j \in p..Len(s)
      BY <2>5, <3>3
    <3> QED
      BY <2>7, <3>3, <3>4, <3>5, Zenon DEF DoubledAt, j, next, g
  <2> QED
    BY <2>6, <2>7, Zenon
<1> QED
  BY <1>2

\* A doubled body is skipped whole.
IsQuoted(s, i, q, b, e) ==
    /\ s[i] = q /\ Stands(s, i + 1, Doubled(q, b)) /\ e = i + 1 + Len(Doubled(q, b))
    /\ s[e] = q /\ (e < Len(s) => s[e + 1] # q)

\* The scan passes over a doubled body and stops at the quote behind it.
LEMMA ClosingRead ==
    ASSUME NEW S, NEW s \in Seq(S), NEW i \in 1..Len(s), NEW T, NEW b \in Seq(T), NEW q \in T,
           NEW e \in 1..Len(s), IsQuoted(s, i, q, b, e)
    PROVE  ClosingQuote(s, i) = e
<1>0. /\ s[i] = q /\ Stands(s, i + 1, Doubled(q, b)) /\ e = i + 1 + Len(Doubled(q, b))
      /\ s[e] = q /\ (e < Len(s) => s[e + 1] # q)
  BY DEF IsQuoted
<1>1. PICK f : IsClosing(f, s, i) /\ ClosingQuote(s, i) = f[i + 1]
  BY ClosingIs
<1> DEFINE n == Len(b)
           pos(k) == i + 1 + Len(First(DoubledOf(q, b), k))
           P == {k \in Nat : k <= n => f[i + 1] = f[pos(k)]}
<1>2. Len(s) \in Nat /\ i \in Nat /\ n \in Nat /\ i + 1 \in Nat /\ i + 1 >= 1
  OBVIOUS
<1>3. pos(0) = i + 1
  <2>1. 0 \in 0..Len(DoubledOf(q, b)) /\ DoubledOf(q, b) \in Seq(Seq(T))
    BY DoubledIs
  <2>2. First(DoubledOf(q, b), 0) = <<>>
    BY <2>1, FirstType
  <2> QED
    BY <1>2, <2>2
<1>4. ASSUME NEW k \in 0..n - 1 PROVE f[pos(k)] = f[pos(k + 1)]
  <2>1. DoubledAt(s, i + 1, q, b, k)
    BY <1>0, <1>2, DoubledStands, Zenon
  <2> DEFINE j == pos(k)
             next == pos(k + 1)
  <2>2. /\ j \in i + 1..Len(s)
        /\ b[k + 1] = q => s[j] = q /\ j < Len(s) /\ s[j + 1] = q /\ next = j + 2
        /\ b[k + 1] # q => s[j] = b[k + 1] /\ next = j + 1
    BY <2>1, Zenon DEF DoubledAt
  <2> HIDE DEF j, next
  <2>3. ScanStep(f, s, i, j)
    <3>1. j \in 1..Len(s)
      BY <1>2, <2>2
    <3> QED
      BY <1>1, <3>1, ClosingStep, Zenon
  <2>4. f[j] = f[next]
    BY <1>0, <2>2, <2>3, Zenon DEF ScanStep
  <2> QED
    BY <2>4, Zenon DEF j, next
<1>5. \A k \in Nat : k \in P
  <2>1. 0 \in P
    BY <1>3, Zenon
  <2>2. ASSUME NEW k \in Nat, k \in P PROVE k + 1 \in P
    <3>1. SUFFICES ASSUME k + 1 <= n PROVE f[i + 1] = f[pos(k + 1)]
      OBVIOUS
    <3>2. k <= n /\ k \in 0..n - 1
      BY <1>2, <3>1
    <3>3. f[i + 1] = f[pos(k)]
      BY <2>2, <3>2, Zenon
    <3> HIDE DEF pos
    <3> QED
      BY <1>4, <3>2, <3>3, Zenon
  <2> HIDE DEF P
  <2> QED
    BY <2>1, <2>2, Induction
<1>6. f[i + 1] = f[pos(n)]
  <2>1. n \in P /\ n <= n
    BY <1>2, <1>5
  <2> QED
    BY <2>1, Zenon
<1>7. pos(n) = e
  BY <1>0, DoubledIs, Zenon
<1>8. f[e] = e
  <2>1. ScanStep(f, s, i, e)
    BY <1>1, ClosingStep, Zenon
  <2> QED
    BY <1>0, <2>1, Zenon DEF ScanStep
<1> HIDE DEF pos
<1> QED
  BY <1>1, <1>6, <1>7, <1>8, Zenon

\* One cell, and two, in a text.
LEMMA StandsOne ==
    ASSUME NEW S, NEW s \in Seq(S), NEW i \in Nat, i >= 1, NEW c
    PROVE  Stands(s, i, <<c>>) <=> i <= Len(s) /\ s[i] = c
<1>1. Stands(s, i, <<c>>) <=> i + 1 <= Len(s) + 1 /\ s[i + 1 - 1] = c
  BY DEF Stands
<1>2. i + 1 - 1 = i /\ Len(s) \in Nat
  OBVIOUS
<1> QED
  BY <1>1, <1>2

\* Two cells in a text.
LEMMA StandsTwo ==
    ASSUME NEW S, NEW s \in Seq(S), NEW i \in Nat, i >= 1, NEW c, NEW d
    PROVE  Stands(s, i, <<c, d>>) <=> i < Len(s) /\ s[i] = c /\ s[i + 1] = d
<1>1. Stands(s, i, <<c, d>>) <=> i + 2 <= Len(s) + 1 /\ s[i + 1 - 1] = c /\ s[i + 2 - 1] = d
  <2>1. Len(<<c, d>>) = 2 /\ <<c, d>>[1] = c /\ <<c, d>>[2] = d
    OBVIOUS
  <2>2. \A k \in 1..2 : k = 1 \/ k = 2
    OBVIOUS
  <2>3. 1 \in 1..2 /\ 2 \in 1..2
    OBVIOUS
  <2> QED
    BY <2>1, <2>2, <2>3, Zenon DEF Stands
<1>2. i + 1 - 1 = i /\ i + 2 - 1 = i + 1 /\ Len(s) \in Nat
  OBVIOUS
<1> QED
  BY <1>1, <1>2

\* What stands inside what stands in a text.
LEMMA StandsInside ==
    ASSUME NEW S, NEW s \in Seq(S), NEW p \in Nat, p >= 1, NEW T, NEW w \in Seq(T), Stands(s, p, w),
           NEW U, NEW v \in Seq(U), NEW j \in Nat, j >= 1, j + Len(v) <= Len(w) + 1
    PROVE  Stands(s, p + j - 1, v) <=> Stands(w, j, v)
<1>1. Len(v) \in Nat /\ Len(w) \in Nat /\ Len(s) \in Nat
  OBVIOUS
<1>2. p + Len(w) <= Len(s) + 1 /\ \A k \in 1..Len(w) : s[p + k - 1] = w[k]
  BY DEF Stands
<1>3. (p + j - 1) + Len(v) <= Len(s) + 1
  BY <1>1, <1>2
<1>4. ASSUME NEW k \in 1..Len(v) PROVE s[p + j - 1 + k - 1] = w[j + k - 1]
  <2>1. j + k - 1 \in 1..Len(w) /\ p + (j + k - 1) - 1 = p + j - 1 + k - 1
    BY <1>1
  <2> QED
    BY <1>2, <2>1, Zenon
<1> QED
  BY <1>3, <1>4, Zenon DEF Stands

-----------------------------------------------------------------------------
(* Tokens.                                                                  *)

Symbols == {"'", "\"", "$", "-", "/", "*", "nl", ";"}

TokenCells(t) ==
    Elements(t.body) \cup ((IF t.k = "dollar" THEN Elements(t.tag) ELSE {}) \cup Symbols)

\* A token's body and tag are sequences of its cells.
LEMMA TokenParts ==
    ASSUME NEW t, LegalToken(t)
    PROVE  /\ t.body \in Seq(TokenCells(t)) /\ DOMAIN t.body = 1..Len(t.body) /\ Len(t.body) \in Nat
           /\ t.k = "dollar" => /\ t.tag \in Seq(TokenCells(t)) /\ DOMAIN t.tag = 1..Len(t.tag)
                                /\ Len(t.tag) \in Nat
<1>1. IsSequence(t.body) /\ (t.k = "dollar" => IsSequence(t.tag))
  BY DEF LegalToken
<1>2. t.body \in Seq(Elements(t.body)) /\ DOMAIN t.body = 1..Len(t.body) /\ Len(t.body) \in Nat
  BY <1>1, Sequences
<1>3. t.k = "dollar" =>
        t.tag \in Seq(Elements(t.tag)) /\ DOMAIN t.tag = 1..Len(t.tag) /\ Len(t.tag) \in Nat
  BY <1>1, Sequences, Zenon
<1>4. Elements(t.body) \subseteq TokenCells(t) /\ (t.k = "dollar" => Elements(t.tag) \subseteq TokenCells(t))
  BY Zenon DEF TokenCells
<1>5. \A A, B, x : x \in Seq(A) /\ A \subseteq B => x \in Seq(B)
  OBVIOUS
<1> QED
  BY <1>2, <1>3, <1>4, <1>5, Zenon

\* The quote around a literal or a quoted name.
QuoteOf(t) == IF t.k = "literal" THEN "'" ELSE "\""


\* How each kind of token is written.
LEMMA WrittenIs ==
    ASSUME NEW t
    PROVE  /\ t.k \in {"literal", "quoted"} =>
                Written(t) = <<QuoteOf(t)>> \o Doubled(QuoteOf(t), t.body) \o <<QuoteOf(t)>>
           /\ t.k = "dollar" =>
                Written(t) = <<"$">> \o t.tag \o <<"$">> \o t.body \o <<"$">> \o t.tag \o <<"$">>
           /\ t.k = "line" => Written(t) = <<"-", "-">> \o t.body \o <<"nl">>
           /\ t.k = "block" => Written(t) = <<"/", "*">> \o t.body \o <<"*", "/">>
           /\ t.k = "cells" => Written(t) = t.body
<1>1. CASE t.k = "literal"
  BY <1>1 DEF Written, QuoteOf
<1>2. CASE t.k = "quoted"
  BY <1>2 DEF Written, QuoteOf
<1>3. CASE t.k = "dollar"
  BY <1>3 DEF Written
<1>4. CASE t.k = "line"
  BY <1>4 DEF Written
<1>5. CASE t.k = "block"
  BY <1>5 DEF Written
<1>6. CASE t.k = "cells"
  BY <1>6 DEF Written
<1> QED
  BY <1>1, <1>2, <1>3, <1>4, <1>5, <1>6

IsTriple(T, a, b, c) ==
    a \o b \o c \in Seq(T) /\ Len(a \o b \o c) = Len(a) + Len(b) + Len(c)

\* Three sequences in a row, and how they may be bracketed.
LEMMA Triple ==
    ASSUME NEW T, NEW a \in Seq(T), NEW b \in Seq(T), NEW c \in Seq(T)
    PROVE  IsTriple(T, a, b, c)
<1>1. PICK d \in Seq(T) : d = a \o b /\ Len(d) = Len(a) + Len(b)
  <2>1. a \o b \in Seq(T) /\ Len(a \o b) = Len(a) + Len(b)
    OBVIOUS
  <2> QED
    BY <2>1, Zenon
<1>2. d \o c \in Seq(T) /\ Len(d \o c) = Len(d) + Len(c)
  BY <1>1
<1> QED
  BY <1>1, <1>2, Zenon DEF IsTriple

IsReassociated(a, b, c) == (a \o b) \o c = a \o (b \o c)

\* Concatenation is associative.
LEMMA Reassociated ==
    ASSUME NEW T, NEW a \in Seq(T), NEW b \in Seq(T), NEW c \in Seq(T)
    PROVE  IsReassociated(a, b, c)
BY ConcatAssociative, SMT DEF IsReassociated

IsMark(T, tag, body, m) ==
    /\ m \in Seq(T) /\ Len(m) = Len(tag) + 2
    /\ <<"$">> \o tag \o <<"$">> \o body \o <<"$">> \o tag \o <<"$">> = (m \o body) \o m

\* A dollar body stands between two marks.
LEMMA MarkIs ==
    ASSUME NEW T, "$" \in T, NEW tag \in Seq(T), NEW body \in Seq(T), NEW m, m = <<"$">> \o tag \o <<"$">>
    PROVE  IsMark(T, tag, body, m)
<1>1. PICK d \in Seq(T) : d = <<"$">> /\ Len(d) = 1
  <2>1. <<"$">> \in Seq(T) /\ Len(<<"$">>) = 1
    OBVIOUS
  <2> QED
    BY <2>1, Zenon
<1>2. m \in Seq(T) /\ Len(m) = Len(tag) + 2
  <2>1. m \in Seq(T) /\ Len(m) = Len(d) + Len(tag) + Len(d)
    <3>1. IsTriple(T, d, tag, d)
      BY <1>1, Triple, Zenon
    <3> QED
      BY <1>1, <3>1, Zenon DEF IsTriple
  <2> QED
    BY <1>1, <2>1
<1>3. PICK a \in Seq(T) : a = m \o body
  <2>1. m \o body \in Seq(T)
    BY <1>2
  <2> QED
    BY <2>1, Zenon
<1>4. PICK c \in Seq(T) : c = d \o tag
  <2>1. d \o tag \in Seq(T)
    BY <1>1
  <2> QED
    BY <2>1, Zenon
<1>5. (a \o d) \o tag = a \o c
  <2>1. IsReassociated(a, d, tag)
    BY <1>1, <1>3, Reassociated, Zenon
  <2> QED
    BY <1>4, <2>1, Zenon DEF IsReassociated
<1>6. (a \o c) \o d = a \o (c \o d)
  <2>1. IsReassociated(a, c, d)
    BY <1>1, <1>3, <1>4, Reassociated, Zenon
  <2> QED
    BY <2>1, Zenon DEF IsReassociated
<1>7. m = c \o d
  BY <1>1, <1>4, Zenon
<1> QED
  BY <1>1, <1>2, <1>3, <1>5, <1>6, <1>7, Zenon DEF IsMark

\* No token is written with nothing.
LEMMA WrittenType ==
    ASSUME NEW t, LegalToken(t)
    PROVE  Written(t) \in Seq(TokenCells(t)) /\ Len(Written(t)) \in Nat /\ Len(Written(t)) >= 1
<1> DEFINE T == TokenCells(t)
           b == t.body
<1>1. b \in Seq(T) /\ Symbols \subseteq T /\ (t.k = "dollar" => t.tag \in Seq(T))
  BY TokenParts DEF TokenCells
<1>2. Symbols = {"'", "\"", "$", "-", "/", "*", "nl", ";"}
  BY DEF Symbols
<1>3. CASE t.k \in {"literal", "quoted"}
  <2>1. QuoteOf(t) \in T
    BY <1>1, <1>2 DEF QuoteOf
  <2>2. PICK d \in Seq(T) : d = Doubled(QuoteOf(t), b)
    <3> HIDE DEF b
    <3> QED
      BY <1>1, <2>1, DoubledIs, Zenon
  <2>3. Written(t) = <<QuoteOf(t)>> \o d \o <<QuoteOf(t)>>
    BY <1>3, <2>2, WrittenIs
  <2>4. PICK q \in T : q = QuoteOf(t)
    BY <2>1
  <2> HIDE DEF T, b
  <2>5. PICK u \in Seq(T) : u = <<q>> /\ Len(u) = 1
    <3>1. <<q>> \in Seq(T) /\ Len(<<q>>) = 1
      BY <2>4
    <3> QED
      BY <3>1, Zenon
  <2>6. Written(t) \in Seq(T) /\ Len(Written(t)) = Len(u) + Len(d) + Len(u)
    <3>1. IsTriple(T, u, d, u)
      BY <2>2, <2>5, Triple, Zenon
    <3> QED
      BY <2>3, <2>4, <2>5, <3>1, Zenon DEF IsTriple
  <2>7. Len(d) \in Nat
    BY <2>2
  <2> QED
    BY <2>5, <2>6, <2>7 DEF T
<1>4. CASE t.k = "dollar"
  <2>1. "$" \in T /\ t.tag \in Seq(T)
    BY <1>1, <1>2, <1>4
  <2>2. PICK tag \in Seq(T) : tag = t.tag
    BY <2>1
  <2>3. PICK m \in Seq(T) : m = <<"$">> \o tag \o <<"$">>
    <3> HIDE DEF T, b
    <3>1. PICK m : m = <<"$">> \o tag \o <<"$">>
      OBVIOUS
    <3>2. IsMark(T, tag, b, m)
      BY <1>1, <2>1, <2>2, <3>1, MarkIs, Zenon
    <3> QED
      BY <3>1, <3>2, Zenon DEF IsMark
  <2>4. Written(t) = (m \o b) \o m /\ Len(m) = Len(tag) + 2
    <3> HIDE DEF T, b
    <3>1. IsMark(T, tag, b, m)
      BY <1>1, <2>1, <2>2, <2>3, MarkIs, Zenon
    <3> QED
      BY <1>4, <2>2, <3>1, WrittenIs, Zenon DEF b, IsMark
  <2> HIDE DEF T, b
  <2>5. (m \o b) \o m \in Seq(T) /\ Len((m \o b) \o m) = Len(m) + Len(b) + Len(m)
    <3>1. IsTriple(T, m, b, m)
      BY <1>1, <2>3, Triple, Zenon
    <3> QED
      BY <3>1, Zenon DEF IsTriple
  <2>6. Len(b) \in Nat /\ Len(tag) \in Nat
    BY <1>1, <2>2
  <2> QED
    BY <2>4, <2>5, <2>6 DEF T
<1>5. CASE t.k = "line"
  <2>1. Written(t) = <<"-", "-">> \o b \o <<"nl">>
    BY <1>5, WrittenIs
  <2>2. PICK u \in Seq(T), v \in Seq(T) : u = <<"-", "-">> /\ v = <<"nl">> /\ Len(u) = 2
    <3>1. {"-", "/", "*", "nl"} \subseteq T
      BY <1>1, <1>2
    <3> HIDE DEF T
    <3>2. <<"-", "-">> \in Seq(T) /\ <<"nl">> \in Seq(T) /\ Len(<<"-", "-">>) = 2
      BY <3>1
    <3> QED
      BY <3>2, Zenon
  <2> HIDE DEF T, b
  <2>3. Written(t) \in Seq(T) /\ Len(Written(t)) = Len(u) + Len(b) + Len(v)
    <3>1. IsTriple(T, u, b, v)
      BY <1>1, <2>2, Triple, Zenon
    <3> QED
      BY <2>1, <2>2, <3>1, Zenon DEF IsTriple
  <2>4. Len(b) \in Nat /\ Len(v) \in Nat
    BY <1>1, <2>2
  <2> QED
    BY <2>2, <2>3, <2>4 DEF T
<1>6. CASE t.k = "block"
  <2>1. Written(t) = <<"/", "*">> \o b \o <<"*", "/">>
    BY <1>6, WrittenIs
  <2>2. PICK u \in Seq(T), v \in Seq(T) : u = <<"/", "*">> /\ v = <<"*", "/">> /\ Len(u) = 2
    <3>1. {"-", "/", "*", "nl"} \subseteq T
      BY <1>1, <1>2
    <3> HIDE DEF T
    <3>2. <<"/", "*">> \in Seq(T) /\ <<"*", "/">> \in Seq(T) /\ Len(<<"/", "*">>) = 2
      BY <3>1
    <3> QED
      BY <3>2, Zenon
  <2> HIDE DEF T, b
  <2>3. Written(t) \in Seq(T) /\ Len(Written(t)) = Len(u) + Len(b) + Len(v)
    <3>1. IsTriple(T, u, b, v)
      BY <1>1, <2>2, Triple, Zenon
    <3> QED
      BY <2>1, <2>2, <3>1, Zenon DEF IsTriple
  <2>4. Len(b) \in Nat /\ Len(v) \in Nat
    BY <1>1, <2>2
  <2> QED
    BY <2>2, <2>3, <2>4 DEF T
<1>7. CASE t.k = "cells"
  <2>1. Written(t) = b /\ b # <<>>
    BY <1>7, WrittenIs DEF LegalToken, LegalCells
  <2> HIDE DEF T, b
  <2> QED
    BY <1>1, <2>1 DEF T
<1>8. t.k \in {"literal", "quoted", "dollar", "line", "block", "cells"}
  BY DEF LegalToken
<1> QED
  BY <1>3, <1>4, <1>5, <1>6, <1>7, <1>8

-----------------------------------------------------------------------------
(* Each token but for cells is skipped whole.                               *)

\* What stands behind a token does not prolong it.
Clear(s, e, t) ==
    LET last == t.body[Len(t.body)]
    IN  e <= Len(s) =>
          /\ t.k \in {"literal", "quoted"} => s[e] # QuoteOf(t)
          /\ t.k = "cells" => /\ ~(isIdentByte(last) /\ isIdentByte(s[e]))
                              /\ <<last, s[e]>> \notin {<<"-", "-">>, <<"/", "*">>}

TokenAt(s, i, t) ==
    LegalToken(t) /\ Stands(s, i, Written(t)) /\ Clear(s, i + Len(Written(t)), t)

\* Letters and digits are none of the characters that mean something to the lexer.
LEMMA Letters ==
    /\ "$" \notin Digits
    /\ \A c : c \in Quotes \cup Blanks \cup {";", "-", "/", "*", "NUL"} => ~isIdentByte(c)
    /\ \A c \in Digits : isIdentByte(c) /\ c \notin Quotes \cup Blanks \cup {"$", ";", "-", "/", "*", "NUL"}
    /\ \A c \in DOMAIN LowerOf : c \notin Quotes \cup Blanks \cup {"$", ";", "-", "/", "*", "NUL"}
<1>1. \A c \in Digits \cup DOMAIN LowerOf : c \notin Quotes \cup Blanks \cup {"$", ";", "-", "/", "*", "NUL"}
  BY LettersAssumption
<1>2. "$" \notin Quotes \cup Blanks \cup {";", "-", "/", "*", "NUL"}
  BY DEF Quotes, Blanks
<1> QED
  BY <1>1, <1>2 DEF isIdentByte

\* The cases of Skip exclude each other.
SkipCases(s, i) ==
    /\ s[i] \in Quotes => Skip(s, i) = skipQuoted(s, i)
    /\ s[i] = "$" => Skip(s, i) = skipDollarQuoted(s, i)
    /\ Stands(s, i, <<"-", "-">>) => Skip(s, i) = Past(s, i, <<"nl">>)
    /\ Stands(s, i, <<"/", "*">>) => Skip(s, i) = Past(s, i + 2, <<"*", "/">>)
    /\ s[i] \notin Quotes \cup {"$"} /\ ~Stands(s, i, <<"-", "-">>) /\ ~Stands(s, i, <<"/", "*">>) =>
         Skip(s, i) = i + 1

\* What Skip does in each of its cases.
LEMMA SkipIs ==
    ASSUME NEW S, NEW s \in Seq(S), NEW i \in 1..Len(s)
    PROVE  SkipCases(s, i)
<1>1. i \in Nat /\ i >= 1 /\ i \in 1..Len(s) + 1
  OBVIOUS
<1> DEFINE d == <<"-", "-">>
           b == <<"/", "*">>
<1>2. d = <<"-", "-">> /\ b = <<"/", "*">>
  OBVIOUS
<1>3. d \in Seq({"-", "/", "*"}) /\ b \in Seq({"-", "/", "*"})
  OBVIOUS
<1> HIDE DEF d, b
<1>4. (Starts(s, i, d) <=> Stands(s, i, d)) /\ (Starts(s, i, b) <=> Stands(s, i, b))
  BY <1>1, <1>3, StartsIs, Zenon
<1>5. (Stands(s, i, d) => s[i] = "-") /\ (Stands(s, i, b) => s[i] = "/")
  BY <1>1, <1>2, StandsTwo, Zenon
<1>6. Skip(s, i) = CASE s[i] \in Quotes -> skipQuoted(s, i)
                     [] s[i] = "$"      -> skipDollarQuoted(s, i)
                     [] Starts(s, i, d) -> Past(s, i, <<"nl">>)
                     [] Starts(s, i, b) -> Past(s, i + 2, <<"*", "/">>)
                     [] OTHER           -> i + 1
  BY Zenon DEF Skip, d, b
<1>7. Quotes = {"'", "\""}
  BY DEF Quotes
<1>8. /\ s[i] \in Quotes => Skip(s, i) = skipQuoted(s, i)
      /\ s[i] = "$" => Skip(s, i) = skipDollarQuoted(s, i)
      /\ Stands(s, i, d) => Skip(s, i) = Past(s, i, <<"nl">>)
      /\ Stands(s, i, b) => Skip(s, i) = Past(s, i + 2, <<"*", "/">>)
      /\ s[i] \notin Quotes \cup {"$"} /\ ~Stands(s, i, d) /\ ~Stands(s, i, b) => Skip(s, i) = i + 1
  BY <1>4, <1>5, <1>6, <1>7
<1> QED
  BY <1>2, <1>8, Zenon DEF SkipCases

ThreeStand(s, i, a, b, c) ==
    /\ Stands(s, i, a) /\ Stands(s, i + Len(a), b) /\ Stands(s, i + Len(a) + Len(b), c)
    /\ Len(a \o b \o c) = Len(a) + Len(b) + Len(c)

\* Three sequences that stand in a row.
LEMMA StandsThree ==
    ASSUME NEW S, NEW s \in Seq(S), NEW i \in Nat, i >= 1,
           NEW T, NEW a \in Seq(T), NEW b \in Seq(T), NEW c \in Seq(T), Stands(s, i, a \o b \o c)
    PROVE  ThreeStand(s, i, a, b, c)
<1>1. PICK d \in Seq(T) : d = a \o b /\ Len(d) = Len(a) + Len(b)
  <2>1. a \o b \in Seq(T) /\ Len(a \o b) = Len(a) + Len(b)
    OBVIOUS
  <2> QED
    BY <2>1, Zenon
<1>2. Stands(s, i, d \o c)
  BY <1>1, Zenon
<1>3. Stands(s, i, d) /\ Stands(s, i + Len(d), c)
  BY <1>1, <1>2, StandsParts, Zenon
<1>4. Stands(s, i, a) /\ Stands(s, i + Len(a), b)
  BY <1>1, <1>3, StandsParts, Zenon
<1>5. i + Len(d) = i + Len(a) + Len(b)
  BY <1>1
<1>6. IsTriple(T, a, b, c)
  BY Triple, Zenon
<1> QED
  BY <1>3, <1>4, <1>5, <1>6, Zenon DEF IsTriple, ThreeStand

\* A literal or a quoted name ends where its scan does.
LEMMA QuotedSkipped ==
    ASSUME NEW S, NEW s \in Seq(S), NEW i \in Nat, i >= 1, NEW t, TokenAt(s, i, t), t.k \in {"literal", "quoted"}
    PROVE  /\ s[i] = QuoteOf(t) /\ i <= Len(s)
           /\ Stands(s, i + 1, Doubled(QuoteOf(t), t.body))
           /\ Len(Written(t)) = Len(Doubled(QuoteOf(t), t.body)) + 2
           /\ ClosingQuote(s, i) = i + Len(Written(t)) - 1
           /\ ClosingQuote(s, i) <= Len(s)
           /\ Skip(s, i) = i + Len(Written(t))
<1> DEFINE T == TokenCells(t)
           q == QuoteOf(t)
           b == t.body
           D == Doubled(q, b)
<1>1. LegalToken(t) /\ Stands(s, i, Written(t)) /\ Clear(s, i + Len(Written(t)), t)
  BY DEF TokenAt
<1>2. b \in Seq(T) /\ q \in T /\ q \in Quotes
  BY <1>1, TokenParts DEF TokenCells, Symbols, QuoteOf, Quotes
<1>3. D \in Seq(T)
  <2> HIDE DEF T, q, b
  <2> QED
    BY <1>2, DoubledIs
<1>4. Written(t) = <<q>> \o D \o <<q>>
  BY WrittenIs
<1>5. i + Len(Written(t)) <= Len(s) => s[i + Len(Written(t))] # q
  BY <1>1 DEF Clear
<1> HIDE DEF T, q, b
<1>6. PICK u \in Seq(T) : u = <<q>> /\ Len(u) = 1
  <2>1. <<q>> \in Seq(T) /\ Len(<<q>>) = 1
    BY <1>2
  <2> QED
    BY <2>1, Zenon
<1>7. /\ Stands(s, i, u) /\ Stands(s, i + Len(u), D) /\ Stands(s, i + Len(u) + Len(D), u)
      /\ Len(u \o D \o u) = Len(u) + Len(D) + Len(u)
  <2> HIDE DEF D
  <2>1. Stands(s, i, u \o D \o u)
    BY <1>1, <1>4, <1>6, Zenon
  <2>2. ThreeStand(s, i, u, D, u)
    BY <1>3, <1>6, <2>1, StandsThree, Zenon
  <2> QED
    BY <2>2, Zenon DEF ThreeStand
<1> DEFINE n == Len(Written(t))
           e == i + n - 1
<1>8. Len(D) \in Nat /\ n = Len(D) + 2 /\ Len(s) \in Nat /\ e = i + 1 + Len(D)
  <2> HIDE DEF D
  <2>1. Len(D) \in Nat /\ Len(s) \in Nat
    BY <1>3
  <2>2. n = Len(u) + Len(D) + Len(u)
    BY <1>4, <1>6, <1>7, Zenon
  <2> HIDE DEF n
  <2> QED
    BY <1>6, <2>1, <2>2
<1>9. s[i] = q /\ i <= Len(s)
  BY <1>6, <1>7, StandsOne, Zenon
<1>10. Stands(s, i + 1, D)
  BY <1>6, <1>7, Zenon
<1> HIDE DEF D, n
<1>11. s[e] = q /\ e <= Len(s)
  <2>1. Stands(s, e, <<q>>) /\ e \in Nat /\ e >= 1
    BY <1>6, <1>7, <1>8
  <2> HIDE DEF e
  <2> QED
    BY <2>1, StandsOne, Zenon
<1>12. e < Len(s) => s[e + 1] # q
  <2>1. e + 1 = i + n
    BY <1>8
  <2>2. e < Len(s) => i + n <= Len(s)
    BY <1>8, <1>11
  <2> QED
    BY <1>5, <2>1, <2>2 DEF n
<1>13. i \in 1..Len(s) /\ e \in 1..Len(s)
  BY <1>8, <1>9, <1>11
<1>14. ClosingQuote(s, i) = e
  <2> HIDE DEF e
  <2>1. IsQuoted(s, i, q, b, e)
    BY <1>8, <1>9, <1>10, <1>11, <1>12, Zenon DEF IsQuoted, D
  <2> QED
    BY <1>2, <1>13, <2>1, ClosingRead
<1>15. Skip(s, i) = skipQuoted(s, i)
  <2>1. SkipCases(s, i)
    BY <1>13, SkipIs, Zenon
  <2> QED
    BY <1>2, <1>9, <2>1, Zenon DEF SkipCases
<1>16. Min({ClosingQuote(s, i), Len(s)}) = e
  <2>1. {e, Len(s)} \subseteq Nat /\ e \in {e, Len(s)} /\ \A x \in {e, Len(s)} : e <= x
    BY <1>8, <1>13
  <2> HIDE DEF e
  <2>2. PICK R : R = {e, Len(s)}
    OBVIOUS
  <2>3. R \subseteq Nat /\ e \in R /\ \A x \in R : e <= x
    BY <2>1, <2>2, Zenon
  <2>4. Min(R) = e
    BY <2>3, LeastIs, Zenon
  <2>5. Min({e, Len(s)}) = e
    BY <2>2, <2>4, Zenon
  <2> QED
    BY <1>14, <2>5, Zenon
<1>17. Skip(s, i) = e + 1 /\ e + 1 = i + n
  BY <1>8, <1>15, <1>16 DEF skipQuoted
<1> QED
  BY <1>8, <1>9, <1>10, <1>11, <1>14, <1>17, Zenon DEF q, b, D, n

\* What stands in a text is what is cut out of it there.
LEMMA CutOut ==
    ASSUME NEW S, NEW s \in Seq(S), NEW i \in Nat, i >= 1, NEW T, NEW w \in Seq(T), Stands(s, i, w)
    PROVE  SubSeq(s, i, i + Len(w) - 1) = w
<1>1. i + Len(w) <= Len(s) + 1 /\ \A k \in 1..Len(w) : s[i + k - 1] = w[k]
  BY DEF Stands
<1>2. Len(w) \in Nat /\ Len(s) \in Nat
  OBVIOUS
<1>3. PICK c \in Seq(S) : c = SubSeq(s, i, i + Len(w) - 1) /\ Len(c) = Len(w)
                          /\ \A k \in 1..Len(w) : c[k] = s[i + k - 1]
  <2>1. SubSeq(s, i, i + Len(w) - 1) \in Seq(S) /\ Len(SubSeq(s, i, i + Len(w) - 1)) = Len(w)
    BY <1>1, <1>2
  <2>2. \A k \in 1..Len(w) : SubSeq(s, i, i + Len(w) - 1)[k] = s[i + k - 1]
    BY <1>1, <1>2
  <2> QED
    BY <2>1, <2>2, Zenon
<1>4. c \in Seq(S \cup T) /\ w \in Seq(S \cup T)
  BY <1>3
<1>5. \A k \in 1..Len(c) : c[k] = w[k]
  BY <1>1, <1>3, Zenon
<1> QED
  BY <1>3, <1>4, <1>5, SameSeq, Zenon

\* A mark that its body does not hold early is found behind the body.
Closed(s, p, b, m) == Len(m) >= 1 /\ FirstIn(b, m) /\ Stands(s, p, b \o m)

\* The first occurrence of such a mark is the one behind the body.
LEMMA FoundFirst ==
    ASSUME NEW S, NEW s \in Seq(S), NEW p \in Nat, p >= 1, NEW T, NEW b \in Seq(T), NEW m \in Seq(T),
           Closed(s, p, b, m)
    PROVE  Past(s, p, m) = p + Len(b) + Len(m)
<1>0. Len(m) >= 1 /\ FirstIn(b, m) /\ Stands(s, p, b \o m)
  BY DEF Closed
<1>1. PICK w \in Seq(T) : w = b \o m /\ Len(w) = Len(b) + Len(m)
  <2>1. b \o m \in Seq(T) /\ Len(b \o m) = Len(b) + Len(m)
    OBVIOUS
  <2> QED
    BY <2>1, Zenon
<1>2. Len(b) \in Nat /\ Len(m) \in Nat /\ Len(s) \in Nat /\ p + Len(w) <= Len(s) + 1
  <2>1. p + Len(w) <= Len(s) + 1
    BY <1>0, <1>1, Zenon DEF Stands
  <2> QED
    BY <2>1
<1> DEFINE e == p + Len(b)
<1>3. Stands(s, e, m)
  BY <1>0, StandsParts, Zenon
<1>4. p \in 1..Len(s) + 1 /\ e \in p..Len(s)
  BY <1>0, <1>1, <1>2
<1>5. ASSUME NEW j \in p..e - 1 PROVE ~Stands(s, j, m)
  <2>1. PICK k \in 1..Len(b) : j = p + k - 1
    <3>1. j - p + 1 \in 1..Len(b) /\ j = p + (j - p + 1) - 1
      BY <1>2
    <3> QED
      BY <3>1, Zenon
  <2>2. k \in Nat /\ k >= 1 /\ k + Len(m) <= Len(w) + 1 /\ k \in 1..Len(w) + 1
    BY <1>1, <1>2, <2>1
  <2>3. ~Starts(w, k, m)
    BY <1>0, <1>1, <2>1, Zenon DEF FirstIn
  <2>4. ~Stands(w, k, m)
    BY <1>1, <2>2, <2>3, StartsIs, Zenon
  <2>5. Stands(s, p, w)
    BY <1>0, <1>1, Zenon
  <2>6. Stands(s, p + k - 1, m) <=> Stands(w, k, m)
    BY <1>1, <2>2, <2>5, StandsInside, Zenon
  <2> QED
    BY <2>1, <2>4, <2>6, Zenon
<1> HIDE DEF e
<1>6. Past(s, p, m) = e + Len(m)
  BY <1>3, <1>4, <1>5, PastIs, Zenon
<1> QED
  BY <1>6, Zenon DEF e

\* A dollar-quoted body is skipped up to its own closing tag.
LEMMA DollarSkipped ==
    ASSUME NEW S, NEW s \in Seq(S), NEW i \in Nat, i >= 1, NEW t, TokenAt(s, i, t), t.k = "dollar"
    PROVE  s[i] = "$" /\ i <= Len(s) /\ Skip(s, i) = i + Len(Written(t))
<1> DEFINE T == TokenCells(t)
<1>1. LegalToken(t) /\ Stands(s, i, Written(t))
  BY DEF TokenAt
<1>2. PICK b \in Seq(T), tag \in Seq(T) :
        /\ b = t.body /\ tag = t.tag /\ Len(b) \in Nat /\ Len(tag) \in Nat
        /\ DOMAIN tag = 1..Len(tag)
  BY <1>1, TokenParts, Zenon
<1>3. /\ \A k \in DOMAIN tag : isIdentByte(tag[k]) /\ tag[k] # "$"
      /\ tag # <<>> => tag[1] \notin Digits
      /\ FirstIn(b, <<"$">> \o tag \o <<"$">>)
  BY <1>1, <1>2 DEF LegalToken
<1>4. PICK d \in Seq(T) : d = <<"$">> /\ Len(d) = 1 /\ "$" \in T
  <2>1. "$" \in T
    BY DEF TokenCells, Symbols
  <2> HIDE DEF T
  <2>2. <<"$">> \in Seq(T) /\ Len(<<"$">>) = 1
    BY <2>1
  <2> QED
    BY <2>1, <2>2, Zenon
<1> HIDE DEF T
<1>5. PICK m \in Seq(T) : m = <<"$">> \o tag \o <<"$">> /\ Len(m) = Len(tag) + 2
                          /\ Written(t) = (m \o b) \o m
  <2>1. PICK m : m = <<"$">> \o tag \o <<"$">>
    OBVIOUS
  <2>2. IsMark(T, tag, b, m)
    BY <1>2, <1>4, <2>1, MarkIs, Zenon
  <2> QED
    BY <1>2, <2>1, <2>2, WrittenIs, Zenon DEF IsMark
<1> DEFINE x == Len(tag)
           y == Len(b)
<1>51. x \in Nat /\ y \in Nat /\ Len(m) = x + 2 /\ Len(d) = 1 /\ DOMAIN tag = 1..x
  BY <1>2, <1>4, <1>5, Zenon
<1>52. Len(s) \in Nat /\ (x # 0 => tag # <<>>)
  OBVIOUS
<1> HIDE DEF x, y
<1>6. ThreeStand(s, i, m, b, m)
  BY <1>1, <1>2, <1>5, StandsThree, Zenon
<1>7. /\ Stands(s, i, m) /\ Stands(s, i + Len(m), b) /\ Stands(s, i + Len(m) + Len(b), m)
      /\ Len(Written(t)) = Len(m) + Len(b) + Len(m)
  BY <1>5, <1>6, Zenon DEF ThreeStand
<1>8. Stands(s, i + Len(m), b \o m)
  <2>0. Stands(s, i, m \o (b \o m))
    <3>1. IsReassociated(m, b, m)
      BY <1>2, <1>5, Reassociated, Zenon
    <3> QED
      BY <1>1, <1>5, <3>1, Zenon DEF IsReassociated
  <2>2. PICK w \in Seq(T) : w = b \o m
    <3>1. b \o m \in Seq(T)
      BY <1>2, <1>5
    <3> QED
      BY <3>1, Zenon
  <2> QED
    <3>1. Stands(s, i, m \o w)
      BY <2>0, <2>2, Zenon
    <3>2. Stands(s, i + Len(m), w)
      BY <1>5, <2>2, <3>1, StandsParts, Zenon
    <3> QED
      BY <2>2, <3>2, Zenon
<1>9. Stands(s, i, d) /\ Stands(s, i + Len(d), tag) /\ Stands(s, i + Len(d) + Len(tag), d)
  <2>1. Stands(s, i, d \o tag \o d)
    BY <1>4, <1>5, <1>7, Zenon
  <2>2. ThreeStand(s, i, d, tag, d)
    BY <1>2, <1>4, <2>1, StandsThree, Zenon
  <2> QED
    BY <2>2, Zenon DEF ThreeStand
<1> DEFINE E == i + 1 + x
<1>10. s[i] = "$" /\ i <= Len(s)
  BY <1>4, <1>9, StandsOne, Zenon
<1>11. s[E] = "$" /\ E <= Len(s) /\ E \in Nat /\ E >= i + 1 /\ Len(s) \in Nat
  <2>0. Stands(s, E, <<"$">>)
    BY <1>4, <1>9, Zenon DEF x
  <2>1. E \in Nat /\ E >= 1 /\ E >= i + 1
    BY <1>51
  <2> HIDE DEF E
  <2>2. s[E] = "$" /\ E <= Len(s)
    BY <2>0, <2>1, StandsOne, Zenon
  <2> QED
    BY <1>52, <2>1, <2>2
<1>12. ASSUME NEW k \in i + 1..E - 1 PROVE s[k] = tag[k - i] /\ k - i \in 1..x
  <2>1. \A z \in 1..x : s[i + 1 + z - 1] = tag[z]
    BY <1>4, <1>9, Zenon DEF Stands, x
  <2>2. k - i \in 1..x /\ i + 1 + (k - i) - 1 = k
    BY <1>51
  <2> QED
    BY <2>1, <2>2, Zenon
<1>13. \A k \in i + 1..E - 1 : s[k] # "$" /\ isIdentByte(s[k])
  <2> HIDE DEF E
  <2> QED
    BY <1>3, <1>12, <1>51, Zenon
<1>14. s[i + 1] \notin Digits
  <2>1. CASE x = 0
    <3>1. E = i + 1
      BY <2>1
    <3> QED
      BY <1>11, <3>1, Letters, Zenon
  <2>2. CASE x # 0
    <3>1. i + 1 \in i + 1..E - 1 /\ i + 1 - i = 1 /\ tag # <<>>
      BY <1>51, <1>52, <2>2
    <3>2. s[i + 1] = tag[i + 1 - i]
      <4> HIDE DEF E
      <4> QED
        BY <1>12, <3>1
    <3>3. tag[i + 1 - i] = tag[1]
      BY <3>1
    <3> QED
      BY <1>3, <3>1, <3>2, <3>3, Zenon
  <2> QED
    BY <2>1, <2>2
<1> HIDE DEF E
<1>15. E \in TagEnds(s, i)
  <2>1. E \in i + 1..Len(s)
    BY <1>11
  <2> QED
    BY <1>11, <1>13, <1>14, <2>1 DEF TagEnds
<1>16. Min(TagEnds(s, i)) = E
  <2>1. \A z \in TagEnds(s, i) : z \in i + 1..Len(s) /\ s[z] = "$"
    BY DEF TagEnds
  <2>2. TagEnds(s, i) \subseteq Nat
    BY <1>11, <2>1
  <2>3. \A z \in TagEnds(s, i) : E <= z
    BY <1>11, <1>13, <2>1
  <2>4. PICK R : R = TagEnds(s, i)
    OBVIOUS
  <2>5. R \subseteq Nat /\ E \in R /\ \A z \in R : E <= z
    BY <1>15, <2>2, <2>3, <2>4, Zenon
  <2>6. Min(R) = E
    BY <2>5, LeastIs, Zenon
  <2> QED
    BY <2>4, <2>6, Zenon
<1>17. skipDollarQuoted(s, i) = Past(s, E + 1, SubSeq(s, i, E))
  <2>1. TagEnds(s, i) # {}
    BY <1>15
  <2> QED
    BY <1>16, <2>1, Zenon DEF skipDollarQuoted
<1>18. SubSeq(s, i, E) = m
  <2>1. E = i + Len(m) - 1
    BY <1>51 DEF E
  <2> QED
    BY <1>5, <1>7, <2>1, CutOut, Zenon
<1>19. Past(s, E + 1, m) = E + 1 + Len(b) + Len(m)
  <2>1. E + 1 = i + Len(m) /\ E + 1 \in Nat /\ E + 1 >= 1 /\ Len(m) >= 1
    BY <1>51, <1>11 DEF E
  <2>2. FirstIn(b, m) /\ Stands(s, E + 1, b \o m)
    BY <1>3, <1>5, <1>8, <2>1, Zenon
  <2>3. PICK p \in Nat : p = E + 1 /\ p >= 1
    BY <2>1
  <2>4. Closed(s, p, b, m)
    BY <2>1, <2>2, <2>3, Zenon DEF Closed
  <2>5. Past(s, p, m) = p + Len(b) + Len(m)
    <3>1. b \in Seq(T) /\ m \in Seq(T) /\ p \in Nat /\ p >= 1
      BY <1>2, <1>5, <2>3, Zenon
    <3> QED
      BY <2>4, <3>1, FoundFirst
  <2> QED
    BY <2>3, <2>5, Zenon
<1>20. E + 1 + Len(b) + Len(m) = i + Len(Written(t))
  <2>1. Len(Written(t)) = Len(m) + y + Len(m) /\ E + 1 + Len(b) + Len(m) = E + 1 + y + Len(m)
    BY <1>7, Zenon DEF y
  <2> QED
    BY <1>51, <2>1 DEF E
<1>21. Skip(s, i) = skipDollarQuoted(s, i)
  <2>1. i \in 1..Len(s)
    BY <1>10, <1>11
  <2>2. SkipCases(s, i)
    BY <2>1, SkipIs, Zenon
  <2> QED
    BY <1>10, <2>2, Zenon DEF SkipCases
<1> QED
  BY <1>10, <1>17, <1>18, <1>19, <1>20, <1>21, Zenon

\* A line comment is skipped with its newline.
LEMMA LineSkipped ==
    ASSUME NEW S, NEW s \in Seq(S), NEW i \in Nat, i >= 1, NEW t, TokenAt(s, i, t), t.k = "line"
    PROVE  Stands(s, i, <<"-", "-">>) /\ i <= Len(s) /\ Skip(s, i) = i + Len(Written(t))
<1> DEFINE T == TokenCells(t)
           b == t.body
           a == <<"-", "-">>
           c == <<"nl">>
<1>1. LegalToken(t) /\ Stands(s, i, Written(t))
  BY DEF TokenAt
<1>2. b \in Seq(T) /\ Len(b) \in Nat /\ DOMAIN b = 1..Len(b)
  BY <1>1, TokenParts, Zenon
<1>3. \A k \in 1..Len(b) : b[k] # "nl"
  <2>1. "nl" \notin ToSet(b)
    BY <1>1 DEF LegalToken
  <2> QED
    BY <1>2, <2>1 DEF ToSet
<1>4. {"-", "nl"} \subseteq T
  BY DEF TokenCells, Symbols
<1>5. Written(t) = a \o b \o c
  BY WrittenIs
<1> HIDE DEF T, b
<1>6. a \in Seq(T) /\ c \in Seq(T) /\ Len(a) = 2 /\ Len(c) = 1
  BY <1>4
<1> HIDE DEF a, c
<1>7. ThreeStand(s, i, a, b, c)
  <2>1. Stands(s, i, a \o b \o c)
    BY <1>1, <1>5, Zenon
  <2> QED
    BY <1>2, <1>6, <2>1, StandsThree, Zenon
<1>8. /\ Stands(s, i, a) /\ Stands(s, i + Len(a), b) /\ Stands(s, i + Len(a) + Len(b), c)
      /\ Len(Written(t)) = Len(a) + Len(b) + Len(c)
  BY <1>5, <1>7, Zenon DEF ThreeStand
<1> DEFINE n == Len(b)
           e == i + 2 + n
<1>9. n \in Nat /\ Len(s) \in Nat /\ Len(Written(t)) = n + 3
  BY <1>2, <1>6, <1>8
<1>10. Stands(s, i + 2, b) /\ Stands(s, e, c)
  BY <1>6, <1>8, Zenon
<1> HIDE DEF n
<1>11. i < Len(s) /\ s[i] = "-" /\ s[i + 1] = "-"
  BY <1>8, StandsTwo, Zenon DEF a
<1>12. e \in i..Len(s)
  <2>1. e \in Nat /\ e >= 1 /\ e >= i
    BY <1>9
  <2> HIDE DEF e
  <2>2. e <= Len(s)
    BY <1>10, <2>1, StandsOne, Zenon DEF c
  <2> QED
    BY <1>9, <2>1, <2>2
<1>13. ASSUME NEW j \in i..e - 1 PROVE ~Stands(s, j, c)
  <2>1. j \in Nat /\ j >= 1
    OBVIOUS
  <2>2. s[j] # "nl"
    <3>1. CASE j < i + 2
      <4>1. j = i \/ j = i + 1
        BY <2>1, <3>1
      <4> QED
        BY <1>11, <4>1
    <3>2. CASE j >= i + 2
      <4>1. j - i - 1 \in 1..n /\ i + 2 + (j - i - 1) - 1 = j
        BY <1>9, <2>1, <3>2
      <4>2. \A k \in 1..n : s[i + 2 + k - 1] = b[k] /\ b[k] # "nl"
        BY <1>3, <1>10, Zenon DEF Stands, n
      <4> HIDE DEF e
      <4> QED
        BY <4>1, <4>2, Zenon
    <3> QED
      BY <2>1, <3>1, <3>2
  <2> QED
    BY <2>1, <2>2, StandsOne, Zenon DEF c
<1> HIDE DEF e
<1>14. Past(s, i, c) = e + Len(c)
  <2>1. i \in 1..Len(s) + 1
    BY <1>9, <1>11
  <2> QED
    BY <1>6, <1>10, <1>12, <1>13, <2>1, PastIs, Zenon
<1>15. Skip(s, i) = Past(s, i, c)
  <2>1. i \in 1..Len(s)
    BY <1>9, <1>11
  <2>2. SkipCases(s, i)
    BY <2>1, SkipIs, Zenon
  <2> QED
    BY <1>8, <2>2, Zenon DEF SkipCases, a, c
<1>16. e + Len(c) = i + Len(Written(t))
  BY <1>6, <1>9 DEF e
<1>17. i <= Len(s)
  BY <1>9, <1>11
<1> QED
  BY <1>8, <1>14, <1>15, <1>16, <1>17, Zenon DEF a

\* A block comment is skipped with what closes it.
LEMMA BlockSkipped ==
    ASSUME NEW S, NEW s \in Seq(S), NEW i \in Nat, i >= 1, NEW t, TokenAt(s, i, t), t.k = "block"
    PROVE  Stands(s, i, <<"/", "*">>) /\ i <= Len(s) /\ Skip(s, i) = i + Len(Written(t))
<1> DEFINE T == TokenCells(t)
           b == t.body
           a == <<"/", "*">>
           c == <<"*", "/">>
<1>1. LegalToken(t) /\ Stands(s, i, Written(t))
  BY DEF TokenAt
<1>2. b \in Seq(T) /\ Len(b) \in Nat
  BY <1>1, TokenParts, Zenon
<1>3. FirstIn(b, c)
  BY <1>1 DEF LegalToken
<1>4. {"/", "*"} \subseteq T
  BY DEF TokenCells, Symbols
<1>5. Written(t) = a \o b \o c
  BY WrittenIs
<1> HIDE DEF T, b
<1>6. a \in Seq(T) /\ c \in Seq(T) /\ Len(a) = 2 /\ Len(c) = 2
  BY <1>4
<1> HIDE DEF a, c
<1>7. ThreeStand(s, i, a, b, c)
  <2>1. Stands(s, i, a \o b \o c)
    BY <1>1, <1>5, Zenon
  <2> QED
    BY <1>2, <1>6, <2>1, StandsThree, Zenon
<1>8. Stands(s, i, a) /\ Len(Written(t)) = Len(a) + Len(b) + Len(c)
  BY <1>5, <1>7, Zenon DEF ThreeStand
<1> DEFINE n == Len(b)
<1>9. n \in Nat /\ Len(s) \in Nat /\ Len(Written(t)) = n + 4
  BY <1>2, <1>6, <1>8
<1>10. Stands(s, i + Len(a), b \o c)
  <2>1. PICK w \in Seq(T) : w = b \o c
    <3>1. b \o c \in Seq(T)
      BY <1>2, <1>6
    <3> QED
      BY <3>1, Zenon
  <2>2. Stands(s, i, a \o w)
    <3>1. IsReassociated(a, b, c)
      BY <1>2, <1>6, Reassociated, Zenon
    <3> QED
      BY <1>1, <1>5, <2>1, <3>1, Zenon DEF IsReassociated
  <2>3. Stands(s, i + Len(a), w)
    BY <1>6, <2>1, <2>2, StandsParts, Zenon
  <2> QED
    BY <2>1, <2>3, Zenon
<1>11. i < Len(s)
  BY <1>8, StandsTwo, Zenon DEF a
<1>12. PICK p \in Nat : p = i + 2 /\ p >= 1 /\ p = i + Len(a)
  BY <1>6
<1>13. Past(s, p, c) = p + Len(b) + Len(c)
  <2>1. Closed(s, p, b, c)
    <3>1. Len(c) >= 1
      BY <1>6
    <3> QED
      BY <1>3, <1>10, <1>12, <3>1, Zenon DEF Closed
  <2> QED
    <3>1. b \in Seq(T) /\ c \in Seq(T) /\ p \in Nat /\ p >= 1
      BY <1>2, <1>6, <1>12, Zenon
    <3> QED
      BY <2>1, <3>1, FoundFirst
<1>14. Skip(s, i) = Past(s, p, c)
  <2>1. i \in 1..Len(s)
    BY <1>9, <1>11
  <2>2. SkipCases(s, i)
    BY <2>1, SkipIs, Zenon
  <2> QED
    BY <1>8, <1>12, <2>2, Zenon DEF SkipCases, a, c
<1>15. p + Len(b) + Len(c) = i + Len(Written(t))
  BY <1>6, <1>9, <1>12 DEF n
<1>16. i <= Len(s)
  BY <1>9, <1>11
<1> QED
  BY <1>8, <1>13, <1>14, <1>15, <1>16, Zenon DEF a

\* Where a `$` is followed by a digit, no tag opens.
LEMMA NoTag ==
    ASSUME NEW S, NEW s \in Seq(S), NEW i \in Nat, s[i + 1] \in Digits
    PROVE  skipDollarQuoted(s, i) = i + 1
<1>1. TagEnds(s, i) = {}
  BY Zenon DEF TagEnds
<1> QED
  BY <1>1, Zenon DEF skipDollarQuoted

\* Of cells each is skipped alone, and none is a semicolon.
IsCell(s, i, t, j) ==
    /\ j \in 1..Len(s) /\ s[j] = t.body[j - i + 1] /\ s[j] # ";" /\ Skip(s, j) = j + 1
    /\ ~Stands(s, j, <<"-", "-">>) /\ ~Stands(s, j, <<"/", "*">>)

\* A cell that opens nothing is skipped alone.
LEMMA CellSkipped ==
    ASSUME NEW S, NEW s \in Seq(S), NEW i \in Nat, i >= 1, NEW t, TokenAt(s, i, t), t.k = "cells",
           NEW j \in i..i + Len(Written(t)) - 1
    PROVE  IsCell(s, i, t, j)
<1> DEFINE b == t.body
           n == Len(b)
<1>0. PICK k : k = j - i + 1
  OBVIOUS
<1>1. LegalToken(t) /\ Stands(s, i, b) /\ Written(t) = b /\ LegalCells(b)
  <2>1. LegalToken(t) /\ Stands(s, i, Written(t)) /\ Written(t) = b
    BY WrittenIs DEF TokenAt
  <2>2. LegalCells(b)
    BY <2>1 DEF LegalToken
  <2> QED
    BY <2>1, <2>2, Zenon
<1>2. b \in Seq(TokenCells(t)) /\ n \in Nat /\ DOMAIN b = 1..n
  BY <1>1, TokenParts, Zenon
<1>3. i + n <= Len(s) + 1 /\ \A x \in 1..n : s[i + x - 1] = b[x]
  BY <1>1, Zenon DEF Stands
<1>4. Len(s) \in Nat /\ j \in i..i + n - 1
  BY <1>1
<1> HIDE DEF b, n
<1>5. k \in 1..n /\ i + k - 1 = j /\ j \in 1..Len(s) /\ j \in Nat /\ j >= 1
  BY <1>0, <1>2, <1>3, <1>4
<1>6. s[j] = b[k]
  BY <1>3, <1>5, Zenon
<1>7. /\ b[k] \notin Quotes \cup {";"}
      /\ b[k] = "$" => k < n /\ b[k + 1] \in Digits
      /\ ~Starts(b, k, <<"-", "-">>) /\ ~Starts(b, k, <<"/", "*">>)
  BY <1>1, <1>2, <1>5, Zenon DEF LegalCells, n
<1>8. k < n => s[j + 1] = b[k + 1] /\ k + 1 \in 1..n
  <2>1. k < n => k + 1 \in 1..n /\ i + (k + 1) - 1 = j + 1
    BY <1>2, <1>5
  <2>2. k < n => s[i + (k + 1) - 1] = b[k + 1]
    BY <1>3, <2>1, Zenon
  <2>3. k < n => s[j + 1] = b[k + 1]
    BY <2>1, <2>2
  <2> QED
    BY <2>1, <2>3, Zenon
<1>9. CASE b[k] = "$"
  <2>1. s[j + 1] \in Digits
    BY <1>7, <1>8, <1>9, Zenon
  <2>2. SkipCases(s, j)
    BY <1>5, SkipIs, Zenon
  <2>3. Skip(s, j) = j + 1
    BY <1>5, <1>6, <1>9, <2>1, <2>2, NoTag, Zenon DEF SkipCases
  <2> QED
    <3>1. s[j] # ";"
      BY <1>6, <1>7
    <3>2. /\ Stands(s, j, <<"-", "-">>) => s[j] = "-"
          /\ Stands(s, j, <<"/", "*">>) => s[j] = "/"
      BY <1>5, StandsTwo, Zenon
    <3>3. ~Stands(s, j, <<"-", "-">>) /\ ~Stands(s, j, <<"/", "*">>)
      BY <1>6, <1>9, <3>2
    <3> QED
      BY <1>0, <1>5, <1>6, <2>3, <3>1, <3>3, Zenon DEF b, IsCell
<1>10. CASE b[k] # "$"
  <2>1. ASSUME NEW c, NEW d, <<c, d>> \in {<<"-", "-">>, <<"/", "*">>} PROVE ~Stands(s, j, <<c, d>>)
    <3>1. SUFFICES ASSUME Stands(s, j, <<c, d>>) PROVE FALSE
      OBVIOUS
    <3>2. j < Len(s) /\ s[j] = c /\ s[j + 1] = d
      BY <1>5, <3>1, StandsTwo, Zenon
    <3>3. CASE k < n
      <4>1. Stands(b, k, <<c, d>>)
        <5>1. k \in Nat /\ k >= 1
          BY <1>5
        <5>2. k < Len(b) /\ b[k] = c /\ b[k + 1] = d
          BY <1>6, <1>8, <3>2, <3>3, Zenon DEF n
        <5>3. b \in Seq(TokenCells(t))
          BY <1>2, Zenon
        <5> QED
          BY <5>1, <5>2, <5>3, StandsTwo
      <4>2. k \in 1..Len(b) + 1
        BY <1>2, <1>5 DEF n
      <4>3. <<c, d>> \in Seq({c, d})
        OBVIOUS
      <4>4. Starts(b, k, <<c, d>>)
        <5> QED
          BY <1>2, <4>1, <4>2, <4>3, StartsIs, Zenon
      <4>5. <<c, d>> = <<"-", "-">> \/ <<c, d>> = <<"/", "*">>
        BY <2>1
      <4> QED
        BY <1>7, <4>4, <4>5, Zenon
    <3>4. CASE ~(k < n)
      <4>1. k = n /\ i + n = j + 1 /\ j + 1 <= Len(s)
        BY <1>2, <1>5, <3>2, <3>4
      <4>2. Clear(s, i + n, t)
        BY <1>1, Zenon DEF TokenAt, n
      <4>3. <<b[n], s[i + n]>> \notin {<<"-", "-">>, <<"/", "*">>}
        BY <4>1, <4>2 DEF Clear, b, n
      <4> QED
        BY <1>6, <2>1, <3>2, <4>1, <4>3, Zenon
    <3> QED
      BY <3>3, <3>4
  <2>2. SkipCases(s, j)
    BY <1>5, SkipIs, Zenon
  <2>3. ~Stands(s, j, <<"-", "-">>) /\ ~Stands(s, j, <<"/", "*">>)
    BY <2>1
  <2>4. s[j] \notin Quotes \cup {"$"} /\ s[j] # ";"
    BY <1>6, <1>7, <1>10
  <2> QED
    BY <1>0, <1>5, <1>6, <2>2, <2>3, <2>4, Zenon DEF SkipCases, b, IsCell
<1> QED
  BY <1>9, <1>10

-----------------------------------------------------------------------------
(* Skipping goes on, and past a token it goes on behind it.                 *)

\* Skip always goes on, and never beyond the text.
LEMMA SkipAdvances ==
    ASSUME NEW S, NEW s \in Seq(S), NEW i \in 1..Len(s)
    PROVE  Skip(s, i) \in i + 1..Len(s) + 1
<1>1. Len(s) \in Nat /\ i \in Nat /\ i >= 1 /\ i <= Len(s) /\ i \in 1..Len(s) + 1
  OBVIOUS
<1>2. SkipCases(s, i)
  BY SkipIs, Zenon
<1>3. ASSUME s[i] \in Quotes PROVE Skip(s, i) \in i + 1..Len(s) + 1
  <2>1. PICK c \in i + 1..Len(s) + 1 : c = ClosingQuote(s, i)
    BY ClosingWithin, Zenon
  <2>2. PICK R : R = {c, Len(s)}
    OBVIOUS
  <2>3. \E e \in R : e >= i /\ e <= Len(s) /\ \A x \in R : e <= x
    <3>1. CASE c <= Len(s)
      BY <1>1, <2>1, <2>2, <3>1
    <3>2. CASE ~(c <= Len(s))
      BY <1>1, <2>1, <2>2, <3>2
    <3> QED
      BY <3>1, <3>2
  <2>4. PICK e \in R : e >= i /\ e <= Len(s) /\ \A x \in R : e <= x
    BY <2>3, Zenon
  <2>5. R \subseteq Nat
    BY <1>1, <2>1, <2>2
  <2>6. Min(R) = e
    BY <2>4, <2>5, LeastIs, Zenon
  <2>7. Skip(s, i) = e + 1
    BY <1>2, <1>3, <2>1, <2>2, <2>6, Zenon DEF SkipCases, skipQuoted
  <2>8. e \in Nat
    BY <2>4, <2>5
  <2> QED
    BY <1>1, <2>4, <2>7, <2>8
<1>4. ASSUME s[i] = "$" PROVE Skip(s, i) \in i + 1..Len(s) + 1
  <2>1. Skip(s, i) = skipDollarQuoted(s, i)
    BY <1>2, <1>4, Zenon DEF SkipCases
  <2>2. CASE TagEnds(s, i) = {}
    <3>1. Skip(s, i) = i + 1
      BY <2>1, <2>2, Zenon DEF skipDollarQuoted
    <3> QED
      BY <1>1, <3>1
  <2>3. CASE TagEnds(s, i) # {}
    <3>1. PICK R : R = TagEnds(s, i)
      OBVIOUS
    <3>2. \A x \in R : x \in i + 1..Len(s)
      BY <3>1, Zenon DEF TagEnds
    <3>3. R \subseteq Nat /\ R # {}
      BY <1>1, <2>3, <3>1, <3>2
    <3>4. PICK e \in R : \A x \in R : e <= x
      BY <3>3, Least
    <3>5. Min(R) = e
      BY <3>3, <3>4, LeastIs, Zenon
    <3>6. PICK m : m = SubSeq(s, i, e)
      OBVIOUS
    <3>7. e \in i + 1..Len(s)
      BY <3>2, <3>4, Zenon
    <3>8. m \in Seq(S) /\ Len(m) >= 1
      BY <1>1, <3>6, <3>7
    <3>9. PICK p \in 1..Len(s) + 1 : p = e + 1 /\ p >= i + 1
      BY <1>1, <3>7
    <3>10. Past(s, p, m) \in p..Len(s) + 1
      BY <3>8, PastWithin
    <3>11. Skip(s, i) = Past(s, p, m)
      BY <2>1, <2>3, <3>1, <3>5, <3>6, <3>9, Zenon DEF skipDollarQuoted
    <3> QED
      BY <1>1, <3>9, <3>10, <3>11
  <2> QED
    BY <2>2, <2>3
<1>5. ASSUME Stands(s, i, <<"-", "-">>) PROVE Skip(s, i) \in i + 1..Len(s) + 1
  <2>1. PICK m : m = <<"nl">>
    OBVIOUS
  <2>2. m \in Seq({"nl"}) /\ Len(m) >= 1
    BY <2>1
  <2>3. Past(s, i, m) \in i + 1..Len(s) + 1
    BY <1>1, <2>2, PastWithin
  <2> QED
    BY <1>2, <1>5, <2>1, <2>3, Zenon DEF SkipCases
<1>6. ASSUME Stands(s, i, <<"/", "*">>) PROVE Skip(s, i) \in i + 1..Len(s) + 1
  <2>1. PICK m : m = <<"*", "/">>
    OBVIOUS
  <2>2. m \in Seq({"*", "/"}) /\ Len(m) >= 1
    BY <2>1
  <2>3. i < Len(s)
    BY <1>1, <1>6, StandsTwo, Zenon
  <2>4. PICK p \in 1..Len(s) + 1 : p = i + 2
    BY <1>1, <2>3
  <2>5. Past(s, p, m) \in p..Len(s) + 1
    BY <2>2, PastWithin
  <2>6. Skip(s, i) = Past(s, p, m)
    BY <1>2, <1>6, <2>1, <2>4, Zenon DEF SkipCases
  <2> QED
    BY <1>1, <2>4, <2>5, <2>6
<1>7. Skip(s, i) = i + 1 => Skip(s, i) \in i + 1..Len(s) + 1
  BY <1>1
<1>8. s[i] \notin Quotes /\ s[i] # "$" => s[i] \notin Quotes \cup {"$"}
  OBVIOUS
<1> QED
  BY <1>2, <1>3, <1>4, <1>5, <1>6, <1>7, <1>8, Zenon DEF SkipCases

\* Where the scan of a text stops within a token.
Stops(i, t) == IF t.k = "cells" THEN i..i + Len(Written(t)) - 1 ELSE {i}

IsWord(s, i, t) ==
    /\ s[i] # ";" /\ i \in 1..Len(s)
    /\ t.k \in {"line", "block"} <=> Stands(s, i, <<"-", "-">>) \/ Stands(s, i, <<"/", "*">>)
    /\ t.k # "cells" => Skip(s, i) = i + Len(Written(t))
    /\ t.k = "cells" => s[i] = t.body[1]
    /\ t.k \in {"literal", "quoted"} => s[i] = QuoteOf(t)
    /\ t.k = "dollar" => s[i] = "$"
    /\ t.k \in {"line", "block"} => s[i] \in {"-", "/"}

\* How a token begins, and where Skip leads from there.
LEMMA TokenIs ==
    ASSUME NEW S, NEW s \in Seq(S), NEW i \in Nat, i >= 1, NEW t, TokenAt(s, i, t)
    PROVE  IsWord(s, i, t)
<1>1. t.k \in {"literal", "quoted", "dollar", "line", "block", "cells"}
  BY DEF TokenAt, LegalToken
<1>2. Len(s) \in Nat /\ (i <= Len(s) => i \in 1..Len(s))
  OBVIOUS
<1>3. /\ Stands(s, i, <<"-", "-">>) => s[i] = "-"
      /\ Stands(s, i, <<"/", "*">>) => s[i] = "/"
  BY StandsTwo, Zenon
<1>4. CASE t.k \in {"literal", "quoted"}
  <2>1. s[i] = QuoteOf(t) /\ i <= Len(s) /\ Skip(s, i) = i + Len(Written(t))
    BY <1>4, QuotedSkipped
  <2>2. s[i] \in {"'", "\""}
    BY <2>1 DEF QuoteOf
  <2> QED
    BY <1>2, <1>3, <1>4, <2>1, <2>2 DEF IsWord
<1>5. CASE t.k = "dollar"
  <2>1. s[i] = "$" /\ i <= Len(s) /\ Skip(s, i) = i + Len(Written(t))
    BY <1>5, DollarSkipped, Zenon
  <2> QED
    BY <1>2, <1>3, <1>5, <2>1 DEF IsWord
<1>6. CASE t.k = "line"
  <2>1. Stands(s, i, <<"-", "-">>) /\ i <= Len(s) /\ Skip(s, i) = i + Len(Written(t))
    BY <1>6, LineSkipped, Zenon
  <2>2. s[i] = "-"
    BY <1>3, <2>1, Zenon
  <2> QED
    BY <1>2, <1>6, <2>1, <2>2 DEF IsWord
<1>7. CASE t.k = "block"
  <2>1. Stands(s, i, <<"/", "*">>) /\ i <= Len(s) /\ Skip(s, i) = i + Len(Written(t))
    BY <1>7, BlockSkipped, Zenon
  <2>2. s[i] = "/"
    BY <1>3, <2>1, Zenon
  <2> QED
    BY <1>2, <1>7, <2>1, <2>2 DEF IsWord
<1>8. CASE t.k = "cells"
  <2>1. LegalToken(t) /\ Len(Written(t)) \in Nat /\ Len(Written(t)) >= 1
    BY WrittenType, Zenon DEF TokenAt
  <2>2. i \in i..i + Len(Written(t)) - 1 /\ i - i + 1 = 1
    BY <2>1
  <2>3. IsCell(s, i, t, i)
    BY <1>8, <2>2, CellSkipped
  <2>4. s[i] = t.body[1]
    BY <2>2, <2>3 DEF IsCell
  <2> QED
    BY <1>2, <1>3, <1>8, <2>3, <2>4 DEF IsWord, IsCell
<1> QED
  BY <1>1, <1>4, <1>5, <1>6, <1>7, <1>8, Zenon

\* f says of every stop in the token what it says of the position behind it.
Rides(f, s, i, t) == \A j \in Stops(i, t) : f[j] = f[Skip(s, j)]

\* What a scan says at a token it says behind it.
LEMMA TokenRides ==
    ASSUME NEW S, NEW s \in Seq(S), NEW i \in Nat, i >= 1, NEW t, TokenAt(s, i, t), NEW f, Rides(f, s, i, t)
    PROVE  f[i] = f[i + Len(Written(t))]
<1>1. IsWord(s, i, t)
  BY TokenIs, Zenon
<1>2. CASE t.k # "cells"
  <2>1. i \in Stops(i, t) /\ Skip(s, i) = i + Len(Written(t))
    BY <1>1, <1>2, Zenon DEF IsWord, Stops
  <2> QED
    BY <2>1, Zenon DEF Rides
<1>3. CASE t.k = "cells"
  <2> DEFINE n == Len(Written(t))
             P == {m \in Nat : m <= n => f[i] = f[i + m]}
  <2>1. n \in Nat
    BY WrittenType, Zenon DEF TokenAt
  <2> HIDE DEF n
  <2>2. 0 \in P
    <3>1. i + 0 = i
      OBVIOUS
    <3> QED
      BY <3>1, Zenon
  <2>3. ASSUME NEW m \in Nat, m \in P PROVE m + 1 \in P
    <3>1. SUFFICES ASSUME m + 1 <= n PROVE f[i] = f[i + (m + 1)]
      OBVIOUS
    <3>2. m <= n /\ i + m \in i..i + n - 1 /\ i + m + 1 = i + (m + 1)
      BY <2>1, <3>1
    <3>3. f[i] = f[i + m]
      BY <2>3, <3>2, Zenon
    <3>4. PICK j \in i..i + n - 1 : j = i + m
      BY <3>2, Zenon
    <3>5. j \in Stops(i, t)
      BY <1>3, Zenon DEF Stops, n
    <3>6. IsCell(s, i, t, j)
      BY <1>3, <3>4, CellSkipped, Zenon DEF n
    <3>7. Skip(s, j) = j + 1
      BY <3>6, Zenon DEF IsCell
    <3>8. f[j] = f[j + 1]
      BY <3>5, <3>7, Zenon DEF Rides
    <3> QED
      BY <3>2, <3>3, <3>4, <3>8, Zenon
  <2>4. \A m \in Nat : m \in P
    <3> HIDE DEF P
    <3> QED
      BY <2>2, <2>3, Induction
  <2>5. n \in P /\ n <= n
    BY <2>1, <2>4
  <2> QED
    BY <2>5, Zenon DEF n
<1> QED
  BY <1>2, <1>3, Zenon

\* The tokens from the k-th on stand one behind the other, each at its place.
Laid(s, at, tokens, k) ==
    \A m \in k..Len(tokens) :
      /\ at[m] \in Nat /\ at[m] >= 1 /\ TokenAt(s, at[m], tokens[m])
      /\ at[m + 1] = at[m] + Len(Written(tokens[m]))

RidesAll(f, s, at, tokens, a, e) == \A m \in a..e - 1 : Rides(f, s, at[m], tokens[m])

\* What a scan says at one token it says at any later one.
LEMMA LaidRides ==
    ASSUME NEW S, NEW s \in Seq(S), NEW tokens, Len(tokens) \in Nat, NEW at,
           NEW a \in Nat, NEW e \in a..Len(tokens) + 1, Laid(s, at, tokens, a),
           NEW f, RidesAll(f, s, at, tokens, a, e)
    PROVE  f[at[a]] = f[at[e]]
<1> DEFINE n == Len(tokens)
           P == {d \in Nat : a + d <= e => f[at[a]] = f[at[a + d]]}
<1>1. 0 \in P
  <2>1. a + 0 = a
    OBVIOUS
  <2> QED
    BY <2>1, Zenon
<1>2. ASSUME NEW d \in Nat, d \in P PROVE d + 1 \in P
  <2>1. SUFFICES ASSUME a + (d + 1) <= e PROVE f[at[a]] = f[at[a + (d + 1)]]
    OBVIOUS
  <2>2. PICK m \in a..n : m = a + d /\ m \in a..e - 1 /\ a + d <= e /\ m + 1 = a + (d + 1)
    BY <2>1
  <2>3. f[at[a]] = f[at[m]]
    BY <1>2, <2>2, Zenon
  <2>4. /\ at[m] \in Nat /\ at[m] >= 1 /\ TokenAt(s, at[m], tokens[m])
        /\ at[m + 1] = at[m] + Len(Written(tokens[m]))
    BY Zenon DEF Laid
  <2>5. PICK i \in Nat : i = at[m] /\ i >= 1
    BY <2>4, Zenon
  <2>6. f[i] = f[i + Len(Written(tokens[m]))]
    <3>1. Rides(f, s, i, tokens[m]) /\ TokenAt(s, i, tokens[m])
      BY <2>2, <2>4, <2>5, Zenon DEF RidesAll
    <3> QED
      BY <2>5, <3>1, TokenRides
  <2> QED
    BY <2>2, <2>3, <2>4, <2>5, <2>6, Zenon
<1>3. \A d \in Nat : d \in P
  <2> HIDE DEF P
  <2> QED
    BY <1>1, <1>2, Induction
<1>4. PICK d \in Nat : a + d = e /\ a + d <= e
  <2>1. e - a \in Nat /\ a + (e - a) = e /\ a + (e - a) <= e
    OBVIOUS
  <2> QED
    BY <2>1, Zenon
<1>5. d \in P
  BY <1>3, <1>4, Zenon
<1> QED
  BY <1>4, <1>5, Zenon

-----------------------------------------------------------------------------
(* Cutting a text into statements.                                          *)

IsSemis(f, s) ==
    f = [i \in 1..Len(s) + 1 |->
           CASE i > Len(s)  -> <<>>
             [] i <= Len(s) /\ s[i] = ";" -> <<i>> \o f[i + 1]
             [] OTHER       -> f[Skip(s, i)]]

SemisStep(f, s) ==
    /\ f[Len(s) + 1] = <<>>
    /\ \A i \in 1..Len(s) :
         /\ s[i] = ";" => f[i] = <<i>> \o f[i + 1]
         /\ s[i] # ";" => f[i] = f[Skip(s, i)]

Between(s, cuts) == [k \in 1..Len(cuts) - 1 |-> SubSeq(s, cuts[k] + 1, cuts[k + 1] - 1)]

\* The scan for semicolons is well defined.
LEMMA SemisIs ==
    ASSUME NEW S, NEW s \in Seq(S)
    PROVE  \E f : SemisStep(f, s) /\ splitStatements(s) = Between(s, <<0>> \o f[1] \o <<Len(s) + 1>>)
<1> DEFINE M == Len(s) + 1
           J == [i \in 1..M |-> IF i > Len(s) THEN 0 ELSE IF s[i] = ";" THEN i + 1 ELSE Skip(s, i)]
           A == [i \in 1..M |-> <<>>]
           C == [i \in 1..M |-> i <= Len(s) /\ s[i] = ";"]
           B == [i \in 1..M |-> <<i>>]
           Val(f, i) ==
             CASE i > Len(s)  -> <<>>
               [] i <= Len(s) /\ s[i] = ";" -> <<i>> \o f[i + 1]
               [] OTHER       -> f[Skip(s, i)]
<1>0. ASSUME NEW h, NEW i, ~(i > Len(s)), i <= Len(s), s[i] # ";"
      PROVE  Val(h, i) = h[Skip(s, i)]
  BY <1>0
<1>1. M \in Nat /\ Len(s) \in Nat
  OBVIOUS
<1>2. Onward(M, J)
  <2>1. ASSUME NEW i \in 1..M PROVE J[i] = 0 \/ J[i] \in i + 1..M
    <3>1. CASE i > Len(s)
      BY <3>1
    <3>2. CASE ~(i > Len(s))
      <4>1. i \in 1..Len(s) /\ i + 1 \in i + 1..M
        BY <1>1, <3>2
      <4>2. Skip(s, i) \in i + 1..M
        BY <4>1, SkipAdvances, Zenon
      <4>3. J[i] = IF s[i] = ";" THEN i + 1 ELSE Skip(s, i)
        <5> HIDE DEF M
        <5> QED
          BY <3>2, Zenon
      <4> HIDE DEF J, M
      <4> QED
        BY <4>1, <4>2, <4>3, Zenon
    <3> QED
      BY <3>1, <3>2
  <2> HIDE DEF J
  <2> QED
    BY <2>1, Zenon DEF Onward
<1>3. PICK f : IsUnfolded(f, M, J, A, C, B)
  <2> HIDE DEF M, J, A, C, B
  <2> QED
    BY <1>1, <1>2, Unfolds, Zenon
<1>4. ASSUME NEW i \in 1..M
      PROVE  (IF J[i] = 0 THEN A[i] ELSE IF C[i] THEN B[i] \o f[J[i]] ELSE f[J[i]]) = Val(f, i)
  <2>0. (i <= Len(s) <=> ~(i > Len(s))) /\ (i <= Len(s) => i \in 1..Len(s))
    BY <1>1
  <2>1. CASE i > Len(s)
    <3>1. J[i] = 0 /\ A[i] = <<>>
      BY <2>1
    <3>2. Val(f, i) = <<>>
      BY <2>0, <2>1
    <3> HIDE DEF J, A, Val
    <3> QED
      BY <3>1, <3>2, Zenon
  <2>2. CASE ~(i > Len(s)) /\ s[i] = ";"
    <3>0. i + 1 # 0
      BY <1>1
    <3>1. J[i] = i + 1 /\ C[i] /\ B[i] = <<i>>
      <4> HIDE DEF M
      <4> QED
        BY <2>0, <2>2, Zenon
    <3>2. Val(f, i) = <<i>> \o f[i + 1]
      BY <2>0, <2>2
    <3> HIDE DEF J, C, B, Val
    <3> QED
      BY <3>0, <3>1, <3>2, Zenon
  <2>3. CASE ~(i > Len(s)) /\ s[i] # ";"
    <3>1. J[i] = Skip(s, i) /\ ~C[i]
      <4> HIDE DEF M
      <4> QED
        BY <2>0, <2>3, Zenon
    <3>0. ~(i > Len(s)) /\ i <= Len(s) /\ s[i] # ";"
      BY <2>0, <2>3
    <3>2. Val(f, i) = f[Skip(s, i)]
      BY <3>0
    <3>3. i \in 1..Len(s)
      BY <2>0, <3>0, Zenon
    <3>4. Skip(s, i) \in i + 1..Len(s) + 1
      BY <3>3, SkipAdvances, Zenon
    <3>5. Skip(s, i) # 0
      BY <1>1, <3>4
    <3> HIDE DEF J, C, B, Val
    <3> QED
      BY <3>1, <3>2, <3>5, Zenon
  <2> QED
    BY <2>1, <2>2, <2>3, Zenon
<1>5. f = [i \in 1..M |-> Val(f, i)]
  <2>1. f = [i \in 1..M |-> IF J[i] = 0 THEN A[i] ELSE IF C[i] THEN B[i] \o f[J[i]] ELSE f[J[i]]]
    BY <1>3, Zenon DEF IsUnfolded
  <2> HIDE DEF M, J, A, C, B, Val
  <2> QED
    BY <1>4, <2>1, Zenon
<1>6. IsSemis(f, s)
  BY <1>5, Zenon DEF IsSemis
<1> DEFINE g == CHOOSE g : IsSemis(g, s)
<1>7. IsSemis(g, s)
  BY <1>6, Zenon
<1>8. splitStatements(s) = Between(s, <<0>> \o g[1] \o <<Len(s) + 1>>)
  BY Zenon DEF splitStatements, Between, IsSemis
<1> HIDE DEF g
<1>9. ASSUME NEW i \in 1..M PROVE g[i] = Val(g, i)
  BY <1>7, Zenon DEF IsSemis
<1>10. g[Len(s) + 1] = <<>>
  <2>1. Len(s) + 1 \in 1..M /\ Len(s) + 1 > Len(s) /\ ~(Len(s) + 1 <= Len(s))
    BY <1>1
  <2>2. Val(g, Len(s) + 1) = <<>>
    BY <2>1
  <2> HIDE DEF Val
  <2> QED
    BY <1>9, <2>1, <2>2, Zenon
<1>11. ASSUME NEW i \in 1..Len(s)
       PROVE  (s[i] = ";" => g[i] = <<i>> \o g[i + 1]) /\ (s[i] # ";" => g[i] = g[Skip(s, i)])
  <2>1. i \in 1..M /\ ~(i > Len(s)) /\ i <= Len(s)
    BY <1>1
  <2>2. s[i] = ";" => Val(g, i) = <<i>> \o g[i + 1]
    BY <2>1
  <2>3. s[i] # ";" => Val(g, i) = g[Skip(s, i)]
    BY <2>1
  <2> HIDE DEF Val
  <2> QED
    BY <1>9, <2>1, <2>2, <2>3, Zenon
<1> QED
  BY <1>8, <1>10, <1>11, Zenon DEF SemisStep

-----------------------------------------------------------------------------
(* Statements and texts.                                                    *)

LegalTokens(tokens) ==
    /\ IsSequence(tokens)
    /\ \A i \in DOMAIN tokens :
         LegalToken(tokens[i]) /\ (i > 1 => Apart(tokens[i - 1], tokens[i]))

WrittenOf(tokens) == [i \in 1..Len(tokens) |-> Written(tokens[i])]

StatementCells(tokens) == UNION {TokenCells(tokens[i]) : i \in 1..Len(tokens)}

\* Where the k-th token of a statement that begins at p is.
Places(p, tokens) == [k \in 1..Len(tokens) + 1 |-> p + Len(First(WrittenOf(tokens), k - 1))]

IsStatement(tokens) ==
    /\ Len(tokens) \in Nat /\ DOMAIN tokens = 1..Len(tokens)
    /\ WrittenOf(tokens) \in Seq(Seq(StatementCells(tokens))) /\ Len(WrittenOf(tokens)) = Len(tokens)
    /\ Statement(tokens) = First(WrittenOf(tokens), Len(tokens))
    /\ Statement(tokens) \in Seq(StatementCells(tokens))

\* A statement is the concatenation of its tokens' writings.
LEMMA StatementIs ==
    ASSUME NEW tokens, LegalTokens(tokens)
    PROVE  IsStatement(tokens)
<1> DEFINE n == Len(tokens)
           g == WrittenOf(tokens)
           T == StatementCells(tokens)
<1>1. DOMAIN tokens = 1..n /\ n \in Nat
  BY Sequences DEF LegalTokens
<1>2. \A i \in 1..n : Written(tokens[i]) \in Seq(T)
  <2> TAKE i \in 1..n
  <2>1. Written(tokens[i]) \in Seq(TokenCells(tokens[i]))
    BY <1>1, WrittenType DEF LegalTokens
  <2>2. TokenCells(tokens[i]) \subseteq T
    BY DEF StatementCells
  <2> HIDE DEF T
  <2> QED
    BY <2>1, <2>2
<1>3. g = [i \in 1..n |-> Written(tokens[i])]
  BY DEF WrittenOf
<1> HIDE DEF n, g, T
<1>4. g \in Seq(Seq(T)) /\ Len(g) = n
  BY <1>1, <1>2, <1>3
<1>5. Statement(tokens) = First(g, n)
  <2>1. [i \in DOMAIN tokens |-> Written(tokens[i])] = [i \in 1..n |-> g[i]]
    <3>1. \A i \in 1..n : g[i] = Written(tokens[i])
      BY <1>3, Zenon
    <3> QED
      BY <1>1, <3>1, Zenon
  <2> QED
    BY <2>1, Zenon DEF Statement, First
<1>6. First(g, n) \in Seq(T)
  <2>1. n \in 0..Len(g)
    BY <1>1, <1>4
  <2> QED
    BY <1>4, <2>1, FirstType, Zenon
<1> QED
  BY <1>1, <1>4, <1>5, <1>6, Zenon DEF IsStatement, n, g, T

\* How a token's writing begins.
LEMMA FirstCell ==
    ASSUME NEW t, LegalToken(t)
    PROVE  /\ IsWord(Written(t), 1, t)
           /\ t.k \in {"literal", "quoted", "dollar", "line", "block", "cells"}
           /\ t.k = "cells" => Written(t)[1] \notin Quotes \cup {";"}
<1>1. PICK w \in Seq(TokenCells(t)) : w = Written(t) /\ Len(w) \in Nat /\ Len(w) >= 1
  BY WrittenType, Zenon
<1>2. TokenAt(w, 1, t)
  <2>1. Stands(w, 1, w)
    <3>1. \A k \in 1..Len(w) : 1 + k - 1 = k
      OBVIOUS
    <3>2. 1 + Len(w) <= Len(w) + 1
      BY <1>1
    <3> QED
      BY <3>1, <3>2 DEF Stands
  <2>2. ~(1 + Len(w) <= Len(w))
    BY <1>1
  <2> QED
    BY <1>1, <2>1, <2>2, Zenon DEF TokenAt, Clear
<1>3. IsWord(w, 1, t)
  <2>1. 1 \in Nat /\ 1 >= 1
    OBVIOUS
  <2> QED
    BY <1>2, <2>1, TokenIs, Zenon
<1>4. t.k \in {"literal", "quoted", "dollar", "line", "block", "cells"}
  BY DEF LegalToken
<1>5. ASSUME t.k = "cells" PROVE w[1] \notin Quotes \cup {";"}
  <2>1. LegalCells(t.body) /\ w = t.body /\ DOMAIN t.body = 1..Len(w)
    BY <1>1, <1>5, TokenParts, WrittenIs DEF LegalToken
  <2>2. 1 \in DOMAIN t.body
    BY <1>1, <2>1
  <2> QED
    BY <2>1, <2>2 DEF LegalCells
<1> QED
  BY <1>1, <1>3, <1>4, <1>5, Zenon

\* Tokens that are apart stay apart where they stand.
LEMMA ApartClear ==
    ASSUME NEW S, NEW s \in Seq(S), NEW a, NEW b, LegalToken(a), LegalToken(b), Apart(a, b),
           NEW e \in Nat, e >= 1, Stands(s, e, Written(b))
    PROVE  Clear(s, e, a)
<1>1. /\ IsWord(Written(b), 1, b)
      /\ b.k \in {"literal", "quoted", "dollar", "line", "block", "cells"}
      /\ b.k = "cells" => Written(b)[1] \notin Quotes \cup {";"}
  BY FirstCell, Zenon
<1>2. Len(Written(b)) \in Nat /\ Len(Written(b)) >= 1
  BY WrittenType, Zenon
<1>3. s[e] = Written(b)[1]
  <2>1. 1 \in 1..Len(Written(b)) /\ e + 1 - 1 = e
    BY <1>2
  <2> QED
    BY <2>1 DEF Stands
<1>4. ASSUME a.k \in {"literal", "quoted"} PROVE s[e] # QuoteOf(a)
  <2>1. b.k # a.k
    BY <1>4 DEF Apart
  <2>2. CASE b.k \in {"literal", "quoted"}
    <3>1. s[e] = QuoteOf(b)
      BY <1>1, <1>3, <2>2 DEF IsWord
    <3> QED
      BY <1>4, <2>1, <2>2, <3>1 DEF QuoteOf
  <2>3. CASE b.k \in {"dollar", "line", "block"}
    <3>1. s[e] \in {"$", "-", "/"}
      BY <1>1, <1>3, <2>3 DEF IsWord
    <3> QED
      BY <3>1 DEF QuoteOf
  <2>4. CASE b.k = "cells"
    BY <1>1, <1>3, <2>4 DEF QuoteOf, Quotes
  <2> QED
    BY <1>1, <2>2, <2>3, <2>4
<1>5. ASSUME a.k = "cells"
      PROVE  /\ ~(isIdentByte(a.body[Len(a.body)]) /\ isIdentByte(s[e]))
             /\ <<a.body[Len(a.body)], s[e]>> \notin {<<"-", "-">>, <<"/", "*">>}
  BY <1>3, <1>5, Zenon DEF Apart
<1> QED
  BY <1>4, <1>5, Zenon DEF Clear

Ends(s, e) == e <= Len(s) => s[e] = ";"

\* A semicolon, or the end of the text, prolongs no token.
LEMMA SemicolonClear ==
    ASSUME NEW s, NEW e, NEW t, Ends(s, e)
    PROVE  Clear(s, e, t)
<1>1. ~isIdentByte(";")
  BY Letters
<1>2. \A x : <<x, ";">> \notin {<<"-", "-">>, <<"/", "*">>}
  OBVIOUS
<1>3. ";" # QuoteOf(t)
  BY DEF QuoteOf
<1> QED
  BY <1>1, <1>2, <1>3, Zenon DEF Clear, Ends

\* A statement stands in a text with all its tokens.
LaidOut(s, p, tokens) ==
    /\ Laid(s, Places(p, tokens), tokens, 1)
    /\ Places(p, tokens)[1] = p /\ Places(p, tokens)[Len(tokens) + 1] = p + Len(Statement(tokens))

PlaceIs(at, p, g, k, m) == at[k] = p + Len(First(g, m))

\* The tokens of a legal statement stand in the text one behind the other.
LEMMA StatementLaid ==
    ASSUME NEW S, NEW s \in Seq(S), NEW p \in Nat, p >= 1, NEW tokens, LegalTokens(tokens),
           Stands(s, p, Statement(tokens)),
           Ends(s, p + Len(Statement(tokens)))
    PROVE  LaidOut(s, p, tokens)
<1> DEFINE n == Len(tokens)
           g == WrittenOf(tokens)
           T == StatementCells(tokens)
           at == Places(p, tokens)
<1>1. /\ n \in Nat /\ DOMAIN tokens = 1..n /\ g \in Seq(Seq(T)) /\ Len(g) = n
      /\ Statement(tokens) = First(g, n)
  BY StatementIs, Zenon DEF IsStatement
<1>2. ASSUME NEW k \in 1..n + 1, NEW m, m = k - 1 PROVE PlaceIs(at, p, g, k, m)
  BY <1>2, Zenon DEF Places, PlaceIs
<1>3. Stands(s, p, First(g, Len(g)))
  BY <1>1, Zenon
<1>4. \A k \in 1..n : g[k] = Written(tokens[k])
  BY Zenon DEF WrittenOf
<1>5. \A k \in 1..n : LegalToken(tokens[k]) /\ (k > 1 => Apart(tokens[k - 1], tokens[k]))
  BY <1>1, Zenon DEF LegalTokens
<1>51. n \in Nat /\ Len(g) = n
  BY <1>1, Zenon
<1> HIDE DEF g, T, at, n
<1>6. \A k \in 0..n - 1 : PieceAt(s, p, g, k)
  BY <1>1, <1>3, PiecesStand, Zenon
<1>7. ASSUME NEW k \in 1..n
      PROVE  at[k] \in Nat /\ at[k] >= 1 /\ Stands(s, at[k], Written(tokens[k]))
             /\ at[k + 1] = at[k] + Len(Written(tokens[k]))
  <2>1. PICK m \in 0..n - 1 : m = k - 1 /\ m + 1 = k /\ k \in 1..n + 1 /\ k + 1 \in 1..n + 1 /\ k = k + 1 - 1
    <3>1. k - 1 \in 0..n - 1 /\ k - 1 + 1 = k /\ k \in 1..n + 1 /\ k + 1 \in 1..n + 1 /\ k = k + 1 - 1
      BY <1>51
    <3> QED
      BY <3>1, Zenon
  <2>2. /\ Len(First(g, m)) \in Nat
        /\ Stands(s, p + Len(First(g, m)), g[k])
        /\ Len(First(g, k)) = Len(First(g, m)) + Len(g[k])
    BY <1>6, <2>1, Zenon DEF PieceAt
  <2>3. at[k] = p + Len(First(g, m)) /\ at[k + 1] = p + Len(First(g, k))
    <3>1. PlaceIs(at, p, g, k, m)
      BY <1>2, <2>1, Zenon
    <3>2. PICK k1 \in 1..n + 1 : k1 = k + 1 /\ k = k1 - 1
      BY <1>51, <2>1
    <3>3. PlaceIs(at, p, g, k + 1, k)
      BY <1>2, <3>2, Zenon
    <3> QED
      BY <3>1, <3>3 DEF PlaceIs
  <2>4. PICK x \in Nat : x = Len(First(g, m))
    BY <2>2, Zenon
  <2>5. g[k] = Written(tokens[k]) /\ Len(Written(tokens[k])) \in Nat
    BY <1>4, <1>5, WrittenType, Zenon
  <2>6. at[k] = p + x /\ at[k + 1] = p + (x + Len(Written(tokens[k])))
    BY <2>2, <2>3, <2>4, <2>5, Zenon
  <2>7. Stands(s, at[k], Written(tokens[k]))
    BY <2>2, <2>3, <2>5, Zenon
  <2>8. PICK y \in Nat : y = Len(Written(tokens[k]))
    BY <2>5, Zenon
  <2>9. at[k] = p + x /\ at[k + 1] = p + (x + y)
    BY <2>6, <2>8, Zenon
  <2>10. at[k] \in Nat /\ at[k] >= 1 /\ at[k + 1] = at[k] + y
    BY <2>9
  <2> QED
    BY <2>7, <2>8, <2>10, Zenon
<1>8. at[1] = p /\ at[n + 1] = p + Len(Statement(tokens))
  <2>1. First(g, 0) = <<>>
    <3>1. 0 \in 0..Len(g)
      BY <1>51
    <3> QED
      BY <1>1, <3>1, FirstType, Zenon
  <2>2. 1 \in 1..n + 1 /\ n + 1 \in 1..n + 1 /\ 0 = 1 - 1 /\ n = n + 1 - 1 /\ p + Len(<<>>) = p
    BY <1>51
  <2>3. at[1] = p + Len(First(g, 0)) /\ at[n + 1] = p + Len(First(g, n))
    <3>1. PlaceIs(at, p, g, 1, 0)
      BY <1>2, <2>2, Zenon
    <3>2. PICK n1 \in 1..n + 1 : n1 = n + 1 /\ n = n1 - 1
      BY <1>51, <2>2
    <3>3. PlaceIs(at, p, g, n + 1, n)
      BY <1>2, <3>2, Zenon
    <3> QED
      BY <3>1, <3>3 DEF PlaceIs
  <2>4. First(g, n) = Statement(tokens)
    BY <1>1, Zenon DEF n
  <2> QED
    BY <2>1, <2>2, <2>3, <2>4, Zenon
<1>9. ASSUME NEW k \in 1..n PROVE Clear(s, at[k + 1], tokens[k])
  <2>1. CASE k = n
    <3>1. Ends(s, at[k + 1])
      BY <1>8, <2>1, Zenon
    <3> QED
      BY <3>1, SemicolonClear, Zenon
  <2>2. CASE k # n
    <3>1. PICK m \in 1..n : m = k + 1 /\ m > 1 /\ m - 1 = k
      <4>1. k + 1 \in 1..n /\ k + 1 > 1 /\ k + 1 - 1 = k
        BY <1>51, <2>2
      <4> QED
        BY <4>1
    <3>2. Apart(tokens[k], tokens[m]) /\ LegalToken(tokens[k]) /\ LegalToken(tokens[m])
      BY <1>5, <3>1, Zenon
    <3>3. at[m] \in Nat /\ at[m] >= 1 /\ Stands(s, at[m], Written(tokens[m]))
      BY <1>7, Zenon
    <3> QED
      BY <3>1, <3>2, <3>3, ApartClear, Zenon
  <2> QED
    BY <2>1, <2>2
<1>10. ASSUME NEW k \in 1..n PROVE TokenAt(s, at[k], tokens[k])
  <2>1. Clear(s, at[k] + Len(Written(tokens[k])), tokens[k])
    BY <1>7, <1>9, Zenon
  <2> QED
    BY <1>5, <1>7, <2>1, Zenon DEF TokenAt
<1>11. Laid(s, at, tokens, 1)
  BY <1>7, <1>10, Zenon DEF Laid, n
<1> QED
  BY <1>8, <1>11, Zenon DEF LaidOut, at, n

Semicolon == ";"

\* A text is cut into the pieces its statements are written in.
PieceOf(stmts) ==
    [k \in 1..Len(stmts) |->
       IF k = 1 THEN Statement(stmts[k]) ELSE <<Semicolon>> \o Statement(stmts[k])]

StatementsOf(stmts) == [k \in 1..Len(stmts) |-> Statement(stmts[k])]

AllCells(stmts) == UNION {StatementCells(stmts[k]) : k \in 1..Len(stmts)}

TextCells(stmts) == AllCells(stmts) \cup {Semicolon}

IsText(stmts) ==
    /\ Len(stmts) \in Nat /\ Len(stmts) >= 1 /\ DOMAIN stmts = 1..Len(stmts)
    /\ PieceOf(stmts) \in Seq(Seq(TextCells(stmts))) /\ Len(PieceOf(stmts)) = Len(stmts)
    /\ Sql(stmts) = First(PieceOf(stmts), Len(stmts))
    /\ Sql(stmts) \in Seq(TextCells(stmts))
    /\ \A k \in 1..Len(stmts) :
         LegalTokens(stmts[k]) /\ Statement(stmts[k]) \in Seq(TextCells(stmts))

\* A text may hold a semicolon.
LEMMA HasSemicolon ==
    ASSUME NEW stmts
    PROVE  Semicolon \in TextCells(stmts)
BY DEF TextCells

\* Where a piece behind a semicolon begins and ends.
LEMMA AddUp ==
    ASSUME NEW l \in Nat, NEW y \in Nat
    PROVE  /\ 1 + l + 1 \in Nat /\ 1 + l + 1 >= 1 /\ 1 + (l + (1 + y)) \in Nat
           /\ 1 + (l + (1 + y)) = (1 + l + 1) + y
OBVIOUS

\* A text is the concatenation of its pieces.
LEMMA TextIs ==
    ASSUME NEW stmts, LegalText(stmts)
    PROVE  IsText(stmts)
<1> DEFINE n == Len(stmts)
           g == PieceOf(stmts)
           T == TextCells(stmts)
           St == StatementsOf(stmts)
<1>1. DOMAIN stmts = 1..n /\ n \in Nat /\ n >= 1
  <2>1. DOMAIN stmts = 1..n /\ n \in Nat /\ stmts \in Seq(Elements(stmts)) /\ stmts # <<>>
    BY Sequences, Zenon DEF LegalText
  <2> QED
    BY <2>1
<1>2. \A k \in 1..n : LegalTokens(stmts[k])
  BY <1>1, Zenon DEF LegalText, LegalStatement, LegalTokens
<1>25. \A k \in 1..n : St[k] = Statement(stmts[k])
  BY Zenon DEF StatementsOf
<1>3. \A k \in 1..n : St[k] \in Seq(T)
  <2> TAKE k \in 1..n
  <2>1. St[k] \in Seq(StatementCells(stmts[k]))
    BY <1>2, <1>25, StatementIs, Zenon DEF IsStatement
  <2>2. StatementCells(stmts[k]) \subseteq T
    BY DEF TextCells, AllCells
  <2> HIDE DEF T, St
  <2> QED
    BY <2>1, <2>2
<1>4. \A k \in 1..n : <<Semicolon>> \o St[k] \in Seq(T)
  <2>1. Semicolon \in T
    BY HasSemicolon
  <2> HIDE DEF T, St
  <2> QED
    BY <1>3, <2>1
<1>5. g = [k \in 1..n |-> IF k = 1 THEN St[k] ELSE <<Semicolon>> \o St[k]]
  BY <1>25, Zenon DEF PieceOf
<1> HIDE DEF n, g, T, St
<1>6. g \in Seq(Seq(T)) /\ Len(g) = n
  BY <1>1, <1>3, <1>4, <1>5
<1>7. Sql(stmts) = First(g, n)
  <2>1. \A k \in 1..n : g[k] = IF k = 1 THEN Statement(stmts[k]) ELSE <<Semicolon>> \o Statement(stmts[k])
    BY Zenon DEF PieceOf, g, n
  <2>2. [k \in DOMAIN stmts |-> IF k = 1 THEN Statement(stmts[k]) ELSE <<";">> \o Statement(stmts[k])]
        = [k \in 1..n |-> g[k]]
    BY <1>1, <2>1, Zenon DEF Semicolon
  <2> QED
    BY <2>2, Zenon DEF Sql, First
<1>8. First(g, n) \in Seq(T)
  <2>1. n \in 0..Len(g)
    BY <1>1, <1>6
  <2> QED
    BY <1>6, <2>1, FirstType, Zenon
<1> QED
  BY <1>1, <1>2, <1>25, <1>3, <1>6, <1>7, <1>8, Zenon DEF IsText, n, g, T

\* Where the statements of a text are: the k-th is followed by the cell Ending
\* gives, a semicolon or the end of the text, and preceded by the one before.
EndingOf(stmts) ==
    [k \in 0..Len(stmts) |-> IF k = 0 THEN 0 ELSE 1 + Len(First(PieceOf(stmts), k))]

StatementAt(stmts, k, a, e) ==
    /\ a \in Nat /\ a >= 1 /\ e \in Nat /\ e = a + Len(Statement(stmts[k]))
    /\ Stands(Sql(stmts), a, Statement(stmts[k]))
    /\ k < Len(stmts) => e <= Len(Sql(stmts)) /\ Sql(stmts)[e] = Semicolon
    /\ k = Len(stmts) => e = Len(Sql(stmts)) + 1

\* The statements of a legal text stand in it one behind the other.
LEMMA TextLaid ==
    ASSUME NEW stmts, LegalText(stmts), NEW k \in 1..Len(stmts)
    PROVE  StatementAt(stmts, k, EndingOf(stmts)[k - 1] + 1, EndingOf(stmts)[k])
<1> DEFINE n == Len(stmts)
           g == PieceOf(stmts)
           T == TextCells(stmts)
           s == Sql(stmts)
           e == EndingOf(stmts)
           St == StatementsOf(stmts)
<1>1. /\ n \in Nat /\ n >= 1 /\ g \in Seq(Seq(T)) /\ Len(g) = n /\ s = First(g, n) /\ s \in Seq(T)
      /\ \A j \in 1..n : St[j] \in Seq(T) /\ g[j] = IF j = 1 THEN St[j] ELSE <<Semicolon>> \o St[j]
  <2>1. \A j \in 1..n : St[j] = Statement(stmts[j])
    BY Zenon DEF StatementsOf
  <2>2. \A j \in 1..n : g[j] = IF j = 1 THEN St[j] ELSE <<Semicolon>> \o St[j]
    BY <2>1, Zenon DEF PieceOf
  <2> QED
    BY <2>1, <2>2, TextIs, Zenon DEF IsText
<1>2. \A j \in 0..n : e[j] = IF j = 0 THEN 0 ELSE 1 + Len(First(g, j))
  BY Zenon DEF EndingOf
<1>3. k \in 1..n
  OBVIOUS
<1> HIDE DEF n, g, T, s, e, St
<1>35. St[k] = Statement(stmts[k])
  BY <1>3, Zenon DEF StatementsOf, St, n
<1>4. Stands(s, 1, s)
  BY <1>1 DEF Stands
<1>5. (\A j \in 0..n - 1 : PieceAt(s, 1, g, j)) /\ \A j \in 0..n : Len(First(g, j)) \in Nat
  <2>1. 1 \in Nat /\ 1 >= 1
    OBVIOUS
  <2>2. Stands(s, 1, First(g, Len(g)))
    BY <1>1, <1>4, Zenon
  <2> QED
    BY <1>1, <2>1, <2>2, PiecesStand, Zenon
<1>6. First(g, 0) = <<>>
  <2>1. 0 \in 0..Len(g)
    BY <1>1
  <2> QED
    BY <1>1, <2>1, FirstType, Zenon
\* What is before the k-th piece, and what the piece is.
<1> DEFINE Put(m, j, L) ==
             /\ L \in Nat /\ Stands(s, 1 + L, g[j]) /\ e[j] = 1 + (L + Len(g[j]))
             /\ e[m] = IF m = 0 THEN 0 ELSE 1 + L
<1>7. ASSUME NEW j \in 1..n, NEW m \in 0..n - 1, m + 1 = j, NEW L, L = Len(First(g, m))
      PROVE  Put(m, j, L)
  <2>1. PieceAt(s, 1, g, m) /\ m \in 0..n /\ j \in 0..n /\ j # 0
    BY <1>1, <1>5, <1>7
  <2>2. L \in Nat /\ Stands(s, 1 + L, g[j]) /\ Len(First(g, j)) = L + Len(g[j])
    <3>1. /\ Len(First(g, m)) \in Nat /\ Stands(s, 1 + Len(First(g, m)), g[m + 1])
          /\ Len(First(g, m + 1)) = Len(First(g, m)) + Len(g[m + 1])
      BY <2>1, Zenon DEF PieceAt
    <3> QED
      BY <1>7, <3>1, Zenon
  <2>3. e[j] = 1 + Len(First(g, j))
    BY <1>2, <2>1, Zenon
  <2>4. e[m] = IF m = 0 THEN 0 ELSE 1 + Len(First(g, m))
    BY <1>2, <2>1, Zenon
  <2> QED
    BY <1>7, <2>2, <2>3, <2>4, Zenon
<1>8. PICK m \in 0..n - 1 : m + 1 = k /\ m = k - 1
  BY <1>1, <1>3
<1>9. PICK L : L = Len(First(g, m))
  OBVIOUS
<1>10. /\ L \in Nat /\ Stands(s, 1 + L, g[k]) /\ e[k] = 1 + (L + Len(g[k]))
       /\ e[m] = IF m = 0 THEN 0 ELSE 1 + L
  <2> HIDE DEF Put
  <2>1. Put(m, k, L)
    BY <1>3, <1>7, <1>8, <1>9
  <2> QED
    BY <2>1, Zenon DEF Put
<1>11. St[k] \in Seq(T) /\ Len(St[k]) \in Nat
  BY <1>1, <1>3
<1>12. /\ e[m] + 1 \in Nat /\ e[m] + 1 >= 1 /\ e[k] \in Nat /\ e[k] = (e[m] + 1) + Len(St[k])
       /\ Stands(s, e[m] + 1, St[k])
  <2>1. CASE m = 0
    <3>0. k = 1
      BY <1>8, <2>1
    <3>1. g[k] = St[k]
      BY <1>1, <1>3, <3>0, Zenon
    <3>2. L = 0
      BY <1>6, <1>9, <2>1
    <3>3. e[m] = 0
      BY <1>10, <2>1
    <3>4. 1 + L = e[m] + 1 /\ e[m] + 1 = 1
      BY <3>2, <3>3
    <3>5. Stands(s, e[m] + 1, St[k])
      BY <1>10, <3>1, <3>4, Zenon
    <3>6. e[k] = 1 + (0 + Len(St[k]))
      BY <1>10, <3>1, <3>2, Zenon
    <3> QED
      BY <1>11, <3>4, <3>5, <3>6
  <2>2. CASE m # 0
    <3>0. <<Semicolon>> \in Seq({Semicolon}) /\ Len(<<Semicolon>>) = 1 /\ k # 1
      BY <1>8, <2>2
    <3>1. g[k] = <<Semicolon>> \o St[k]
      BY <1>1, <1>3, <3>0, Zenon
    <3>2. Len(g[k]) = 1 + Len(St[k])
      BY <1>11, <3>0, <3>1
    <3>3. e[m] = 1 + L /\ 1 + L \in Nat /\ 1 + L >= 1
      BY <1>10, <2>2
    <3>4. Stands(s, 1 + L + 1, St[k])
      <4>1. PICK p \in Nat : p = 1 + L /\ p >= 1
        BY <3>3, Zenon
      <4>2. Stands(s, p, <<Semicolon>> \o St[k])
        BY <1>10, <3>1, <4>1, Zenon
      <4>3. <<Semicolon>> \in Seq(T \cup {Semicolon}) /\ St[k] \in Seq(T \cup {Semicolon})
        BY <1>11
      <4>4. Stands(s, p + Len(<<Semicolon>>), St[k])
        BY <1>1, <4>1, <4>2, <4>3, StandsParts, Zenon
      <4> QED
        BY <3>0, <4>1, <4>4, Zenon
    <3>5. e[k] = 1 + (L + (1 + Len(St[k])))
      BY <1>10, <3>2, Zenon
    <3>6. Stands(s, e[m] + 1, St[k])
      BY <3>3, <3>4, Zenon
    <3>7. L \in Nat
      BY <1>10, Zenon
    <3>8. /\ e[m] + 1 \in Nat /\ e[m] + 1 >= 1 /\ e[k] \in Nat /\ e[k] = (e[m] + 1) + Len(St[k])
      <4>1. PICK y \in Nat : y = Len(St[k])
        BY <1>11, Zenon
      <4>2. e[k] = 1 + (L + (1 + y))
        BY <3>5, <4>1, Zenon
      <4>3. e[m] + 1 = 1 + L + 1
        BY <3>3, Zenon
      <4>4. 1 + L + 1 \in Nat /\ 1 + L + 1 >= 1 /\ 1 + (L + (1 + y)) \in Nat
        BY <3>7, AddUp, Zenon
      <4>5. e[k] = (1 + L + 1) + y /\ e[k] \in Nat
        BY <3>7, <4>2, <4>4, AddUp, Zenon
      <4> QED
        BY <4>1, <4>3, <4>4, <4>5, Zenon
    <3> QED
      BY <3>6, <3>8, Zenon
  <2> QED
    BY <2>1, <2>2
<1>13. k = n => e[k] = Len(s) + 1
  <2>1. k \in 0..n /\ k # 0 /\ Len(s) \in Nat
    BY <1>1, <1>3
  <2>2. e[k] = 1 + Len(First(g, k))
    BY <1>2, <2>1, Zenon
  <2> QED
    BY <1>1, <2>1, <2>2
<1>14. k < n => e[k] <= Len(s) /\ s[e[k]] = Semicolon
  <2>1. SUFFICES ASSUME k < n PROVE e[k] <= Len(s) /\ s[e[k]] = Semicolon
    OBVIOUS
  <2>2. PICK j \in 1..n : j = k + 1 /\ k \in 0..n - 1 /\ k # 0 /\ j # 1
    BY <1>1, <1>3, <2>1
  <2>3. PICK M : M = Len(First(g, k))
    OBVIOUS
  <2>4. M \in Nat /\ Stands(s, 1 + M, g[j]) /\ e[k] = 1 + M
    BY <1>7, <2>2, <2>3, Zenon
  <2>5. g[j] = <<Semicolon>> \o St[j]
    BY <1>1, <2>2, Zenon
  <2>6. St[j] \in Seq(T \cup {Semicolon}) /\ <<Semicolon>> \in Seq(T \cup {Semicolon})
    BY <1>1
  <2>7. PICK p \in Nat : p = 1 + M /\ p >= 1
    BY <2>4
  <2>8. Stands(s, p, <<Semicolon>> \o St[j])
    BY <2>4, <2>5, <2>7, Zenon
  <2>9. Stands(s, p, <<Semicolon>>)
    BY <1>1, <2>6, <2>7, <2>8, StandsParts, Zenon
  <2>10. p <= Len(s) /\ s[p] = Semicolon
    BY <1>1, <2>7, <2>9, StandsOne, Zenon
  <2> QED
    BY <2>4, <2>7, <2>10, Zenon
<1>15. e[k - 1] = e[m]
  BY <1>8, Zenon
<1> QED
  BY <1>12, <1>13, <1>14, <1>15, <1>35, Zenon DEF StatementAt, n, s, e

\* The scan for semicolons passes over a token whole.
LEMMA SemisRide ==
    ASSUME NEW S, NEW s \in Seq(S), NEW f, SemisStep(f, s), NEW i \in Nat, i >= 1, NEW t, TokenAt(s, i, t)
    PROVE  Rides(f, s, i, t)
<1>1. IsWord(s, i, t)
  BY TokenIs, Zenon
<1>2. ASSUME NEW j \in Stops(i, t) PROVE f[j] = f[Skip(s, j)]
  <2>1. j \in 1..Len(s) /\ s[j] # ";"
    <3>1. CASE t.k = "cells"
      <4>1. j \in i..i + Len(Written(t)) - 1
        BY <3>1, Zenon DEF Stops
      <4> QED
        BY <3>1, <4>1, CellSkipped, Zenon DEF IsCell
    <3>2. CASE t.k # "cells"
      <4>1. j = i
        BY <3>2, Zenon DEF Stops
      <4> QED
        BY <1>1, <4>1, Zenon DEF IsWord
    <3> QED
      BY <3>1, <3>2
  <2> QED
    BY <2>1, Zenon DEF SemisStep
<1> QED
  BY <1>2, Zenon DEF Rides

\* The places of the first n of e, read off a chain.
IsChain(h, e, n) ==
    /\ \A k \in 1..n : k < n => h[k] = <<e[k]>> \o h[k + 1]
    /\ h[n] = <<>>

IsConcat(S, a, b) ==
    /\ a \o b \in Seq(S) /\ Len(a \o b) = Len(a) + Len(b)
    /\ \A j \in 1..Len(a) : (a \o b)[j] = a[j]
    /\ \A j \in 1..Len(b) : (a \o b)[Len(a) + j] = b[j]

\* What a concatenation holds.
LEMMA ConcatIs ==
    ASSUME NEW S, NEW a \in Seq(S), NEW b \in Seq(S)
    PROVE  IsConcat(S, a, b)
BY DEF IsConcat

AllIn(E, e, m, d) == \A j \in 1..d : e[m + j] \in E

IsConsed(e, m, d) ==
    <<e[m + 1]>> \o [j \in 1..d |-> e[m + 1 + j]] = [j \in 1..d + 1 |-> e[m + j]]

\* One more in front.
LEMMA Consed ==
    ASSUME NEW E, NEW e, NEW m \in Nat, NEW d \in Nat, AllIn(E, e, m, d + 1)
    PROVE  IsConsed(e, m, d)
<1> DEFINE a == <<e[m + 1]>>
           b == [j \in 1..d |-> e[m + 1 + j]]
           c == [j \in 1..d + 1 |-> e[m + j]]
<1>1. e[m + 1] \in E
  BY 1 \in 1..d + 1 DEF AllIn
<1>2. \A j \in 1..d : e[m + 1 + j] \in E
  <2> TAKE j \in 1..d
  <2>1. j + 1 \in 1..d + 1 /\ m + (j + 1) = m + 1 + j
    OBVIOUS
  <2> QED
    BY <2>1, Zenon DEF AllIn
<1>3. a \in Seq(E) /\ b \in Seq(E) /\ c \in Seq(E) /\ Len(a) = 1 /\ Len(b) = d /\ Len(c) = d + 1
  <2>1. \A j \in 1..d + 1 : e[m + j] \in E
    BY Zenon DEF AllIn
  <2> QED
    BY <1>1, <1>2, <2>1
<1>4. /\ a[1] = e[m + 1] /\ \A j \in 1..d : b[j] = e[m + 1 + j]
      /\ \A j \in 1..d + 1 : c[j] = e[m + j]
  OBVIOUS
<1> HIDE DEF a, b, c
<1>45. IsConcat(E, a, b)
  BY <1>3, ConcatIs, Zenon
<1>46. a \o b \in Seq(E) /\ Len(a \o b) = Len(a) + Len(b)
  BY <1>45, Zenon DEF IsConcat
<1>47. ASSUME NEW i \in 1..d PROVE (a \o b)[1 + i] = b[i]
  BY <1>3, <1>45, Zenon DEF IsConcat
<1>48. (a \o b)[1] = a[1]
  <2>1. 1 \in 1..1
    OBVIOUS
  <2> QED
    BY <1>3, <1>45, <2>1, Zenon DEF IsConcat
<1>5. \A j \in 1..d + 1 : (a \o b)[j] = c[j]
  <2> TAKE j \in 1..d + 1
  <2>1. CASE j = 1
    <3>1. c[j] = e[m + j]
      BY <1>4, Zenon
    <3> QED
      BY <1>4, <1>48, <2>1, <3>1, Zenon
  <2>2. CASE j # 1
    <3>1. PICK i \in 1..d : 1 + i = j /\ m + 1 + i = m + j
      <4>1. j - 1 \in 1..d /\ 1 + (j - 1) = j /\ m + 1 + (j - 1) = m + j
        BY <2>2
      <4> QED
        BY <4>1, Zenon
    <3>2. (a \o b)[j] = b[i]
      BY <1>47, <3>1, Zenon
    <3>3. b[i] = e[m + 1 + i]
      BY <1>4, <3>1, Zenon
    <3>4. c[j] = e[m + j]
      BY <1>4, Zenon
    <3> QED
      BY <3>1, <3>2, <3>3, <3>4, Zenon
  <2> QED
    BY <2>1, <2>2
<1>6. a \o b \in Seq(E) /\ Len(a \o b) = d + 1
  BY <1>3, <1>46
<1> QED
  <2>1. a \o b = c
    BY <1>3, <1>5, <1>6, SameSeq
  <2> QED
    BY <2>1 DEF a, b, c, IsConsed

\* A scan that notes each place and goes on to the next one has noted them all.
LEMMA ChainIs ==
    ASSUME NEW n \in Nat, n >= 1, NEW E, NEW e, AllIn(E, e, 0, n - 1), NEW h, IsChain(h, e, n)
    PROVE  h[1] = [j \in 1..n - 1 |-> e[j]]
<1> DEFINE P == {d \in Nat : d < n => h[n - d] = [j \in 1..d |-> e[n - d - 1 + j]]}
<1>1. 0 \in P
  <2>1. h[n - 0] = <<>>
    BY DEF IsChain
  <2>2. [j \in 1..0 |-> e[n - 0 - 1 + j]] = <<>>
    OBVIOUS
  <2> QED
    BY <2>1, <2>2
<1>2. ASSUME NEW d \in Nat, d \in P PROVE d + 1 \in P
  <2>1. SUFFICES ASSUME d + 1 < n
                 PROVE  h[n - (d + 1)] = [j \in 1..d + 1 |-> e[n - (d + 1) - 1 + j]]
    OBVIOUS
  <2>2. PICK k \in 1..n : k = n - (d + 1) /\ k < n /\ k + 1 = n - d /\ d < n
    BY <2>1
  <2>3. PICK m \in Nat : m = k - 1 /\ m = n - (d + 1) - 1 /\ m + 1 = k /\ m + 1 = n - d - 1
    BY <2>2
  <2>4. h[k] = <<e[k]>> \o h[k + 1]
    BY <2>2, Zenon DEF IsChain
  <2>5. h[k + 1] = [j \in 1..d |-> e[m + 1 + j]]
    <3>1. h[n - d] = [j \in 1..d |-> e[n - d - 1 + j]]
      BY <1>2, <2>2
    <3> QED
      BY <2>2, <2>3, <3>1, Zenon
  <2>6. AllIn(E, e, m, d + 1)
    <3>1. ASSUME NEW j \in 1..d + 1 PROVE e[m + j] \in E
      <4>1. m + j \in 1..n - 1 /\ 0 + (m + j) = m + j
        BY <2>1, <2>2, <2>3
      <4>2. e[0 + (m + j)] \in E
        BY <4>1, Zenon DEF AllIn
      <4> QED
        BY <4>1, <4>2, Zenon
    <3> QED
      BY <3>1, Zenon DEF AllIn
  <2>7. <<e[m + 1]>> \o [j \in 1..d |-> e[m + 1 + j]] = [j \in 1..d + 1 |-> e[m + j]]
    <3>1. IsConsed(e, m, d)
      BY <2>3, <2>6, Consed, Zenon
    <3> QED
      BY <3>1, Zenon DEF IsConsed
  <2> QED
    BY <2>2, <2>3, <2>4, <2>5, <2>7, Zenon
<1>3. \A d \in Nat : d \in P
  <2> HIDE DEF P
  <2> QED
    BY <1>1, <1>2, Induction
<1>4. PICK d \in Nat : d = n - 1 /\ d < n /\ n - d = 1 /\ n - d - 1 = 0
  OBVIOUS
<1>5. h[n - d] = [j \in 1..d |-> e[n - d - 1 + j]]
  <2>1. d \in P
    BY <1>3, Zenon
  <2> QED
    BY <1>4, <2>1
<1>6. [j \in 1..d |-> e[n - d - 1 + j]] = [j \in 1..d |-> e[j]]
  <2>1. \A j \in 1..d : n - d - 1 + j = j
    BY <1>4
  <2> QED
    BY <2>1, Zenon
<1> QED
  BY <1>4, <1>5, <1>6, Zenon

\* The cuts of a text, its two ends among them.
LEMMA CutsWithEnds ==
    ASSUME NEW n \in Nat, n >= 1, NEW e, \A k \in 0..n : e[k] \in Nat
    PROVE  <<e[0]>> \o [j \in 1..n - 1 |-> e[j]] \o <<e[n]>> = [j \in 1..n + 1 |-> e[j - 1]]
<1> DEFINE a == <<e[0]>>
           b == [j \in 1..n - 1 |-> e[j]]
           c == <<e[n]>>
           w == [j \in 1..n + 1 |-> e[j - 1]]
<1>1. e[0] \in Nat /\ e[n] \in Nat /\ \A j \in 1..n - 1 : e[j] \in Nat
  OBVIOUS
<1>2. a \in Seq(Nat) /\ b \in Seq(Nat) /\ c \in Seq(Nat) /\ Len(a) = 1 /\ Len(b) = n - 1 /\ Len(c) = 1
  BY <1>1
<1>3. w \in Seq(Nat) /\ Len(w) = n + 1
  <2>1. \A j \in 1..n + 1 : e[j - 1] \in Nat
    OBVIOUS
  <2> QED
    BY <2>1
<1>4. /\ a[1] = e[0] /\ c[1] = e[n] /\ \A j \in 1..n - 1 : b[j] = e[j]
      /\ \A j \in 1..n + 1 : w[j] = e[j - 1]
  OBVIOUS
<1> HIDE DEF a, b, c, w
<1>5. IsConcat(Nat, a, b) /\ IsConcat(Nat, a \o b, c)
  <2>1. IsConcat(Nat, a, b)
    BY <1>2, ConcatIs, Zenon
  <2>2. a \o b \in Seq(Nat)
    BY <2>1, Zenon DEF IsConcat
  <2> QED
    BY <1>2, <2>1, <2>2, ConcatIs, Zenon
<1>6. a \o b \in Seq(Nat) /\ Len(a \o b) = n
  <2>1. a \o b \in Seq(Nat) /\ Len(a \o b) = Len(a) + Len(b)
    BY <1>5, Zenon DEF IsConcat
  <2> QED
    BY <1>2, <2>1
<1>7. a \o b \o c \in Seq(Nat) /\ Len(a \o b \o c) = n + 1
  <2>1. a \o b \o c \in Seq(Nat) /\ Len(a \o b \o c) = Len(a \o b) + Len(c)
    BY <1>5, Zenon DEF IsConcat
  <2> QED
    BY <1>2, <1>6, <2>1
<1>8. \A j \in 1..n + 1 : (a \o b \o c)[j] = w[j]
  <2> TAKE j \in 1..n + 1
  <2>1. CASE j = 1
    <3>1. 1 \in 1..1 /\ 1 \in 1..n /\ 1 - 1 = 0 /\ 1 \in 1..n + 1
      OBVIOUS
    <3>2. (a \o b)[1] = a[1]
      BY <1>2, <1>5, <3>1, Zenon DEF IsConcat
    <3>3. (a \o b \o c)[1] = (a \o b)[1]
      BY <1>5, <1>6, <3>1, Zenon DEF IsConcat
    <3>4. w[1] = e[0]
      BY <1>4, <3>1, Zenon
    <3> QED
      BY <1>4, <2>1, <3>2, <3>3, <3>4, Zenon
  <2>2. CASE j \in 2..n
    <3>1. PICK i \in 1..n - 1 : 1 + i = j /\ i = j - 1 /\ j \in 1..n
      <4>1. j - 1 \in 1..n - 1 /\ 1 + (j - 1) = j /\ j \in 1..n
        BY <2>2
      <4> QED
        BY <4>1, Zenon
    <3>2. (a \o b)[1 + i] = b[i]
      BY <1>2, <1>5, <3>1, Zenon DEF IsConcat
    <3>3. (a \o b \o c)[j] = (a \o b)[j]
      BY <1>5, <1>6, <3>1, Zenon DEF IsConcat
    <3>4. w[j] = e[i] /\ b[i] = e[i]
      BY <1>4, <3>1, Zenon
    <3> QED
      BY <3>1, <3>2, <3>3, <3>4, Zenon
  <2>3. CASE j = n + 1
    <3>1. 1 \in 1..1 /\ n = n + 1 - 1
      OBVIOUS
    <3>2. (a \o b \o c)[n + 1] = c[1]
      BY <1>2, <1>5, <1>6, <3>1, Zenon DEF IsConcat
    <3>3. w[j] = e[n]
      <4>1. w[j] = e[j - 1]
        BY <1>4, Zenon
      <4>2. j - 1 = n
        BY <2>3
      <4> QED
        BY <4>1, <4>2, Zenon
    <3> QED
      BY <1>4, <2>3, <3>2, <3>3, Zenon
  <2>4. j = 1 \/ j \in 2..n \/ j = n + 1
    OBVIOUS
  <2> QED
    BY <2>1, <2>2, <2>3, <2>4, Zenon
<1> QED
  <2>1. a \o b \o c = w
    BY <1>3, <1>7, <1>8, SameSeq
  <2> QED
    BY <2>1 DEF a, b, c, w

\* A text of any number of statements, of any number of tokens each, is split
\* where its statements were joined: no semicolon inside a literal, a quoted name,
\* a dollar-quoted body or a comment is taken for one between two statements
\* (splitStatements, skipQuoted, skipDollarQuoted).
THEOREM StatementsAreSplit ==
    ASSUME NEW stmts, LegalText(stmts)
    PROVE  splitStatements(Sql(stmts)) = StatementsOf(stmts)
<1> DEFINE n == Len(stmts)
           s == Sql(stmts)
           T == TextCells(stmts)
           e == EndingOf(stmts)
           St == StatementsOf(stmts)
<1>1. n \in Nat /\ n >= 1 /\ s \in Seq(T) /\ \A k \in 1..n : LegalTokens(stmts[k]) /\ St[k] = Statement(stmts[k]) /\ St[k] \in Seq(T)
  <2>1. \A k \in 1..n : St[k] = Statement(stmts[k])
    BY Zenon DEF StatementsOf
  <2> QED
    BY <2>1, TextIs, Zenon DEF IsText
<1>2. PICK f : SemisStep(f, s) /\ splitStatements(s) = Between(s, <<0>> \o f[1] \o <<Len(s) + 1>>)
  BY <1>1, SemisIs, Zenon
<1>3. \A k \in 1..n : StatementAt(stmts, k, e[k - 1] + 1, e[k])
  BY TextLaid, Zenon
<1>4. e[0] = 0
  <2>1. 0 \in 0..n
    BY <1>1
  <2> QED
    BY <2>1, Zenon DEF EndingOf
<1>5. St = [k \in 1..n |-> Statement(stmts[k])]
  BY Zenon DEF StatementsOf
<1> DEFINE h == [k \in 1..n |-> f[e[k - 1] + 1]]
<1>6. \A k \in 1..n : h[k] = f[e[k - 1] + 1]
  BY Zenon
<1> HIDE DEF n, s, T, e, St, h
<1>7. ASSUME NEW k \in 1..n, NEW a, a = e[k - 1] + 1
      PROVE  /\ a \in Nat /\ a >= 1 /\ e[k] \in Nat /\ e[k] = a + Len(Statement(stmts[k]))
             /\ Stands(s, a, Statement(stmts[k]))
             /\ k < n => e[k] <= Len(s) /\ s[e[k]] = Semicolon
             /\ k = n => e[k] = Len(s) + 1
  BY <1>3, <1>7, Zenon DEF StatementAt, n, s
<1>8. \A k \in 0..n : e[k] \in Nat
  <2> TAKE k \in 0..n
  <2>1. k = 0 \/ k \in 1..n
    BY <1>1
  <2>2. 0 \in Nat
    OBVIOUS
  <2> QED
    BY <1>4, <1>7, <2>1, <2>2, Zenon
<1>9. ASSUME NEW k \in 1..n PROVE h[k] = f[e[k]]
  <2> DEFINE tokens == stmts[k]
  <2>1. PICK a \in Nat : a = e[k - 1] + 1 /\ a >= 1
    BY <1>7, Zenon
  <2>2. e[k] = a + Len(Statement(tokens)) /\ Stands(s, a, Statement(tokens)) /\ LegalTokens(tokens)
    BY <1>1, <1>7, <2>1, Zenon
  <2>3. Ends(s, e[k])
    <3>1. CASE k < n
      BY <1>7, <2>1, <3>1, Zenon DEF Ends, Semicolon
    <3>2. CASE k = n
      <4>1. e[k] = Len(s) + 1
        BY <1>7, <2>1, <3>2, Zenon
      <4>2. Len(s) \in Nat
        BY <1>1
      <4>3. ~(e[k] <= Len(s))
        BY <4>1, <4>2
      <4> QED
        BY <4>3, Zenon DEF Ends
    <3>3. k < n \/ k = n
      BY <1>1
    <3> QED
      BY <3>1, <3>2, <3>3
  <2> HIDE DEF tokens
  <2>4. LaidOut(s, a, tokens)
    BY <1>1, <2>1, <2>2, <2>3, StatementLaid, Zenon
  <2> DEFINE at == Places(a, tokens)
  <2>5. Laid(s, at, tokens, 1) /\ at[1] = a /\ at[Len(tokens) + 1] = e[k]
    BY <2>2, <2>4, Zenon DEF LaidOut
  <2>6. Len(tokens) \in Nat
    BY <2>2, StatementIs, Zenon DEF IsStatement
  <2> HIDE DEF at
  <2>7. PICK l \in Nat : l = Len(tokens)
    BY <2>6, Zenon
  <2>8. PICK z \in 1..Len(tokens) + 1 : z = l + 1 /\ z - 1 = l
    BY <2>7
  <2>9. \A m \in 1..l : Rides(f, s, at[m], tokens[m])
    <3> TAKE m \in 1..l
    <3>1. at[m] \in Nat /\ at[m] >= 1 /\ TokenAt(s, at[m], tokens[m])
      BY <2>5, <2>7, Zenon DEF Laid
    <3> QED
      BY <1>1, <1>2, <3>1, SemisRide, Zenon
  <2>10. f[at[1]] = f[at[z]]
    <3>1. RidesAll(f, s, at, tokens, 1, z)
      BY <2>8, <2>9, Zenon DEF RidesAll
    <3>2. 1 \in Nat
      OBVIOUS
    <3>3. s \in Seq(T) /\ Laid(s, at, tokens, 1)
      BY <1>1, <2>5, Zenon
    <3>4. z \in 1..Len(tokens) + 1
      BY <2>8, Zenon
    <3> QED
      BY <2>6, <3>1, <3>2, <3>3, <3>4, LaidRides
  <2>11. h[k] = f[a]
    BY <1>6, <2>1, Zenon
  <2> QED
    BY <2>5, <2>7, <2>8, <2>10, <2>11, Zenon
<1>10. IsChain(h, e, n)
  <2>1. ASSUME NEW k \in 1..n, k < n PROVE h[k] = <<e[k]>> \o h[k + 1]
    <3>1. PICK j \in 1..n : j = k + 1 /\ j - 1 = k
      <4>1. k + 1 \in 1..n /\ k + 1 - 1 = k
        BY <1>1, <2>1
      <4> QED
        BY <4>1
    <3>2. e[k] \in Nat /\ e[k] <= Len(s) /\ s[e[k]] = ";" /\ e[k] >= 1
      <4>1. PICK a \in Nat : a = e[k - 1] + 1 /\ a >= 1
        BY <1>7, Zenon
      <4>2. e[k] \in Nat /\ e[k] <= Len(s) /\ s[e[k]] = ";" /\ e[k] = a + Len(Statement(stmts[k]))
        BY <1>7, <2>1, <4>1, Zenon DEF Semicolon
      <4>3. PICK x \in Nat : x = Len(Statement(stmts[k]))
        <5>1. Len(Statement(stmts[k])) \in Nat
          <6>1. Statement(stmts[k]) \in Seq(T)
            BY <1>1, Zenon
          <6> QED
            BY <6>1
        <5> QED
          BY <5>1, Zenon
      <4>4. a + x >= 1
        BY <4>1, <4>3
      <4> QED
        BY <4>2, <4>3, <4>4, Zenon
    <3>3. PICK y \in Nat : y = e[k] /\ y >= 1 /\ y <= Len(s) /\ s[y] = ";"
      BY <3>2, Zenon
    <3>4. y \in 1..Len(s)
      <4>1. y \in Nat /\ y >= 1 /\ y <= Len(s)
        BY <3>3, Zenon
      <4>2. Len(s) \in Nat
        BY <1>1
      <4> QED
        BY <4>1, <4>2
    <3>5. f[y] = <<y>> \o f[y + 1]
      BY <1>2, <3>3, <3>4, Zenon DEF SemisStep
    <3>6. h[j] = f[y + 1]
      BY <1>6, <3>1, <3>3, Zenon
    <3> QED
      BY <1>9, <3>1, <3>3, <3>5, <3>6, Zenon
  <2>2. h[n] = <<>>
    <3>1. n \in 1..n
      BY <1>1
    <3>2. e[n] = Len(s) + 1
      BY <1>7, <3>1, Zenon
    <3> QED
      BY <1>2, <1>9, <3>1, <3>2, Zenon DEF SemisStep
  <2> QED
    BY <2>1, <2>2, Zenon DEF IsChain
<1>11. f[1] = [j \in 1..n - 1 |-> e[j]]
  <2>1. h[1] = [j \in 1..n - 1 |-> e[j]]
    <3>1. AllIn(Nat, e, 0, n - 1)
      <4>1. \A k \in 1..n - 1 : 0 + k \in 0..n
        BY <1>1
      <4> QED
        BY <1>8, <4>1, Zenon DEF AllIn
    <3>2. n \in Nat /\ n >= 1
      BY <1>1, Zenon
    <3> QED
      BY <1>10, <3>1, <3>2, ChainIs
  <2>2. 1 \in 1..n /\ 1 - 1 = 0 /\ 0 + 1 = 1
    BY <1>1
  <2>3. h[1] = f[e[1 - 1] + 1]
    BY <1>6, <2>2, Zenon
  <2> QED
    BY <1>4, <2>1, <2>2, <2>3, Zenon
<1>12. <<0>> \o f[1] \o <<Len(s) + 1>> = [j \in 1..n + 1 |-> e[j - 1]]
  <2>1. n \in 1..n
    BY <1>1
  <2>2. e[n] = Len(s) + 1
    BY <1>7, <2>1, Zenon
  <2>3. <<e[0]>> \o [j \in 1..n - 1 |-> e[j]] \o <<e[n]>> = [j \in 1..n + 1 |-> e[j - 1]]
    BY <1>1, <1>8, CutsWithEnds, Zenon
  <2> QED
    BY <1>4, <1>11, <2>2, <2>3, Zenon
<1> DEFINE cuts == [j \in 1..n + 1 |-> e[j - 1]]
<1>13. Len(cuts) = n + 1 /\ \A j \in 1..n + 1 : cuts[j] = e[j - 1]
  BY <1>1
<1>14. splitStatements(s) = [k \in 1..Len(cuts) - 1 |-> SubSeq(s, cuts[k] + 1, cuts[k + 1] - 1)]
  BY <1>2, <1>12, Zenon DEF Between
<1> HIDE DEF cuts
<1>15. Len(cuts) - 1 = n
  BY <1>1, <1>13
<1>16. \A k \in 1..n : SubSeq(s, cuts[k] + 1, cuts[k + 1] - 1) = Statement(stmts[k])
  <2> TAKE k \in 1..n
  <2>1. PICK j \in 1..n + 1 : j = k + 1 /\ j - 1 = k /\ k \in 1..n + 1
    <3>1. k + 1 \in 1..n + 1 /\ k + 1 - 1 = k /\ k \in 1..n + 1
      BY <1>1
    <3> QED
      BY <3>1
  <2>2. cuts[k] = e[k - 1] /\ cuts[j] = e[k]
    BY <1>13, <2>1, Zenon
  <2>3. PICK a \in Nat : a = e[k - 1] + 1 /\ a >= 1
    BY <1>7, Zenon
  <2>4. e[k] = a + Len(Statement(stmts[k])) /\ Stands(s, a, Statement(stmts[k])) /\ Statement(stmts[k]) \in Seq(T)
    BY <1>1, <1>7, <2>3, Zenon
  <2>5. SubSeq(s, a, a + Len(Statement(stmts[k])) - 1) = Statement(stmts[k])
    BY <1>1, <2>3, <2>4, CutOut, Zenon
  <2>6. cuts[k] + 1 = a
    BY <2>2, <2>3, Zenon
  <2>7. cuts[k + 1] = a + Len(Statement(stmts[k]))
    BY <2>1, <2>2, <2>4, Zenon
  <2> QED
    BY <2>5, <2>6, <2>7
<1>17. [k \in 1..n |-> SubSeq(s, cuts[k] + 1, cuts[k + 1] - 1)] = St
  BY <1>5, <1>16, Zenon
<1> QED
  BY <1>14, <1>15, <1>17, Zenon DEF s, St

-----------------------------------------------------------------------------
(* What leads a statement.                                                  *)

Dropped(s, i) ==
    /\ i <= Len(s)
    /\ s[i] \in Blanks \/ Stands(s, i, <<"-", "-">>) \/ Stands(s, i, <<"/", "*">>)

IsLeading(f, s) ==
    LET dropped(i) == \/ s[i] \in Blanks
                      \/ Starts(s, i, <<"-", "-">>) \/ Starts(s, i, <<"/", "*">>)
    IN  f = [i \in 1..Len(s) + 1 |->
               IF i <= Len(s) /\ dropped(i) THEN f[Skip(s, i)] ELSE From(s, i)]

LeadingStep(f, s) ==
    \A i \in 1..Len(s) + 1 :
      (Dropped(s, i) => f[i] = f[Skip(s, i)]) /\ (~Dropped(s, i) => f[i] = From(s, i))

\* What skipLeading drops, in terms of what stands where.
LEMMA DroppedIs ==
    ASSUME NEW S, NEW s \in Seq(S), NEW i \in 1..Len(s) + 1
    PROVE  Dropped(s, i) <=>
             i <= Len(s) /\ (\/ s[i] \in Blanks
                             \/ Starts(s, i, <<"-", "-">>) \/ Starts(s, i, <<"/", "*">>))
<1>1. <<"-", "-">> \in Seq({"-"}) /\ <<"/", "*">> \in Seq({"/", "*"})
  OBVIOUS
<1>2. /\ Starts(s, i, <<"-", "-">>) <=> Stands(s, i, <<"-", "-">>)
      /\ Starts(s, i, <<"/", "*">>) <=> Stands(s, i, <<"/", "*">>)
  BY <1>1, StartsIs, Zenon
<1> QED
  BY <1>2, Zenon DEF Dropped

\* skipLeading is well defined.
LEMMA LeadingIs ==
    ASSUME NEW S, NEW s \in Seq(S)
    PROVE  \E f : LeadingStep(f, s) /\ skipLeading(s) = f[1]
<1> DEFINE M == Len(s) + 1
           J == [i \in 1..M |-> IF Dropped(s, i) THEN Skip(s, i) ELSE 0]
           A == [i \in 1..M |-> From(s, i)]
           C == [i \in 1..M |-> FALSE]
           B == [i \in 1..M |-> <<>>]
<1>1. M \in Nat /\ Len(s) \in Nat
  OBVIOUS
<1>2. ASSUME NEW i \in 1..M, Dropped(s, i) PROVE Skip(s, i) \in i + 1..M /\ Skip(s, i) # 0
  <2>1. i <= Len(s)
    BY <1>2, Zenon DEF Dropped
  <2>2. i \in 1..Len(s)
    BY <1>1, <2>1
  <2>3. Skip(s, i) \in i + 1..Len(s) + 1
    BY <2>2, SkipAdvances, Zenon
  <2> QED
    BY <1>1, <2>3
<1>3. Onward(M, J)
  <2>1. ASSUME NEW i \in 1..M PROVE J[i] = 0 \/ J[i] \in i + 1..M
    <3> HIDE DEF M
    <3>1. J[i] = IF Dropped(s, i) THEN Skip(s, i) ELSE 0
      BY Zenon
    <3> HIDE DEF J
    <3> QED
      BY <1>2, <3>1, Zenon
  <2> HIDE DEF J
  <2> QED
    BY <2>1, Zenon DEF Onward
<1>4. PICK f : IsUnfolded(f, M, J, A, C, B)
  <2> HIDE DEF M, J, A, C, B
  <2> QED
    BY <1>1, <1>3, Unfolds, Zenon
<1> DEFINE Val(h, i) == IF Dropped(s, i) THEN h[Skip(s, i)] ELSE From(s, i)
<1>5. ASSUME NEW i \in 1..M
      PROVE  (IF J[i] = 0 THEN A[i] ELSE IF C[i] THEN B[i] \o f[J[i]] ELSE f[J[i]]) = Val(f, i)
  <2> HIDE DEF M
  <2>1. J[i] = (IF Dropped(s, i) THEN Skip(s, i) ELSE 0) /\ A[i] = From(s, i) /\ ~C[i]
    BY Zenon
  <2> HIDE DEF J, A, C, B
  <2>2. CASE Dropped(s, i)
    BY <1>2, <2>1, <2>2, Zenon
  <2>3. CASE ~Dropped(s, i)
    BY <2>1, <2>3, Zenon
  <2> QED
    BY <2>2, <2>3, Zenon
<1>6. f = [i \in 1..M |-> Val(f, i)]
  <2>1. f = [i \in 1..M |-> IF J[i] = 0 THEN A[i] ELSE IF C[i] THEN B[i] \o f[J[i]] ELSE f[J[i]]]
    BY <1>4, Zenon DEF IsUnfolded
  <2> HIDE DEF M, J, A, C, B, Val
  <2> QED
    BY <1>5, <2>1, Zenon
<1> DEFINE Raw0(h, i) ==
             IF i <= Len(s) /\ (\/ s[i] \in Blanks
                                \/ Starts(s, i, <<"-", "-">>) \/ Starts(s, i, <<"/", "*">>))
             THEN h[Skip(s, i)] ELSE From(s, i)
<1>7. ASSUME NEW h, NEW i \in 1..M PROVE Raw0(h, i) = Val(h, i)
  BY DroppedIs, Zenon
<1>8. IsLeading(f, s)
  <2>1. [i \in 1..M |-> Val(f, i)] = [i \in 1..M |-> Raw0(f, i)]
    <3> HIDE DEF Val, Raw0, M
    <3> QED
      BY <1>7, Zenon
  <2> QED
    BY <1>6, <2>1, Zenon DEF IsLeading
<1> DEFINE g == CHOOSE g : IsLeading(g, s)
<1>9. IsLeading(g, s)
  BY <1>8, Zenon
<1>10. skipLeading(s) = g[1]
  BY Zenon DEF skipLeading, IsLeading
<1> HIDE DEF g
<1>11. ASSUME NEW i \in 1..M PROVE g[i] = Val(g, i)
  <2>1. g[i] = Raw0(g, i)
    BY <1>9, Zenon DEF IsLeading
  <2> HIDE DEF Val, Raw0, M
  <2> QED
    BY <1>7, <2>1, Zenon
<1> QED
  BY <1>10, <1>11, Zenon DEF LeadingStep

IsReal(tokens, i, r) ==
    /\ r \in Nat /\ r <= Len(tokens) + 1
    /\ i <= Len(tokens) + 1 => r >= i
    /\ i > Len(tokens) => r = Len(tokens) + 1
    /\ \A m \in i..r - 1 : IsTrivia(tokens[m])
    /\ r <= Len(tokens) => r >= i /\ ~IsTrivia(tokens[r])

\* The first token that counts is a token that counts, and none before it does.
LEMMA RealIs ==
    ASSUME NEW tokens, Len(tokens) \in Nat, NEW i \in Nat, i >= 1
    PROVE  IsReal(tokens, i, Real(tokens, i))
<1> DEFINE n == Len(tokens)
           R == {j \in i..n : ~IsTrivia(tokens[j])}
<1>1. n \in Nat
  OBVIOUS
<1>2. Real(tokens, i) = Min(R \cup {n + 1})
  BY Zenon DEF Real
<1>3. \A j \in R : j \in i..n /\ ~IsTrivia(tokens[j])
  BY Zenon
<1>4. \A j \in i..n : j \in R \/ IsTrivia(tokens[j])
  BY Zenon
<1> HIDE DEF R, n
<1>5. R \subseteq Nat /\ R \cup {n + 1} \subseteq Nat
  BY <1>1, <1>3
<1>6. CASE R = {}
  <2>1. Min(R \cup {n + 1}) = n + 1
    <3>1. n + 1 \in R \cup {n + 1} /\ \A x \in R \cup {n + 1} : n + 1 <= x
      BY <1>1, <1>6
    <3> QED
      BY <1>5, <3>1, LeastIs, Zenon
  <2>2. PICK r \in Nat : r = n + 1
    BY <1>1
  <2>3. ASSUME NEW m \in i..r - 1 PROVE IsTrivia(tokens[m])
    <3>1. m \in i..n
      BY <1>1, <2>2
    <3> QED
      BY <1>4, <1>6, <3>1, Zenon
  <2>4. r <= n + 1 /\ (i <= n + 1 => r >= i) /\ ~(r <= n)
    BY <1>1, <2>2
  <2>5. IsReal(tokens, i, r)
    BY <2>2, <2>3, <2>4, Zenon DEF IsReal, n
  <2> QED
    BY <1>2, <2>1, <2>2, <2>5, Zenon
<1>7. CASE R # {}
  <2>1. PICK r \in R : \A x \in R : r <= x
    BY <1>5, <1>7, Least, Zenon
  <2>2. r \in i..n /\ ~IsTrivia(tokens[r])
    BY <1>3, <2>1, Zenon
  <2>3. Min(R \cup {n + 1}) = r
    <3>1. r \in R \cup {n + 1} /\ \A x \in R \cup {n + 1} : r <= x
      BY <1>1, <2>1, <2>2
    <3> QED
      BY <1>5, <3>1, LeastIs, Zenon
  <2>4. ASSUME NEW m \in i..r - 1 PROVE IsTrivia(tokens[m])
    <3>1. m \in i..n /\ ~(r <= m)
      BY <1>1, <2>2
    <3> QED
      BY <1>4, <2>1, <3>1, Zenon
  <2>5. r \in Nat /\ r <= n + 1 /\ r >= i /\ ~(i > n)
    BY <1>1, <2>2
  <2> QED
    BY <1>2, <2>2, <2>3, <2>4, <2>5, Zenon DEF IsReal, n
<1> QED
  BY <1>6, <1>7

\* Comments and blanks are dropped, and nothing else is.
LEMMA TriviaDropped ==
    ASSUME NEW S, NEW s \in Seq(S), NEW f, LeadingStep(f, s),
           NEW i \in Nat, i >= 1, NEW t, TokenAt(s, i, t)
    PROVE  /\ IsTrivia(t) => Rides(f, s, i, t)
           /\ ~IsTrivia(t) => f[i] = From(s, i)
<1>1. IsWord(s, i, t) /\ LegalToken(t) /\ i \in 1..Len(s) /\ i <= Len(s)
  <2>1. IsWord(s, i, t)
    BY TokenIs, Zenon
  <2>2. i \in 1..Len(s)
    BY <2>1, Zenon DEF IsWord
  <2>3. i <= Len(s)
    BY <2>2
  <2> QED
    BY <2>1, <2>2, <2>3, Zenon DEF TokenAt
<1>2. i \in 1..Len(s) + 1 /\ \A j \in 1..Len(s) : j \in 1..Len(s) + 1 /\ j <= Len(s)
  BY <1>1
<1>3. t.k = "cells" => i \in i..i + Len(Written(t)) - 1 /\ Len(t.body) \in Nat /\ DOMAIN t.body = 1..Len(t.body)
                       /\ Written(t) = t.body
  <2>1. Len(Written(t)) \in Nat /\ Len(Written(t)) >= 1
    BY <1>1, WrittenType, Zenon
  <2>2. i \in i..i + Len(Written(t)) - 1
    BY <2>1
  <2> QED
    BY <1>1, <2>2, TokenParts, WrittenIs, Zenon
<1>4. ASSUME IsTrivia(t) PROVE Rides(f, s, i, t)
  <2>1. CASE t.k \in {"line", "block"}
    <3>1. Dropped(s, i)
      BY <1>1, <2>1, Zenon DEF IsWord, Dropped
    <3>2. t.k # "cells"
      BY <2>1
    <3>3. \A j \in Stops(i, t) : j = i
      BY <3>2, Zenon DEF Stops
    <3> QED
      BY <1>2, <3>1, <3>3, Zenon DEF Rides, LeadingStep
  <2>2. CASE t.k = "cells" /\ ToSet(t.body) \subseteq Blanks
    <3>1. ASSUME NEW j \in Stops(i, t) PROVE f[j] = f[Skip(s, j)]
      <4>1. j \in i..i + Len(Written(t)) - 1
        BY <2>2, Zenon DEF Stops
      <4>2. j \in 1..Len(s) /\ s[j] = t.body[j - i + 1]
        <5>1. IsCell(s, i, t, j)
          BY <2>2, <4>1, CellSkipped, Zenon
        <5> QED
          BY <5>1, Zenon DEF IsCell
      <4>3. j - i + 1 \in 1..Len(Written(t))
        <5>1. Len(Written(t)) \in Nat
          BY <1>1, WrittenType, Zenon
        <5> QED
          BY <4>1, <5>1
      <4>4. s[j] \in Blanks
        BY <1>3, <2>2, <4>2, <4>3, Zenon DEF ToSet
      <4>5. Dropped(s, j)
        BY <1>2, <4>2, <4>4, Zenon DEF Dropped
      <4> QED
        BY <1>2, <4>2, <4>5, Zenon DEF LeadingStep
    <3> QED
      BY <3>1, Zenon DEF Rides
  <2> QED
    BY <1>4, <2>1, <2>2, Zenon DEF IsTrivia
<1>5. ASSUME ~IsTrivia(t) PROVE f[i] = From(s, i)
  <2>1. t.k \notin {"line", "block"}
    BY <1>5, Zenon DEF IsTrivia
  <2>2. ~Stands(s, i, <<"-", "-">>) /\ ~Stands(s, i, <<"/", "*">>)
    BY <1>1, <2>1, Zenon DEF IsWord
  <2>3. s[i] \notin Blanks
    <3>1. CASE t.k = "cells"
      <4>1. s[i] = t.body[1] /\ LegalCells(t.body)
        <5>1. t.k # "dollar" /\ t.k # "line" /\ t.k # "block" /\ t.k # "literal" /\ t.k # "quoted"
          BY <3>1
        <5> QED
          BY <1>1, <3>1, <5>1, Zenon DEF IsWord, LegalToken
      <4>2. ~(ToSet(t.body) \subseteq Blanks)
        BY <1>5, <3>1, Zenon DEF IsTrivia
      <4> QED
        BY <4>1, <4>2, Zenon DEF LegalCells
    <3>2. CASE t.k = "dollar"
      <4>1. s[i] = "$"
        BY <1>1, <3>2, Zenon DEF IsWord
      <4> QED
        BY <4>1 DEF Blanks
    <3>3. CASE t.k \in {"literal", "quoted"}
      <4>1. s[i] = QuoteOf(t)
        BY <1>1, <3>3, Zenon DEF IsWord
      <4> QED
        BY <4>1 DEF Blanks, QuoteOf
    <3>4. t.k \in {"literal", "quoted", "dollar", "line", "block", "cells"}
      BY <1>1, FirstCell, Zenon
    <3> QED
      BY <2>1, <3>1, <3>2, <3>3, <3>4, Zenon
  <2> QED
    BY <1>2, <2>2, <2>3, Zenon DEF Dropped, LeadingStep
<1> QED
  BY <1>4, <1>5

\* What is left when what leads a statement is dropped: it, from the first
\* token that counts.
LEMMA LeadingReal ==
    ASSUME NEW S, NEW s \in Seq(S), NEW tokens, Len(tokens) \in Nat, NEW at,
           NEW a \in 1..Len(tokens) + 1, Laid(s, at, tokens, a),
           at[a] = 1, at[Len(tokens) + 1] = Len(s) + 1
    PROVE  skipLeading(s) = From(s, at[Real(tokens, a)])
<1> DEFINE n == Len(tokens)
           r == Real(tokens, a)
<1>1. n \in Nat /\ a \in Nat /\ a >= 1 /\ a <= n + 1 /\ Len(s) \in Nat
  OBVIOUS
<1>2. PICK f : LeadingStep(f, s) /\ skipLeading(s) = f[1]
  BY LeadingIs, Zenon
<1>3. IsReal(tokens, a, r)
  BY <1>1, RealIs, Zenon
<1> HIDE DEF r
<1>4. r \in Nat /\ r <= n + 1 /\ r >= a /\ (r <= n => ~IsTrivia(tokens[r]))
  BY <1>1, <1>3, Zenon DEF IsReal
<1>5. r \in a..Len(tokens) + 1
  BY <1>1, <1>4
<1>6. \A m \in a..r - 1 : m \in a..Len(tokens)
  BY <1>1, <1>4
<1>7. RidesAll(f, s, at, tokens, a, r)
  <2>1. ASSUME NEW m \in a..r - 1 PROVE Rides(f, s, at[m], tokens[m])
    <3>1. IsTrivia(tokens[m])
      BY <1>3, Zenon DEF IsReal
    <3>2. at[m] \in Nat /\ at[m] >= 1 /\ TokenAt(s, at[m], tokens[m])
      BY <1>6, Zenon DEF Laid
    <3> QED
      BY <1>2, <3>1, <3>2, TriviaDropped, Zenon
  <2> QED
    BY <2>1, Zenon DEF RidesAll
<1>8. f[at[a]] = f[at[r]]
  BY <1>1, <1>5, <1>7, LaidRides
<1>9. f[at[r]] = From(s, at[r])
  <2>1. CASE r <= n
    <3>1. r \in a..Len(tokens)
      BY <1>1, <1>4, <2>1
    <3>2. at[r] \in Nat /\ at[r] >= 1 /\ TokenAt(s, at[r], tokens[r])
      BY <3>1, Zenon DEF Laid
    <3> QED
      BY <1>2, <1>4, <2>1, <3>2, TriviaDropped, Zenon
  <2>2. CASE r = n + 1
    <3>1. PICK z \in 1..Len(s) + 1 : z = Len(s) + 1 /\ ~(z <= Len(s))
      BY <1>1
    <3>2. f[z] = From(s, z)
      BY <1>2, <3>1, Zenon DEF LeadingStep, Dropped
    <3>3. at[r] = z
      BY <2>2, <3>1, Zenon
    <3> QED
      BY <3>2, <3>3, Zenon
  <2>3. r <= n \/ r = n + 1
    BY <1>1, <1>4
  <2> QED
    BY <2>1, <2>2, <2>3, Zenon
<1> QED
  BY <1>2, <1>8, <1>9, Zenon DEF r

\* The rest of a statement, from one of its tokens on.
IsRest(s, q, u) ==
    /\ Len(u) = Len(s) - q + 1 /\ \A k \in 1..Len(u) : u[k] = s[q + k - 1]

\* The rest of a text from q on.
LEMMA RestIs ==
    ASSUME NEW S, NEW s \in Seq(S), NEW q \in 1..Len(s) + 1
    PROVE  From(s, q) \in Seq(S) /\ IsRest(s, q, From(s, q))
BY DEF From, IsRest

\* What stands in a text stands in its rest.
LEMMA StandsInRest ==
    ASSUME NEW S, NEW s \in Seq(S), NEW q \in 1..Len(s) + 1, NEW u \in Seq(S), IsRest(s, q, u),
           NEW i \in Nat, i >= 1, NEW j \in Nat, j = q + i - 1, NEW T, NEW w \in Seq(T)
    PROVE  Stands(s, j, w) <=> Stands(u, i, w)
<1>1. Len(w) \in Nat /\ Len(u) \in Nat /\ Len(s) \in Nat /\ Len(u) = Len(s) - q + 1
  BY DEF IsRest
<1>2. j + Len(w) <= Len(s) + 1 <=> i + Len(w) <= Len(u) + 1
  BY <1>1
<1>3. ASSUME i + Len(w) <= Len(u) + 1, NEW k \in 1..Len(w) PROVE s[j + k - 1] = u[i + k - 1]
  <2>1. PICK x \in 1..Len(u) : x = i + k - 1 /\ j + k - 1 = q + x - 1
    BY <1>1, <1>3
  <2>2. u[x] = s[q + x - 1]
    BY Zenon DEF IsRest
  <2> QED
    BY <2>1, <2>2, Zenon
<1> QED
  BY <1>2, <1>3, Zenon DEF Stands

\* So does a token.
LEMMA TokenInRest ==
    ASSUME NEW S, NEW s \in Seq(S), NEW q \in 1..Len(s) + 1, NEW u \in Seq(S), IsRest(s, q, u),
           NEW i \in Nat, i >= 1, NEW j \in Nat, j = q + i - 1, NEW t, TokenAt(s, j, t)
    PROVE  TokenAt(u, i, t)
<1> DEFINE w == Written(t)
<1>1. LegalToken(t) /\ Stands(s, j, w) /\ Clear(s, j + Len(w), t)
  BY Zenon DEF TokenAt
<1>2. w \in Seq(TokenCells(t)) /\ Len(w) \in Nat
  BY <1>1, WrittenType, Zenon
<1> HIDE DEF w
<1>3. Stands(u, i, w)
  <2>1. Stands(s, j, w) <=> Stands(u, i, w)
    BY <1>2, StandsInRest
  <2> QED
    BY <1>1, <2>1, Zenon
<1>4. PICK l \in Nat : l = Len(w)
  BY <1>2, Zenon
<1>5. Len(u) = Len(s) - q + 1 /\ Len(s) \in Nat /\ Len(u) \in Nat
  BY DEF IsRest
<1>6. ASSUME i + l <= Len(u) PROVE j + l <= Len(s) /\ u[i + l] = s[j + l]
  <2>1. PICK x \in 1..Len(u) : x = i + l /\ q + x - 1 = j + l
    BY <1>5, <1>6
  <2>2. u[x] = s[q + x - 1]
    BY Zenon DEF IsRest
  <2>3. j + l <= Len(s)
    BY <1>5, <1>6
  <2> QED
    BY <2>1, <2>2, <2>3, Zenon
<1>7. Clear(u, i + l, t)
  <2>1. CASE i + l <= Len(u)
    BY <1>1, <1>4, <1>6, <2>1, Zenon DEF Clear
  <2>2. CASE ~(i + l <= Len(u))
    BY <2>2, Zenon DEF Clear
  <2> QED
    BY <2>1, <2>2
<1> QED
  BY <1>1, <1>3, <1>4, <1>7, Zenon DEF TokenAt, w

\* The tokens of a statement from the a-th on, in what is left from there on.
LEMMA LaidGrows ==
    ASSUME NEW s, NEW tokens, Len(tokens) \in Nat, NEW at, NEW a \in Nat, a <= Len(tokens) + 1,
           at[a] \in Nat, Laid(s, at, tokens, a)
    PROVE  \A m \in a..Len(tokens) + 1 : at[m] \in Nat /\ at[m] >= at[a]
<1> DEFINE n == Len(tokens)
           P == {d \in Nat : a + d <= n + 1 => at[a + d] \in Nat /\ at[a + d] >= at[a]}
<1>0. PICK x \in Nat : x = at[a]
  BY Zenon
<1>1. 0 \in P
  <2>1. a + 0 = a /\ x >= x
    BY <1>0
  <2> QED
    BY <1>0, <2>1, Zenon
<1>2. ASSUME NEW d \in Nat, d \in P PROVE d + 1 \in P
  <2>1. SUFFICES ASSUME a + (d + 1) <= n + 1
                 PROVE  at[a + (d + 1)] \in Nat /\ at[a + (d + 1)] >= at[a]
    OBVIOUS
  <2>2. PICK m \in a..n : m = a + d /\ m <= n + 1 /\ m + 1 = a + (d + 1)
    BY <2>1
  <2>3. at[m] \in Nat /\ at[m] >= x
    BY <1>0, <1>2, <2>2, Zenon
  <2>4. LegalToken(tokens[m]) /\ at[m + 1] = at[m] + Len(Written(tokens[m]))
    BY <2>2, Zenon DEF Laid, TokenAt
  <2>5. PICK l \in Nat : l = Len(Written(tokens[m]))
    BY <2>4, WrittenType, Zenon
  <2>6. PICK y \in Nat : y = at[m] /\ y >= x
    BY <2>3, Zenon
  <2>7. at[m + 1] = y + l
    BY <2>4, <2>5, <2>6, Zenon
  <2>8. y + l \in Nat /\ y + l >= x
    BY <1>0, <2>5, <2>6
  <2> QED
    BY <1>0, <2>2, <2>7, <2>8, Zenon
<1>3. \A d \in Nat : d \in P
  <2> HIDE DEF P
  <2> QED
    BY <1>1, <1>2, Induction
<1> SUFFICES ASSUME NEW m \in a..n + 1 PROVE at[m] \in Nat /\ at[m] >= at[a]
  OBVIOUS
<1>4. PICK d \in Nat : a + d = m /\ a + d <= n + 1
  <2>1. m - a \in Nat /\ a + (m - a) = m /\ m <= n + 1
    OBVIOUS
  <2> QED
    BY <2>1
<1>5. d \in P
  BY <1>3, <1>4, Zenon
<1> QED
  BY <1>4, <1>5, Zenon

IsRelaid(s, tokens, at, a, u, b) ==
    /\ Laid(u, b, tokens, a) /\ b[a] = 1
    /\ at[Len(tokens) + 1] = Len(s) + 1 => b[Len(tokens) + 1] = Len(u) + 1

Relaid(tokens, at, a) == [m \in a..Len(tokens) + 1 |-> at[m] - at[a] + 1]

\* The tokens that are left stand one behind the other in what is left.
LEMMA RelaidIs ==
    ASSUME NEW S, NEW s \in Seq(S), NEW tokens, Len(tokens) \in Nat, NEW at,
           NEW a \in 1..Len(tokens) + 1, Laid(s, at, tokens, a),
           NEW q \in 1..Len(s) + 1, at[a] = q, NEW u \in Seq(S), IsRest(s, q, u)
    PROVE  IsRelaid(s, tokens, at, a, u, Relaid(tokens, at, a))
<1> DEFINE n == Len(tokens)
           b == Relaid(tokens, at, a)
<1>1. n \in Nat /\ a \in Nat /\ a <= n + 1 /\ q \in Nat /\ q >= 1 /\ Len(s) \in Nat
  OBVIOUS
<1>2. \A m \in a..n + 1 : at[m] \in Nat /\ at[m] >= q
  BY <1>1, LaidGrows, Zenon
<1>3. \A m \in a..n + 1 : b[m] = at[m] - q + 1
  BY Zenon DEF Relaid
<1> HIDE DEF b, n
<1>4. ASSUME NEW m \in a..n
      PROVE  b[m] \in Nat /\ b[m] >= 1 /\ TokenAt(u, b[m], tokens[m])
             /\ b[m + 1] = b[m] + Len(Written(tokens[m]))
  <2>1. PICK j \in Nat : j = at[m] /\ j >= 1 /\ TokenAt(s, j, tokens[m])
                         /\ at[m + 1] = j + Len(Written(tokens[m]))
    BY Zenon DEF Laid, n
  <2>2. m \in a..n + 1 /\ m + 1 \in a..n + 1
    BY <1>1
  <2>3. j >= q
    BY <1>2, <2>1, <2>2, Zenon
  <2>35. j \in Nat /\ j >= q /\ q \in Nat
    BY <1>1, <2>1, <2>3, Zenon
  <2>4. PICK i \in Nat : i = j - q + 1 /\ i >= 1 /\ j = q + i - 1
    <3>1. j - q + 1 \in Nat /\ j - q + 1 >= 1 /\ j = q + (j - q + 1) - 1
      BY <2>35
    <3> QED
      BY <3>1
  <2>5. b[m] = i
    BY <1>3, <2>1, <2>2, <2>4, Zenon
  <2>6. TokenAt(u, i, tokens[m])
    <3>1. TokenAt(s, j, tokens[m]) /\ j \in Nat /\ i \in Nat /\ i >= 1 /\ j = q + i - 1
      BY <2>1, <2>4, Zenon
    <3> QED
      BY <3>1, TokenInRest
  <2>7. Len(Written(tokens[m])) \in Nat
    BY <2>1, WrittenType, Zenon DEF TokenAt
  <2>8. PICK l \in Nat : l = Len(Written(tokens[m]))
    BY <2>7, Zenon
  <2>9. b[m + 1] = (j + l) - q + 1
    BY <1>3, <2>1, <2>2, <2>8, Zenon
  <2>10. (j + l) - q + 1 = i + l
    BY <2>35, <2>4, <2>8
  <2> QED
    BY <2>4, <2>5, <2>6, <2>8, <2>9, <2>10, Zenon
<1>5. b[a] = 1
  <2>1. a \in a..n + 1 /\ q - q + 1 = 1
    BY <1>1
  <2> QED
    BY <1>3, <2>1, Zenon
<1>6. ASSUME at[n + 1] = Len(s) + 1 PROVE b[n + 1] = Len(u) + 1
  <2>1. n + 1 \in a..n + 1
    BY <1>1
  <2>2. b[n + 1] = (Len(s) + 1) - q + 1
    BY <1>3, <1>6, <2>1, Zenon
  <2>3. Len(u) = Len(s) - q + 1
    BY DEF IsRest
  <2>4. Len(u) + 1 = (Len(s) + 1) - q + 1
    BY <1>1, <2>3
  <2> QED
    BY <2>2, <2>4, Zenon
<1> QED
  BY <1>4, <1>5, <1>6, Zenon DEF IsRelaid, Laid, n, b

-----------------------------------------------------------------------------
(* The name that is listened to.                                            *)

DoubleQuote == "\""

IsUnquoted(f, s) ==
    f = [i \in 1..Len(s) + 1 |->
           IF i <= Len(s) /\ isIdentByte(s[i])
           THEN <<ToLower(s)[i]>> \o f[i + 1] ELSE <<>>]

Named(s, i) == i <= Len(s) /\ isIdentByte(s[i])

UnquotedStep(f, s) ==
    \A i \in 1..Len(s) + 1 :
      /\ Named(s, i) => f[i] = <<ToLower(s)[i]>> \o f[i + 1]
      /\ ~Named(s, i) => f[i] = <<>>

\* The scan of an unquoted name is well defined.
LEMMA UnquotedIs ==
    ASSUME NEW S, NEW s \in Seq(S), s # <<>>, s[1] # DoubleQuote
    PROVE  \E f : UnquotedStep(f, s) /\ parseIdentifier(s) = f[1]
<1> DEFINE M == Len(s) + 1
           J == [i \in 1..M |-> IF Named(s, i) THEN i + 1 ELSE 0]
           A == [i \in 1..M |-> <<>>]
           C == [i \in 1..M |-> TRUE]
           B == [i \in 1..M |-> <<ToLower(s)[i]>>]
           Val(h, i) ==
             IF i <= Len(s) /\ isIdentByte(s[i]) THEN <<ToLower(s)[i]>> \o h[i + 1] ELSE <<>>
<1>1. M \in Nat /\ Len(s) \in Nat
  OBVIOUS
<1>2. ASSUME NEW i \in 1..M PROVE (Named(s, i) => i + 1 \in i + 1..M) /\ i + 1 # 0
  <2>1. i <= Len(s) => i + 1 \in i + 1..M
    BY <1>1
  <2>2. i + 1 # 0
    OBVIOUS
  <2> QED
    BY <2>1, <2>2, Zenon DEF Named
<1>3. Onward(M, J)
  <2>1. ASSUME NEW i \in 1..M PROVE J[i] = 0 \/ J[i] \in i + 1..M
    <3> HIDE DEF M
    <3>1. J[i] = IF Named(s, i) THEN i + 1 ELSE 0
      BY Zenon
    <3> HIDE DEF J
    <3> QED
      BY <1>2, <3>1, Zenon
  <2> HIDE DEF J
  <2> QED
    BY <2>1, Zenon DEF Onward
<1>4. PICK f : IsUnfolded(f, M, J, A, C, B)
  <2> HIDE DEF M, J, A, C, B
  <2> QED
    BY <1>1, <1>3, Unfolds, Zenon
<1>5. ASSUME NEW i \in 1..M
      PROVE  (IF J[i] = 0 THEN A[i] ELSE IF C[i] THEN B[i] \o f[J[i]] ELSE f[J[i]]) = Val(f, i)
  <2> HIDE DEF M
  <2>1. /\ J[i] = (IF Named(s, i) THEN i + 1 ELSE 0) /\ A[i] = <<>> /\ C[i]
        /\ B[i] = <<ToLower(s)[i]>>
    BY Zenon
  <2>2. Val(f, i) = IF Named(s, i) THEN <<ToLower(s)[i]>> \o f[i + 1] ELSE <<>>
    BY Zenon DEF Named
  <2> HIDE DEF J, A, C, B, Val
  <2>3. CASE Named(s, i)
    BY <1>2, <2>1, <2>2, <2>3, Zenon
  <2>4. CASE ~Named(s, i)
    BY <2>1, <2>2, <2>4, Zenon
  <2> QED
    BY <2>3, <2>4, Zenon
<1>6. f = [i \in 1..M |-> Val(f, i)]
  <2>1. f = [i \in 1..M |-> IF J[i] = 0 THEN A[i] ELSE IF C[i] THEN B[i] \o f[J[i]] ELSE f[J[i]]]
    BY <1>4, Zenon DEF IsUnfolded
  <2> HIDE DEF M, J, A, C, B, Val
  <2> QED
    BY <1>5, <2>1, Zenon
<1>7. IsUnquoted(f, s)
  BY <1>6, Zenon DEF IsUnquoted
<1> DEFINE g == CHOOSE g : IsUnquoted(g, s)
<1>8. IsUnquoted(g, s)
  BY <1>7, Zenon
<1>9. parseIdentifier(s) = g[1]
  BY Zenon DEF parseIdentifier, IsUnquoted, DoubleQuote
<1> HIDE DEF g
<1>10. ASSUME NEW i \in 1..M PROVE g[i] = Val(g, i)
  BY <1>8, Zenon DEF IsUnquoted
<1> QED
  BY <1>9, <1>10, Zenon DEF UnquotedStep, Named

IsBare(f, s, end) ==
    f = [i \in 1..end + 1 |->
           IF i >= end THEN <<>>
           ELSE <<s[i]>> \o f[IF s[i] = "\"" THEN i + 2 ELSE i + 1]]

BareStep(f, s, end) ==
    /\ f[end] = <<>>
    /\ \A i \in 1..end - 1 :
         /\ s[i] = DoubleQuote => f[i] = <<s[i]>> \o f[i + 2]
         /\ s[i] # DoubleQuote => f[i] = <<s[i]>> \o f[i + 1]

\* So is that of a quoted one.
LEMMA BareIs ==
    ASSUME NEW S, NEW s \in Seq(S), s # <<>>, s[1] = DoubleQuote,
           NEW end \in 2..Len(s), ClosingQuote(s, 1) = end
    PROVE  \E f : BareStep(f, s, end) /\ parseIdentifier(s) = f[2]
<1> DEFINE M == end + 1
           next(i) == IF s[i] = DoubleQuote THEN i + 2 ELSE i + 1
           J == [i \in 1..M |-> IF i >= end THEN 0 ELSE next(i)]
           A == [i \in 1..M |-> <<>>]
           C == [i \in 1..M |-> TRUE]
           B == [i \in 1..M |-> <<s[i]>>]
           Val(h, i) == IF i >= end THEN <<>> ELSE <<s[i]>> \o h[next(i)]
<1>1. M \in Nat /\ end \in Nat /\ ~(end > Len(s))
  OBVIOUS
<1>2. ASSUME NEW i \in 1..M, ~(i >= end) PROVE next(i) \in i + 1..M /\ next(i) # 0
  <2>1. i + 1 \in i + 1..M /\ i + 2 \in i + 1..M /\ i + 1 # 0 /\ i + 2 # 0
    BY <1>1, <1>2
  <2> HIDE DEF M
  <2> QED
    BY <2>1, Zenon
<1>3. Onward(M, J)
  <2>1. ASSUME NEW i \in 1..M PROVE J[i] = 0 \/ J[i] \in i + 1..M
    <3> HIDE DEF M, next
    <3>1. J[i] = IF i >= end THEN 0 ELSE next(i)
      BY Zenon
    <3> HIDE DEF J
    <3> QED
      BY <1>2, <3>1, Zenon
  <2> HIDE DEF J
  <2> QED
    BY <2>1, Zenon DEF Onward
<1>4. PICK f : IsUnfolded(f, M, J, A, C, B)
  <2> HIDE DEF M, J, A, C, B
  <2> QED
    BY <1>1, <1>3, Unfolds, Zenon
<1>5. ASSUME NEW i \in 1..M
      PROVE  (IF J[i] = 0 THEN A[i] ELSE IF C[i] THEN B[i] \o f[J[i]] ELSE f[J[i]]) = Val(f, i)
  <2> HIDE DEF M, next
  <2>1. J[i] = (IF i >= end THEN 0 ELSE next(i)) /\ A[i] = <<>> /\ C[i] /\ B[i] = <<s[i]>>
    BY Zenon
  <2>2. Val(f, i) = IF i >= end THEN <<>> ELSE <<s[i]>> \o f[next(i)]
    BY Zenon
  <2> HIDE DEF J, A, C, B, Val
  <2>3. CASE ~(i >= end)
    BY <1>2, <2>1, <2>2, <2>3, Zenon
  <2>4. CASE i >= end
    BY <2>1, <2>2, <2>4, Zenon
  <2> QED
    BY <2>3, <2>4, Zenon
<1>6. f = [i \in 1..M |-> Val(f, i)]
  <2>1. f = [i \in 1..M |-> IF J[i] = 0 THEN A[i] ELSE IF C[i] THEN B[i] \o f[J[i]] ELSE f[J[i]]]
    BY <1>4, Zenon DEF IsUnfolded
  <2> HIDE DEF M, J, A, C, B, Val
  <2> QED
    BY <1>5, <2>1, Zenon
<1>7. IsBare(f, s, end)
  BY <1>6, Zenon DEF IsBare, DoubleQuote
<1> DEFINE g == CHOOSE g : IsBare(g, s, end)
<1>8. IsBare(g, s, end)
  BY <1>7, Zenon
<1>9. parseIdentifier(s) = g[2]
  BY <1>1, Zenon DEF parseIdentifier, IsBare, DoubleQuote
<1> HIDE DEF g
<1>10. ASSUME NEW i \in 1..M PROVE g[i] = Val(g, i)
  BY <1>8, Zenon DEF IsBare, DoubleQuote
<1>11. end \in 1..M /\ end >= end /\ \A i \in 1..end - 1 : i \in 1..M /\ ~(i >= end)
  BY <1>1
<1> HIDE DEF M
<1>12. g[end] = <<>>
  BY <1>10, <1>11, Zenon
<1>13. ASSUME NEW i \in 1..end - 1
       PROVE  /\ s[i] = DoubleQuote => g[i] = <<s[i]>> \o g[i + 2]
              /\ s[i] # DoubleQuote => g[i] = <<s[i]>> \o g[i + 1]
  BY <1>10, <1>11, Zenon
<1> QED
  BY <1>9, <1>12, <1>13, Zenon DEF BareStep

\* Fewer pieces are not longer.
LEMMA FirstShorter ==
    ASSUME NEW T, NEW g \in Seq(Seq(T)), NEW k \in 0..Len(g), NEW j \in 0..k
    PROVE  Len(First(g, j)) \in Nat /\ Len(First(g, k)) \in Nat /\ Len(First(g, j)) <= Len(First(g, k))
<1>1. j \in 0..Len(g)
  OBVIOUS
<1>2. First(g, j) \in Seq(T) /\ First(g, k) \in Seq(T)
  BY <1>1, FirstType, Zenon
<1>3. PICK t \in Seq(T) : First(g, k) = First(g, j) \o t
  BY FirstGrows, Zenon
<1>4. PICK a \in Seq(T), b \in Seq(T) : a = First(g, j) /\ b = First(g, k) /\ b = a \o t
  BY <1>2, <1>3, Zenon
<1>5. Len(a) \in Nat /\ Len(b) \in Nat /\ Len(a) <= Len(b)
  BY <1>3, <1>4
<1> QED
  BY <1>4, <1>5, Zenon

\* A quoted name is read with its doubled quotes undone.
LEMMA QuotedName ==
    ASSUME NEW S, NEW s \in Seq(S), NEW t, TokenAt(s, 1, t), t.k = "quoted"
    PROVE  parseIdentifier(s) = t.body
<1> DEFINE q == QuoteOf(t)
           b == t.body
           n == Len(b)
           T == TokenCells(t)
           g == DoubledOf(q, b)
           D == Doubled(q, b)
           pos == [k \in 1..n + 1 |-> 2 + Len(First(g, k - 1))]
<1>1. LegalToken(t) /\ t.k \in {"literal", "quoted"} /\ 1 \in Nat /\ 1 >= 1 /\ 1 + 1 = 2
  BY DEF TokenAt
<1>2. b \in Seq(T) /\ n \in Nat /\ q \in T
  <2>1. q \in T
    BY Zenon DEF QuoteOf, TokenCells, Symbols
  <2> QED
    BY <1>1, <2>1, TokenParts, Zenon
<1>3. q = DoubleQuote
  <2>1. t.k # "literal"
    OBVIOUS
  <2> QED
    BY <2>1, Zenon DEF QuoteOf, DoubleQuote
<1>4. /\ s[1] = q /\ 1 <= Len(s) /\ Stands(s, 2, D)
      /\ Len(Written(t)) = Len(D) + 2 /\ ClosingQuote(s, 1) = 1 + Len(Written(t)) - 1
      /\ ClosingQuote(s, 1) <= Len(s)
  BY <1>1, QuotedSkipped, Zenon
<1>5. /\ g \in Seq(Seq(T)) /\ Len(g) = n /\ D = First(g, n) /\ D \in Seq(T)
  BY <1>2, DoubledIs, Zenon
<1>6. \A k \in 0..n - 1 : DoubledAt(s, 2, q, b, k)
  <2>1. 2 \in Nat /\ 2 >= 1
    OBVIOUS
  <2> QED
    BY <1>2, <1>4, <2>1, DoubledStands, Zenon
<1>7. \A k \in 1..n + 1 : pos[k] = 2 + Len(First(g, k - 1))
  BY Zenon
<1> HIDE DEF q, b, n, T, g, D, pos
<1>8. PICK end \in 2..Len(s) : end = 2 + Len(D) /\ ClosingQuote(s, 1) = end
  <2>1. PICK d \in Nat : d = Len(D)
    BY <1>5
  <2>2. ClosingQuote(s, 1) = 1 + (d + 2) - 1 /\ ClosingQuote(s, 1) <= Len(s)
    BY <1>4, <2>1, Zenon
  <2>3. 1 + (d + 2) - 1 = 2 + d
    BY <2>1
  <2>4. 2 + d <= Len(s) /\ Len(s) \in Nat
    BY <2>2, <2>3
  <2>5. 2 + d \in 2..Len(s)
    BY <2>1, <2>4
  <2> QED
    BY <2>1, <2>2, <2>3, <2>5, Zenon
<1>9. PICK f : BareStep(f, s, end) /\ parseIdentifier(s) = f[2]
  <2>1. s # <<>> /\ s[1] = DoubleQuote
    <3>1. s # <<>>
      BY <1>4
    <3> QED
      BY <1>3, <1>4, <3>1, Zenon
  <2> QED
    BY <1>8, <2>1, BareIs, Zenon
<1> DEFINE h == [k \in 1..n + 1 |-> f[pos[k]]]
<1>10. \A k \in 1..n + 1 : h[k] = f[pos[k]]
  BY Zenon
<1> HIDE DEF h
<1>11. ASSUME NEW k \in 1..n + 1, k < n + 1 PROVE h[k] = <<b[k]>> \o h[k + 1]
  <2>1. PICK m \in 0..n - 1 : m = k - 1 /\ m + 1 = k /\ k \in 0..n
    BY <1>2, <1>11
  <2>2. PICK l \in 1..n + 1 : l = k + 1 /\ k = l - 1
    <3>1. k + 1 \in 1..n + 1 /\ k = (k + 1) - 1
      BY <1>2, <1>11
    <3> QED
      BY <3>1
  <2>3. pos[k] = 2 + Len(First(g, m)) /\ pos[l] = 2 + Len(First(g, k))
    BY <1>7, <2>1, <2>2, Zenon
  <2>4. /\ pos[k] \in 2..Len(s)
        /\ b[k] = q => s[pos[k]] = q /\ pos[l] = pos[k] + 2
        /\ b[k] # q => s[pos[k]] = b[k] /\ pos[l] = pos[k] + 1
    <3>1. DoubledAt(s, 2, q, b, m)
      BY <1>6, <2>1, Zenon
    <3> QED
      BY <2>1, <2>3, <3>1, Zenon DEF DoubledAt, g
  <2>5. pos[l] <= end
    <3>1. k \in 0..n /\ n \in 0..Len(g)
      BY <1>2, <1>5, <2>1
    <3>2. Len(First(g, k)) \in Nat /\ Len(First(g, n)) \in Nat /\ Len(First(g, k)) <= Len(First(g, n))
      BY <1>5, <3>1, FirstShorter, Zenon
    <3>3. PICK x \in Nat, y \in Nat : x = Len(First(g, k)) /\ y = Len(D) /\ x <= y
      BY <1>5, <3>2, Zenon
    <3>4. 2 + x <= 2 + y
      BY <3>3
    <3> QED
      BY <1>8, <2>3, <3>3, <3>4, Zenon
  <2>6. PICK j \in 2..Len(s) : j = pos[k]
    BY <2>4, Zenon
  <2>7. s[j] = b[k] /\ (s[j] = q => pos[l] = j + 2) /\ (s[j] # q => pos[l] = j + 1)
    BY <2>4, <2>6, Zenon
  <2>8. j \in 1..end - 1
    <3>1. pos[l] = j + 2 \/ pos[l] = j + 1
      BY <2>7, Zenon
    <3>2. j + 2 <= end \/ j + 1 <= end
      BY <2>5, <3>1, Zenon
    <3> QED
      BY <1>8, <2>6, <3>2
  <2>9. f[j] = <<s[j]>> \o f[pos[l]]
    BY <1>3, <1>9, <2>7, <2>8, Zenon DEF BareStep
  <2>10. h[k] = f[j] /\ h[l] = f[pos[l]]
    BY <1>10, <2>6, Zenon
  <2> QED
    BY <2>2, <2>7, <2>9, <2>10, Zenon
<1>12. h[n + 1] = <<>>
  <2>1. PICK l \in 1..n + 1 : l = n + 1 /\ n = l - 1
    <3>1. n + 1 \in 1..n + 1 /\ n = (n + 1) - 1
      BY <1>2
    <3> QED
      BY <3>1
  <2>2. pos[l] = 2 + Len(First(g, n))
    BY <1>7, <2>1, Zenon
  <2> QED
    BY <1>5, <1>8, <1>9, <1>10, <2>1, <2>2, Zenon DEF BareStep
<1>13. h[1] = f[2]
  <2>1. 1 \in 1..n + 1 /\ 1 - 1 = 0 /\ 2 + Len(<<>>) = 2 /\ 0 \in 0..Len(g)
    BY <1>2, <1>5
  <2>2. First(g, 0) = <<>>
    BY <1>5, <2>1, FirstType, Zenon
  <2>3. pos[1] = 2
    BY <1>7, <2>1, <2>2, Zenon
  <2> QED
    BY <1>10, <2>1, <2>3, Zenon
<1>14. PICK z \in Nat : z = n + 1 /\ z >= 1 /\ z - 1 = n
  BY <1>2
<1>15. IsChain(h, b, z)
  BY <1>11, <1>12, <1>14, Zenon DEF IsChain
<1>16. AllIn(T, b, 0, z - 1)
  <2>1. \A j \in 1..n : b[0 + j] \in T
    BY <1>2 DEF n
  <2> QED
    BY <1>14, <2>1, Zenon DEF AllIn
<1>17. h[1] = [j \in 1..z - 1 |-> b[j]]
  BY <1>14, <1>15, <1>16, ChainIs
<1>18. [j \in 1..n |-> b[j]] = b
  BY <1>2 DEF n
<1> QED
  BY <1>9, <1>13, <1>14, <1>17, <1>18, Zenon DEF b, n

\* A name that is not quoted is folded, and ends with its last letter.
LEMMA PlainName ==
    ASSUME NEW S, NEW s \in Seq(S), NEW t, TokenAt(s, 1, t), t.k = "cells",
           \A i \in DOMAIN t.body : isIdentByte(t.body[i])
    PROVE  parseIdentifier(s) = ToLower(t.body)
<1> DEFINE b == t.body
           n == Len(b)
           e == ToLower(b)
<1>1. LegalToken(t) /\ 1 \in Nat /\ 1 >= 1
  BY DEF TokenAt
<1>2. n \in Nat /\ DOMAIN b = 1..n /\ Written(t) = b /\ n >= 1
  <2>1. n \in Nat /\ DOMAIN b = 1..n
    BY <1>1, TokenParts, Zenon
  <2>2. Written(t) = b
    BY WrittenIs, Zenon
  <2>3. Len(Written(t)) >= 1
    BY <1>1, WrittenType, Zenon
  <2> QED
    BY <2>1, <2>2, <2>3, Zenon
<1>3. \A i \in 1..n : isIdentByte(b[i])
  BY <1>2, Zenon
<1>4. Clear(s, 1 + n, t)
  BY <1>2, Zenon DEF TokenAt
<1>5. \A i \in 1..n : e[i] = IF b[i] \in DOMAIN LowerOf THEN LowerOf[b[i]] ELSE b[i]
  BY <1>2, Zenon DEF ToLower
<1>6. DOMAIN s = 1..Len(s) /\ Len(s) \in Nat
  OBVIOUS
<1>7. \A i \in 1..Len(s) : ToLower(s)[i] = IF s[i] \in DOMAIN LowerOf THEN LowerOf[s[i]] ELSE s[i]
  BY <1>6, Zenon DEF ToLower
<1> HIDE DEF b, n, e
<1>8. ASSUME NEW i \in 1..n PROVE i \in 1..Len(s) /\ i <= Len(s) /\ i \in 1..Len(s) + 1 /\ s[i] = b[i]
  <2>1. i \in 1..1 + Len(Written(t)) - 1
    BY <1>2 DEF n
  <2>2. IsCell(s, 1, t, i)
    BY <1>1, <2>1, CellSkipped, Zenon
  <2>3. i - 1 + 1 = i
    BY <1>2
  <2>4. i \in 1..Len(s) /\ s[i] = b[i]
    BY <2>2, <2>3, Zenon DEF IsCell, b
  <2>5. i <= Len(s) /\ i \in 1..Len(s) + 1
    BY <1>6, <2>4
  <2> QED
    BY <2>4, <2>5, Zenon
<1>9. s # <<>> /\ s[1] # DoubleQuote
  <2>1. 1 \in 1..n
    BY <1>2
  <2>2. 1 <= Len(s) /\ isIdentByte(s[1])
    BY <1>3, <1>8, <2>1, Zenon
  <2>3. s # <<>>
    BY <2>2
  <2>4. ~isIdentByte(DoubleQuote)
    BY Letters, Zenon DEF DoubleQuote, Quotes
  <2> QED
    BY <2>2, <2>3, <2>4, Zenon
<1>10. PICK f : UnquotedStep(f, s) /\ parseIdentifier(s) = f[1]
  BY <1>9, UnquotedIs, Zenon
<1>11. ASSUME NEW i \in 1..n PROVE f[i] = <<e[i]>> \o f[i + 1]
  <2>1. i <= Len(s) /\ isIdentByte(s[i]) /\ i \in 1..Len(s) + 1 /\ i \in 1..Len(s) /\ s[i] = b[i]
    BY <1>3, <1>8, Zenon
  <2>2. f[i] = <<ToLower(s)[i]>> \o f[i + 1]
    BY <1>10, <2>1, Zenon DEF UnquotedStep, Named
  <2>3. ToLower(s)[i] = e[i]
    BY <1>5, <1>7, <2>1, Zenon
  <2> QED
    BY <2>2, <2>3, Zenon
<1>12. f[n + 1] = <<>>
  <2>1. PICK z \in Nat : z = n + 1 /\ z = 1 + n /\ n \in 1..n
    BY <1>2
  <2>2. z \in 1..Len(s) + 1
    <3>1. n <= Len(s)
      BY <1>8, <2>1, Zenon
    <3> QED
      BY <1>2, <1>6, <2>1, <3>1
  <2>3. ~Named(s, z)
    <3>1. CASE z <= Len(s)
      <4>1. isIdentByte(b[n])
        BY <1>3, <2>1, Zenon
      <4>2. ~isIdentByte(s[z])
        <5>1. Clear(s, z, t)
          BY <1>4, <2>1, Zenon
        <5> QED
          BY <3>1, <4>1, <5>1, Zenon DEF Clear, b, n
      <4> QED
        BY <4>2, Zenon DEF Named
    <3>2. CASE ~(z <= Len(s))
      BY <3>2, Zenon DEF Named
    <3> QED
      BY <3>1, <3>2
  <2> QED
    BY <1>10, <2>1, <2>2, <2>3, Zenon DEF UnquotedStep
<1>13. PICK z \in Nat : z = n + 1 /\ z >= 1 /\ z - 1 = n /\ \A k \in 1..z : k < z => k \in 1..n
  <2>1. n + 1 \in Nat /\ n + 1 >= 1 /\ (n + 1) - 1 = n /\ \A k \in 1..n + 1 : k < n + 1 => k \in 1..n
    BY <1>2
  <2> QED
    BY <2>1
<1>14. IsChain(f, e, z)
  BY <1>11, <1>12, <1>13, Zenon DEF IsChain
<1> DEFINE E == {e[k] : k \in 1..n}
<1>15. AllIn(E, e, 0, z - 1)
  <2>1. \A j \in 1..n : e[j] \in E
    BY Zenon
  <2> HIDE DEF E
  <2>2. \A j \in 1..n : 0 + j = j
    BY <1>2
  <2>3. \A j \in 1..n : e[0 + j] \in E
    BY <2>1, <2>2, Zenon
  <2> QED
    BY <1>13, <2>3, Zenon DEF AllIn
<1> HIDE DEF E
<1>16. f[1] = [j \in 1..z - 1 |-> e[j]]
  BY <1>13, <1>14, <1>15, ChainIs
<1>17. [j \in 1..n |-> e[j]] = e
  <2>1. e = [j \in 1..n |-> IF b[j] \in DOMAIN LowerOf THEN LowerOf[b[j]] ELSE b[j]]
    BY <1>2, Zenon DEF ToLower, e
  <2> QED
    BY <2>1
<1> QED
  BY <1>10, <1>13, <1>16, <1>17, Zenon DEF e, b

\* What begins with neither a letter nor a double quote names nothing.
LEMMA NoName ==
    ASSUME NEW S, NEW s \in Seq(S), s # <<>>, ~isIdentByte(s[1]), s[1] # DoubleQuote
    PROVE  parseIdentifier(s) = <<>>
<1>1. PICK f : UnquotedStep(f, s) /\ parseIdentifier(s) = f[1]
  BY UnquotedIs, Zenon
<1>2. 1 \in 1..Len(s) + 1
  OBVIOUS
<1> QED
  BY <1>1, <1>2, Zenon DEF UnquotedStep, Named

-----------------------------------------------------------------------------
(* One statement, read.                                                     *)

Fold(c) == IF c \in DOMAIN LowerOf THEN LowerOf[c] ELSE c

Keywords == {"listen", "unlisten"}

\* Only a letter folds to a keyword.
LEMMA FoldIs ==
    /\ \A c : IsKeyword(c) <=> Fold(c) \in Keywords
    /\ \A c : Fold(c) \in Keywords => c \in DOMAIN LowerOf /\ isIdentByte(c)
    /\ \A c : ~isIdentByte(c) => Fold(c) \notin Keywords
<1>1. ASSUME NEW c PROVE IsKeyword(c) <=> Fold(c) \in Keywords
  <2>1. DOMAIN <<c>> = 1..1 /\ 1 \in 1..1 /\ <<c>>[1] = c
    OBVIOUS
  <2>2. ToLower(<<c>>)[1] = Fold(c)
    BY <2>1, Zenon DEF ToLower, Fold
  <2> QED
    BY <2>2, Zenon DEF IsKeyword, Keywords
<1>2. Keywords \subseteq DOMAIN LowerOf
  BY LettersAssumption, Zenon DEF Keywords
<1>3. ASSUME NEW c, Fold(c) \in Keywords PROVE c \in DOMAIN LowerOf
  <2>1. CASE c \notin DOMAIN LowerOf
    <3>1. Fold(c) = c
      BY <2>1, Zenon DEF Fold
    <3> QED
      BY <1>2, <1>3, <3>1, Zenon
  <2> QED
    BY <2>1
<1>4. ASSUME NEW c, c \in DOMAIN LowerOf PROVE isIdentByte(c)
  BY <1>4, Zenon DEF isIdentByte
<1> QED
  BY <1>1, <1>3, <1>4, Zenon

\* Folding keeps the length.
LEMMA FoldedIs ==
    ASSUME NEW S, NEW s \in Seq(S)
    PROVE  /\ Len(ToLower(s)) = Len(s) /\ DOMAIN ToLower(s) = 1..Len(s)
           /\ \A i \in 1..Len(s) : ToLower(s)[i] = Fold(s[i])
<1>1. DOMAIN s = 1..Len(s) /\ Len(s) \in Nat
  OBVIOUS
<1>2. ToLower(s) = [i \in 1..Len(s) |-> Fold(s[i])]
  BY <1>1, Zenon DEF ToLower, Fold
<1> QED
  BY <1>1, <1>2

\* A statement has the keyword that its first token is.
IsOpened(x, t) ==
    \A kw \in Keywords : hasKeyword(x, kw) <=> t.k = "cells" /\ ToLower(t.body) = <<kw>>

\* A statement opens with a keyword exactly if its first token that counts is one.
LEMMA KeywordRead ==
    ASSUME NEW S, NEW x \in Seq(S), NEW t, TokenAt(x, 1, t), ~IsTrivia(t)
    PROVE  IsOpened(x, t)
<1>1. LegalToken(t) /\ 1 \in Nat /\ 1 >= 1
  BY DEF TokenAt
<1>2. IsWord(x, 1, t)
  BY <1>1, TokenIs, Zenon
<1>3. 1 \in 1..Len(x) /\ 1 <= Len(x) /\ x # <<>> /\ Len(x) \in Nat
  <2>1. 1 \in 1..Len(x)
    BY <1>2, Zenon DEF IsWord
  <2> QED
    BY <2>1
<1>4. ToLower(x)[1] = Fold(x[1])
  BY <1>3, FoldedIs, Zenon
<1>5. CASE t.k # "cells"
  <2>1. ~isIdentByte(x[1]) \/ x[1] = "$"
    <3>1. t.k \in {"literal", "quoted", "dollar"}
      <4>1. t.k \in {"literal", "quoted", "dollar", "line", "block", "cells"}
        BY <1>1, FirstCell, Zenon
      <4>2. t.k # "line" /\ t.k # "block"
        BY Zenon DEF IsTrivia
      <4> QED
        BY <1>5, <4>1, <4>2, Zenon
    <3>2. CASE t.k \in {"literal", "quoted"}
      <4>1. x[1] \in Quotes
        BY <1>2, <3>2, Zenon DEF IsWord, QuoteOf, Quotes
      <4> QED
        BY <4>1, Letters, Zenon
    <3>3. CASE t.k = "dollar"
      BY <1>2, <3>3, Zenon DEF IsWord
    <3> QED
      BY <3>1, <3>2, <3>3, Zenon
  <2>2. "$" \notin DOMAIN LowerOf
    BY Letters, Zenon
  <2>3. Fold(x[1]) \notin Keywords
    BY <2>1, <2>2, FoldIs, Zenon
  <2> QED
    BY <1>4, <1>5, <2>3, Zenon DEF IsOpened, hasKeyword
<1>6. CASE t.k = "cells"
  <2> DEFINE b == t.body
             n == Len(b)
             T == TokenCells(t)
  <2>1. b \in Seq(T) /\ n \in Nat /\ DOMAIN b = 1..n /\ Written(t) = b
    BY <1>1, <1>6, TokenParts, WrittenIs, Zenon
  <2>2. LegalCells(b)
    <3>1. t.k # "dollar" /\ t.k # "line" /\ t.k # "block" /\ t.k # "literal" /\ t.k # "quoted"
      BY <1>6
    <3> QED
      BY <1>1, <3>1, Zenon DEF LegalToken
  <2>3. n >= 1 /\ 1 \in 1..n
    <3>1. b # <<>>
      BY <2>2, Zenon DEF LegalCells
    <3> HIDE DEF b, T
    <3> QED
      BY <2>1, <3>1 DEF n
  <2>4. x[1] = b[1]
    BY <1>2, <1>6, Zenon DEF IsWord
  <2>5. Clear(x, 1 + n, t)
    BY <2>1, Zenon DEF TokenAt
  <2>6. Len(ToLower(b)) = n /\ DOMAIN ToLower(b) = 1..n /\ ToLower(b)[1] = Fold(b[1])
    BY <2>1, <2>3, FoldedIs, Zenon
  <2>7. ASSUME n > 1 PROVE 2 \in 1..n /\ 2 \in 1..Len(x) /\ Len(x) > 1 /\ x[2] = b[2]
    <3>1. 2 \in 1..n /\ 2 \in 1..1 + n - 1 /\ 2 - 1 + 1 = 2
      BY <2>1, <2>7
    <3>2. IsCell(x, 1, t, 2)
      BY <1>1, <1>6, <2>1, <3>1, CellSkipped, Zenon
    <3>3. 2 \in 1..Len(x) /\ x[2] = b[2]
      BY <3>1, <3>2, Zenon DEF IsCell
    <3>4. Len(x) > 1
      BY <3>3
    <3> QED
      BY <3>1, <3>3, <3>4, Zenon
  <2>8. IsKeyword(b[1]) /\ n > 1 => isIdentByte(b[2])
    BY <2>2, Zenon DEF LegalCells
  <2> HIDE DEF n, T
  <2>9. ASSUME NEW kw \in Keywords, hasKeyword(x, kw) PROVE ToLower(b) = <<kw>>
    <3>1. Fold(b[1]) = kw /\ (Len(x) > 1 => ~isIdentByte(x[2]))
      BY <1>4, <2>4, <2>9, Zenon DEF hasKeyword
    <3>2. IsKeyword(b[1])
      BY <3>1, FoldIs, Zenon
    <3>3. ~(n > 1)
      BY <2>7, <2>8, <3>1, <3>2, Zenon
    <3>4. n = 1
      BY <2>1, <2>3, <3>3
    <3>5. ToLower(b) = [i \in 1..n |-> Fold(b[i])]
      BY <2>1, Zenon DEF ToLower, Fold
    <3> HIDE DEF b
    <3> QED
      BY <3>1, <3>4, <3>5
  <2>10. ASSUME NEW kw \in Keywords, ToLower(b) = <<kw>> PROVE hasKeyword(x, kw)
    <3>1. Len(<<kw>>) = 1 /\ <<kw>>[1] = kw
      OBVIOUS
    <3>2. n = 1 /\ Fold(b[1]) = kw
      BY <2>6, <2>10, <3>1, Zenon
    <3>3. isIdentByte(b[1])
      BY <3>2, FoldIs, Zenon
    <3>4. ASSUME Len(x) > 1 PROVE ~isIdentByte(x[2])
      <4>1. 1 + n = 2 /\ 2 <= Len(x)
        BY <1>3, <3>2, <3>4
      <4>2. Clear(x, 2, t)
        BY <2>5, <4>1, Zenon
      <4>3. ~(isIdentByte(b[n]) /\ isIdentByte(x[2]))
        BY <1>6, <4>1, <4>2, Zenon DEF Clear, n
      <4> QED
        BY <3>2, <3>3, <4>3, Zenon
    <3> QED
      BY <1>3, <1>4, <2>4, <3>2, <3>4, Zenon DEF hasKeyword
  <2> QED
    BY <1>6, <2>9, <2>10, Zenon DEF IsOpened
<1> QED
  BY <1>5, <1>6

\* What names a channel, or all of them, is read from its token.
Starred(x) == IsPrefix(<<"*">>, x)

\* A text begins with a star if its first cell is one.
LEMMA StarredIs ==
    ASSUME NEW S, NEW x \in Seq(S), x # <<>>
    PROVE  Starred(x) <=> x[1] = "*"
<1>1. From(x, 1) = x /\ 1 \in 1..Len(x) + 1 /\ 1 \in Nat /\ 1 >= 1 /\ 1 <= Len(x)
  BY DEF From
<1>2. <<"*">> \in Seq({"*"})
  OBVIOUS
<1>3. Starts(x, 1, <<"*">>) <=> Stands(x, 1, <<"*">>)
  BY <1>1, <1>2, StartsIs, Zenon
<1>4. Stands(x, 1, <<"*">>) <=> x[1] = "*"
  <2>1. Stands(x, 1, <<"*">>) <=> 1 <= Len(x) /\ x[1] = "*"
    BY <1>1, StandsOne, Zenon
  <2> QED
    BY <1>1, <2>1, Zenon
<1> QED
  BY <1>1, <1>3, <1>4, Zenon DEF Starts, Starred

IsArgument(t) ==
    \/ t.k \in {"literal", "quoted"}
    \/ /\ t.k = "cells"
       /\ t.body = <<"*">> \/ \A i \in DOMAIN t.body : isIdentByte(t.body[i])

ArgumentOf(x, t) ==
    /\ t.k = "literal" => ~Starred(x) /\ parseIdentifier(x) = <<>>
    /\ t.k = "quoted" => ~Starred(x) /\ parseIdentifier(x) = t.body
    /\ t.k = "cells" /\ t.body = <<"*">> => Starred(x)
    /\ t.k = "cells" /\ t.body # <<"*">> =>
         ~Starred(x) /\ parseIdentifier(x) = ToLower(t.body) /\ ToLower(t.body) # <<>>

\* An argument is read as the name it denotes, a star as a star, a literal as none.
LEMMA ArgumentRead ==
    ASSUME NEW S, NEW x \in Seq(S), NEW t, TokenAt(x, 1, t), IsArgument(t)
    PROVE  ArgumentOf(x, t)
<1>1. LegalToken(t) /\ 1 \in Nat /\ 1 >= 1
  BY DEF TokenAt
<1>2. IsWord(x, 1, t)
  BY <1>1, TokenIs, Zenon
<1>3. x # <<>>
  <2>1. 1 \in 1..Len(x)
    BY <1>2, Zenon DEF IsWord
  <2> QED
    BY <2>1
<1>4. Starred(x) <=> x[1] = "*"
  BY <1>3, StarredIs, Zenon
<1>5. "'" # "*" /\ DoubleQuote # "*" /\ "'" # DoubleQuote /\ ~isIdentByte("'") /\ ~isIdentByte("*")
  BY Letters, Zenon DEF DoubleQuote, Quotes
<1>6. ASSUME t.k = "literal" PROVE ~Starred(x) /\ parseIdentifier(x) = <<>>
  <2>1. x[1] = "'"
    BY <1>2, <1>6, Zenon DEF IsWord, QuoteOf
  <2>2. parseIdentifier(x) = <<>>
    BY <1>3, <1>5, <2>1, NoName, Zenon
  <2> QED
    BY <1>4, <1>5, <2>1, <2>2, Zenon
<1>7. ASSUME t.k = "quoted" PROVE ~Starred(x) /\ parseIdentifier(x) = t.body
  <2>1. t.k # "literal"
    BY <1>7
  <2>2. x[1] = DoubleQuote
    BY <1>2, <1>7, <2>1, Zenon DEF IsWord, QuoteOf, DoubleQuote
  <2>3. parseIdentifier(x) = t.body
    BY <1>7, QuotedName, Zenon
  <2> QED
    BY <1>4, <1>5, <2>2, <2>3, Zenon
<1>8. ASSUME t.k = "cells" PROVE x[1] = t.body[1]
  BY <1>2, <1>8, Zenon DEF IsWord
<1>9. ASSUME t.k = "cells", t.body = <<"*">> PROVE Starred(x)
  <2>1. <<"*">>[1] = "*"
    OBVIOUS
  <2> QED
    BY <1>4, <1>8, <1>9, <2>1, Zenon
<1>10. ASSUME t.k = "cells", t.body # <<"*">>
       PROVE  ~Starred(x) /\ parseIdentifier(x) = ToLower(t.body) /\ ToLower(t.body) # <<>>
  <2>1. t.k \notin {"literal", "quoted"}
    BY <1>10
  <2>2. \A i \in DOMAIN t.body : isIdentByte(t.body[i])
    BY <1>10, <2>1, Zenon DEF IsArgument
  <2>3. Len(t.body) \in Nat /\ DOMAIN t.body = 1..Len(t.body) /\ t.body \in Seq(TokenCells(t)) /\ Written(t) = t.body
    BY <1>1, <1>10, TokenParts, WrittenIs, Zenon
  <2>4. Len(Written(t)) >= 1
    BY <1>1, WrittenType, Zenon
  <2>5. PICK b \in Seq(TokenCells(t)) : b = t.body /\ Len(b) >= 1
    BY <2>3, <2>4, Zenon
  <2>6. 1 \in DOMAIN b
    BY <2>5
  <2>7. isIdentByte(x[1])
    BY <1>8, <1>10, <2>2, <2>5, <2>6, Zenon
  <2>8. ~Starred(x)
    BY <1>4, <1>5, <2>7, Zenon
  <2>9. parseIdentifier(x) = ToLower(t.body)
    BY <1>10, <2>2, PlainName, Zenon
  <2>10. ToLower(b) # <<>>
    <3>1. Len(ToLower(b)) = Len(b)
      BY <2>5, FoldedIs, Zenon
    <3> QED
      BY <2>5, <3>1
  <2> QED
    BY <2>5, <2>8, <2>9, <2>10, Zenon
<1> QED
  BY <1>6, <1>7, <1>9, <1>10, Zenon DEF ArgumentOf

\* parseListenOp and Meaning, with their local definitions named.
KindOf(x) ==
    CASE hasKeyword(x, "unlisten") -> "unlisten"
      [] hasKeyword(x, "listen")   -> "listen"
      [] OTHER                     -> "none"

OpOf(kind, x) ==
    CASE kind = "none" -> NoOp
      [] kind # "none" /\ Starred(x) ->
           IF kind = "unlisten" THEN [kind |-> "unlistenAll", channel |-> <<>>] ELSE NoOp
      [] OTHER -> IF parseIdentifier(x) = <<>> THEN NoOp
                  ELSE [kind |-> kind, channel |-> parseIdentifier(x)]

\* What parseListenOp makes of a keyword and its argument.
LEMMA ParseIs ==
    ASSUME NEW stmt, NEW x, x = skipLeading(stmt), NEW y, y = skipLeading(Tail(x))
    PROVE  parseListenOp(stmt) = OpOf(KindOf(x), y)
BY Zenon DEF parseListenOp, KindOf, OpOf, Starred

MeantBy(word, t) ==
    CASE t.k = "quoted" /\ t.body # <<>> -> [kind |-> word[1], channel |-> t.body]
      [] t.k = "cells" /\ t.body = <<"*">> ->
           IF word[1] = "unlisten" THEN [kind |-> "unlistenAll", channel |-> <<>>] ELSE NoOp
      [] t.k = "cells" /\ t.body # <<"*">> -> [kind |-> word[1], channel |-> ToLower(t.body)]
      [] OTHER -> NoOp

\* What a statement means, case by case.
LEMMA MeaningIs ==
    ASSUME NEW tokens, Len(tokens) \in Nat,
           NEW first, first = Real(tokens, 1), NEW second \in Nat, second = Real(tokens, first + 1),
           NEW t, t = tokens[first], NEW word, word = ToLower(t.body)
    PROVE  /\ second > Len(tokens) => Meaning(tokens) = NoOp
           /\ second <= Len(tokens) /\ (t.k # "cells" \/ word \notin {<<"listen">>, <<"unlisten">>}) =>
                Meaning(tokens) = NoOp
           /\ second <= Len(tokens) /\ t.k = "cells" /\ word \in {<<"listen">>, <<"unlisten">>} =>
                Meaning(tokens) = MeantBy(word, tokens[second])
<1>1. ~(second > Len(tokens)) <=> second <= Len(tokens)
  OBVIOUS
<1>2. ASSUME second > Len(tokens) PROVE Meaning(tokens) = NoOp
  BY <1>1, <1>2, Zenon DEF Meaning
<1>3. ASSUME second <= Len(tokens), t.k # "cells" \/ word \notin {<<"listen">>, <<"unlisten">>}
      PROVE  Meaning(tokens) = NoOp
  BY <1>1, <1>3, Zenon DEF Meaning
<1>4. ASSUME second <= Len(tokens), t.k = "cells", word \in {<<"listen">>, <<"unlisten">>}
      PROVE  Meaning(tokens) = MeantBy(word, tokens[second])
  BY <1>1, <1>4, Zenon DEF Meaning, MeantBy
<1> QED
  BY <1>2, <1>3, <1>4, Zenon

\* The two agree where the argument is read as what it denotes.
LEMMA OpRead ==
    ASSUME NEW x, NEW t, IsArgument(t), ArgumentOf(x, t), NEW kw \in Keywords, NEW word, word[1] = kw
    PROVE  OpOf(kw, x) = MeantBy(word, t)
<1>1. kw # "none"
  BY DEF Keywords
<1>2. ASSUME ~Starred(x), parseIdentifier(x) = <<>> PROVE OpOf(kw, x) = NoOp
  BY <1>1, <1>2, Zenon DEF OpOf
<1>3. ASSUME ~Starred(x), parseIdentifier(x) # <<>>
      PROVE  OpOf(kw, x) = [kind |-> kw, channel |-> parseIdentifier(x)]
  BY <1>1, <1>3, Zenon DEF OpOf
<1>4. ASSUME Starred(x)
      PROVE  OpOf(kw, x) =
               IF kw = "unlisten" THEN [kind |-> "unlistenAll", channel |-> <<>>] ELSE NoOp
  BY <1>1, <1>4, Zenon DEF OpOf
<1>5. CASE t.k = "literal"
  <2>1. t.k # "quoted" /\ t.k # "cells"
    BY <1>5
  <2>2. MeantBy(word, t) = NoOp
    BY <2>1, Zenon DEF MeantBy
  <2> QED
    BY <1>2, <1>5, <2>2, Zenon DEF ArgumentOf
<1>6. CASE t.k = "quoted"
  <2>1. t.k # "cells"
    BY <1>6
  <2>2. CASE t.body = <<>>
    <3>1. MeantBy(word, t) = NoOp
      BY <2>1, <2>2, Zenon DEF MeantBy
    <3> QED
      BY <1>2, <1>6, <2>2, <3>1, Zenon DEF ArgumentOf
  <2>3. CASE t.body # <<>>
    <3>1. MeantBy(word, t) = [kind |-> word[1], channel |-> t.body]
      BY <1>6, <2>1, <2>3, Zenon DEF MeantBy
    <3> QED
      BY <1>3, <1>6, <2>3, <3>1, Zenon DEF ArgumentOf
  <2> QED
    BY <2>2, <2>3
<1>7. CASE t.k = "cells" /\ t.body = <<"*">>
  <2>1. t.k # "quoted"
    BY <1>7
  <2>2. MeantBy(word, t) =
          IF word[1] = "unlisten" THEN [kind |-> "unlistenAll", channel |-> <<>>] ELSE NoOp
    BY <1>7, <2>1, Zenon DEF MeantBy
  <2>3. Starred(x)
    BY <1>7, Zenon DEF ArgumentOf
  <2> QED
    BY <1>4, <2>2, <2>3, Zenon
<1>8. CASE t.k = "cells" /\ t.body # <<"*">>
  <2>1. t.k # "quoted"
    BY <1>8
  <2>2. MeantBy(word, t) = [kind |-> word[1], channel |-> ToLower(t.body)]
    BY <1>8, <2>1, Zenon DEF MeantBy
  <2>3. ~Starred(x) /\ parseIdentifier(x) = ToLower(t.body) /\ ToLower(t.body) # <<>>
    BY <1>8, Zenon DEF ArgumentOf
  <2> QED
    BY <1>3, <2>2, <2>3, Zenon
<1>9. t.k = "literal" \/ t.k = "quoted" \/ t.k = "cells"
  <2>1. t.k \in {"literal", "quoted"} => t.k = "literal" \/ t.k = "quoted"
    OBVIOUS
  <2> QED
    BY <2>1, Zenon DEF IsArgument
<1> QED
  BY <1>5, <1>6, <1>7, <1>8, <1>9, Zenon

\* A statement is read as what it was put together to mean.
LEMMA StatementRead ==
    ASSUME NEW tokens, LegalStatement(tokens)
    PROVE  parseListenOp(Statement(tokens)) = Meaning(tokens)
<1> DEFINE s == Statement(tokens)
           S == StatementCells(tokens)
           n == Len(tokens)
           at == Places(1, tokens)
           first == Real(tokens, 1)
           second == Real(tokens, first + 1)
           t == tokens[first]
           word == ToLower(t.body)
           x == skipLeading(s)
           arg == skipLeading(Tail(x))
<1>1. LegalTokens(tokens)
  BY Zenon DEF LegalStatement, LegalTokens
<1>2. n \in Nat /\ s \in Seq(S)
  BY <1>1, StatementIs, Zenon DEF IsStatement
<1>3. LaidOut(s, 1, tokens)
  <2> HIDE DEF s, S
  <2>1. Stands(s, 1, s) /\ 1 \in Nat /\ 1 >= 1
    BY <1>2 DEF Stands
  <2>2. ~(1 + Len(s) <= Len(s))
    BY <1>2
  <2>3. Ends(s, 1 + Len(s))
    BY <2>2, Zenon DEF Ends
  <2> QED
    BY <1>1, <1>2, <2>1, <2>3, StatementLaid, Zenon DEF s
<1>4. Laid(s, at, tokens, 1) /\ at[1] = 1 /\ at[n + 1] = 1 + Len(s)
  BY <1>3, Zenon DEF LaidOut
<1>5. IsReal(tokens, 1, first)
  <2>1. 1 \in Nat /\ 1 >= 1
    OBVIOUS
  <2> QED
    BY <1>2, <2>1, RealIs, Zenon
<1>6. first \in Nat /\ first >= 1 /\ first <= n + 1 /\ (first <= n => ~IsTrivia(t))
  <2>1. 1 <= n + 1
    BY <1>2
  <2> QED
    BY <1>5, <2>1, Zenon DEF IsReal
<1>7. IsReal(tokens, first + 1, second)
  <2> HIDE DEF first
  <2>1. first + 1 \in Nat /\ first + 1 >= 1
    BY <1>6
  <2> QED
    BY <1>2, <2>1, RealIs, Zenon
<1>8. /\ second \in Nat /\ second <= n + 1 /\ (first + 1 > n => second = n + 1)
      /\ first + 1 <= n + 1 => second >= first + 1
      /\ second <= n => ~IsTrivia(tokens[second])
  BY <1>7, Zenon DEF IsReal
<1>9. parseListenOp(s) = OpOf(KindOf(x), arg)
  BY ParseIs, Zenon
<1>10. /\ second > n => Meaning(tokens) = NoOp
       /\ second <= n /\ (t.k # "cells" \/ word \notin {<<"listen">>, <<"unlisten">>}) =>
            Meaning(tokens) = NoOp
       /\ second <= n /\ t.k = "cells" /\ word \in {<<"listen">>, <<"unlisten">>} =>
            Meaning(tokens) = MeantBy(word, tokens[second])
  BY <1>2, <1>8, MeaningIs, Zenon
<1>11. (second <= n /\ t.k = "cells" /\ IsKeyword(t.body[1])) => IsArgument(tokens[second])
  BY Zenon DEF LegalStatement, IsArgument
<1>12. x = From(s, at[first])
  <2> HIDE DEF s, S, at
  <2>1. 1 \in 1..Len(tokens) + 1 /\ at[Len(tokens) + 1] = Len(s) + 1
    BY <1>2, <1>4
  <2> QED
    BY <1>2, <1>4, <2>1, LeadingReal, Zenon
<1> HIDE DEF s, S, n, at, first, second, t, word, x, arg
<1>13. \A op : OpOf("none", op) = NoOp
  BY Zenon DEF OpOf
<1>14. CASE first = n + 1
  <2>1. second > n
    <3>1. first + 1 > n
      BY <1>2, <1>14
    <3> QED
      BY <1>2, <1>8, <3>1
  <2>2. x = <<>>
    <3>1. at[first] = Len(s) + 1
      BY <1>2, <1>4, <1>14
    <3>2. x = From(s, Len(s) + 1)
      BY <1>12, <3>1, Zenon
    <3> QED
      BY <1>2, <3>2 DEF From
  <2>3. ~hasKeyword(x, "listen") /\ ~hasKeyword(x, "unlisten")
    BY <2>2, Zenon DEF hasKeyword
  <2>4. KindOf(x) = "none"
    BY <2>3, Zenon DEF KindOf
  <2> QED
    BY <1>9, <1>10, <1>13, <2>1, <2>4, Zenon DEF s
<1>15. CASE first <= n
  <2>1. PICK q \in 1..Len(s) : q = at[first] /\ TokenAt(s, q, t) /\ at[first + 1] = q + Len(Written(t))
    <3>1. first \in 1..Len(tokens)
      BY <1>2, <1>6, <1>15 DEF n
    <3>2. /\ at[first] \in Nat /\ at[first] >= 1 /\ TokenAt(s, at[first], t)
          /\ at[first + 1] = at[first] + Len(Written(t))
      BY <1>4, <3>1, Zenon DEF Laid, t
    <3>3. IsWord(s, at[first], t)
      BY <1>2, <3>2, TokenIs, Zenon
    <3> QED
      BY <3>2, <3>3, Zenon DEF IsWord
  <2>2. q \in 1..Len(s) + 1 /\ q \in Nat /\ q >= 1 /\ q = q + 1 - 1 /\ 1 \in Nat /\ 1 >= 1
    BY <1>2, <2>1
  <2>3. x \in Seq(S) /\ IsRest(s, q, x)
    BY <1>2, <1>12, <2>1, <2>2, RestIs, Zenon
  <2>4. TokenAt(x, 1, t)
    <3>1. TokenAt(s, q, t)
      BY <2>1, Zenon
    <3> QED
      BY <1>2, <2>2, <2>3, <3>1, TokenInRest
  <2>5. IsOpened(x, t)
    BY <1>6, <1>15, <2>3, <2>4, KeywordRead, Zenon
  <2>6. second > n \/ second <= n
    BY <1>2, <1>8
  <2>7. CASE ~(t.k = "cells" /\ word \in {<<"listen">>, <<"unlisten">>})
    <3>1. "listen" \in Keywords /\ "unlisten" \in Keywords
      BY DEF Keywords
    <3>2. ~hasKeyword(x, "listen") /\ ~hasKeyword(x, "unlisten")
      BY <2>5, <2>7, <3>1, Zenon DEF IsOpened, word
    <3>3. KindOf(x) = "none"
      BY <3>2, Zenon DEF KindOf
    <3>4. Meaning(tokens) = NoOp
      BY <1>10, <2>6, <2>7, Zenon
    <3> QED
      BY <1>9, <1>13, <3>3, <3>4, Zenon DEF s
  <2>8. CASE t.k = "cells" /\ word \in {<<"listen">>, <<"unlisten">>}
    <3>1. PICK kw \in Keywords : word = <<kw>>
      BY <2>8, Zenon DEF Keywords
    <3>2. word[1] = kw /\ Len(word) = 1
      BY <3>1
    <3>3. KindOf(x) = kw
      <4>1. \A k \in Keywords : hasKeyword(x, k) <=> <<kw>> = <<k>>
        BY <2>5, <2>8, <3>1, Zenon DEF IsOpened, word
      <4>2. \A k \in Keywords : <<kw>> = <<k>> <=> k = kw
        OBVIOUS
      <4>3. "listen" \in Keywords /\ "unlisten" \in Keywords /\ "listen" # "unlisten"
            /\ (kw = "listen" \/ kw = "unlisten")
        BY <3>1 DEF Keywords
      <4>4. (hasKeyword(x, "listen") <=> kw = "listen") /\ (hasKeyword(x, "unlisten") <=> kw = "unlisten")
        BY <4>1, <4>2, <4>3, Zenon
      <4> QED
        BY <4>3, <4>4, Zenon DEF KindOf
    <3>4. Len(Written(t)) = 1 /\ IsKeyword(t.body[1])
      <4>1. LegalToken(t)
        BY <2>4, Zenon DEF TokenAt
      <4>2. t.body \in Seq(TokenCells(t)) /\ Written(t) = t.body
        BY <2>8, <4>1, TokenParts, WrittenIs, Zenon
      <4>3. Len(word) = Len(t.body) /\ \A i \in 1..Len(t.body) : word[i] = Fold(t.body[i])
        BY <4>2, FoldedIs, Zenon DEF word
      <4>4. 1 \in 1..1
        OBVIOUS
      <4>5. Fold(t.body[1]) = kw
        BY <3>2, <4>3, <4>4, Zenon
      <4> QED
        BY <3>2, <4>2, <4>3, <4>5, FoldIs, Zenon
    <3> DEFINE y == Tail(x)
               a == first + 1
               r == q + 1
               b == Relaid(tokens, at, a)
    <3>5. a \in 1..Len(tokens) + 1 /\ a \in Nat /\ a >= 1 /\ a <= n + 1
      BY <1>2, <1>6, <1>15 DEF n
    <3>6. r \in 1..Len(s) + 1 /\ at[a] = r
      BY <1>2, <2>1, <2>2, <3>4
    <3>7. y \in Seq(S) /\ IsRest(s, r, y)
      <4>1. Len(x) = Len(s) - q + 1 /\ \A k \in 1..Len(x) : x[k] = s[q + k - 1]
        BY <2>3, Zenon DEF IsRest
      <4>2. Len(s) \in Nat /\ Len(x) >= 1 /\ x # <<>>
        BY <1>2, <2>1, <2>3, <4>1
      <4>3. y \in Seq(S) /\ Len(y) = Len(x) - 1 /\ \A i \in 1..Len(x) - 1 : y[i] = x[i + 1]
        BY <2>3, <4>2, TailIs, Zenon
      <4> HIDE DEF y
      <4>4. Len(y) = Len(s) - r + 1
        BY <2>2, <4>1, <4>2, <4>3
      <4>5. ASSUME NEW k \in 1..Len(y) PROVE y[k] = s[r + k - 1]
        <5>1. PICK j \in 1..Len(x) : j = k + 1 /\ k \in 1..Len(x) - 1 /\ q + j - 1 = r + k - 1
          BY <2>2, <2>3, <4>2, <4>3
        <5> QED
          BY <4>1, <4>3, <5>1, Zenon
      <4> QED
        BY <4>3, <4>4, <4>5, Zenon DEF IsRest
    <3>8. Laid(s, at, tokens, a)
      <4>1. \A m \in a..Len(tokens) : m \in 1..Len(tokens)
        BY <3>5
      <4> HIDE DEF a
      <4> QED
        BY <1>4, <4>1, Zenon DEF Laid
    <3> HIDE DEF y, a, r, b
    <3>9. IsRelaid(s, tokens, at, a, y, b)
      <4>1. Len(tokens) \in Nat
        BY <1>2, Zenon DEF n
      <4>2. IsRelaid(s, tokens, at, a, y, Relaid(tokens, at, a))
        BY <1>2, <3>5, <3>6, <3>7, <3>8, <4>1, RelaidIs
      <4> QED
        BY <4>2, Zenon DEF b
    <3>10. Laid(y, b, tokens, a) /\ b[a] = 1 /\ b[n + 1] = Len(y) + 1
      <4>1. at[Len(tokens) + 1] = Len(s) + 1
        BY <1>2, <1>4 DEF n
      <4> QED
        BY <3>9, <4>1, Zenon DEF IsRelaid, n
    <3>11. arg = From(y, b[second])
      <4>1. Len(tokens) \in Nat /\ b[Len(tokens) + 1] = Len(y) + 1 /\ y \in Seq(S)
        BY <1>2, <3>7, <3>10, Zenon DEF n
      <4>2. skipLeading(y) = From(y, b[Real(tokens, a)])
        BY <3>5, <3>10, <4>1, LeadingReal
      <4> QED
        BY <4>2, Zenon DEF arg, y, second, a
    <3>12. CASE second > n
      <4>1. second = n + 1 /\ Len(y) \in Nat
        BY <1>2, <1>8, <3>7, <3>12
      <4>2. arg = From(y, Len(y) + 1)
        BY <3>10, <3>11, <4>1, Zenon
      <4>3. arg = <<>>
        BY <3>7, <4>2 DEF From
      <4>4. ~Starred(<<>>)
        BY DEF Starred, IsPrefix
      <4>5. parseIdentifier(<<>>) = <<>>
        <5>1. ~(<<>> # <<>>)
          OBVIOUS
        <5> QED
          BY <5>1, Zenon DEF parseIdentifier
      <4>6. kw # "none"
        BY DEF Keywords
      <4>7. OpOf(kw, arg) = NoOp
        BY <4>3, <4>4, <4>5, <4>6, Zenon DEF OpOf
      <4> QED
        BY <1>9, <1>10, <3>3, <3>12, <4>7, Zenon DEF s
    <3>13. CASE second <= n
      <4> DEFINE u == tokens[second]
      <4>1. PICK p \in 1..Len(y) : p = b[second] /\ TokenAt(y, p, u)
        <5>1. second \in a..Len(tokens)
          <6>1. second >= a
            BY <1>8, <3>5, Zenon DEF a
          <6> QED
            BY <1>2, <1>8, <3>5, <3>13, <6>1 DEF n
        <5>2. b[second] \in Nat /\ b[second] >= 1 /\ TokenAt(y, b[second], u)
          BY <3>10, <5>1, Zenon DEF Laid
        <5>3. IsWord(y, b[second], u)
          BY <3>7, <5>2, TokenIs, Zenon
        <5> QED
          BY <5>2, <5>3, Zenon DEF IsWord
      <4>2. p \in 1..Len(y) + 1 /\ p \in Nat /\ p = p + 1 - 1
        BY <3>7, <4>1
      <4>3. arg \in Seq(S) /\ IsRest(y, p, arg)
        BY <3>7, <3>11, <4>1, <4>2, RestIs, Zenon
      <4>4. IsArgument(u)
        BY <1>11, <2>8, <3>4, <3>13, Zenon
      <4>5. TokenAt(y, p, u)
        BY <4>1, Zenon
      <4> HIDE DEF u
      <4>6. TokenAt(arg, 1, u)
        BY <2>2, <3>7, <4>2, <4>3, <4>5, TokenInRest
      <4>7. ArgumentOf(arg, u)
        BY <4>3, <4>4, <4>6, ArgumentRead, Zenon
      <4>8. OpOf(kw, arg) = MeantBy(word, u)
        BY <3>1, <3>2, <4>4, <4>7, OpRead, Zenon
      <4> QED
        BY <1>9, <1>10, <2>8, <3>3, <3>13, <4>8, Zenon DEF s, u
    <3> QED
      BY <2>6, <3>12, <3>13
  <2> QED
    BY <2>7, <2>8
<1> QED
  BY <1>2, <1>6, <1>14, <1>15

-----------------------------------------------------------------------------
(* Reading a text.                                                          *)

\* Of every text of the forms LegalText admits, observeListen finds the LISTENs
\* and UNLISTENs it was put together to mean, in order and under the names the
\* backend knows, and no others.
THEOREM TextsAreRead ==
    ASSUME NEW stmts, LegalText(stmts)
    PROVE  observeListen(Sql(stmts)) =
             FlattenSeq([k \in DOMAIN stmts |->
               IF Meaning(stmts[k]) = NoOp THEN <<>> ELSE <<Meaning(stmts[k])>>])
<1> DEFINE St == StatementsOf(stmts)
<1>1. splitStatements(Sql(stmts)) = St
  BY StatementsAreSplit, Zenon
<1>2. DOMAIN stmts = 1..Len(stmts)
  BY TextIs, Zenon DEF IsText
<1>3. DOMAIN St = 1..Len(stmts) /\ \A k \in 1..Len(stmts) : St[k] = Statement(stmts[k])
  BY Zenon DEF StatementsOf
<1>4. \A k \in 1..Len(stmts) : parseListenOp(St[k]) = Meaning(stmts[k])
  BY <1>2, <1>3, StatementRead, Zenon DEF LegalText
<1> HIDE DEF St
<1>5. observeListen(Sql(stmts)) =
        FlattenSeq([k \in DOMAIN St |-> IF parseListenOp(St[k]) = NoOp THEN <<>> ELSE <<parseListenOp(St[k])>>])
  BY <1>1, Zenon DEF observeListen
<1>6. [k \in DOMAIN St |-> IF parseListenOp(St[k]) = NoOp THEN <<>> ELSE <<parseListenOp(St[k])>>]
        = [k \in DOMAIN stmts |-> IF Meaning(stmts[k]) = NoOp THEN <<>> ELSE <<Meaning(stmts[k])>>]
  <2> DEFINE P(k) == parseListenOp(St[k])
             M(k) == Meaning(stmts[k])
  <2>1. \A k \in 1..Len(stmts) : P(k) = M(k)
    BY <1>4, Zenon
  <2>2. DOMAIN St = 1..Len(stmts)
    BY <1>3, Zenon
  <2> HIDE DEF P, M
  <2>3. [k \in DOMAIN St |-> IF P(k) = NoOp THEN <<>> ELSE <<P(k)>>]
          = [k \in DOMAIN stmts |-> IF M(k) = NoOp THEN <<>> ELSE <<M(k)>>]
    BY <1>2, <2>1, <2>2
  <2> QED
    BY <2>3, Zenon DEF P, M
<1> QED
  BY <1>5, <1>6, Zenon

\* No cell of a token ends a string.
LEMMA TokenHasNoNul ==
    ASSUME NEW t, LegalToken(t)
    PROVE  "NUL" \notin TokenCells(t)
<1>1. DOMAIN t.body = 1..Len(t.body) /\ (t.k = "dollar" => DOMAIN t.tag = 1..Len(t.tag))
  BY TokenParts, Zenon
<1>2. "NUL" \notin Elements(t.body)
  <2>1. "NUL" \notin ToSet(t.body)
    BY Zenon DEF LegalToken
  <2> QED
    BY <1>1, <2>1 DEF ToSet, Elements
<1>3. ~isIdentByte("NUL")
  BY LettersAssumption DEF isIdentByte
<1>4. ASSUME t.k = "dollar" PROVE "NUL" \notin Elements(t.tag)
  <2>1. \A i \in DOMAIN t.tag : isIdentByte(t.tag[i])
    BY <1>4 DEF LegalToken
  <2> QED
    BY <1>1, <1>3, <1>4, <2>1, Zenon DEF Elements
<1>5. "NUL" \notin Symbols
  BY DEF Symbols
<1> QED
  BY <1>2, <1>4, <1>5, Zenon DEF TokenCells

\* So no cell of a text ends a string.
LEMMA TextHasNoNul ==
    ASSUME NEW stmts, LegalText(stmts)
    PROVE  /\ Sql(stmts) \in Seq(TextCells(stmts)) /\ "NUL" \notin TextCells(stmts)
           /\ \A i \in DOMAIN Sql(stmts) : Sql(stmts)[i] # "NUL"
<1>1. /\ Sql(stmts) \in Seq(TextCells(stmts))
      /\ \A k \in 1..Len(stmts) : LegalTokens(stmts[k])
  BY TextIs, Zenon DEF IsText
<1>2. ASSUME NEW k \in 1..Len(stmts) PROVE "NUL" \notin StatementCells(stmts[k])
  <2>1. LegalTokens(stmts[k])
    BY <1>1
  <2>2. DOMAIN stmts[k] = 1..Len(stmts[k])
    BY <2>1, StatementIs, Zenon DEF IsStatement
  <2>3. \A i \in 1..Len(stmts[k]) : LegalToken(stmts[k][i])
    BY <2>1, <2>2, Zenon DEF LegalTokens
  <2> QED
    BY <2>3, TokenHasNoNul, Zenon DEF StatementCells
<1>3. "NUL" # Semicolon
  BY Zenon DEF Semicolon
<1>4. "NUL" \notin TextCells(stmts)
  BY <1>2, <1>3, Zenon DEF TextCells, AllCells
<1> DEFINE s == Sql(stmts)
           T == TextCells(stmts)
<1>5. s \in Seq(T) /\ "NUL" \notin T
  BY <1>1, <1>4
<1> HIDE DEF s, T
<1>6. \A i \in DOMAIN s : s[i] \in T
  BY <1>5
<1> QED
  BY <1>5, <1>6, Zenon DEF s, T

\* A message that carries no text: the text with one statement of no tokens.
LEMMA NothingObserved == observeListen(<<>>) = <<>>
<1> DEFINE none == <<>>
           one == <<none>>
           g == PieceOf(one)
           w == WrittenOf(none)
<1>1. Len(none) = 0 /\ DOMAIN none = {} /\ IsSequence(none)
  BY DEF IsSequence
<1>2. Len(one) = 1 /\ DOMAIN one = 1..1 /\ one[1] = none /\ IsSequence(one) /\ one # <<>>
  BY DEF IsSequence
<1> HIDE DEF one
<1>3. ASSUME NEW i \in {1, 2} PROVE Real(none, i) = 1
  <2>1. {j \in i..Len(none) : ~IsTrivia(none[j])} \cup {Len(none) + 1} = {1}
    BY <1>1
  <2>2. Min({1}) = 1
    BY DEF Min
  <2> QED
    BY <2>1, <2>2, Zenon DEF Real
<1>4. Real(none, 1) = 1 /\ Real(none, 1 + 1) = 1
  BY <1>3
<1>5. ~(1 <= Len(none)) /\ 1 > Len(none)
  BY <1>1
<1>6. LegalTokens(none)
  BY <1>1 DEF LegalTokens
<1>7. LegalStatement(none)
  BY <1>4, <1>5, <1>6, Zenon DEF LegalStatement, LegalTokens
<1>8. Meaning(none) = NoOp
  BY <1>4, <1>5, Zenon DEF Meaning
<1> HIDE DEF none
<1>9. LegalText(one)
  <2>1. \A k \in DOMAIN one : one[k] = none
    BY <1>2
  <2> QED
    BY <1>2, <1>7, <2>1, Zenon DEF LegalText
<1>10. Statement(none) = <<>>
  <2>1. w \in Seq(Seq(StatementCells(none))) /\ Len(w) = Len(none) /\ Statement(none) = First(w, Len(none))
    BY <1>6, StatementIs, Zenon DEF IsStatement
  <2>2. 0 \in 0..Len(w)
    BY <1>1, <2>1
  <2> QED
    BY <1>1, <2>1, <2>2, FirstType
<1>11. Sql(one) = <<>>
  <2>1. g \in Seq(Seq(TextCells(one))) /\ Len(g) = 1 /\ Sql(one) = First(g, 1)
    BY <1>2, <1>9, TextIs, Zenon DEF IsText
  <2>2. g[1] = <<>>
    BY <1>2, <1>10 DEF PieceOf
  <2> HIDE DEF g
  <2>3. 0 \in 0..Len(g) - 1 /\ 0 \in 0..Len(g) /\ 0 + 1 = 1
    BY <2>1
  <2>4. First(g, 0) = <<>>
    BY <2>1, <2>3, FirstType
  <2>5. First(g, 1) = <<>> \o <<>>
    BY <2>1, <2>2, <2>3, <2>4, FirstStep
  <2> QED
    BY <2>1, <2>5
<1>12. FlattenSeq([k \in DOMAIN one |-> IF Meaning(one[k]) = NoOp THEN <<>> ELSE <<Meaning(one[k])>>]) = <<>>
  <2> DEFINE h == [k \in 1..1 |-> <<>>]
  <2>1. [k \in DOMAIN one |-> IF Meaning(one[k]) = NoOp THEN <<>> ELSE <<Meaning(one[k])>>] = h
    <3>1. \A k \in 1..1 : Meaning(one[k]) = NoOp
      <4>1. \A k \in 1..1 : one[k] = none
        BY <1>2
      <4> QED
        BY <1>8, <4>1, Zenon
    <3> QED
      BY <1>2, <3>1
  <2>2. h \in Seq(Seq({})) /\ Len(h) = 1 /\ h[1] = <<>> /\ h = [k \in 1..1 |-> h[k]]
    OBVIOUS
  <2> HIDE DEF h
  <2>3. First(h, 1) = FlattenSeq(h)
    BY <2>2, Zenon DEF First
  <2>4. 0 \in 0..Len(h) - 1 /\ 0 \in 0..Len(h) /\ 0 + 1 = 1
    BY <2>2
  <2>5. First(h, 0) = <<>>
    BY <2>2, <2>4, FirstType
  <2>6. First(h, 1) = <<>> \o <<>>
    BY <2>2, <2>4, <2>5, FirstStep
  <2> QED
    BY <2>1, <2>3, <2>6
<1> QED
  BY <1>9, <1>11, <1>12, TextsAreRead, Zenon
=============================================================================
