--------------------------- MODULE PositionsProofs ---------------------------
(***************************************************************************)
(* What Pick takes from a sequence, and what other proofs need of numbers  *)
(* and sequences: least and greatest positions, induction over numbers,    *)
(* sequences that are joined or flattened.                                 *)
(***************************************************************************)
EXTENDS Positions, FiniteSetTheorems, SequenceTheorems, WellFoundedInduction, TLAPS

-----------------------------------------------------------------------------
(* Numbers and positions.                                                  *)

Smaller == {pair \in Nat \X Nat : pair[1] < pair[2]}

LEMMA LeastNumber ==
    ASSUME NEW S \in SUBSET Nat, S # {}
    PROVE  \E m \in S : \A n \in S : m <= n
<1>1. IsWellFoundedOn(Smaller, Nat)
  BY NatLessThanWellFounded, Zenon DEF OpToRel, Smaller
<1>2. PICK m \in S : \A n \in S : ~ (<<n, m>> \in Smaller)
  BY <1>1, WFMin, Zenon
<1>3. \A x, y \in Nat : <<x, y>> \in Smaller <=> x < y
  BY DEF Smaller
<1>4. \A n \in S : m \in Nat /\ n \in Nat /\ ~(n < m)
  BY <1>2, <1>3
<1> QED
  BY <1>4

LEMMA GreatestNumber ==
    ASSUME NEW n \in Nat, NEW S \in SUBSET (1 .. n), S # {}
    PROVE  \E m \in S : \A k \in S : k <= m
<1> DEFINE T == {n - k : k \in S}
<1>1. T \in SUBSET Nat /\ T # {}
  <2>1. \A k \in S : n - k \in Nat
    OBVIOUS
  <2> QED
    BY <2>1
<1>2. PICK t \in T : \A k \in T : t <= k
  BY <1>1, LeastNumber
<1>3. PICK m \in S : t = n - m
  BY <1>2
<1>4. \A k \in S : n - m <= n - k
  BY <1>2, <1>3
<1> QED
  BY <1>4

LEMMA MinMax ==
    ASSUME NEW n \in Nat, NEW S \in SUBSET (1 .. n), S # {}
    PROVE  /\ Min(S) \in S /\ \A k \in S : Min(S) <= k
           /\ Max(S) \in S /\ \A k \in S : k <= Max(S)
<1>1. \E m \in S : \A k \in S : m <= k
  BY LeastNumber
<1>2. \E m \in S : \A k \in S : m >= k
  <2>1. PICK m \in S : \A k \in S : k <= m
    BY GreatestNumber
  <2>2. \A k \in S : m >= k
    BY <2>1
  <2> QED
    BY <2>2
<1>3. Min(S) \in S /\ \A k \in S : Min(S) <= k
  BY <1>1 DEF Min
<1>4. Max(S) \in S /\ \A k \in S : Max(S) >= k
  BY <1>2 DEF Max
<1> QED
  BY <1>3, <1>4

\* A set of numbers that has 0, and with each number the next, has them all.
LEMMA AllNumbers ==
    ASSUME NEW S \in SUBSET Nat, 0 \in S, \A n \in S : n + 1 \in S
    PROVE  S = Nat
<1> SUFFICES ASSUME Nat \ S # {} PROVE FALSE
  OBVIOUS
<1>1. PICK m \in Nat \ S : \A n \in Nat \ S : m <= n
  BY LeastNumber
<1>2. m - 1 \in Nat /\ ~(m <= m - 1)
  BY <1>1
<1>3. m - 1 \in S /\ m = (m - 1) + 1
  BY <1>1, <1>2
<1> QED
  BY <1>1, <1>3

\* How many positions of K there are up to i.
Rank(K, i) == Cardinality({k \in K : k <= i})

\* Each number up to the size of K is the rank of one of its positions.
LEMMA RankExists ==
    ASSUME NEW n \in Nat, NEW K \in SUBSET (1 .. n), NEW j \in 1 .. Cardinality(K)
    PROVE  \E i \in K : Rank(K, i) = j
<1> DEFINE Good(m) == \A L \in SUBSET (1 .. m) : \A r \in 1 .. Cardinality(L) :
                          \E i \in L : Rank(L, i) = r
           S == {m \in Nat : Good(m)}
<1>1. 0 \in S
  <2>1. \A L \in SUBSET (1 .. 0) : Cardinality(L) = 0
    <3>1. 1 .. 0 = {}
      OBVIOUS
    <3> QED
      BY <3>1, FS_EmptySet
  <2> QED
    BY <2>1
<1>2. ASSUME NEW m \in S PROVE m + 1 \in S
  <2> SUFFICES ASSUME NEW L \in SUBSET (1 .. m + 1), NEW r \in 1 .. Cardinality(L)
               PROVE  \E i \in L : Rank(L, i) = r
    BY <1>2
  <2> DEFINE L0 == L \ {m + 1}
  <2>1. m \in Nat /\ Good(m)
    BY <1>2
  <2>2. L0 \in SUBSET (1 .. m)
    BY <2>1
  <2>3. IsFiniteSet(L)
    <3>1. IsFiniteSet(1 .. m + 1)
      BY <2>1, FS_Interval
    <3> QED
      BY <3>1, FS_Subset
  <2>4. CASE m + 1 \notin L
    BY <2>1, <2>2, <2>4
  <2>5. CASE m + 1 \in L
    <3>1. Cardinality(L) = Cardinality(L0) + 1 /\ Cardinality(L0) \in Nat
      <4>1. IsFiniteSet(L0) /\ Cardinality(L0) = Cardinality(L) - 1
        BY <2>3, <2>5, FS_RemoveElement
      <4>2. Cardinality(L) \in Nat /\ Cardinality(L0) \in Nat
        BY <2>3, <4>1, FS_CardinalityType
      <4> QED
        BY <4>1, <4>2
    <3>2. CASE r = Cardinality(L)
      <4>1. \A k \in L : k <= m + 1
        BY <2>1
      <4> QED
        BY <2>5, <3>2, <4>1 DEF Rank
    <3>3. CASE r # Cardinality(L)
      <4>1. r \in 1 .. Cardinality(L0)
        BY <3>1, <3>3
      <4>2. PICK i \in L0 : Rank(L0, i) = r
        BY <2>1, <2>2, <4>1
      <4>3. {k \in L : k <= i} = {k \in L0 : k <= i}
        BY <2>1, <2>2, <4>2
      <4> QED
        BY <4>2, <4>3 DEF Rank
    <3> QED
      BY <3>2, <3>3
  <2> QED
    BY <2>4, <2>5
<1> HIDE DEF Good
<1>3. S = Nat
  BY <1>1, <1>2, AllNumbers
<1>4. Good(n)
  BY <1>3
<1> QED
  BY <1>4 DEF Good

-----------------------------------------------------------------------------
(* Sequences.                                                              *)

\* The elements that Pick takes are those at the positions of K by rank.
LEMMA Picked ==
    ASSUME NEW S, NEW text \in Seq(S), NEW K \in SUBSET DOMAIN text
    PROVE  /\ Pick(text, K) \in Seq(S)
           /\ Len(Pick(text, K)) = Cardinality(K)
           /\ \A j \in 1 .. Len(Pick(text, K)) :
                  \E i \in K : Pick(text, K)[j] = text[i] /\ Rank(K, i) = j
<1> DEFINE n == Len(text)
           c == Cardinality(K)
           At(j) == CHOOSE i \in K : Rank(K, i) = j
<1>1. n \in Nat /\ K \in SUBSET (1 .. n)
  OBVIOUS
<1>2. c \in Nat
  <2>1. IsFiniteSet(1 .. n)
    BY <1>1, FS_Interval
  <2> QED
    BY <1>1, <2>1, FS_Subset, FS_CardinalityType
<1>3. \A j \in 1 .. c : At(j) \in K /\ Rank(K, At(j)) = j
  BY <1>1, RankExists
<1>4. Pick(text, K) = [j \in 1 .. c |-> text[At(j)]]
  BY DEF Pick, Rank
<1> HIDE DEF At, c
<1>5. \A j \in 1 .. c : text[At(j)] \in S
  BY <1>1, <1>3
<1>6. Pick(text, K) \in Seq(S) /\ Len(Pick(text, K)) = c
  BY <1>2, <1>4, <1>5
<1> QED
  BY <1>3, <1>4, <1>6 DEF c

LEMMA OwnRange ==
    ASSUME NEW S, NEW s \in Seq(S)
    PROVE  s \in Seq(Range(s)) /\ DOMAIN s = 1 .. Len(s) /\ Len(s) \in Nat
<1>1. DOMAIN s = 1 .. Len(s) /\ Len(s) \in Nat /\ s = [i \in 1 .. Len(s) |-> s[i]]
  OBVIOUS
<1>2. \A i \in 1 .. Len(s) : s[i] \in Range(s)
  BY <1>1 DEF Range
<1>3. s \in [1 .. Len(s) -> Range(s)]
  BY <1>1, <1>2
<1> QED
  BY <1>1, <1>3, SeqDef

\* They are the elements at the positions of K, all of them.
LEMMA PickedRange ==
    ASSUME NEW S, NEW text \in Seq(S), NEW K \in SUBSET DOMAIN text
    PROVE  Range(Pick(text, K)) = {text[i] : i \in K}
<1> DEFINE p == Pick(text, K)
           n == Len(text)
<1>1. p \in Seq(S) /\ Len(p) = Cardinality(K) /\ DOMAIN p = 1 .. Len(p)
  BY Picked
<1>2. \A j \in 1 .. Len(p) : \E i \in K : p[j] = text[i] /\ Rank(K, i) = j
  BY Picked
<1>3. ASSUME NEW i \in K PROVE \E j \in 1 .. Len(p) : p[j] = text[i]
  <2> DEFINE Upto(q) == {k \in K : k <= q}
             j == Rank(K, i)
  <2>1. n \in Nat /\ K \in SUBSET (1 .. n) /\ i \in 1 .. n
    OBVIOUS
  <2>2. IsFiniteSet(K)
    <3>1. IsFiniteSet(1 .. n)
      BY <2>1, FS_Interval
    <3> QED
      BY <2>1, <3>1, FS_Subset
  <2>3. \A q \in K : /\ IsFiniteSet(Upto(q)) /\ Cardinality(Upto(q)) = Rank(K, q)
                     /\ Cardinality(Upto(q)) <= Cardinality(K) /\ q \in Upto(q)
    <3> TAKE q \in K
    <3>1. Upto(q) \in SUBSET K /\ q \in Upto(q)
      BY <2>1
    <3> QED
      BY <2>2, <3>1, FS_Subset DEF Rank
  <2>4. j \in 1 .. Cardinality(K)
    <3>1. Cardinality(Upto(i)) \in Nat /\ Cardinality(Upto(i)) # 0 /\ Cardinality(K) \in Nat
      BY <2>2, <2>3, FS_CardinalityType, FS_EmptySet
    <3>2. Cardinality(Upto(i)) = j /\ Cardinality(Upto(i)) <= Cardinality(K)
      BY <2>3
    <3> HIDE DEF Upto, j
    <3> QED
      BY <3>1, <3>2
  <2>5. PICK q \in K : p[j] = text[q] /\ Rank(K, q) = j
    BY <1>1, <1>2, <2>4
  <2>6. q = i
    <3>1. Cardinality(Upto(q)) = Cardinality(Upto(i)) /\ IsFiniteSet(Upto(q)) /\ IsFiniteSet(Upto(i))
      BY <2>3, <2>5
    <3>2. Upto(q) \in SUBSET Upto(i) \/ Upto(i) \in SUBSET Upto(q)
      BY <2>1
    <3>3. Upto(q) = Upto(i)
      BY <3>1, <3>2, FS_Subset
    <3>4. q \in Upto(i) /\ i \in Upto(q)
      BY <2>3, <3>3
    <3>5. q <= i /\ i <= q
      BY <3>4
    <3> QED
      BY <2>1, <3>5
  <2> QED
    BY <1>1, <2>4, <2>5, <2>6
<1>4. Range(p) = {p[j] : j \in 1 .. Len(p)}
  BY <1>1 DEF Range
<1> HIDE DEF p
<1>5. {p[j] : j \in 1 .. Len(p)} = {text[i] : i \in K}
  BY <1>2, <1>3
<1> QED
  BY <1>4, <1>5 DEF p

\* Where the elements at K differ, no two that Pick takes are the same.
LEMMA PickedInjective ==
    ASSUME NEW S, NEW text \in Seq(S), NEW K \in SUBSET DOMAIN text,
           \A i, k \in K : text[i] = text[k] => i = k
    PROVE  IsInjective(Pick(text, K))
<1> DEFINE p == Pick(text, K)
<1>1. DOMAIN p = 1 .. Len(p)
  BY Picked
<1>2. \A j \in 1 .. Len(p) : \E i \in K : p[j] = text[i] /\ Rank(K, i) = j
  BY Picked
<1> SUFFICES ASSUME NEW a \in DOMAIN p, NEW b \in DOMAIN p, p[a] = p[b]
             PROVE  a = b
  BY DEF IsInjective
<1>3. PICK i \in K : p[a] = text[i] /\ Rank(K, i) = a
  BY <1>1, <1>2
<1>4. PICK k \in K : p[b] = text[k] /\ Rank(K, k) = b
  BY <1>1, <1>2
<1>5. i = k
  BY <1>3, <1>4
<1> QED
  BY <1>3, <1>4, <1>5

LEMMA Joined ==
    ASSUME NEW S, NEW s \in Seq(S), NEW t \in Seq(S)
    PROVE  /\ s \o t \in Seq(S)
           /\ Len(s \o t) = Len(s) + Len(t) /\ Len(s) \in Nat /\ Len(t) \in Nat
           /\ DOMAIN (s \o t) = 1 .. Len(s) + Len(t)
           /\ \A i \in 1 .. Len(s) : (s \o t)[i] = s[i]
           /\ \A i \in 1 .. Len(t) : (s \o t)[Len(s) + i] = t[i]
OBVIOUS

LEMMA JoinedRange ==
    ASSUME NEW S, NEW s \in Seq(S), NEW t \in Seq(S)
    PROVE  Range(s \o t) = Range(s) \cup Range(t)
<1>1. /\ Len(s) \in Nat /\ Len(t) \in Nat
      /\ DOMAIN s = 1 .. Len(s) /\ DOMAIN t = 1 .. Len(t)
      /\ DOMAIN (s \o t) = 1 .. Len(s) + Len(t)
  BY Joined
<1>2. \A i \in 1 .. Len(s) : (s \o t)[i] = s[i]
  BY Joined
<1>3. \A i \in 1 .. Len(t) : (s \o t)[Len(s) + i] = t[i]
  BY Joined
<1>4. ASSUME NEW i \in DOMAIN (s \o t) PROVE (s \o t)[i] \in Range(s) \cup Range(t)
  <2>1. CASE i \in 1 .. Len(s)
    BY <1>1, <1>2, <2>1 DEF Range
  <2>2. CASE i \notin 1 .. Len(s)
    <3>1. i - Len(s) \in 1 .. Len(t) /\ Len(s) + (i - Len(s)) = i
      BY <1>1, <2>2
    <3> QED
      BY <1>1, <1>3, <3>1 DEF Range
  <2> QED
    BY <2>1, <2>2
<1>5. ASSUME NEW i \in DOMAIN s PROVE s[i] \in Range(s \o t)
  <2>1. i \in DOMAIN (s \o t) /\ (s \o t)[i] = s[i]
    BY <1>1, <1>2
  <2> QED
    BY <2>1 DEF Range
<1>6. ASSUME NEW i \in DOMAIN t PROVE t[i] \in Range(s \o t)
  <2>1. Len(s) + i \in DOMAIN (s \o t) /\ (s \o t)[Len(s) + i] = t[i]
    BY <1>1, <1>3
  <2> QED
    BY <2>1 DEF Range
<1> QED
  BY <1>4, <1>5, <1>6 DEF Range

\* The recursive function in FlattenSeq.
FlatOf(seqs) ==
    CHOOSE f : f = [i \in 1 .. Len(seqs) |-> IF i = 1 THEN seqs[i] ELSE f[i - 1] \o seqs[i]]

LEMMA FlattenIsFlat ==
    ASSUME NEW seqs
    PROVE  FlattenSeq(seqs) = IF Len(seqs) = 0 THEN seqs ELSE FlatOf(seqs)[Len(seqs)]
BY DEF FlattenSeq, FlatOf

\* There is such a function: one for the first m sequences extends to m + 1.
LEMMA FlatExists ==
    ASSUME NEW seqs, Len(seqs) \in Nat
    PROVE  FlatOf(seqs) =
               [i \in 1 .. Len(seqs) |->
                   IF i = 1 THEN seqs[i] ELSE FlatOf(seqs)[i - 1] \o seqs[i]]
<1> DEFINE Flat(f, m) == f = [i \in 1 .. m |-> IF i = 1 THEN seqs[i] ELSE f[i - 1] \o seqs[i]]
           S == {m \in Nat : \E f : Flat(f, m)}
<1>1. 0 \in S
  <2> DEFINE f == [i \in 1 .. 0 |-> seqs[i]]
  <2>1. Flat(f, 0)
    OBVIOUS
  <2> QED
    BY <2>1
<1>2. ASSUME NEW m \in S PROVE m + 1 \in S
  <2>1. m \in Nat
    BY <1>2
  <2>2. PICK f : Flat(f, m)
    BY <1>2
  <2> DEFINE g == [i \in 1 .. m + 1 |-> IF i = 1 THEN seqs[i] ELSE f[i - 1] \o seqs[i]]
  <2>3. \A i \in 1 .. m + 1 : i # 1 => i - 1 \in 1 .. m /\ i - 1 \in 1 .. m + 1
    BY <2>1
  <2>4. \A i \in 1 .. m : g[i] = f[i]
    <3> TAKE i \in 1 .. m
    <3>1. i \in 1 .. m + 1
      BY <2>1
    <3>2. g[i] = IF i = 1 THEN seqs[i] ELSE f[i - 1] \o seqs[i]
      BY <3>1
    <3> HIDE DEF g
    <3>3. f[i] = IF i = 1 THEN seqs[i] ELSE f[i - 1] \o seqs[i]
      BY <2>2
    <3> QED
      BY <3>2, <3>3
  <2>5. \A i \in 1 .. m + 1 : g[i] = IF i = 1 THEN seqs[i] ELSE g[i - 1] \o seqs[i]
    <3> TAKE i \in 1 .. m + 1
    <3>1. g[i] = IF i = 1 THEN seqs[i] ELSE f[i - 1] \o seqs[i]
      OBVIOUS
    <3> HIDE DEF g
    <3> QED
      BY <2>3, <2>4, <3>1
  <2>6. g = [i \in 1 .. m + 1 |-> g[i]]
    OBVIOUS
  <2> HIDE DEF g
  <2>7. g = [i \in 1 .. m + 1 |-> IF i = 1 THEN seqs[i] ELSE g[i - 1] \o seqs[i]]
    BY <2>5, <2>6
  <2>8. m + 1 \in Nat
    BY <2>1
  <2> QED
    BY <2>7, <2>8
<1> HIDE DEF Flat
<1>3. S = Nat
  BY <1>1, <1>2, AllNumbers
<1>4. \E f : Flat(f, Len(seqs))
  BY <1>3
<1> QED
  BY <1>4 DEF Flat, FlatOf

\* What a flattened sequence has are the elements of its sequences.
LEMMA FlattenedRange ==
    ASSUME NEW S, NEW seqs \in Seq(Seq(S))
    PROVE  /\ FlattenSeq(seqs) \in Seq(S)
           /\ Range(FlattenSeq(seqs)) = UNION {Range(seqs[i]) : i \in DOMAIN seqs}
<1> DEFINE n == Len(seqs)
           f == FlatOf(seqs)
           Good(m) == m \in 1 .. n =>
                          /\ f[m] \in Seq(S)
                          /\ \A x : x \in Range(f[m]) <=> \E i \in 1 .. m : x \in Range(seqs[i])
           N == {m \in Nat : Good(m)}
<1>1. n \in Nat /\ DOMAIN seqs = 1 .. n /\ \A i \in 1 .. n : seqs[i] \in Seq(S)
  OBVIOUS
<1>2. \A i \in 1 .. n : f[i] = IF i = 1 THEN seqs[i] ELSE f[i - 1] \o seqs[i]
  <2>1. f = [i \in 1 .. n |-> IF i = 1 THEN seqs[i] ELSE f[i - 1] \o seqs[i]]
    BY <1>1, FlatExists
  <2> HIDE DEF f
  <2> QED
    BY <2>1
<1> HIDE DEF f
<1>3. 0 \in N
  OBVIOUS
<1>4. ASSUME NEW m \in N PROVE m + 1 \in N
  <2>1. m \in Nat /\ Good(m)
    BY <1>4
  <2> SUFFICES ASSUME m + 1 \in 1 .. n
               PROVE  /\ f[m + 1] \in Seq(S)
                      /\ \A x : x \in Range(f[m + 1])
                                  <=> \E i \in 1 .. m + 1 : x \in Range(seqs[i])
    BY <2>1
  <2>2. CASE m = 0
    <3>1. f[1] = seqs[1] /\ 1 .. m + 1 = {1} /\ m + 1 = 1
      BY <1>2, <2>2
    <3> QED
      BY <1>1, <3>1
  <2>3. CASE m # 0
    <3>1. m \in 1 .. n /\ m + 1 # 1 /\ (m + 1) - 1 = m
      BY <1>1, <2>1, <2>3
    <3>2. f[m + 1] = f[m] \o seqs[m + 1]
      BY <1>2, <3>1
    <3>3. f[m] \in Seq(S) /\ seqs[m + 1] \in Seq(S)
      BY <1>1, <2>1, <3>1
    <3>4. f[m] \o seqs[m + 1] \in Seq(S)
      BY <3>3, Joined
    <3>5. Range(f[m] \o seqs[m + 1]) = Range(f[m]) \cup Range(seqs[m + 1])
      BY <3>3, JoinedRange
    <3>6. \A x : x \in Range(f[m]) <=> \E i \in 1 .. m : x \in Range(seqs[i])
      BY <2>1, <3>1
    <3>7. 1 .. m + 1 = 1 .. m \cup {m + 1}
      BY <2>1
    <3> QED
      BY <3>2, <3>4, <3>5, <3>6, <3>7
  <2> QED
    BY <2>2, <2>3
<1> HIDE DEF Good
<1>5. N = Nat
  BY <1>3, <1>4, AllNumbers
<1>6. Good(n)
  BY <1>1, <1>5
<1>7. CASE n = 0
  <2>1. seqs = << >> /\ FlattenSeq(seqs) = seqs /\ DOMAIN seqs = {}
    BY <1>1, <1>7, EmptySeq, FlattenIsFlat
  <2>2. << >> \in Seq(S) /\ DOMAIN << >> = {}
    OBVIOUS
  <2> QED
    BY <2>1, <2>2 DEF Range
<1>8. CASE n # 0
  <2>1. n \in 1 .. n
    BY <1>1, <1>8
  <2>2. FlattenSeq(seqs) = f[n]
    BY <1>8, FlattenIsFlat DEF f
  <2> QED
    BY <1>1, <1>6, <2>1, <2>2 DEF Good
<1> QED
  BY <1>7, <1>8
=============================================================================
