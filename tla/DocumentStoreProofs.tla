-------------------------- MODULE DocumentStoreProofs --------------------------
(***************************************************************************)
(* Proofs about DocumentStore, for any names, contents, configurations,    *)
(* callers and ids.  That nothing is overwritten rests on one fact about   *)
(* keys: what follows the last slash of a key begins with the id of its    *)
(* upload.  So the lemmas before the steps are about texts: what trimming  *)
(* and sanitizing leave of a name, and where the slashes of a key are.     *)
(***************************************************************************)
EXTENDS DocumentStore, PositionsProofs

-----------------------------------------------------------------------------
(* Texts.                                                                  *)

Free(text, x) == \A i \in DOMAIN text : text[i] # x

\* Trimming leaves a part of the text that neither starts nor ends with a
\* character of the cutset.
LEMMA Trimmed ==
    ASSUME NEW S, NEW text \in Seq(S), NEW cutset
    PROVE  /\ TrimOf(text, cutset) \in Seq(S)
           /\ TrimOf(text, cutset) # << >> =>
                  /\ TrimOf(text, cutset)[1] \notin cutset
                  /\ TrimOf(text, cutset)[Len(TrimOf(text, cutset))] \notin cutset
           /\ \E m \in Nat : \A j \in DOMAIN TrimOf(text, cutset) :
                  j + m \in DOMAIN text /\ TrimOf(text, cutset)[j] = text[j + m]
<1> DEFINE n == Len(text)
           kept == {i \in DOMAIN text : text[i] \notin cutset}
           t == TrimOf(text, cutset)
<1>1. n \in Nat /\ kept \in SUBSET (1 .. n)
  OBVIOUS
<1>2. CASE kept = {}
  <2>1. t = << >>
    BY <1>2 DEF TrimOf
  <2>2. << >> \in Seq(S) /\ 0 \in Nat /\ DOMAIN << >> = {}
    OBVIOUS
  <2> QED
    BY <2>1, <2>2
<1>3. CASE kept # {}
  <2> DEFINE lo == Min(kept)
             hi == Max(kept)
  <2>1. /\ lo \in kept /\ hi \in kept /\ lo <= hi
    BY <1>1, <1>3, MinMax
  <2>2. t = SubSeq(text, lo, hi)
    BY <1>3 DEF TrimOf
  <2>3. lo \in 1 .. n /\ hi \in 1 .. n
    BY <2>1
  <2>4. text[lo] \notin cutset /\ text[hi] \notin cutset
    BY <2>1
  <2> HIDE DEF lo, hi, t, kept
  <2>5. /\ t \in Seq(S) /\ Len(t) = hi - lo + 1
        /\ \A j \in 1 .. Len(t) : t[j] = text[j + (lo - 1)]
    BY <2>1, <2>2, <2>3
  <2>6. /\ t[1] = text[lo] /\ t[Len(t)] = text[hi]
        /\ lo - 1 \in Nat
        /\ \A j \in 1 .. Len(t) : j + (lo - 1) \in DOMAIN text
    BY <2>1, <2>3, <2>5
  <2>7. DOMAIN t = 1 .. Len(t)
    BY <2>5
  <2> QED
    BY <2>4, <2>5, <2>6, <2>7 DEF t
<1> QED
  BY <1>2, <1>3

LEMMA SpaceTrimmed ==
    ASSUME NEW S, NEW text \in Seq(S)
    PROVE  /\ TrimSpace(text) \in Seq(S)
           /\ DOMAIN TrimSpace(text) = 1 .. Len(TrimSpace(text))
           /\ TrimSpace(text) # << >> =>
                  /\ TrimSpace(text)[1] # "space"
                  /\ TrimSpace(text)[Len(TrimSpace(text))] # "space"
           /\ \E m \in Nat : \A j \in DOMAIN TrimSpace(text) :
                  j + m \in DOMAIN text /\ TrimSpace(text)[j] = text[j + m]
<1> DEFINE blank == {"space"}
<1>1. TrimSpace(text) = TrimOf(text, blank) /\ "space" \in blank
  BY DEF TrimSpace
<1> HIDE DEF blank
<1>2. TrimSpace(text) \in Seq(S)
  BY <1>1, Trimmed
<1>3. TrimSpace(text) # << >> =>
          /\ TrimSpace(text)[1] # "space"
          /\ TrimSpace(text)[Len(TrimSpace(text))] # "space"
  BY <1>1, Trimmed
<1>4. \E m \in Nat : \A j \in DOMAIN TrimSpace(text) :
          j + m \in DOMAIN text /\ TrimSpace(text)[j] = text[j + m]
  BY <1>1, Trimmed
<1>5. DOMAIN TrimSpace(text) = 1 .. Len(TrimSpace(text))
  BY <1>2
<1> QED
  BY <1>2, <1>3, <1>4, <1>5

\* Base leaves no slash, unless the name is nothing but slashes.
LEMMA BaseName ==
    ASSUME NEW S, NEW name \in Seq(S)
    PROVE  \/ Base(name) = <<".">>
           \/ Base(name) = <<"/">>
           \/ Base(name) \in Seq(S) /\ Free(Base(name), "/")
<1> DEFINE n == Len(name)
           ends == {i \in DOMAIN name : name[i] # "/"}
           slashes == {i \in DOMAIN name : name[i] = "/" /\ i < Max(ends)}
<1>1. n \in Nat /\ ends \in SUBSET (1 .. n) /\ slashes \in SUBSET (1 .. n)
  OBVIOUS
<1>2. CASE name = << >> \/ ends = {}
  BY <1>2 DEF Base
<1>3. CASE name # << >> /\ ends # {}
  <2> DEFINE top == Max(slashes \cup {0})
             lo == top + 1
             hi == Max(ends)
  <2>1. hi \in 1 .. n /\ hi \in ends
    BY <1>1, <1>3, MinMax
  <2>2. Base(name) = SubSeq(name, lo, hi)
    BY <1>3 DEF Base
  <2>3. top \in slashes \cup {0} /\ \A k \in slashes : k <= top
    <3>1. CASE slashes = {}
      <4>1. \E m \in {0} : \A k \in {0} : m >= k
        OBVIOUS
      <4>2. Max({0}) \in {0}
        BY <4>1 DEF Max
      <4>3. slashes \cup {0} = {0}
        BY <3>1
      <4> QED
        BY <3>1, <4>2, <4>3
    <3>2. CASE slashes # {}
      <4>1. PICK m \in slashes : \A k \in slashes : k <= m
        BY <1>1, <3>2, GreatestNumber
      <4>2. m \in Nat /\ m \in slashes \cup {0} /\ \A k \in slashes \cup {0} : m >= k
        BY <1>1, <4>1
      <4>3. top \in slashes \cup {0} /\ \A k \in slashes \cup {0} : top >= k
        BY <4>2 DEF Max
      <4> QED
        BY <1>1, <4>3
    <3> QED
      BY <3>1, <3>2
  <2>4. lo \in 1 .. n /\ lo <= hi
    BY <1>1, <2>1, <2>3
  <2>5. \A i \in lo .. hi : name[i] # "/"
    <3> SUFFICES ASSUME NEW i \in lo .. hi, name[i] = "/" PROVE FALSE
      OBVIOUS
    <3>1. i \in DOMAIN name /\ i # hi /\ i < hi
      BY <1>1, <2>1, <2>4
    <3>2. i \in slashes
      BY <3>1
    <3> HIDE DEF top, slashes
    <3>3. top \in Nat /\ i <= top
      BY <1>1, <2>3, <3>2
    <3>4. i >= top + 1
      BY <3>3
    <3> QED
      BY <3>1, <3>3, <3>4
  <2> HIDE DEF lo, hi, top
  <2>6. /\ SubSeq(name, lo, hi) \in Seq(S)
        /\ Len(SubSeq(name, lo, hi)) = hi - lo + 1
        /\ \A j \in 1 .. hi - lo + 1 : SubSeq(name, lo, hi)[j] = name[lo + j - 1]
    BY <2>1, <2>4
  <2>7. \A j \in 1 .. hi - lo + 1 : lo + j - 1 \in lo .. hi
    BY <2>1, <2>4
  <2> QED
    BY <2>2, <2>5, <2>6, <2>7 DEF Free
<1> QED
  BY <1>2, <1>3

\* No two dots in a row.
NoPair(text) == \A i \in 1 .. Len(text) - 1 : ~(text[i] = "." /\ text[i + 1] = ".")

\* The positions that WithoutDots keeps.
RowOfDots(name, i) == {k \in 1 .. i : \A l \in k .. i : name[l] = "."}
KeptDots(name) ==
    {i \in DOMAIN name :
        name[i] = "." => /\ Cardinality(RowOfDots(name, i)) % 2 = 1
                         /\ i < Len(name) => name[i + 1] # "."}

LEMMA WithoutDotsPicks ==
    ASSUME NEW name
    PROVE  WithoutDots(name) = Pick(name, KeptDots(name))
BY DEF WithoutDots, KeptDots, RowOfDots

\* Of a row of dots one is left at most.
LEMMA PairsOut ==
    ASSUME NEW S, NEW name \in Seq(S)
    PROVE  NoPair(WithoutDots(name))
<1> DEFINE K == KeptDots(name)
           w == WithoutDots(name)
           n == Len(name)
<1>1. n \in Nat /\ K \in SUBSET DOMAIN name /\ DOMAIN name = 1 .. n
  BY DEF KeptDots
<1>2. /\ w = Pick(name, K) /\ w \in Seq(S)
      /\ \A j \in 1 .. Len(w) : \E i \in K : w[j] = name[i] /\ Rank(K, i) = j
  BY <1>1, Picked, WithoutDotsPicks
<1> SUFFICES ASSUME NEW j \in 1 .. Len(w) - 1, w[j] = ".", w[j + 1] = "."
             PROVE  FALSE
  BY DEF NoPair
<1>3. j \in 1 .. Len(w) /\ j + 1 \in 1 .. Len(w)
  BY <1>2
<1>4. PICK i \in K : w[j] = name[i] /\ Rank(K, i) = j
  BY <1>2, <1>3
<1>5. PICK q \in K : w[j + 1] = name[q] /\ Rank(K, q) = j + 1
  BY <1>2, <1>3
<1> DEFINE Upto(p) == {k \in K : k <= p}
<1>6. \A p \in K : IsFiniteSet(Upto(p)) /\ Cardinality(Upto(p)) = Rank(K, p)
  <2>1. IsFiniteSet(1 .. n)
    BY <1>1, FS_Interval
  <2> QED
    BY <1>1, <2>1, FS_Subset DEF Rank
<1>7. i < q
  <2> SUFFICES ASSUME ~(i < q) PROVE FALSE
    OBVIOUS
  <2>1. Upto(q) \in SUBSET Upto(i)
    BY <1>1
  <2>2. Cardinality(Upto(q)) <= Cardinality(Upto(i))
    BY <1>6, <2>1, FS_Subset
  <2>3. j + 1 <= j
    BY <1>4, <1>5, <1>6, <2>2
  <2> QED
    BY <2>3
<1>8. i < n /\ name[i] = "." /\ name[i + 1] # "."
  BY <1>1, <1>4, <1>7 DEF KeptDots
<1>9. i + 1 \in K /\ i + 1 < q
  <2>1. i + 1 \in 1 .. n
    BY <1>1, <1>8
  <2>2. i + 1 \in K
    BY <1>1, <1>8, <2>1 DEF KeptDots
  <2>3. i + 1 # q
    BY <1>5, <1>8
  <2> QED
    BY <1>1, <1>7, <2>2, <2>3
<1>10. Cardinality(Upto(i) \cup {i + 1}) = j + 1 /\ IsFiniteSet(Upto(i) \cup {i + 1})
  <2>1. i + 1 \notin Upto(i)
    BY <1>1
  <2> QED
    BY <1>4, <1>6, <2>1, FS_AddElement
<1>11. Upto(i) \cup {i + 1} \in SUBSET Upto(q) /\ q \in Upto(q) /\ q \notin Upto(i) \cup {i + 1}
  BY <1>1, <1>7, <1>9
<1> HIDE DEF Upto
<1>12. Cardinality(Upto(q)) = j + 1
  BY <1>5, <1>6
<1>13. Upto(i) \cup {i + 1} = Upto(q)
  BY <1>6, <1>10, <1>11, <1>12, FS_Subset
<1> QED
  BY <1>11, <1>13

\* What has no two dots in a row stays as it is.
LEMMA NothingOut ==
    ASSUME NEW S, NEW name \in Seq(S), NoPair(name)
    PROVE  WithoutDots(name) = name
<1> DEFINE K == KeptDots(name)
           w == WithoutDots(name)
           n == Len(name)
<1>1. n \in Nat /\ DOMAIN name = 1 .. n
  OBVIOUS
<1>2. ASSUME NEW i \in 1 .. n PROVE i \in K
  <2> SUFFICES ASSUME name[i] = "." PROVE i \in K
    BY <1>1 DEF KeptDots
  <2>1. i < n => name[i + 1] # "."
    BY <1>1 DEF NoPair
  <2>2. RowOfDots(name, i) = {i}
    <3>1. ASSUME NEW k \in RowOfDots(name, i), k # i PROVE FALSE
      <4>1. k \in 1 .. i /\ k < i /\ \A l \in k .. i : name[l] = "."
        BY <3>1 DEF RowOfDots
      <4>2. i - 1 \in k .. i /\ i - 1 \in 1 .. n - 1 /\ (i - 1) + 1 = i
        BY <1>1, <4>1
      <4> QED
        BY <4>1, <4>2 DEF NoPair
    <3>2. i \in RowOfDots(name, i)
      BY DEF RowOfDots
    <3> QED
      BY <3>1, <3>2
  <2>3. Cardinality(RowOfDots(name, i)) % 2 = 1
    <3>1. Cardinality({i}) = 1
      BY FS_Singleton
    <3> QED
      BY <2>2, <3>1
  <2> QED
    BY <1>1, <2>1, <2>3 DEF KeptDots
<1>3. K = 1 .. n
  BY <1>1, <1>2 DEF KeptDots
<1>4. /\ w \in Seq(S) /\ Len(w) = n
      /\ \A j \in 1 .. Len(w) : \E i \in K : w[j] = name[i] /\ Rank(K, i) = j
  <2>1. Cardinality(K) = n
    BY <1>1, <1>3, FS_Interval
  <2> QED
    BY <1>1, <1>3, <2>1, Picked, WithoutDotsPicks
<1>5. \A i \in 1 .. n : Rank(K, i) = i
  <2> SUFFICES ASSUME NEW i \in 1 .. n PROVE Rank(K, i) = i
    OBVIOUS
  <2>1. {k \in K : k <= i} = 1 .. i
    BY <1>1, <1>3
  <2> QED
    <3>1. Cardinality(1 .. i) = i
      BY FS_Interval
    <3> QED
      BY <2>1, <3>1 DEF Rank
<1>6. \A j \in 1 .. n : w[j] = name[j]
  BY <1>3, <1>4, <1>5
<1> QED
  BY <1>4, <1>6, SeqEqual

\* The characters of what WithoutDots leaves are characters of the name.
LEMMA DotsFree ==
    ASSUME NEW S, NEW name \in Seq(S), NEW x, Free(name, x)
    PROVE  WithoutDots(name) \in Seq(S) /\ Free(WithoutDots(name), x)
<1> DEFINE K == KeptDots(name)
           w == WithoutDots(name)
<1>1. K \in SUBSET DOMAIN name
  BY DEF KeptDots
<1>2. /\ w \in Seq(S)
      /\ \A j \in 1 .. Len(w) : \E i \in K : w[j] = name[i] /\ Rank(K, i) = j
  BY <1>1, Picked, WithoutDotsPicks
<1>3. DOMAIN w = 1 .. Len(w)
  BY <1>2
<1> QED
  BY <1>1, <1>2, <1>3 DEF Free

\* A sanitized name has no slash and no two dots in a row.
LEMMA SanitizedName ==
    ASSUME NEW S, NEW name \in Seq(S), SanitizeFileName(name) # << >>
    PROVE  /\ SanitizeFileName(name) \in Seq(S)
           /\ Free(SanitizeFileName(name), "/")
           /\ NoPair(SanitizeFileName(name))
<1> DEFINE t == TrimSpace(name)
           clean == WithoutDots(Base(t))
<1>1. t \in Seq(S)
  BY SpaceTrimmed
<1>2. SanitizeFileName(name) = clean /\ clean \notin {<<".">>, <<"/">>}
  BY DEF SanitizeFileName
<1>3. ASSUME NEW x, Base(t) = <<x>> PROVE clean = <<x>>
  <2>1. <<x>> \in Seq({x}) /\ NoPair(<<x>>)
    BY DEF NoPair
  <2> QED
    BY <1>3, <2>1, NothingOut
<1>4. Base(t) \in Seq(S) /\ Free(Base(t), "/")
  BY <1>1, <1>2, <1>3, BaseName
<1> HIDE DEF t
<1> QED
  BY <1>2, <1>4, DotsFree, PairsOut

\* Sanitized a second time a name is nothing or ends in no blank.
LEMMA SanitizedTwice ==
    ASSUME NEW S, NEW name \in Seq(S), Free(name, "/"), NoPair(name),
           SanitizeFileName(name) # << >>
    PROVE  LET twice == SanitizeFileName(name) IN
           twice \in Seq(S) /\ Free(twice, "/") /\ twice[Len(twice)] # "space"
<1> DEFINE z == TrimSpace(name)
<1>1. PICK m \in Nat : \A j \in DOMAIN z : j + m \in DOMAIN name /\ z[j] = name[j + m]
  BY SpaceTrimmed
<1>2. z \in Seq(S) /\ DOMAIN z = 1 .. Len(z) /\ (z # << >> => z[Len(z)] # "space")
  BY SpaceTrimmed
<1> HIDE DEF z
<1>3. Free(z, "/")
  BY <1>1 DEF Free
<1>4. NoPair(z)
  <2> SUFFICES ASSUME NEW j \in 1 .. Len(z) - 1, z[j] = ".", z[j + 1] = "." PROVE FALSE
    BY DEF NoPair
  <2>1. j \in DOMAIN z /\ j + 1 \in DOMAIN z
    <3>1. Len(z) \in Nat
      BY <1>2, LenProperties
    <3> QED
      BY <1>2, <3>1
  <2>2. j + m \in DOMAIN name /\ (j + 1) + m \in DOMAIN name
    BY <1>1, <2>1
  <2>3. (j + 1) + m = (j + m) + 1
    BY <1>1
  <2>4. j + m \in 1 .. Len(name) - 1
    BY <2>2, <2>3
  <2>5. name[j + m] = "." /\ name[(j + m) + 1] = "."
    BY <1>1, <2>1, <2>3
  <2> QED
    BY <2>4, <2>5 DEF NoPair
<1>5. CASE z = << >>
  <2>1. Base(z) = <<".">>
    BY <1>5 DEF Base
  <2>2. <<".">> \in Seq({"."}) /\ NoPair(<<".">>)
    BY DEF NoPair
  <2>3. WithoutDots(Base(z)) = <<".">>
    BY <2>1, <2>2, NothingOut
  <2> QED
    BY <2>3 DEF SanitizeFileName, z
<1>6. CASE z # << >>
  <2> DEFINE ends == {i \in DOMAIN z : z[i] # "/"}
             slashes == {i \in DOMAIN z : z[i] = "/" /\ i < Max(ends)}
             n == Len(z)
  <2>1. n \in Nat /\ n > 0 /\ DOMAIN z = 1 .. n
    BY <1>2, <1>6, EmptySeq, LenProperties
  <2>2. ends = 1 .. n /\ slashes = {}
    BY <1>3, <2>1 DEF Free
  <2>3. Max(1 .. n) = n
    <3>2. n \in 1 .. n
      BY <2>1
    <3>1. Max(1 .. n) \in 1 .. n /\ \A k \in 1 .. n : k <= Max(1 .. n)
      <4> DEFINE I == 1 .. n
      <4>1. I \in SUBSET (1 .. n) /\ I # {}
        BY <3>2
      <4> HIDE DEF I
      <4>2. Max(I) \in I /\ \A k \in I : k <= Max(I)
        BY <2>1, <4>1, MinMax
      <4> QED
        BY <4>2 DEF I
    <3> QED
      BY <2>1, <3>1, <3>2
  <2>4. Max({} \cup {0}) = 0
    <3>1. \E p \in {0} : \A k \in {0} : p >= k
      OBVIOUS
    <3>2. Max({0}) \in {0}
      BY <3>1 DEF Max
    <3> QED
      BY <3>2
  <2>5. Base(z) = SubSeq(z, Max(slashes \cup {0}) + 1, Max(ends))
    <3>1. 1 \in ends
      BY <2>1, <2>2
    <3> QED
      BY <1>6, <3>1 DEF Base
  <2> HIDE DEF ends, slashes
  <2>6. Base(z) = SubSeq(z, 1, n)
    <3>1. Max(ends) = n /\ Max(slashes \cup {0}) + 1 = 1
      BY <2>2, <2>3, <2>4
    <3> QED
      BY <2>5, <3>1, Zenon
  <2>7. Base(z) = z
    BY <1>2, <2>6, SubSeqFull
  <2>8. WithoutDots(Base(z)) = z
    BY <1>2, <1>4, <2>7, NothingOut
  <2> QED
    BY <1>2, <1>3, <1>6, <2>8 DEF SanitizeFileName, z
<1> QED
  BY <1>5, <1>6

\* A slug has no slash, unless its fallback has one.
LEMMA SlugText ==
    ASSUME NEW value \in Seq(Character), NEW fallback \in Seq(Character)
    PROVE  /\ SlugifyName(value, fallback) \in Seq(Character)
           /\ Free(fallback, "/") => Free(SlugifyName(value, fallback), "/")
<1> DEFINE input == OrElse(TrimSpace(value), fallback)
           Letter(i) == input[i] \notin Sign
           Dash(i) == /\ input[i] \in {"space", "-", "."}
                      /\ \E j \in 1 .. i - 1 :
                             Letter(j) /\ \A k \in j + 1 .. i - 1 : input[k] \in {"/", "*"}
           written == [i \in DOMAIN input |-> IF Letter(i) THEN ToLower(input[i]) ELSE "-"]
           K == {i \in DOMAIN input : Letter(i) \/ Dash(i)}
           slug == Pick(written, K)
           NoSlash == Character \ {"/"}
<1>1. SlugifyName(value, fallback) = OrElse(TrimOf(slug, {"-"}), fallback)
  BY DEF SlugifyName
<1>2. input \in Seq(Character)
  BY SpaceTrimmed DEF OrElse
<1> HIDE DEF input
<1>3. written \in Seq(NoSlash) /\ DOMAIN written = DOMAIN input
  <2>1. \A i \in DOMAIN input :
            (IF Letter(i) THEN ToLower(input[i]) ELSE "-") \in NoSlash
    <3> TAKE i \in DOMAIN input
    <3>1. "-" \in NoSlash /\ "a" \in NoSlash
      BY CharacterAssumption DEF Sign
    <3>2. input[i] \in Character
      BY <1>2
    <3>3. ASSUME Letter(i) PROVE ToLower(input[i]) \in NoSlash
      <4>1. input[i] # "/"
        BY <3>3 DEF Sign
      <4> QED
        BY <3>1, <3>2, <4>1 DEF ToLower
    <3> HIDE DEF Letter, NoSlash
    <3> QED
      BY <3>1, <3>3
  <2> QED
    BY <1>2, <2>1
<1>4. K \in SUBSET DOMAIN written
  BY <1>3
<1> HIDE DEF written, K
<1>5. slug \in Seq(NoSlash)
  BY <1>3, <1>4, Picked
<1> HIDE DEF slug
<1>6. TrimOf(slug, {"-"}) \in Seq(NoSlash)
  BY <1>5, Trimmed
<1>7. TrimOf(slug, {"-"}) \in Seq(Character) /\ Free(TrimOf(slug, {"-"}), "/")
  BY <1>6 DEF Free
<1> QED
  BY <1>1, <1>7 DEF OrElse

LEMMA JoinedFree ==
    ASSUME NEW S, NEW s \in Seq(S), NEW t \in Seq(S), NEW x, Free(s, x), Free(t, x)
    PROVE  Free(s \o t, x)
<1>1. DOMAIN s = 1 .. Len(s) /\ DOMAIN t = 1 .. Len(t)
  OBVIOUS
<1>2. ASSUME NEW i \in 1 .. Len(s) + Len(t), ~(i <= Len(s))
      PROVE  i - Len(s) \in 1 .. Len(t) /\ i = Len(s) + (i - Len(s))
  <2>1. Len(s) \in Nat /\ Len(t) \in Nat
    OBVIOUS
  <2> QED
    BY <1>2, <2>1
<1>3. \A i \in 1 .. Len(s) : (s \o t)[i] # x
  BY <1>1, Joined DEF Free
<1>4. \A i \in 1 .. Len(t) : (s \o t)[Len(s) + i] # x
  <2>1. \A i \in 1 .. Len(t) : (s \o t)[Len(s) + i] = t[i]
    BY Joined
  <2> QED
    BY <1>1, <2>1 DEF Free
<1>5. \A i \in 1 .. Len(s) + Len(t) : (s \o t)[i] # x
  BY <1>2, <1>3, <1>4
<1> QED
  BY <1>5, Joined DEF Free

\* What follows the last slash of a key: the name of the object, which begins
\* with the id of the upload and does not end in a blank.
Slug(d) == SlugifyName(d.docType, <<"document">>)
Named(d) == OrElse(SanitizeFileName(d.fileName), <<"document", ".", "bin">>)

LEMMA DocumentTexts ==
    ASSUME NEW d \in Document
    PROVE  /\ d.tenantName \in Seq(Character) /\ d.partyName \in Seq(Character)
           /\ d.docType \in Seq(Character) /\ d.fileName \in Seq(Character)
           /\ d.tenant \in Character /\ d.party \in Character
BY TextAssumption

LEMMA ObjectNameText ==
    ASSUME NEW d \in Document, NEW u \in Uuid
    PROVE  LET name == ObjectName(u, Named(d), Slug(d)) IN
           /\ name \in Seq(Character) /\ Len(name) >= 2 /\ name[1] = u
           /\ Free(name, "/") /\ name[Len(name)] # "space"
<1> DEFINE once == Named(d)
           twice == SanitizeFileName(once)
           rest == OrElse(twice, Slug(d) \o <<".", "bin">>)
<1>1. /\ u \in Character /\ u # "/"
      /\ "document" \in Character /\ "." \in Character /\ "bin" \in Character /\ "-" \in Character
  BY CharacterAssumption, UuidAssumption DEF Sign
<1>2. once \in Seq(Character) /\ Free(once, "/") /\ NoPair(once)
  <2>1. CASE SanitizeFileName(d.fileName) = << >>
    <3> DEFINE word == <<"document", ".", "bin">>
    <3>1. once = word
      BY <2>1 DEF Named, OrElse
    <3>2. word \in Seq(Character) /\ Len(word) = 3 /\ DOMAIN word = 1 .. 3
      BY <1>1
    <3>3. Free(word, "/")
      BY <3>2 DEF Free
    <3>4. NoPair(word)
      BY <3>2 DEF NoPair
    <3> QED
      BY <3>1, <3>2, <3>3, <3>4
  <2>2. CASE SanitizeFileName(d.fileName) # << >>
    <3>1. once = SanitizeFileName(d.fileName)
      BY <2>2 DEF Named, OrElse
    <3> QED
      BY <2>2, <3>1, DocumentTexts, SanitizedName
  <2> QED
    BY <2>1, <2>2
<1> HIDE DEF once
<1>3. rest \in Seq(Character) /\ Len(rest) > 0 /\ Free(rest, "/") /\ rest[Len(rest)] # "space"
  <2>1. CASE twice = << >>
    <3> DEFINE end == <<".", "bin">>
               slug == Slug(d)
    <3>1. rest = slug \o end
      BY <2>1 DEF OrElse
    <3>2. end \in Seq(Character) /\ Len(end) = 2 /\ end[1] = "." /\ end[2] = "bin"
      BY <1>1
    <3>3. slug \in Seq(Character) /\ Free(slug, "/")
      <4>1. <<"document">> \in Seq(Character) /\ Free(<<"document">>, "/")
        BY <1>1 DEF Free
      <4> QED
        BY <4>1, DocumentTexts, SlugText DEF Slug
    <3>4. Free(end, "/")
      BY <3>2 DEF Free
    <3> HIDE DEF end, slug, rest
    <3>5. rest \in Seq(Character) /\ Len(rest) = Len(slug) + 2 /\ rest[Len(slug) + 2] = end[2]
      <4>1. /\ rest \in Seq(Character) /\ Len(rest) = Len(slug) + Len(end)
            /\ \A i \in 1 .. Len(end) : rest[Len(slug) + i] = end[i]
        <5>1. slug \in Seq(Character) /\ end \in Seq(Character)
          BY <3>2, <3>3
        <5>2. slug \o end \in Seq(Character) /\ Len(slug \o end) = Len(slug) + Len(end)
          BY <5>1, Joined
        <5>3. \A i \in 1 .. Len(end) : (slug \o end)[Len(slug) + i] = end[i]
          BY <5>1, Joined
        <5> QED
          BY <3>1, <5>2, <5>3
      <4>2. Len(end) = 2 /\ 2 \in 1 .. Len(end)
        BY <3>2
      <4> QED
        BY <4>1, <4>2
    <3>6. Free(rest, "/")
      BY <3>1, <3>2, <3>3, <3>4, JoinedFree
    <3>7. Len(slug) \in Nat
      BY <3>3
    <3> QED
      BY <3>2, <3>5, <3>6, <3>7
  <2>2. CASE twice # << >>
    <3>1. rest = twice
      BY <2>2 DEF OrElse
    <3>2. twice \in Seq(Character) /\ Free(twice, "/") /\ twice[Len(twice)] # "space"
      BY <1>2, <2>2, SanitizedTwice
    <3>3. Len(twice) > 0
      BY <2>2, <3>2
    <3> QED
      BY <3>1, <3>2, <3>3
  <2> QED
    BY <2>1, <2>2
<1> HIDE DEF twice, rest
<1> DEFINE start == <<u, "-">>
           name == start \o rest
<1>4. ObjectName(u, Named(d), Slug(d)) = name
  BY DEF ObjectName, once, twice, rest
<1>5. start \in Seq(Character) /\ Len(start) = 2 /\ start[1] = u /\ start[2] = "-"
  BY <1>1
<1> HIDE DEF start
<1>6. Free(start, "/")
  BY <1>1, <1>5 DEF Free
<1>7. /\ name \in Seq(Character) /\ Len(name) = 2 + Len(rest) /\ Len(rest) \in Nat
      /\ name[1] = start[1] /\ name[2 + Len(rest)] = rest[Len(rest)]
  <2>1. 1 \in 1 .. Len(start) /\ Len(rest) \in 1 .. Len(rest)
    BY <1>3, <1>5
  <2>2. /\ name \in Seq(Character) /\ Len(name) = Len(start) + Len(rest) /\ Len(rest) \in Nat
        /\ \A i \in 1 .. Len(start) : name[i] = start[i]
        /\ \A i \in 1 .. Len(rest) : name[Len(start) + i] = rest[i]
    <3>1. start \in Seq(Character) /\ rest \in Seq(Character)
      BY <1>3, <1>5
    <3>2. start \o rest \in Seq(Character)
      BY <3>1, Joined
    <3>3. Len(start \o rest) = Len(start) + Len(rest) /\ Len(rest) \in Nat
      BY <3>1, Joined
    <3>4. \A i \in 1 .. Len(start) : (start \o rest)[i] = start[i]
      BY <3>1, Joined
    <3>5. \A i \in 1 .. Len(rest) : (start \o rest)[Len(start) + i] = rest[i]
      BY <3>1, Joined
    <3> QED
      BY <3>2, <3>3, <3>4, <3>5
  <2> HIDE DEF name
  <2> QED
    BY <1>5, <2>1, <2>2
<1>8. Free(name, "/")
  BY <1>3, <1>5, <1>6, JoinedFree
<1> HIDE DEF name
<1> QED
  BY <1>3, <1>4, <1>5, <1>7, <1>8

\* Prefix trims white space before it trims slashes and so leaves the blank of
\* "/ p"; the key of a download is trimmed of it.
PrefixesTrimmed == \A c \in Config : Prefix(c) # << >> => Prefix(c)[1] # "space"

Starts(text) ==
    /\ text \in Seq(Character) /\ Len(text) > 0
    /\ PrefixesTrimmed => text[1] # "space"

LEMMA StartsJoined ==
    ASSUME NEW s, Starts(s), NEW t \in Seq(Character)
    PROVE  Starts(s \o t)
<1>1. s \in Seq(Character) /\ 1 \in 1 .. Len(s)
  BY DEF Starts
<1>2. s \o t \in Seq(Character) /\ Len(s \o t) = Len(s) + Len(t) /\ Len(t) \in Nat
  BY <1>1, Joined
<1>3. (s \o t)[1] = s[1]
  BY <1>1, Joined
<1> QED
  BY <1>1, <1>2, <1>3 DEF Starts

\* A path ends in a slash.
LEMMA PathText ==
    ASSUME NEW c \in Config, NEW d \in Document
    PROVE  Starts(Path(c, d)) /\ Path(c, d)[Len(Path(c, d))] = "/"
<1> DEFINE head == IF Prefix(c) = << >> THEN << >> ELSE Prefix(c) \o <<"/">>
           tenant == FolderOf(d.tenantName, d.tenant)
           party == FolderOf(d.partyName, d.party)
           s1 == head \o <<"tenants", "/">>
           s2 == s1 \o tenant
           s3 == s2 \o <<"/", "parties", "/">>
           s4 == s3 \o party
           s5 == s4 \o <<"/">>
           s6 == s5 \o Slug(d)
<1>1. {"/", "-", "tenants", "parties", "document"} \subseteq Character
  BY CharacterAssumption DEF Sign
<1>2. ASSUME NEW name \in Seq(Character), NEW id \in Character
      PROVE  FolderOf(name, id) \in Seq(Character)
  <2>1. <<id>> \in Seq(Character) /\ <<"-", id>> \in Seq(Character)
    BY <1>1
  <2>2. SlugifyName(name, <<id>>) \in Seq(Character)
    BY <2>1, SlugText
  <2> QED
    BY <2>1, <2>2, Joined DEF FolderOf
<1>3. tenant \in Seq(Character) /\ party \in Seq(Character)
  BY <1>2, DocumentTexts
<1>4. Slug(d) \in Seq(Character)
  <2>1. <<"document">> \in Seq(Character)
    BY <1>1
  <2> QED
    BY <2>1, DocumentTexts, SlugText DEF Slug
<1>5. Starts(s1)
  <2> DEFINE word == <<"tenants", "/">>
  <2>1. word \in Seq(Character) /\ Len(word) = 2 /\ word[1] = "tenants"
    BY <1>1
  <2>2. Starts(word)
    BY <2>1 DEF Starts
  <2>3. CASE Prefix(c) = << >>
    <3>1. s1 = word
      BY <2>1, <2>3
    <3> QED
      BY <2>2, <3>1
  <2>4. CASE Prefix(c) # << >>
    <3>1. Prefix(c) \in Seq(Character)
      <4>1. TrimSpace(c.keyPrefix) \in Seq(Character)
        BY TextAssumption, SpaceTrimmed
      <4> QED
        BY <4>1, Trimmed DEF Prefix
    <3>2. Len(Prefix(c)) > 0
      BY <2>4, <3>1
    <3>3. Starts(Prefix(c))
      BY <2>4, <3>1, <3>2 DEF Starts, PrefixesTrimmed
    <3>4. <<"/">> \in Seq(Character)
      BY <1>1
    <3>5. Starts(Prefix(c) \o <<"/">>)
      BY <3>3, <3>4, StartsJoined
    <3> HIDE DEF word
    <3>6. Starts(head \o word)
      BY <2>1, <2>4, <3>5, StartsJoined
    <3> QED
      BY <3>6 DEF word
  <2> QED
    BY <2>3, <2>4
<1>6. Path(c, d) = s6 \o <<"/">>
  BY DEF Path, Slug
<1> HIDE DEF s1, tenant, party
<1>7. Starts(s2)
  BY <1>3, <1>5, StartsJoined
<1> HIDE DEF s2
<1>8. Starts(s3)
  <2>1. <<"/", "parties", "/">> \in Seq(Character)
    BY <1>1
  <2> QED
    BY <1>7, <2>1, StartsJoined
<1> HIDE DEF s3
<1>9. Starts(s4)
  BY <1>3, <1>8, StartsJoined
<1> HIDE DEF s4
<1>10. <<"/">> \in Seq(Character) /\ Len(<<"/">>) = 1 /\ <<"/">>[1] = "/"
  BY <1>1
<1>11. Starts(s5)
  BY <1>9, <1>10, StartsJoined
<1> HIDE DEF s5
<1>12. Starts(s6)
  BY <1>4, <1>11, StartsJoined
<1> HIDE DEF s6
<1>13. Starts(s6 \o <<"/">>)
  BY <1>10, <1>12, StartsJoined
<1>14. Len(s6 \o <<"/">>) = Len(s6) + 1 /\ (s6 \o <<"/">>)[Len(s6) + 1] = "/"
  <2>1. s6 \in Seq(Character)
    BY <1>12 DEF Starts
  <2> QED
    BY <2>1
<1> QED
  BY <1>6, <1>13, <1>14

\* A key is a path and the name of an object.
LEMMA KeyText ==
    ASSUME NEW c \in Config, NEW d \in Document, NEW u \in Uuid
    PROVE  LET path == Path(c, d)
               key  == KeyOf(c, d, u)
           IN  /\ Starts(key) /\ key[Len(key)] # "space"
               /\ Len(path) \in Nat /\ Len(path) > 0 /\ Len(path) + 1 <= Len(key)
               /\ key[Len(path)] = "/" /\ key[Len(path) + 1] = u
               /\ \A i \in Len(path) + 1 .. Len(key) : key[i] # "/"
<1> DEFINE path == Path(c, d)
           name == ObjectName(u, Named(d), Slug(d))
           key == path \o name
<1>1. KeyOf(c, d, u) = key
  BY DEF KeyOf, BuildObjectKey, Named, Slug
<1>2. Starts(path) /\ path[Len(path)] = "/"
  BY PathText
<1>3. /\ name \in Seq(Character) /\ Len(name) >= 2 /\ name[1] = u
      /\ Free(name, "/") /\ name[Len(name)] # "space"
  BY ObjectNameText
<1> HIDE DEF path, name
<1>4. path \in Seq(Character) /\ Len(path) \in Nat /\ Len(path) > 0 /\ Len(path) \in 1 .. Len(path)
  BY <1>2 DEF Starts
<1>5. /\ Len(name) \in Nat /\ 1 \in 1 .. Len(name) /\ Len(name) \in 1 .. Len(name)
      /\ DOMAIN name = 1 .. Len(name)
  BY <1>3
<1>6. Starts(key)
  BY <1>2, <1>3, StartsJoined
<1>7. Len(path \o name) = Len(path) + Len(name)
  BY <1>3, <1>4, Joined
<1>8. \A i \in 1 .. Len(path) : (path \o name)[i] = path[i]
  BY <1>3, <1>4, Joined
<1>9. \A i \in 1 .. Len(name) : (path \o name)[Len(path) + i] = name[i]
  BY <1>3, <1>4, Joined
<1> HIDE DEF key
<1>10. Len(key) = Len(path) + Len(name)
  BY <1>7 DEF key
<1>11. key[Len(path)] = "/" /\ key[Len(path) + 1] = u /\ key[Len(key)] # "space"
  BY <1>2, <1>3, <1>4, <1>5, <1>8, <1>9, <1>10 DEF key
<1>12. ASSUME NEW i \in Len(path) + 1 .. Len(key) PROVE key[i] # "/"
  <2>1. i - Len(path) \in 1 .. Len(name) /\ Len(path) + (i - Len(path)) = i
    BY <1>4, <1>5, <1>10
  <2> QED
    BY <1>3, <1>5, <1>9, <2>1 DEF Free, key
<1> QED
  BY <1>1, <1>4, <1>5, <1>6, <1>10, <1>11, <1>12 DEF path

\* The keys of two uploads differ, whatever the names and the configurations.
LEMMA KeysApart ==
    ASSUME NEW c1 \in Config, NEW d1 \in Document, NEW u1 \in Uuid,
           NEW c2 \in Config, NEW d2 \in Document, NEW u2 \in Uuid,
           KeyOf(c1, d1, u1) = KeyOf(c2, d2, u2)
    PROVE  u1 = u2
<1> DEFINE key == KeyOf(c1, d1, u1)
           l1 == Len(Path(c1, d1))
           l2 == Len(Path(c2, d2))
<1>1. /\ l1 \in Nat /\ l1 > 0 /\ l1 + 1 <= Len(key) /\ key[l1] = "/" /\ key[l1 + 1] = u1
      /\ \A i \in l1 + 1 .. Len(key) : key[i] # "/"
  BY KeyText
<1>2. /\ l2 \in Nat /\ l2 > 0 /\ l2 + 1 <= Len(key) /\ key[l2] = "/" /\ key[l2 + 1] = u2
      /\ \A i \in l2 + 1 .. Len(key) : key[i] # "/"
  <2> DEFINE other == KeyOf(c2, d2, u2)
  <2>1. /\ l2 \in Nat /\ l2 > 0 /\ l2 + 1 <= Len(other) /\ other[l2] = "/" /\ other[l2 + 1] = u2
        /\ \A i \in l2 + 1 .. Len(other) : other[i] # "/"
    BY KeyText
  <2>2. key = other
    OBVIOUS
  <2> HIDE DEF key, other, l2
  <2> QED
    BY <2>1, <2>2
<1>3. Len(key) \in Nat
  BY KeyText DEF Starts
<1> HIDE DEF key, l1, l2
<1>4. ~(l1 < l2) /\ ~(l2 < l1)
  BY <1>1, <1>2, <1>3
<1>5. l1 = l2
  BY <1>1, <1>2, <1>4
<1> QED
  BY <1>1, <1>2, <1>5

\* A key is not changed by trimming.
LEMMA KeyTrimmed ==
    ASSUME PrefixesTrimmed, NEW c \in Config, NEW d \in Document, NEW u \in Uuid
    PROVE  TrimSpace(KeyOf(c, d, u)) = KeyOf(c, d, u)
<1> DEFINE key == KeyOf(c, d, u)
           n == Len(key)
           kept == {i \in DOMAIN key : key[i] \notin {"space"}}
<1>1. /\ key \in Seq(Character) /\ n > 0 /\ n \in Nat
      /\ key[1] # "space" /\ key[n] # "space"
  BY KeyText DEF Starts
<1> HIDE DEF key
<1>2. kept \in SUBSET (1 .. n) /\ 1 \in kept /\ n \in kept
  BY <1>1
<1>3. TrimOf(key, {"space"}) = SubSeq(key, Min(kept), Max(kept))
  BY <1>2 DEF TrimOf
<1> HIDE DEF kept
<1>4. /\ Min(kept) \in kept /\ \A k \in kept : Min(kept) <= k
      /\ Max(kept) \in kept /\ \A k \in kept : k <= Max(kept)
  BY <1>1, <1>2, MinMax
<1>5. Min(kept) = 1 /\ Max(kept) = n
  <2>1. Min(kept) \in 1 .. n /\ Max(kept) \in 1 .. n
    BY <1>2, <1>4
  <2>2. Min(kept) <= 1 /\ n <= Max(kept)
    BY <1>2, <1>4
  <2> HIDE DEF n
  <2> QED
    BY <1>1, <2>1, <2>2
<1>6. SubSeq(key, 1, n) = key
  BY <1>1, SubSeqFull
<1>7. TrimSpace(key) = key
  BY <1>3, <1>5, <1>6 DEF TrimSpace
<1> QED
  BY <1>7 DEF key
-----------------------------------------------------------------------------
(* The folders of a key.                                                   *)

Opens(s, t) == Len(s) <= Len(t) /\ \A i \in 1 .. Len(s) : t[i] = s[i]

LEMMA OpensJoined ==
    ASSUME NEW S, NEW s \in Seq(S), NEW t \in Seq(S), NEW key \in Seq(S), Opens(s \o t, key)
    PROVE  Opens(s, key) /\ \A i \in 1 .. Len(t) : key[Len(s) + i] = t[i]
<1>1. Len(s \o t) = Len(s) + Len(t) /\ Len(s) \in Nat /\ Len(t) \in Nat /\ Len(key) \in Nat
  BY Joined
<1>2. \A i \in 1 .. Len(s) : (s \o t)[i] = s[i]
  BY Joined
<1>3. \A i \in 1 .. Len(t) : (s \o t)[Len(s) + i] = t[i]
  BY Joined
<1>4. Opens(s, key)
  BY <1>1, <1>2 DEF Opens
<1>5. \A i \in 1 .. Len(t) : Len(s) + i \in 1 .. Len(s \o t)
  BY <1>1
<1> QED
  BY <1>3, <1>4, <1>5 DEF Opens

\* The slash before position i.
LEMMA SlashFound ==
    ASSUME NEW key, NEW i \in Nat, NEW p \in 1 .. i - 1, key[p] = "/",
           \A j \in p + 1 .. i - 1 : key[j] # "/"
    PROVE  SlashBefore(key, i) = p
<1> DEFINE T == {j \in 1 .. i - 1 : key[j] = "/"} \cup {0}
<1>1. p \in T /\ \A j \in T : p >= j
  OBVIOUS
<1>2. T \subseteq Int
  OBVIOUS
<1> HIDE DEF T
<1>3. Max(T) \in T /\ \A j \in T : Max(T) >= j
  BY <1>1 DEF Max
<1>4. Max(T) = p
  <2>1. Max(T) >= p /\ p >= Max(T) /\ Max(T) \in Int /\ p \in Int
    BY <1>1, <1>2, <1>3
  <2> QED
    BY <2>1
<1> QED
  BY <1>4 DEF SlashBefore, T

\* A word without a slash between two slashes of a key.
LEMMA Level ==
    ASSUME NEW S, NEW key \in Seq(S), NEW a \in Seq(S), NEW w \in Seq(S),
           Len(a) > 0, key[Len(a)] = "/", Free(w, "/"), Opens(a \o w, key)
    PROVE  /\ SlashBefore(key, Len(a) + Len(w) + 1) = Len(a)
           /\ SubSeq(key, Len(a) + 1, Len(a) + Len(w)) = w
<1>1. /\ Len(a) \in Nat /\ Len(w) \in Nat /\ Len(key) \in Nat /\ Len(a) + Len(w) <= Len(key)
      /\ DOMAIN w = 1 .. Len(w)
  <2>1. Len(a \o w) = Len(a) + Len(w)
    BY Joined
  <2> QED
    BY <2>1 DEF Opens
<1>2. \A i \in 1 .. Len(w) : key[Len(a) + i] = w[i]
  BY OpensJoined
<1>3. ASSUME NEW j \in Len(a) + 1 .. Len(a) + Len(w) PROVE key[j] # "/"
  <2>1. j - Len(a) \in 1 .. Len(w) /\ Len(a) + (j - Len(a)) = j
    BY <1>1
  <2> QED
    BY <1>1, <1>2, <2>1 DEF Free
<1>4. SlashBefore(key, Len(a) + Len(w) + 1) = Len(a)
  <2> DEFINE i == Len(a) + Len(w) + 1
  <2>1. i \in Nat /\ Len(a) \in 1 .. i - 1 /\ i - 1 = Len(a) + Len(w)
    BY <1>1
  <2> HIDE DEF i
  <2>2. SlashBefore(key, i) = Len(a)
    BY <1>3, <2>1, SlashFound
  <2> QED
    BY <2>2 DEF i
<1>5. SubSeq(key, Len(a) + 1, Len(a) + Len(w)) = w
  <2> DEFINE part == SubSeq(key, Len(a) + 1, Len(a) + Len(w))
  <2>1. part \in Seq(S) /\ Len(part) = Len(w) /\ \A i \in 1 .. Len(w) : part[i] = key[Len(a) + i]
    BY <1>1
  <2> HIDE DEF part
  <2>2. part = w
    BY <1>2, <2>1, SeqEqual
  <2> QED
    BY <2>2 DEF part
<1> QED
  BY <1>4, <1>5

\* What Folders makes of a text that has the form of a key.
LEMMA Layout ==
    ASSUME NEW S, {"/", "tenants", "parties"} \subseteq S,
           NEW head \in Seq(S), NEW tenant \in Seq(S), NEW party \in Seq(S),
           NEW type \in Seq(S), NEW name \in Seq(S),
           Free(tenant, "/"), Free(party, "/"), Free(type, "/"), Free(name, "/")
    PROVE  Folders(head \o <<"tenants", "/">> \o tenant \o <<"/", "parties", "/">> \o party
                   \o <<"/">> \o type \o <<"/">> \o name)
           = [root |-> "tenants", tenant |-> tenant, parties |-> <<"parties">>, party |-> party]
<1> DEFINE w1 == <<"tenants", "/">>
           w3 == <<"/", "parties", "/">>
           w5 == <<"/">>
           s1 == head \o w1
           s2 == s1 \o tenant
           s3 == s2 \o w3
           s4 == s3 \o party
           s5 == s4 \o w5
           s6 == s5 \o type
           s7 == s6 \o w5
           key == s7 \o name
<1>1. /\ w1 \in Seq(S) /\ Len(w1) = 2 /\ w1[1] = "tenants" /\ w1[2] = "/"
      /\ w3 \in Seq(S) /\ Len(w3) = 3 /\ w3[1] = "/" /\ w3[2] = "parties" /\ w3[3] = "/"
      /\ w5 \in Seq(S) /\ Len(w5) = 1 /\ w5[1] = "/"
  OBVIOUS
<1> HIDE DEF w1, w3, w5
<1>2. s1 \in Seq(S) /\ Len(s1) = Len(head) + Len(w1)
  <2>1. head \in Seq(S) /\ w1 \in Seq(S)
    BY <1>1
  <2>2. head \o w1 \in Seq(S)
    BY <2>1, Joined
  <2>3. Len(head \o w1) = Len(head) + Len(w1)
    BY <2>1, Joined
  <2> QED
    BY <2>2, <2>3
<1> HIDE DEF s1
<1>3. s2 \in Seq(S) /\ Len(s2) = Len(s1) + Len(tenant)
  BY <1>2, Joined
<1> HIDE DEF s2
<1>4. s3 \in Seq(S) /\ Len(s3) = Len(s2) + Len(w3)
  <2>1. s2 \in Seq(S) /\ w3 \in Seq(S)
    BY <1>1, <1>3
  <2>2. s2 \o w3 \in Seq(S)
    BY <2>1, Joined
  <2>3. Len(s2 \o w3) = Len(s2) + Len(w3)
    BY <2>1, Joined
  <2> QED
    BY <2>2, <2>3
<1> HIDE DEF s3
<1>5. s4 \in Seq(S) /\ Len(s4) = Len(s3) + Len(party)
  BY <1>4, Joined
<1> HIDE DEF s4
<1>6. s5 \in Seq(S) /\ Len(s5) = Len(s4) + Len(w5)
  <2>1. s4 \in Seq(S) /\ w5 \in Seq(S)
    BY <1>1, <1>5
  <2>2. s4 \o w5 \in Seq(S)
    BY <2>1, Joined
  <2>3. Len(s4 \o w5) = Len(s4) + Len(w5)
    BY <2>1, Joined
  <2> QED
    BY <2>2, <2>3
<1> HIDE DEF s5
<1>7. s6 \in Seq(S) /\ Len(s6) = Len(s5) + Len(type)
  BY <1>6, Joined
<1> HIDE DEF s6
<1>8. s7 \in Seq(S) /\ Len(s7) = Len(s6) + Len(w5)
  <2>1. s6 \in Seq(S) /\ w5 \in Seq(S)
    BY <1>1, <1>7
  <2>2. s6 \o w5 \in Seq(S)
    BY <2>1, Joined
  <2>3. Len(s6 \o w5) = Len(s6) + Len(w5)
    BY <2>1, Joined
  <2> QED
    BY <2>2, <2>3
<1> HIDE DEF s7
<1>9. key \in Seq(S) /\ Len(key) = Len(s7) + Len(name)
  BY <1>8, Joined
<1>10. Opens(s7 \o name, key)
  BY <1>9 DEF Opens
<1> HIDE DEF key
<1>11. Opens(s7, key)
  BY <1>8, <1>9, <1>10, OpensJoined
<1>12. Opens(s6, key) /\ \A i \in 1 .. Len(w5) : key[Len(s6) + i] = w5[i]
  <2>1. s6 \in Seq(S) /\ w5 \in Seq(S) /\ key \in Seq(S) /\ Opens(s6 \o w5, key)
    BY <1>1, <1>7, <1>9, <1>11 DEF s7
  <2>2. Opens(s6, key)
    BY <2>1, OpensJoined
  <2>3. \A i \in 1 .. Len(w5) : key[Len(s6) + i] = w5[i]
    BY <2>1, OpensJoined
  <2> QED
    BY <2>2, <2>3
<1>13. Opens(s5, key)
  BY <1>6, <1>9, <1>12, OpensJoined DEF s6
<1>14. Opens(s4, key) /\ \A i \in 1 .. Len(w5) : key[Len(s4) + i] = w5[i]
  <2>1. s4 \in Seq(S) /\ w5 \in Seq(S) /\ key \in Seq(S) /\ Opens(s4 \o w5, key)
    BY <1>1, <1>5, <1>9, <1>13 DEF s5
  <2>2. Opens(s4, key)
    BY <2>1, OpensJoined
  <2>3. \A i \in 1 .. Len(w5) : key[Len(s4) + i] = w5[i]
    BY <2>1, OpensJoined
  <2> QED
    BY <2>2, <2>3
<1>15. Opens(s3, key)
  BY <1>4, <1>9, <1>14, OpensJoined DEF s4
<1>16. Opens(s2, key) /\ \A i \in 1 .. Len(w3) : key[Len(s2) + i] = w3[i]
  <2>1. s2 \in Seq(S) /\ w3 \in Seq(S) /\ key \in Seq(S) /\ Opens(s2 \o w3, key)
    BY <1>1, <1>3, <1>9, <1>15 DEF s3
  <2>2. Opens(s2, key)
    BY <2>1, OpensJoined
  <2>3. \A i \in 1 .. Len(w3) : key[Len(s2) + i] = w3[i]
    BY <2>1, OpensJoined
  <2> QED
    BY <2>2, <2>3
<1>17. Opens(s1, key)
  BY <1>2, <1>9, <1>16, OpensJoined DEF s2
<1>18. \A i \in 1 .. Len(w1) : key[Len(head) + i] = w1[i]
  <2>1. head \in Seq(S) /\ w1 \in Seq(S) /\ key \in Seq(S) /\ Opens(head \o w1, key)
    BY <1>1, <1>9, <1>17 DEF s1
  <2> QED
    BY <2>1, OpensJoined
<1>19. /\ Len(head) \in Nat /\ Len(s1) = Len(head) + 2
       /\ Len(tenant) \in Nat /\ Len(s2) = Len(s1) + Len(tenant) /\ Len(s3) = Len(s2) + 3
       /\ Len(party) \in Nat /\ Len(s4) = Len(s3) + Len(party) /\ Len(s5) = Len(s4) + 1
       /\ Len(type) \in Nat /\ Len(s6) = Len(s5) + Len(type) /\ Len(s7) = Len(s6) + 1
       /\ Len(name) \in Nat /\ Len(key) = Len(s7) + Len(name)
  <2>1. /\ Len(head) \in Nat /\ Len(tenant) \in Nat /\ Len(party) \in Nat
        /\ Len(type) \in Nat /\ Len(name) \in Nat
    OBVIOUS
  <2> QED
    BY <1>1, <1>2, <1>3, <1>4, <1>5, <1>6, <1>7, <1>8, <1>9, <2>1
<1>20. /\ key[Len(head) + 1] = "tenants" /\ key[Len(head) + 2] = "/"
       /\ key[Len(s2) + 1] = "/" /\ key[Len(s2) + 2] = "parties" /\ key[Len(s2) + 3] = "/"
       /\ key[Len(s4) + 1] = "/" /\ key[Len(s6) + 1] = "/"
  BY <1>1, <1>12, <1>14, <1>16, <1>18
<1>21. /\ SlashBefore(key, Len(key) + 1) = Len(s7)
       /\ SlashBefore(key, Len(s7)) = Len(s5)
  <2>1. /\ Len(s7) > 0 /\ key[Len(s7)] = "/"
        /\ Len(s5) > 0 /\ key[Len(s5)] = "/"
    BY <1>19, <1>20
  <2>2. /\ s5 \in Seq(S) /\ type \in Seq(S) /\ key \in Seq(S) /\ Opens(s5 \o type, key)
        /\ Len(s5) > 0 /\ key[Len(s5)] = "/" /\ Free(type, "/")
    BY <1>6, <1>9, <1>12, <2>1 DEF s6
  <2>3. /\ s7 \in Seq(S) /\ name \in Seq(S) /\ key \in Seq(S) /\ Opens(s7 \o name, key)
        /\ Len(s7) > 0 /\ key[Len(s7)] = "/" /\ Free(name, "/")
    BY <1>8, <1>9, <1>10, <2>1
  <2>4. SlashBefore(key, Len(s7) + Len(name) + 1) = Len(s7)
    BY <2>3, Level
  <2>5. SlashBefore(key, Len(s5) + Len(type) + 1) = Len(s5)
    BY <2>2, Level
  <2> QED
    BY <1>19, <2>4, <2>5
<1>22. /\ SlashBefore(key, Len(s5)) = Len(s3)
       /\ SubSeq(key, Len(s3) + 1, Len(s5) - 1) = party
  <2>1. Len(s3) > 0 /\ key[Len(s3)] = "/"
    BY <1>19, <1>20
  <2>2. /\ s3 \in Seq(S) /\ party \in Seq(S) /\ key \in Seq(S) /\ Opens(s3 \o party, key)
        /\ Len(s3) > 0 /\ key[Len(s3)] = "/" /\ Free(party, "/")
    BY <1>4, <1>9, <1>14, <2>1 DEF s4
  <2>3. SlashBefore(key, Len(s3) + Len(party) + 1) = Len(s3)
    BY <2>2, Level
  <2>4. SubSeq(key, Len(s3) + 1, Len(s3) + Len(party)) = party
    BY <2>2, Level
  <2>5. Len(s5) = Len(s3) + Len(party) + 1 /\ Len(s5) - 1 = Len(s3) + Len(party)
    BY <1>19
  <2> QED
    BY <2>3, <2>4, <2>5
<1>23. /\ SlashBefore(key, Len(s3)) = Len(s2) + 1
       /\ SubSeq(key, (Len(s2) + 1) + 1, Len(s3) - 1) = <<"parties">>
  <2> DEFINE i == Len(s3)
             p == Len(s2) + 1
  <2>1. /\ i \in Nat /\ p \in 1 .. i - 1 /\ i - 1 = p + 1 /\ p + 1 = Len(s2) + 2
        /\ i - 1 <= Len(key) /\ Len(key) \in Nat
    BY <1>19
  <2>2. key[p] = "/" /\ key[p + 1] = "parties"
    BY <1>20, <2>1
  <2> HIDE DEF i, p
  <2>3. \A j \in p + 1 .. i - 1 : key[j] # "/"
    <3>1. \A j \in p + 1 .. i - 1 : j = p + 1
      BY <2>1
    <3> QED
      BY <2>2, <3>1
  <2>4. SlashBefore(key, i) = p
    BY <2>1, <2>2, <2>3, SlashFound
  <2>5. SubSeq(key, p + 1, i - 1) = <<"parties">>
    <3> DEFINE q == p + 1
    <3>1. q \in 1 .. Len(key) /\ i - 1 = q
      BY <2>1
    <3> HIDE DEF q
    <3> DEFINE part == SubSeq(key, q, q)
               word == <<key[q]>>
    <3>2. part \in Seq(S) /\ Len(part) = 1 /\ part[1] = key[q]
      BY <1>9, <3>1
    <3>3. word \in Seq(S) /\ Len(word) = 1 /\ word[1] = key[q]
      BY <1>9, <3>1
    <3>4. part = word
      <4>1. \A k \in 1 .. Len(part) : part[k] = word[k]
        BY <3>2, <3>3
      <4> HIDE DEF part, word
      <4> QED
        BY <3>2, <3>3, <4>1, SeqEqual
    <3> QED
      BY <2>2, <3>1, <3>4 DEF q
  <2> QED
    BY <2>4, <2>5 DEF i, p
<1>24. /\ SlashBefore(key, Len(s2) + 1) = Len(s1)
       /\ SubSeq(key, Len(s1) + 1, (Len(s2) + 1) - 1) = tenant
       /\ key[Len(s1) - 1] = "tenants"
  <2>1. Len(s1) > 0 /\ key[Len(s1)] = "/" /\ key[Len(s1) - 1] = "tenants"
    BY <1>19, <1>20
  <2>2. /\ s1 \in Seq(S) /\ tenant \in Seq(S) /\ key \in Seq(S) /\ Opens(s1 \o tenant, key)
        /\ Len(s1) > 0 /\ key[Len(s1)] = "/" /\ Free(tenant, "/")
    BY <1>2, <1>9, <1>16, <2>1 DEF s2
  <2>3. SlashBefore(key, Len(s1) + Len(tenant) + 1) = Len(s1)
    BY <2>2, Level
  <2>4. SubSeq(key, Len(s1) + 1, Len(s1) + Len(tenant)) = tenant
    BY <2>2, Level
  <2>5. Len(s2) + 1 = Len(s1) + Len(tenant) + 1 /\ (Len(s2) + 1) - 1 = Len(s1) + Len(tenant)
    BY <1>19
  <2> QED
    BY <2>1, <2>3, <2>4, <2>5
<1>25. Folders(key) = [root    |-> key[Len(s1) - 1],
                       tenant  |-> SubSeq(key, Len(s1) + 1, (Len(s2) + 1) - 1),
                       parties |-> SubSeq(key, (Len(s2) + 1) + 1, Len(s3) - 1),
                       party   |-> SubSeq(key, Len(s3) + 1, Len(s5) - 1)]
  BY <1>21, <1>22, <1>23, <1>24 DEF Folders
<1>26. Folders(key) = [root |-> "tenants", tenant |-> tenant, parties |-> <<"parties">>, party |-> party]
  BY <1>22, <1>23, <1>24, <1>25
<1> QED
  BY <1>26 DEF key, s7, s6, s5, s4, s3, s2, s1, w1, w3, w5

\* A folder's name has no slash and ends in the id of its owner.
LEMMA FolderText ==
    ASSUME NEW name \in Seq(Character), NEW id \in Character \ Sign
    PROVE  LET folder == FolderOf(name, id) IN
           /\ folder \in Seq(Character) /\ Free(folder, "/")
           /\ folder[Len(folder)] = id
<1> DEFINE slug == SlugifyName(name, <<id>>)
           end == <<"-", id>>
<1>1. "-" \in Character /\ id # "/"
  BY CharacterAssumption DEF Sign
<1>2. end \in Seq(Character) /\ Len(end) = 2 /\ end[1] = "-" /\ end[2] = id
  BY <1>1
<1>3. slug \in Seq(Character) /\ Free(slug, "/")
  <2>1. <<id>> \in Seq(Character) /\ Free(<<id>>, "/")
    BY <1>1 DEF Free
  <2> QED
    BY <2>1, SlugText
<1> HIDE DEF slug, end
<1>4. Free(end, "/")
  BY <1>1, <1>2 DEF Free
<1>5. slug \in Seq(Character) /\ end \in Seq(Character)
  BY <1>2, <1>3
<1>6. slug \o end \in Seq(Character) /\ Len(slug \o end) = Len(slug) + Len(end)
  BY <1>5, Joined
<1>7. \A i \in 1 .. Len(end) : (slug \o end)[Len(slug) + i] = end[i]
  BY <1>5, Joined
<1>8. Free(slug \o end, "/")
  BY <1>3, <1>4, <1>5, JoinedFree
<1>9. (slug \o end)[Len(slug \o end)] = id
  <2>1. 2 \in 1 .. Len(end)
    BY <1>2
  <2> QED
    BY <1>2, <1>6, <1>7, <2>1
<1> QED
  BY <1>6, <1>8, <1>9 DEF FolderOf, slug, end

\* The folders of a key are those of its tenant and its party.
LEMMA KeyFolders ==
    ASSUME NEW c \in Config, NEW d \in Document, NEW u \in Uuid
    PROVE  LET f == Folders(KeyOf(c, d, u)) IN
           /\ f.root = "tenants" /\ f.parties = <<"parties">>
           /\ f.tenant = FolderOf(d.tenantName, d.tenant)
           /\ f.party = FolderOf(d.partyName, d.party)
<1> DEFINE head == IF Prefix(c) = << >> THEN << >> ELSE Prefix(c) \o <<"/">>
           tenant == FolderOf(d.tenantName, d.tenant)
           party == FolderOf(d.partyName, d.party)
           name == ObjectName(u, Named(d), Slug(d))
<1>1. {"/", "tenants", "parties", "document"} \subseteq Character
  BY CharacterAssumption DEF Sign
<1>2. head \in Seq(Character)
  <2>1. Prefix(c) \in Seq(Character)
    <3>1. TrimSpace(c.keyPrefix) \in Seq(Character)
      BY TextAssumption, SpaceTrimmed
    <3> QED
      BY <3>1, Trimmed DEF Prefix
  <2>2. <<"/">> \in Seq(Character) /\ << >> \in Seq(Character)
    BY <1>1
  <2> QED
    BY <2>1, <2>2, Joined
<1>3. /\ tenant \in Seq(Character) /\ Free(tenant, "/")
      /\ party \in Seq(Character) /\ Free(party, "/")
  <2>1. /\ d.tenantName \in Seq(Character) /\ d.tenant \in Character \ Sign
        /\ d.partyName \in Seq(Character) /\ d.party \in Character \ Sign
    BY TextAssumption
  <2> QED
    BY <2>1, FolderText
<1>4. Slug(d) \in Seq(Character) /\ Free(Slug(d), "/")
  <2>1. <<"document">> \in Seq(Character) /\ Free(<<"document">>, "/")
    BY <1>1 DEF Free
  <2> QED
    BY <2>1, DocumentTexts, SlugText DEF Slug
<1>5. name \in Seq(Character) /\ Free(name, "/")
  BY ObjectNameText
<1>6. KeyOf(c, d, u) = head \o <<"tenants", "/">> \o tenant \o <<"/", "parties", "/">> \o party
                       \o <<"/">> \o Slug(d) \o <<"/">> \o name
  BY DEF KeyOf, BuildObjectKey, Path, Slug, Named
<1> HIDE DEF head, tenant, party, name
<1>7. LET f == Folders(KeyOf(c, d, u)) IN
      /\ f.root = "tenants" /\ f.parties = <<"parties">>
      /\ f.tenant = tenant /\ f.party = party
  <2> DEFINE slug == Slug(d)
             key == head \o <<"tenants", "/">> \o tenant \o <<"/", "parties", "/">> \o party
                    \o <<"/">> \o slug \o <<"/">> \o name
  <2>1. slug \in Seq(Character) /\ Free(slug, "/") /\ {"/", "tenants", "parties"} \subseteq Character
    BY <1>1, <1>4
  <2> HIDE DEF slug
  <2>2. Folders(key) =
            [root |-> "tenants", tenant |-> tenant, parties |-> <<"parties">>, party |-> party]
    BY <1>2, <1>3, <1>5, <2>1, Layout
  <2>3. KeyOf(c, d, u) = key
    BY <1>6 DEF slug
  <2> QED
    BY <2>2, <2>3
<1> QED
  BY <1>7 DEF tenant, party

-----------------------------------------------------------------------------
(* The steps.                                                              *)

\* A request has its key from its own upload, and a key has one request.
Requested(request) ==
    \E c \in Config, d \in Document, u \in drawn :
        request = [key |-> KeyOf(c, d, u), content |-> Content(d)]

SentInv ==
    /\ IsFiniteSet(sent) /\ IsFiniteSet(drawn) /\ Cardinality(sent) = Cardinality(drawn)
    /\ \A request \in sent : Requested(request)
    /\ \A r1, r2 \in sent : r1.key = r2.key => r1 = r2

\* The request that puts a document there has been sent, under its own key.
PutFor(key, document) ==
    /\ document \in Document
    /\ \E c \in Config, u \in drawn : key = KeyOf(c, document, u)
    /\ [key |-> key, content |-> Content(document)] \in sent

\* The bucket holds what requests asked for, calls and callers know keys by
\* the requests for their documents.
StoreInv ==
    /\ config \in Config /\ drawn \subseteq Uuid
    /\ SentInv
    /\ \A k \in DOMAIN objects : [key |-> k, content |-> objects[k]] \in sent
    /\ call = [c \in Client |-> call[c]] /\ got = [c \in Client |-> got[c]]
    /\ \A c \in Client : call[c] # Idle => PutFor(call[c].key, call[c].document)
    /\ \A g \in given : PutFor(g.key, g.document) /\ g.key \in DOMAIN objects

LEMMA StoreInit == Init => StoreInv
<1> SUFFICES ASSUME Init PROVE StoreInv
  OBVIOUS
<1>1. sent = {} /\ drawn = {} /\ given = {} /\ config \in Config
  BY DEF Init
<1>2. SentInv
  BY <1>1, FS_EmptySet DEF SentInv
<1>3. DOMAIN objects = {}
  BY DEF Init
<1>4. /\ call = [c \in Client |-> call[c]] /\ got = [c \in Client |-> got[c]]
      /\ \A c \in Client : call[c] = Idle
  BY DEF Init
<1> QED
  BY <1>1, <1>2, <1>3, <1>4 DEF StoreInv

\* One request for each key: the id of an upload is drawn once.
LEMMA UploadSends ==
    ASSUME StoreInv, NEW d \in Document, NEW u \in Uuid \ drawn,
           drawn' = drawn \cup {u},
           sent' = sent \cup {[key |-> KeyOf(config, d, u), content |-> Content(d)]}
    PROVE  SentInv' /\ drawn' \subseteq Uuid
<1> DEFINE key == KeyOf(config, d, u)
           new == [key |-> key, content |-> Content(d)]
<1>1. config \in Config /\ drawn \subseteq Uuid /\ SentInv
  BY DEF StoreInv
<1>2. ASSUME NEW r \in sent PROVE r.key # key
  <2>1. PICK c \in Config, e \in Document, v \in drawn :
            r = [key |-> KeyOf(c, e, v), content |-> Content(e)]
    BY <1>1 DEF SentInv, Requested
  <2>2. r.key = KeyOf(c, e, v) /\ v # u /\ v \in Uuid /\ u \in Uuid
    BY <1>1, <2>1
  <2> QED
    BY <1>1, <2>2, KeysApart
<1>3. new \notin sent /\ new.key = key
  BY <1>2
<1>4. /\ IsFiniteSet(sent') /\ IsFiniteSet(drawn')
      /\ Cardinality(sent') = Cardinality(drawn')
  <2>1. IsFiniteSet(sent) /\ IsFiniteSet(drawn) /\ Cardinality(sent) = Cardinality(drawn)
    BY <1>1 DEF SentInv
  <2> HIDE DEF new
  <2>2. IsFiniteSet(sent \cup {new}) /\ Cardinality(sent \cup {new}) = Cardinality(sent) + 1
    BY <1>3, <2>1, FS_AddElement
  <2>3. IsFiniteSet(drawn \cup {u}) /\ Cardinality(drawn \cup {u}) = Cardinality(drawn) + 1
    BY <2>1, FS_AddElement
  <2> QED
    BY <2>1, <2>2, <2>3 DEF new
<1>5. \A r \in sent' : Requested(r)'
  <2> SUFFICES ASSUME NEW r \in sent'
               PROVE  \E c \in Config, e \in Document, v \in drawn' :
                          r = [key |-> KeyOf(c, e, v), content |-> Content(e)]
    BY DEF Requested
  <2>1. CASE r = new
    <3>1. u \in drawn'
      OBVIOUS
    <3> QED
      BY <1>1, <2>1, <3>1
  <2>2. CASE r \in sent
    <3>1. Requested(r)
      BY <1>1, <2>2 DEF SentInv
    <3> QED
      BY <3>1 DEF Requested
  <2> QED
    BY <2>1, <2>2
<1> HIDE DEF key
<1>6. \A r1, r2 \in sent' : r1.key = r2.key => r1 = r2
  <2>1. \A r1, r2 \in sent : r1.key = r2.key => r1 = r2
    BY <1>1 DEF SentInv
  <2> HIDE DEF new
  <2>2. sent' = sent \cup {new}
    BY DEF new, key
  <2> QED
    BY <1>2, <1>3, <2>1, <2>2
<1>7. drawn' \subseteq Uuid
  BY <1>1
<1> QED
  BY <1>4, <1>5, <1>6, <1>7 DEF SentInv

LEMMA StoreStep == StoreInv /\ [Next]_vars => StoreInv'
<1> SUFFICES ASSUME StoreInv, [Next]_vars PROVE StoreInv'
  OBVIOUS
<1>1. /\ config \in Config /\ drawn \subseteq Uuid /\ SentInv
      /\ \A k \in DOMAIN objects : [key |-> k, content |-> objects[k]] \in sent
      /\ call = [c \in Client |-> call[c]] /\ got = [c \in Client |-> got[c]]
      /\ \A c \in Client : call[c] # Idle => PutFor(call[c].key, call[c].document)
      /\ \A g \in given : PutFor(g.key, g.document) /\ g.key \in DOMAIN objects
  BY DEF StoreInv
<1>2. ASSUME NEW c \in Client, NEW d \in Document, Upload(c, d) PROVE StoreInv'
  <2>1. PICK u \in Uuid \ drawn :
          /\ drawn' = drawn \cup {u}
          /\ call' = [call EXCEPT ![c] = [document |-> d, key |-> KeyOf(config, d, u)]]
          /\ sent' = sent \cup {[key |-> KeyOf(config, d, u), content |-> Content(d)]}
    BY <1>2 DEF Upload
  <2>2. UNCHANGED <<config, objects, given, got>>
    BY <1>2 DEF Upload
  <2>3. SentInv' /\ drawn' \subseteq Uuid
    BY <2>1, UploadSends
  <2>4. \A key, e : PutFor(key, e) => PutFor(key, e)'
    BY <2>1 DEF PutFor
  <2>5. /\ call' = [b \in Client |-> call'[b]]
        /\ \A b \in Client : call'[b] # Idle => PutFor(call[b].key, call[b].document)'
    <3>1. call' = [b \in Client |-> call'[b]]
      BY <1>1, <2>1
    <3>2. call'[c] = [document |-> d, key |-> KeyOf(config, d, u)]
      BY <1>1, <2>1
    <3>3. \A b \in Client : b # c => call'[b] = call[b]
      BY <1>1, <2>1
    <3>4. PutFor(call[c].key, call[c].document)'
      <4>1. config \in Config /\ u \in drawn'
        BY <1>1, <2>1
      <4> QED
        BY <2>1, <3>2, <4>1 DEF PutFor
    <3> QED
      BY <1>1, <2>4, <3>1, <3>3, <3>4
  <2> QED
    BY <1>1, <2>1, <2>2, <2>3, <2>4, <2>5 DEF StoreInv
<1>3. ASSUME NEW c \in Client, Uploaded(c) PROVE StoreInv'
  <2>1. /\ call[c] # Idle /\ call[c].key \in DOMAIN objects
        /\ given' = given \cup {[key |-> call[c].key, region |-> config.region,
                                 document |-> call[c].document]}
        /\ call' = [call EXCEPT ![c] = Idle]
        /\ UNCHANGED <<config, sent, objects, drawn, got>>
    BY <1>3 DEF Uploaded
  <2>2. \A key, e : PutFor(key, e) => PutFor(key, e)'
    BY <2>1 DEF PutFor
  <2>3. \A g \in given' : PutFor(g.key, g.document)' /\ g.key \in DOMAIN objects'
    BY <1>1, <2>1, <2>2
  <2>4. /\ call' = [b \in Client |-> call'[b]]
        /\ \A b \in Client : call'[b] # Idle => call'[b] = call[b] /\ call[b] # Idle
    BY <1>1, <2>1
  <2>5. SentInv'
    BY <1>1, <2>1 DEF SentInv, Requested
  <2> QED
    BY <1>1, <2>1, <2>2, <2>3, <2>4, <2>5 DEF StoreInv
<1>4. ASSUME NEW c \in Client, UploadFails(c) PROVE StoreInv'
  <2>1. call' = [call EXCEPT ![c] = Idle] /\ UNCHANGED <<config, sent, objects, drawn, given, got>>
    BY <1>4 DEF UploadFails
  <2>2. \A key, e : PutFor(key, e) => PutFor(key, e)'
    BY <2>1 DEF PutFor
  <2>3. /\ call' = [b \in Client |-> call'[b]]
        /\ \A b \in Client : call'[b] # Idle => call'[b] = call[b] /\ call[b] # Idle
    BY <1>1, <2>1
  <2>4. SentInv'
    BY <1>1, <2>1 DEF SentInv, Requested
  <2> QED
    BY <1>1, <2>1, <2>2, <2>3, <2>4 DEF StoreInv
<1>5. ASSUME NEW c \in Client, NEW location \in given, Download(c, location) PROVE StoreInv'
  <2>1. /\ UNCHANGED <<config, sent, objects, drawn, call, given>>
        /\ \E result : got' = [got EXCEPT ![c] = result]
    BY <1>5 DEF Download
  <2>2. got' = [b \in Client |-> got'[b]]
    BY <1>1, <2>1
  <2>3. SentInv' /\ \A key, e : PutFor(key, e) => PutFor(key, e)'
    BY <1>1, <2>1 DEF SentInv, Requested, PutFor
  <2> QED
    BY <1>1, <2>1, <2>2, <2>3 DEF StoreInv
<1>6. ASSUME NEW request \in sent, PutObject(request) PROVE StoreInv'
  <2>1. /\ objects' = [k \in DOMAIN objects \cup {request.key} |->
                         IF k = request.key THEN request.content ELSE objects[k]]
        /\ UNCHANGED <<config, sent, drawn, call, given, got>>
    BY <1>6 DEF PutObject
  <2>2. request = [key |-> request.key, content |-> request.content]
    BY <1>1 DEF SentInv, Requested
  <2>3. ASSUME NEW k \in DOMAIN objects' PROVE [key |-> k, content |-> objects'[k]] \in sent
    BY <1>1, <1>6, <2>1, <2>2
  <2>4. SentInv' /\ \A key, e : PutFor(key, e) => PutFor(key, e)'
    BY <1>1, <2>1 DEF SentInv, Requested, PutFor
  <2>5. DOMAIN objects \subseteq DOMAIN objects'
    BY <2>1
  <2> QED
    BY <1>1, <2>1, <2>3, <2>4, <2>5 DEF StoreInv
<1>7. CASE Restart
  <2>1. /\ config' \in Config /\ UNCHANGED <<sent, objects, drawn, given>>
        /\ call' = [c \in Client |-> Idle] /\ got' = [c \in Client |-> Nothing]
    BY <1>7 DEF Restart
  <2>2. SentInv' /\ \A key, e : PutFor(key, e) => PutFor(key, e)'
    BY <1>1, <2>1 DEF SentInv, Requested, PutFor
  <2> QED
    BY <1>1, <2>1, <2>2 DEF StoreInv
<1>8. CASE UNCHANGED vars
  <2>1. UNCHANGED <<config, sent, objects, drawn, call, given, got>>
    BY <1>8 DEF vars
  <2>2. SentInv' /\ \A key, e : PutFor(key, e) => PutFor(key, e)'
    BY <1>1, <2>1 DEF SentInv, Requested, PutFor
  <2> QED
    BY <1>1, <2>1, <2>2 DEF StoreInv
<1> QED
  BY <1>2, <1>3, <1>4, <1>5, <1>6, <1>7, <1>8 DEF Next

LEMMA StoreInvariant == Spec => []StoreInv
BY StoreInit, StoreStep, PTL DEF Spec
-----------------------------------------------------------------------------
(* The theorems.                                                           *)

\* In every reachable state the ids in use are as many as the requests, and
\* what the bucket holds was requested.
THEOREM StoreTypeCorrect == Spec => []TypeOK
<1>1. StoreInv => TypeOK
  <2> SUFFICES ASSUME StoreInv PROVE TypeOK
    OBVIOUS
  <2>1. ASSUME NEW k \in DOMAIN objects PROVE k \in {request.key : request \in sent}
    <3>1. [key |-> k, content |-> objects[k]] \in sent
      BY DEF StoreInv
    <3>2. [key |-> k, content |-> objects[k]].key = k
      OBVIOUS
    <3> QED
      BY <3>1, <3>2
  <2> QED
    BY <2>1 DEF StoreInv, SentInv, PutFor, TypeOK
<1> QED
  BY <1>1, StoreInvariant, PTL

\* Nothing an upload has put is ever overwritten or lost: the only request for
\* a key there is asks for what the bucket holds already.
THEOREM NothingIsOverwritten == Spec => NeverOverwritten
<1> DEFINE Kept == \A k \in DOMAIN objects : k \in DOMAIN objects' /\ objects'[k] = objects[k]
<1>1. StoreInv /\ [Next]_vars => [Kept]_vars
  <2> SUFFICES ASSUME StoreInv, [Next]_vars, ~UNCHANGED objects PROVE Kept
    BY DEF vars
  <2>1. PICK request \in sent : PutObject(request)
    BY DEF Next, vars, Upload, Uploaded, UploadFails, Download, Restart
  <2>2. objects' = [k \in DOMAIN objects \cup {request.key} |->
                      IF k = request.key THEN request.content ELSE objects[k]]
    BY <2>1 DEF PutObject
  <2>3. ASSUME request.key \in DOMAIN objects PROVE request.content = objects[request.key]
    <3> DEFINE there == [key |-> request.key, content |-> objects[request.key]]
    <3>1. there \in sent /\ there.key = request.key /\ there.content = objects[request.key]
      BY <2>3 DEF StoreInv
    <3>2. there = request
      BY <3>1 DEF StoreInv, SentInv
    <3> QED
      BY <3>1, <3>2
  <2> QED
    BY <2>2, <2>3
<1> QED
  BY <1>1, StoreInvariant, PTL DEF Spec, NeverOverwritten

\* A download by a location that an upload returned answers the content and
\* the type of its document, or an error that says nothing of the object,
\* provided that no configured prefix begins with a blank once its slashes are
\* off: with one, uploads succeed and DownloadDocument looks for another key.
THEOREM DownloadsAreExact ==
    ASSUME PrefixesTrimmed
    PROVE  Spec => []DownloadsExact
<1>1. Init => DownloadsExact
  BY DEF Init, DownloadsExact
<1>2. ASSUME StoreInv, DownloadsExact, [Next]_vars PROVE DownloadsExact'
  <2>1. ASSUME UNCHANGED <<config, got>> PROVE DownloadsExact'
    BY <1>2, <2>1 DEF DownloadsExact
  <2>2. CASE Restart
    BY <2>2 DEF Restart, DownloadsExact
  <2>3. ASSUME NEW c \in Client, NEW location \in given, Download(c, location)
        PROVE  DownloadsExact'
    <3>1. PICK result \in {DownloadResult(location.region, location.key), Error("get object")} :
            got' = [got EXCEPT ![c] = [location |-> location, result |-> result]]
      BY <2>3 DEF Download
    <3>2. config' = config /\ got = [b \in Client |-> got[b]]
      BY <1>2, <2>3 DEF Download, StoreInv
    <3>3. /\ location.key \in DOMAIN objects
          /\ PutFor(location.key, location.document) /\ SentInv
          /\ [key |-> location.key, content |-> objects[location.key]] \in sent
      BY <1>2 DEF StoreInv
    <3>4. objects[location.key] = Content(location.document)
      BY <3>3 DEF PutFor, SentInv
    <3>5. TrimSpace(location.key) = location.key
      <4>1. PICK b \in Config, u \in drawn : location.key = KeyOf(b, location.document, u)
        BY <3>3 DEF PutFor
      <4>2. location.document \in Document /\ u \in Uuid
        BY <1>2, <3>3 DEF StoreInv, PutFor
      <4> QED
        BY <4>1, <4>2, KeyTrimmed
    <3>6. result \in {Content(location.document), Error("get object")}
              \cup (IF Enabled(config) THEN {} ELSE {Error("disabled")})
              \cup (IF RegionFits(location.region, config) THEN {} ELSE {Error("mismatched region")})
      BY <3>1, <3>3, <3>4, <3>5 DEF DownloadResult
    <3>7. got'[c].location = location /\ got'[c].result = result
      BY <3>1, <3>2
    <3>8. \A b \in Client : b # c => got'[b] = got[b]
      BY <3>1, <3>2
    <3> SUFFICES ASSUME NEW b \in Client, got'[b] # Nothing
                 PROVE  got'[b].result \in
                            {Content(got'[b].location.document), Error("get object")}
                            \cup (IF Enabled(config) THEN {} ELSE {Error("disabled")})
                            \cup (IF RegionFits(got'[b].location.region, config) THEN {}
                                  ELSE {Error("mismatched region")})
      BY <3>2 DEF DownloadsExact
    <3>9. CASE b = c
      BY <3>6, <3>7, <3>9
    <3>10. CASE b # c
      BY <1>2, <3>8, <3>10 DEF DownloadsExact
    <3> QED
      BY <3>9, <3>10
  <2> QED
    BY <1>2, <2>1, <2>2, <2>3 DEF Next, vars, Upload, Uploaded, UploadFails, PutObject
<1> QED
  BY <1>1, <1>2, StoreInvariant, PTL DEF Spec

\* No name adds a level to a key, and tenants or parties whose ids differ have
\* folders that differ, whatever they are called.
THEOREM FoldersStayApart == Spec => []FoldersApart
<1>1. StoreInv => FoldersApart
  <2> SUFFICES ASSUME StoreInv, NEW g \in given, NEW h \in given
               PROVE  LET f == Folders(g.key)
                          e == Folders(h.key)
                      IN  /\ f.root = "tenants" /\ f.parties = <<"parties">>
                          /\ f.tenant = e.tenant => g.document.tenant = h.document.tenant
                          /\ f.party = e.party => g.document.party = h.document.party
    BY DEF FoldersApart
  <2>1. ASSUME NEW l \in given
        PROVE  LET f == Folders(l.key) IN
               /\ f.root = "tenants" /\ f.parties = <<"parties">>
               /\ f.tenant = FolderOf(l.document.tenantName, l.document.tenant)
               /\ f.party = FolderOf(l.document.partyName, l.document.party)
    <3>1. l.document \in Document /\ \E c \in Config, u \in drawn : l.key = KeyOf(c, l.document, u)
      BY DEF StoreInv, PutFor
    <3>2. PICK c \in Config, u \in drawn : l.key = KeyOf(c, l.document, u)
      BY <3>1
    <3>3. u \in Uuid
      BY DEF StoreInv
    <3> QED
      BY <3>1, <3>2, <3>3, KeyFolders
  <2>2. ASSUME NEW l \in given
        PROVE  LET tenant == FolderOf(l.document.tenantName, l.document.tenant)
                   party  == FolderOf(l.document.partyName, l.document.party)
               IN  /\ tenant[Len(tenant)] = l.document.tenant
                   /\ party[Len(party)] = l.document.party
    <3> DEFINE d == l.document
    <3>1. d \in Document
      BY DEF StoreInv, PutFor
    <3> HIDE DEF d
    <3>2. /\ d.tenantName \in Seq(Character) /\ d.tenant \in Character \ Sign
          /\ d.partyName \in Seq(Character) /\ d.party \in Character \ Sign
      BY <3>1, TextAssumption
    <3>3. /\ FolderOf(d.tenantName, d.tenant)[Len(FolderOf(d.tenantName, d.tenant))] = d.tenant
          /\ FolderOf(d.partyName, d.party)[Len(FolderOf(d.partyName, d.party))] = d.party
      BY <3>2, FolderText
    <3> QED
      BY <3>3 DEF d
  <2> QED
    BY <2>1, <2>2
<1> QED
  BY <1>1, StoreInvariant, PTL
=============================================================================
