--------------------------- MODULE ExtractionProofs ---------------------------
(***************************************************************************)
(* Theorems about the extraction pipelines, for any texts, sizes and       *)
(* answers that the schemas accept.                                        *)
(***************************************************************************)
EXTENDS Extraction, OrderingProofs

(* Recursion over a list *)

Iterates(t, base, F, N, T) ==
    /\ t \in [0..N -> T] /\ t[0] = base
    /\ \A n \in 1..N : t[n] = F[<<n, t[n - 1]>>]

LEMMA IterationExists ==
    ASSUME NEW N \in Nat, NEW T, NEW base \in T, NEW F \in [(1..N) \X T -> T]
    PROVE  \E t : Iterates(t, base, F, N, T)
<1> DEFINE Upto(n) == {t \in [0..N -> T] :
                          t[0] = base /\ \A i \in 1..n : t[i] = F[<<i, t[i - 1]>>]}
           U == {n \in 0..N : Upto(n) # {}}
<1>1. 0 \in U
  <2>1. [i \in 0..N |-> base] \in Upto(0)
    OBVIOUS
  <2> QED BY <2>1
<1>2. ASSUME NEW n \in 1..N, n - 1 \in U
      PROVE  n \in U
  <2>1. PICK t : t \in Upto(n - 1)
    BY <1>2
  <2> DEFINE u == [t EXCEPT ![n] = F[<<n, t[n - 1]>>]]
  <2>2. t \in [0..N -> T] /\ n - 1 \in 0..N /\ n \in 0..N /\ n # 0
    BY <2>1
  <2>3. F[<<n, t[n - 1]>>] \in T
    BY <2>2
  <2>4. u \in [0..N -> T] /\ u[0] = base
    BY <2>1, <2>2, <2>3
  <2>5. \A i \in 1..n : u[i] = F[<<i, u[i - 1]>>]
    BY <2>1, <2>2
  <2>6. u \in Upto(n)
    BY <2>4, <2>5
  <2> HIDE DEF Upto, u
  <2> QED BY <2>2, <2>6
<1>3. \A n \in 0..N : n \in U
  <2> HIDE DEF U
  <2> QED BY <1>1, <1>2, UpTo
<1>4. Upto(N) # {}
  <2> HIDE DEF Upto
  <2> QED BY <1>3
<1> QED BY <1>4 DEF Iterates

-----------------------------------------------------------------------------
(* Lists that are joined *)

\* The lists that FlattenSeq goes through.
Grows(t, ss, S) ==
    /\ t \in [0..Len(ss) -> Seq(S)] /\ t[0] = <<>>
    /\ \A n \in 1..Len(ss) : t[n] = t[n - 1] \o ss[n]

LEMMA GrowthExists ==
    ASSUME NEW S, NEW ss \in Seq(Seq(S))
    PROVE  \E t : Grows(t, ss, S)
<1> DEFINE N == Len(ss)
           F == [p \in (1..N) \X Seq(S) |-> p[2] \o ss[p[1]]]
<1>1. N \in Nat /\ <<>> \in Seq(S) /\ \A n \in 1..N : ss[n] \in Seq(S)
  OBVIOUS
<1>2. \A s \in Seq(S), r \in Seq(S) : s \o r \in Seq(S)
  BY ConcatProperties
<1>3. F \in [(1..N) \X Seq(S) -> Seq(S)]
  BY <1>1, <1>2
<1>4. \A n \in 1..N, s \in Seq(S) : F[<<n, s>>] = s \o ss[n]
  OBVIOUS
<1> HIDE DEF F
<1>5. PICK t : Iterates(t, <<>>, F, N, Seq(S))
  BY <1>1, <1>3, IterationExists
<1>6. t \in [0..N -> Seq(S)] /\ t[0] = <<>> /\ \A n \in 1..N : t[n] = F[<<n, t[n - 1]>>]
  BY <1>5, Zenon DEF Iterates
<1>7. ASSUME NEW n \in 1..N
      PROVE  t[n] = t[n - 1] \o ss[n]
  <2>1. n - 1 \in 0..N
    BY <1>1
  <2>2. t[n - 1] \in Seq(S)
    BY <1>6, <2>1, Zenon
  <2> QED BY <1>4, <1>6, <2>2, Zenon
<1> QED BY <1>6, <1>7, Zenon DEF Grows

LEMMA Flattens ==
    ASSUME NEW S, NEW ss \in Seq(Seq(S)), NEW t, Grows(t, ss, S)
    PROVE  FlattenSeq(ss) = t[Len(ss)] /\ FlattenSeq(ss) \in Seq(S)
<1> DEFINE N == Len(ss)
           Body(g) == [i \in 1..N |-> IF i = 1 THEN ss[i] ELSE g[i - 1] \o ss[i]]
           flatten == CHOOSE g : g = Body(g)
           r == [i \in 1..N |-> t[i]]
<1>1. N \in Nat /\ t \in [0..N -> Seq(S)] /\ t[0] = <<>> /\ \A n \in 1..N : ss[n] \in Seq(S)
  BY DEF Grows
<1>2. t[N] \in Seq(S)
  BY <1>1
<1>3. CASE N = 0
  <2>1. ss = <<>> /\ FlattenSeq(ss) = ss
    BY <1>3 DEF FlattenSeq
  <2> QED BY <1>1, <1>2, <1>3, <2>1
<1>4. CASE N # 0
  <2>1. \A i \in 1..N : t[i] = IF i = 1 THEN ss[i] ELSE r[i - 1] \o ss[i]
    <3>1. ASSUME NEW i \in 1..N, i = 1
          PROVE  t[i] = ss[i]
      <4>1. t[i] = t[i - 1] \o ss[i] /\ t[0] = <<>>
        BY Zenon DEF Grows
      <4>2. i - 1 = 0
        BY <3>1
      <4>3. t[i] = <<>> \o ss[i]
        BY <4>1, <4>2, Zenon
      <4> QED BY <1>1, <4>3, ConcatEmptySeq
    <3>2. ASSUME NEW i \in 1..N, i # 1
          PROVE  t[i] = r[i - 1] \o ss[i]
      <4>1. i - 1 \in 1..N
        BY <1>1, <3>2
      <4> QED BY <4>1, <3>2 DEF Grows
    <3> QED BY <3>1, <3>2
  <2>2. r = Body(r)
    BY <2>1
  <2>3. flatten = Body(flatten)
    <3> HIDE DEF Body, r
    <3> QED BY <2>2, Zenon
  <2>4. \A i \in 1..N : flatten[i] = IF i = 1 THEN ss[i] ELSE flatten[i - 1] \o ss[i]
    <3> HIDE DEF flatten
    <3> QED BY <2>3, Zenon
  <2>5. FlattenSeq(ss) = flatten[N]
    BY <1>4, Zenon DEF FlattenSeq
  <2> HIDE DEF flatten
  <2> DEFINE T == {n \in 0..N : n = 0 \/ flatten[n] = t[n]}
  <2>6. 0 \in T
    BY <1>1
  <2>7. ASSUME NEW n \in 1..N, n - 1 \in T PROVE n \in T
    <3>1. CASE n = 1
      <4>1. flatten[n] = ss[n] /\ t[n] = ss[n]
        BY <2>1, <2>4, <3>1, Zenon
      <4> QED BY <1>1, <4>1
    <3>2. CASE n # 1
      <4>1. flatten[n] = flatten[n - 1] \o ss[n]
        BY <2>4, <3>2, Zenon
      <4>2. flatten[n - 1] = t[n - 1]
        BY <2>7, <3>2
      <4>3. t[n] = t[n - 1] \o ss[n]
        BY Zenon DEF Grows
      <4>4. flatten[n] = t[n]
        BY <4>1, <4>2, <4>3, Zenon
      <4> QED BY <1>1, <4>4
    <3> QED BY <3>1, <3>2
  <2>8. N \in T
    <3> HIDE DEF T
    <3>1. \A n \in 0..N : n \in T
      BY <1>1, <2>6, <2>7, UpTo
    <3> QED BY <1>1, <3>1
  <2> QED BY <1>2, <1>4, <2>5, <2>8
<1> QED BY <1>3, <1>4

\* FlattenSeq and the lists it goes through.
LEMMA Flattened ==
    ASSUME NEW S, NEW ss \in Seq(Seq(S))
    PROVE  /\ FlattenSeq(ss) \in Seq(S)
           /\ \E t : Grows(t, ss, S) /\ FlattenSeq(ss) = t[Len(ss)]
<1>1. PICK t : Grows(t, ss, S)
  BY GrowthExists
<1>2. FlattenSeq(ss) = t[Len(ss)] /\ FlattenSeq(ss) \in Seq(S)
  BY <1>1, Flattens
<1> QED BY <1>1, <1>2

LEMMA Regrouped ==
    ASSUME NEW S, NEW a \in Seq(S), NEW b \in Seq(S), NEW c \in Seq(S),
           NEW ab, Concatenates(ab, a, b), NEW bc, Concatenates(bc, b, c),
           NEW abc, Concatenates(abc, ab, c)
    PROVE  Concatenates(abc, a, bc)
<1>1. (a \o b) \o c = a \o (b \o c)
  OBVIOUS
<1> QED BY <1>1 DEF Concatenates

\* A stretch of the lists adds what it flattens to.
LEMMA StretchAdds ==
    ASSUME NEW S, NEW ss \in Seq(Seq(S)), NEW t, Grows(t, ss, S),
           NEW m \in 0..Len(ss), NEW n \in m..Len(ss)
    PROVE  /\ SubSeq(ss, m + 1, n) \in Seq(Seq(S))
           /\ t[n] = t[m] \o FlattenSeq(SubSeq(ss, m + 1, n))
<1> DEFINE N == Len(ss)
           part == SubSeq(ss, m + 1, n)
<1>1. /\ N \in Nat /\ m \in Nat /\ n \in Nat /\ m <= n /\ n <= N
      /\ \A i \in 1..N : ss[i] \in Seq(S)
  OBVIOUS
<1>2. /\ part \in Seq(Seq(S)) /\ Len(part) = n - m
      /\ \A i \in 1..n - m : part[i] = ss[m + i]
  <2>1. \A i \in m + 1..n : ss[i] \in Seq(S)
    BY <1>1
  <2>2. /\ part \in Seq(Seq(S)) /\ Len(part) = IF m + 1 <= n THEN n - (m + 1) + 1 ELSE 0
        /\ \A i \in 1..n - (m + 1) + 1 : part[i] = ss[m + 1 + i - 1]
    BY <1>1, <2>1, SubSeqProperties
  <2>3. \A i \in 1..n - m : part[i] = ss[m + i]
    <3> TAKE i \in 1..n - m
    <3>1. i \in 1..n - (m + 1) + 1 /\ m + 1 + i - 1 = m + i
      BY <1>1
    <3> HIDE DEF part
    <3> QED BY <2>2, <3>1
  <2> HIDE DEF part
  <2> QED BY <1>1, <2>2, <2>3
<1> HIDE DEF part
<1>3. PICK r : Grows(r, part, S) /\ FlattenSeq(part) = r[Len(part)]
  BY <1>2, Flattened
<1>4. t \in [0..N -> Seq(S)] /\ r \in [0..n - m -> Seq(S)] /\ r[0] = <<>>
  BY <1>2, <1>3 DEF Grows
<1> DEFINE T == {j \in 0..n - m : Concatenates(t[m + j], t[m], r[j])}
<1>5. 0 \in T
  <2>1. t[m] \in Seq(S)
    BY <1>4
  <2>2. t[m] \o <<>> = t[m]
    BY <2>1, ConcatEmptySeq
  <2>3. m + 0 = m /\ 0 \in 0..n - m
    BY <1>1
  <2>4. Concatenates(t[m + 0], t[m], r[0])
    BY <1>4, <2>2, <2>3, Zenon DEF Concatenates
  <2> QED BY <2>3, <2>4, Zenon
<1>6. ASSUME NEW j \in 1..n - m, j - 1 \in T
      PROVE  j \in T
  <2>1. m + j \in 1..N /\ (m + j) - 1 = m + (j - 1) /\ m \in 0..N /\ j - 1 \in 0..n - m
    BY <1>1
  <2>2. Concatenates(t[m + j], t[(m + j) - 1], ss[m + j])
    <3>1. \A i \in 1..N : Concatenates(t[i], t[i - 1], ss[i])
      BY Zenon DEF Grows, Concatenates
    <3>2. m + j \in 1..N
      BY <2>1
    <3> HIDE DEF N
    <3> QED BY <3>1, <3>2, Zenon
  <2>3. Concatenates(r[j], r[j - 1], part[j])
    BY <1>2, <1>3, Zenon DEF Grows, Concatenates
  <2>4. Concatenates(t[m + (j - 1)], t[m], r[j - 1])
    BY <1>6
  <2>5. part[j] = ss[m + j]
    BY <1>2
  <2>6. Concatenates(t[m + j], t[m + (j - 1)], part[j])
    BY <2>1, <2>2, <2>5, Zenon
  <2>7. t[m] \in Seq(S) /\ r[j - 1] \in Seq(S) /\ part[j] \in Seq(S)
    BY <1>1, <1>4, <2>1, <2>5
  <2>8. Concatenates(t[m + j], t[m], r[j])
    BY <2>3, <2>4, <2>6, <2>7, Regrouped
  <2>9. j \in 0..n - m
    BY <1>1
  <2> QED BY <2>8, <2>9, Zenon
<1>7. \A j \in 0..n - m : j \in T
  <2> HIDE DEF T
  <2>1. n - m \in Nat
    BY <1>1
  <2> QED BY <1>5, <1>6, <2>1, UpTo
<1>8. t[m + (n - m)] = t[m] \o r[n - m]
  <2>1. n - m \in 0..n - m
    BY <1>1
  <2>2. n - m \in T
    <3> HIDE DEF T
    <3> QED BY <1>7, <2>1
  <2> QED BY <2>2 DEF Concatenates
<1>9. m + (n - m) = n
  BY <1>1
<1> QED BY <1>2, <1>3, <1>8, <1>9 DEF part

\* What adds nothing may be left out.
LEMMA EmptyStretch ==
    ASSUME NEW S, NEW ss \in Seq(Seq(S)), NEW t, Grows(t, ss, S),
           NEW m \in 0..Len(ss), NEW n \in m..Len(ss), \A i \in m + 1..n : ss[i] = <<>>
    PROVE  t[n] = t[m]
<1> DEFINE N == Len(ss)
           T == {j \in 0..n - m : t[m + j] = t[m]}
<1>1. /\ N \in Nat /\ m \in Nat /\ n \in Nat /\ m <= n /\ n <= N
      /\ t \in [0..N -> Seq(S)]
  BY DEF Grows
<1>2. 0 \in T
  BY <1>1
<1>3. ASSUME NEW j \in 1..n - m, j - 1 \in T
      PROVE  j \in T
  <2>1. m + j \in 1..N /\ (m + j) - 1 = m + (j - 1) /\ m + (j - 1) \in 0..N /\ m + j \in m + 1..n
    BY <1>1
  <2>2. t[m + j] = t[(m + j) - 1] \o ss[m + j]
    <3>1. \A i \in 1..N : t[i] = t[i - 1] \o ss[i]
      BY Zenon DEF Grows
    <3>2. m + j \in 1..N
      BY <2>1
    <3> HIDE DEF N
    <3> QED BY <3>1, <3>2, Zenon
  <2>3. ss[m + j] = <<>>
    BY <2>1
  <2>4. t[m + (j - 1)] \in Seq(S) /\ t[m + (j - 1)] = t[m]
    BY <1>1, <1>3, <2>1
  <2>5. t[m + (j - 1)] \o <<>> = t[m + (j - 1)]
    BY <2>4, ConcatEmptySeq
  <2>6. t[m + j] = t[m]
    BY <2>1, <2>2, <2>3, <2>4, <2>5
  <2> QED BY <2>6
<1>4. \A j \in 0..n - m : j \in T
  <2> HIDE DEF T
  <2>1. n - m \in Nat
    BY <1>1
  <2> QED BY <1>2, <1>3, <2>1, UpTo
<1>5. n - m \in 0..n - m /\ m + (n - m) = n
  BY <1>1
<1>6. n - m \in T
  <2> HIDE DEF T
  <2> QED BY <1>4, <1>5
<1> QED BY <1>5, <1>6

\* The same, for every stretch.
Rests(t, ss, N) ==
    \A m, n \in 0..N : m <= n /\ (\A i \in m + 1..n : ss[i] = <<>>) => t[n] = t[m]

LEMMA EmptyStretches ==
    ASSUME NEW S, NEW ss \in Seq(Seq(S)), NEW t, Grows(t, ss, S), NEW N, N = Len(ss)
    PROVE  Rests(t, ss, N)
<1> SUFFICES ASSUME NEW m \in 0..N, NEW n \in 0..N, m <= n,
                    \A i \in m + 1..n : ss[i] = <<>>
             PROVE  t[n] = t[m]
  BY Zenon DEF Rests
<1>1. m \in 0..Len(ss) /\ n \in m..Len(ss)
  OBVIOUS
<1> QED BY <1>1, EmptyStretch

\* Lists that are each a stretch of the lists ss flatten to the same.
Stretches(t, qq, b, N) ==
    /\ b \in [0..Len(qq) -> 0..N] /\ b[0] = 0
    /\ \A k \in 1..Len(qq) : t[b[k]] = t[b[k - 1]] \o qq[k]
    /\ t[N] = t[b[Len(qq)]]

LEMMA StretchesFlatten ==
    ASSUME NEW S, NEW ss \in Seq(Seq(S)), NEW t, Grows(t, ss, S),
           NEW qq \in Seq(Seq(S)), NEW b, Stretches(t, qq, b, Len(ss))
    PROVE  FlattenSeq(qq) = FlattenSeq(ss)
<1> DEFINE K == Len(qq)
<1>0. /\ b \in [0..K -> 0..Len(ss)] /\ b[0] = 0
      /\ \A k \in 1..K : t[b[k]] = t[b[k - 1]] \o qq[k]
      /\ t[Len(ss)] = t[b[K]]
  BY Zenon DEF Stretches
<1>1. K \in Nat
  OBVIOUS
<1>2. PICK u : Grows(u, qq, S) /\ FlattenSeq(qq) = u[K]
  BY Flattened
<1> DEFINE T == {k \in 0..K : u[k] = t[b[k]]}
<1>3. 0 \in T
  BY <1>0, <1>1, <1>2 DEF Grows
<1>4. ASSUME NEW k \in 1..K, k - 1 \in T
      PROVE  k \in T
  <2>1. u[k] = u[k - 1] \o qq[k]
    BY <1>2, Zenon DEF Grows
  <2>2. u[k - 1] = t[b[k - 1]]
    BY <1>4
  <2>3. u[k] = t[b[k]]
    BY <1>0, <2>1, <2>2, Zenon
  <2> QED BY <2>3
<1>5. \A k \in 0..K : k \in T
  <2> HIDE DEF T
  <2> QED BY <1>1, <1>3, <1>4, UpTo
<1>6. K \in 0..K
  BY <1>1
<1>7. K \in T
  <2> HIDE DEF T
  <2> QED BY <1>5, <1>6
<1>8. u[K] = t[Len(ss)]
  BY <1>0, <1>7
<1> QED BY <1>2, <1>8, Flattens

\* The places of a selection: in order, and without a chosen one between two of them.
LEMMA PlacesInOrder ==
    ASSUME NEW N \in Nat, NEW P \in SUBSET (1..N)
    PROVE  LET p == Ascending(P) IN
           /\ IsList(p)
           /\ \A k \in 1..Len(p) : p[k] \in P /\ p[k] \in 1..N
           /\ \A k \in 1..Len(p), n \in 1..Len(p) : p[k] < p[n] <=> k < n
           /\ \A i \in P : \E n \in 1..Len(p) : p[n] = i
<1> DEFINE p == Ascending(P)
<1>1. P \in SUBSET Nat /\ IsFiniteSet(P)
  <2>1. IsFiniteSet(1..N)
    BY FS_Interval
  <2>2. IsFiniteSet(P)
    BY <2>1, FS_Subset
  <2>3. P \in SUBSET Nat
    OBVIOUS
  <2> QED BY <2>2, <2>3
<1>2. /\ IsList(p)
      /\ \A n \in 1..Len(p) : p[n] \in P
      /\ \A i, j \in 1..Len(p) : i < j => p[i] < p[j]
      /\ \A x \in P : \E n \in 1..Len(p) : p[n] = x
  BY <1>1, NumbersInOrder, Zenon DEF Ascending
<1> HIDE DEF p
<1>3. Len(p) \in Nat
  BY <1>2 DEF IsList
<1>4. \A k \in 1..Len(p) : p[k] \in 1..N
  BY <1>2
<1>5. \A k \in 1..Len(p), n \in 1..Len(p) : p[k] < p[n] <=> k < n
  <2> TAKE k \in 1..Len(p), n \in 1..Len(p)
  <2>1. p[k] \in 1..N /\ p[n] \in 1..N
    BY <1>4
  <2>2. CASE k < n
    BY <1>2, <2>2
  <2>3. CASE n < k
    BY <1>2, <1>3, <2>1, <2>3
  <2>4. CASE n = k
    BY <1>3, <2>1, <2>4
  <2> QED BY <1>3, <2>2, <2>3, <2>4
<1> QED BY <1>2, <1>4, <1>5 DEF p

\* Lists that are left out because they are empty do not matter.
LEMMA SelectionFlattens ==
    ASSUME NEW S, NEW ss \in Seq(Seq(S)), NEW P \in SUBSET (1..Len(ss)),
           \A i \in 1..Len(ss) : i \notin P => ss[i] = <<>>,
           NEW qq, qq = ElementsAt(ss, P)
    PROVE  qq \in Seq(Seq(S)) /\ FlattenSeq(qq) = FlattenSeq(ss)
<1> DEFINE N == Len(ss)
           p == Ascending(P)
           K == Len(p)
           b == [k \in 0..K |-> IF k = 0 THEN 0 ELSE p[k]]
<1>1. N \in Nat /\ \A i \in 1..N : ss[i] \in Seq(S)
  OBVIOUS
<1>2. /\ IsList(p)
      /\ \A k \in 1..K : p[k] \in P /\ p[k] \in 1..N
      /\ \A k \in 1..K, n \in 1..K : p[k] < p[n] <=> k < n
      /\ \A i \in P : \E n \in 1..K : p[n] = i
  BY <1>1, PlacesInOrder, Zenon
<1>3. qq = [k \in DOMAIN p |-> ss[p[k]]]
  BY Zenon DEF ElementsAt
<1> HIDE DEF p
<1>4. K \in Nat /\ DOMAIN p = 1..K
  BY <1>2 DEF IsList
<1>5. qq \in Seq(Seq(S)) /\ Len(qq) = K /\ \A k \in 1..K : qq[k] = ss[p[k]]
  <2>1. \A k \in 1..K : ss[p[k]] \in Seq(S)
    BY <1>1, <1>2
  <2>2. qq \in [1..K -> Seq(S)]
    BY <1>3, <1>4, <2>1
  <2>3. qq \in Seq(Seq(S)) /\ Len(qq) = K
    BY <1>4, <2>2
  <2> QED BY <1>3, <1>4, <2>3
<1>6. PICK t : Grows(t, ss, S)
  BY GrowthExists
<1>E. \A m, n \in 0..N : m <= n /\ (\A i \in m + 1..n : ss[i] = <<>>) => t[n] = t[m]
  <2>1. Rests(t, ss, N)
    BY <1>6, EmptyStretches
  <2> QED BY <2>1, Zenon DEF Rests
<1>7. b \in [0..K -> 0..N] /\ b[0] = 0 /\ \A k \in 1..K : b[k] = p[k]
  BY <1>1, <1>2, <1>4
<1> HIDE DEF b
<1>8. ASSUME NEW k \in 1..K
      PROVE  t[b[k]] = t[b[k - 1]] \o qq[k]
  <2>1. p[k] \in 1..N /\ b[k] = p[k] /\ k - 1 \in 0..K
    BY <1>2, <1>4, <1>7
  <2>2. b[k - 1] \in 0..N /\ b[k - 1] <= p[k] - 1
    <3>1. CASE k = 1
      BY <1>1, <1>7, <2>1, <3>1
    <3>2. CASE k # 1
      <4>1. k - 1 \in 1..K /\ k - 1 < k
        BY <1>4, <3>2
      <4>2. p[k - 1] < p[k] /\ p[k - 1] \in 1..N /\ b[k - 1] = p[k - 1]
        BY <1>2, <1>7, <4>1
      <4> QED BY <1>1, <2>1, <4>2
    <3> QED BY <3>1, <3>2
  <2>3. \A i \in b[k - 1] + 1..p[k] - 1 : ss[i] = <<>>
    <3>0. \A i \in b[k - 1] + 1..p[k] - 1 : i \in 1..N
      BY <1>1, <2>1, <2>2
    <3> SUFFICES ASSUME NEW i \in b[k - 1] + 1..p[k] - 1, i \in P
                 PROVE  FALSE
      BY <3>0, Zenon
    <3>1. PICK n \in 1..K : p[n] = i
      BY <1>2
    <3>2. i < p[k] /\ b[k - 1] < i
      <4> DEFINE low == b[k - 1]  high == p[k]
      <4>1. low \in Int /\ high \in Int /\ i \in low + 1..high - 1
        BY <1>1, <2>1, <2>2
      <4> HIDE DEF low, high
      <4>2. i < high /\ low < i
        BY <4>1
      <4> QED BY <4>2 DEF low, high
    <3>3. n < k
      BY <1>2, <3>1, <3>2
    <3>4. CASE k = 1
      BY <1>4, <3>3, <3>4
    <3>5. CASE k # 1
      <4>1. k - 1 \in 1..K
        BY <1>4, <3>5
      <4>2. b[k - 1] = p[k - 1]
        BY <1>7, <4>1
      <4>3. k - 1 < n
        BY <1>2, <3>1, <3>2, <4>1, <4>2
      <4> QED BY <1>4, <3>3, <4>3
    <3> QED BY <3>4, <3>5
  <2>4. b[k - 1] \in 0..N /\ p[k] - 1 \in b[k - 1]..N
    BY <1>1, <2>1, <2>2
  <2>5. t[p[k] - 1] = t[b[k - 1]]
    <3> DEFINE m == b[k - 1]
               n == p[k] - 1
    <3>1. m \in 0..N /\ n \in 0..N /\ m <= n /\ \A i \in m + 1..n : ss[i] = <<>>
      BY <1>1, <2>3, <2>4
    <3> HIDE DEF m, n, N
    <3>2. t[n] = t[m]
      BY <1>E, <3>1, Zenon
    <3> QED BY <3>2 DEF m, n
  <2>6. t[p[k]] = t[p[k] - 1] \o ss[p[k]]
    BY <1>6, <2>1, Zenon DEF Grows
  <2> QED BY <1>5, <2>1, <2>5, <2>6, Zenon
<1>9. t[N] = t[b[K]]
  <2>1. K \in 0..K /\ b[K] \in 0..N /\ N \in b[K]..N
    BY <1>1, <1>4, <1>7
  <2>2. \A i \in b[K] + 1..N : ss[i] = <<>>
    <3> SUFFICES ASSUME NEW i \in b[K] + 1..N, i \in P
                 PROVE  FALSE
      BY <1>1, <2>1
    <3>1. PICK n \in 1..K : p[n] = i
      BY <1>2
    <3>2. K \in 1..K /\ b[K] = p[K] /\ b[K] < i
      BY <1>1, <1>4, <1>7, <2>1
    <3>3. K < n
      BY <1>2, <3>1, <3>2
    <3> QED BY <1>4, <3>3
  <2> DEFINE m == b[K]
  <2>3. m \in 0..N /\ N \in 0..N /\ m <= N /\ \A i \in m + 1..N : ss[i] = <<>>
    BY <1>1, <2>1, <2>2
  <2> HIDE DEF m, N
  <2>4. t[N] = t[m]
    BY <1>E, <2>3, Zenon
  <2> QED BY <2>4 DEF m
<1>10. FlattenSeq(qq) = FlattenSeq(ss)
  <2>1. Stretches(t, qq, b, N)
    BY <1>5, <1>7, <1>8, <1>9 DEF Stretches
  <2> HIDE DEF K
  <2> QED BY <1>5, <1>6, <2>1, StretchesFlatten
<1> QED BY <1>5, <1>10

\* Every stretch does.
Sums(t, ss) ==
    \A m, n \in 0..Len(ss) : m <= n => t[n] = t[m] \o FlattenSeq(SubSeq(ss, m + 1, n))

LEMMA StretchesAdd ==
    ASSUME NEW S, NEW ss \in Seq(Seq(S)), NEW t, Grows(t, ss, S)
    PROVE  Sums(t, ss)
<1> SUFFICES ASSUME NEW m \in 0..Len(ss), NEW n \in 0..Len(ss), m <= n
             PROVE  t[n] = t[m] \o FlattenSeq(SubSeq(ss, m + 1, n))
  BY Zenon DEF Sums
<1>1. m \in 0..Len(ss) /\ n \in m..Len(ss)
  OBVIOUS
<1> QED BY <1>1, StretchAdds

\* The last place before the k-th of the places p of N.
RunEnd(p, k, N) == IF k = Len(p) THEN N ELSE p[k + 1] - 1

RunsOf(qq, ss, p) ==
    /\ Len(qq) = Len(p)
    /\ \A k \in 1..Len(p) :
         qq[k] = FlattenSeq(SubSeq(ss, p[k], RunEnd(p, k, Len(ss))))

\* What becomes of the lists when each run of them is flattened for itself.
LEMMA RunsFlatten ==
    ASSUME NEW S, NEW ss \in Seq(Seq(S)), NEW P \in SUBSET (1..Len(ss)),
           Len(ss) > 0 => 1 \in P, NEW p, p = Ascending(P),
           NEW qq \in Seq(Seq(S)), RunsOf(qq, ss, p)
    PROVE  FlattenSeq(qq) = FlattenSeq(ss)
<1> DEFINE N == Len(ss)
           K == Len(p)
           b == [k \in 0..K |-> IF k = 0 THEN 0 ELSE RunEnd(p, k, N)]
<1>0. Len(qq) = K /\ \A k \in 1..K : qq[k] = FlattenSeq(SubSeq(ss, p[k], RunEnd(p, k, N)))
  BY Zenon DEF RunsOf
<1>1. N \in Nat
  OBVIOUS
<1>2. /\ IsList(p)
      /\ \A k \in 1..K : p[k] \in P /\ p[k] \in 1..N
      /\ \A k \in 1..K, n \in 1..K : p[k] < p[n] <=> k < n
      /\ \A i \in P : \E n \in 1..K : p[n] = i
  BY <1>1, PlacesInOrder, Zenon
<1>4. K \in Nat /\ DOMAIN p = 1..K
  BY <1>2 DEF IsList
<1>3. ASSUME NEW k \in 1..K
      PROVE  RunEnd(p, k, N) \in 0..N
  <2>1. CASE k = K
    BY <1>1, <2>1 DEF RunEnd
  <2>2. CASE k # K
    <3>1. k + 1 \in 1..K
      <4> HIDE DEF K
      <4> QED BY <1>4, <2>2
    <3>2. p[k + 1] \in 1..N
      BY <1>2, <3>1
    <3> QED BY <1>1, <2>2, <3>2 DEF RunEnd
  <2> QED BY <2>1, <2>2
<1>5. b \in [0..K -> 0..N] /\ b[0] = 0 /\ \A k \in 1..K : b[k] = RunEnd(p, k, N)
  BY <1>1, <1>3, <1>4
<1>6. PICK t : Grows(t, ss, S)
  BY GrowthExists
<1>7. \A m, n \in 0..N : m <= n => t[n] = t[m] \o FlattenSeq(SubSeq(ss, m + 1, n))
  <2>1. Sums(t, ss)
    BY <1>6, StretchesAdd
  <2> QED BY <2>1, Zenon DEF Sums
<1> HIDE DEF b
<1>8. ASSUME NEW k \in 1..K
      PROVE  t[b[k]] = t[b[k - 1]] \o qq[k]
  <2>1. p[k] \in 1..N /\ b[k] = RunEnd(p, k, N) /\ k - 1 \in 0..K
    BY <1>2, <1>4, <1>5
  <2>2. b[k - 1] + 1 = p[k]
    <3>1. CASE k = 1
      <4>1. 1 \in P
        BY <1>1, <2>1
      <4>2. PICK n \in 1..K : p[n] = 1
        BY <1>2, <4>1
      <4>3. p[1] = 1
        <5>1. n = 1 \/ 1 < n
          BY <1>4
        <5>2. 1 < n => p[1] < p[n]
          BY <1>2, <1>4
        <5> QED BY <1>2, <4>2, <5>1, <5>2, <2>1, <3>1
      <4> QED BY <1>5, <3>1, <4>3
    <3>2. CASE k # 1
      <4>1. k - 1 \in 1..K /\ k - 1 # K /\ (k - 1) + 1 = k
        BY <1>4, <3>2
      <4>2. b[k - 1] = p[k] - 1
        BY <1>5, <4>1, Zenon DEF RunEnd
      <4> QED BY <2>1, <4>2
    <3> QED BY <3>1, <3>2
  <2>3. p[k] <= b[k] \/ b[k] = N
    <3>1. CASE k = K
      BY <2>1, <3>1 DEF RunEnd
    <3>2. CASE k # K
      <4>1. k + 1 \in 1..K
        <5> HIDE DEF K
        <5> QED BY <1>4, <3>2
      <4>2. p[k] < p[k + 1] /\ p[k + 1] \in 1..N
        BY <1>2, <1>4, <4>1
      <4> QED BY <2>1, <3>2, <4>2 DEF RunEnd
    <3> QED BY <3>1, <3>2
  <2>4. b[k - 1] \in 0..N /\ b[k] \in 0..N /\ b[k - 1] <= b[k]
    <3>1. b[k - 1] \in 0..N /\ b[k] \in 0..N
      <4>1. k - 1 \in 0..K /\ k \in 0..K
        BY <1>4
      <4> HIDE DEF K, N
      <4> QED BY <1>5, <4>1
    <3> HIDE DEF N
    <3> QED BY <1>1, <2>1, <2>2, <2>3, <3>1
  <2>5. t[b[k]] = t[b[k - 1]] \o FlattenSeq(SubSeq(ss, b[k - 1] + 1, b[k]))
    BY <1>7, <2>4, Zenon
  <2> QED BY <1>0, <2>1, <2>2, <2>5, Zenon
<1>9. t[N] = t[b[K]]
  <2>1. CASE K = 0
    <3>1. N = 0
      BY <1>1, <1>2, <2>1
    <3> QED BY <1>5, <2>1, <3>1
  <2>2. CASE K # 0
    <3>1. K \in 1..K
      BY <1>4, <2>2
    <3>2. b[K] = N
      BY <1>5, <3>1 DEF RunEnd
    <3> QED BY <3>2
  <2> QED BY <2>1, <2>2
<1>10. Stretches(t, qq, b, N)
  BY <1>0, <1>5, <1>8, <1>9 DEF Stretches
<1> HIDE DEF K
<1> QED BY <1>6, <1>10, StretchesFlatten

Mapped(f, s) == [i \in DOMAIN s |-> f[s[i]]]

MapsTo(f, s, T) ==
    /\ Mapped(f, s) \in Seq(T) /\ Len(Mapped(f, s)) = Len(s)
    /\ \A i \in 1..Len(s) : Mapped(f, s)[i] = f[s[i]]

LEMMA MapList ==
    ASSUME NEW S, NEW T, NEW f \in [S -> T], NEW s \in Seq(S)
    PROVE  MapsTo(f, s, T)
<1>1. DOMAIN s = 1..Len(s) /\ Len(s) \in Nat /\ \A i \in 1..Len(s) : s[i] \in S
  OBVIOUS
<1>2. Mapped(f, s) = [i \in 1..Len(s) |-> f[s[i]]]
  BY <1>1, Zenon DEF Mapped
<1>3. Mapped(f, s) \in [1..Len(s) -> T]
  BY <1>1, <1>2
<1>4. Mapped(f, s) \in Seq(T) /\ Len(Mapped(f, s)) = Len(s)
  BY <1>1, <1>3, SeqDef, LenProperties
<1> QED BY <1>2, <1>4 DEF MapsTo

MapsOver(f, a, c) == Mapped(f, a \o c) = Mapped(f, a) \o Mapped(f, c)

LEMMA MapJoins ==
    ASSUME NEW S, NEW T, NEW f \in [S -> T], NEW a \in Seq(S), NEW c \in Seq(S)
    PROVE  /\ Mapped(f, a) \in Seq(T) /\ Len(Mapped(f, a)) = Len(a)
           /\ MapsOver(f, a, c)
<1>1. \A s \in Seq(S) : /\ Mapped(f, s) \in Seq(T) /\ Len(Mapped(f, s)) = Len(s)
                        /\ \A i \in 1..Len(s) : Mapped(f, s)[i] = f[s[i]]
  <2> SUFFICES ASSUME NEW s \in Seq(S)
               PROVE  /\ Mapped(f, s) \in Seq(T) /\ Len(Mapped(f, s)) = Len(s)
                      /\ \A i \in 1..Len(s) : Mapped(f, s)[i] = f[s[i]]
    BY Zenon
  <2>1. MapsTo(f, s, T)
    BY MapList
  <2> QED BY <2>1, Zenon DEF MapsTo
<1> DEFINE x == Mapped(f, a \o c)
           y == Mapped(f, a) \o Mapped(f, c)
<1>2. /\ a \o c \in Seq(S) /\ Len(a \o c) = Len(a) + Len(c)
      /\ Len(a) \in Nat /\ Len(c) \in Nat
      /\ \A i \in 1..Len(a) + Len(c) :
           (a \o c)[i] = IF i <= Len(a) THEN a[i] ELSE c[i - Len(a)]
  BY ConcatProperties
<1>m. /\ Mapped(f, a) \in Seq(T) /\ Mapped(f, c) \in Seq(T)
      /\ Len(Mapped(f, a)) = Len(a) /\ Len(Mapped(f, c)) = Len(c)
  BY <1>1
<1>y. \A i \in 1..Len(a) + Len(c) :
        y[i] = IF i <= Len(a) THEN Mapped(f, a)[i] ELSE Mapped(f, c)[i - Len(a)]
  BY <1>m, ConcatProperties
<1>3. x \in Seq(T) /\ Len(x) = Len(a) + Len(c) /\ y \in Seq(T) /\ Len(y) = Len(a) + Len(c)
  <2>1. y \in Seq(T) /\ Len(y) = Len(a) + Len(c)
    <3> DEFINE ma == Mapped(f, a)
               mc == Mapped(f, c)
    <3> HIDE DEF ma, mc
    <3>1. ma \in Seq(T) /\ mc \in Seq(T) /\ Len(ma) = Len(a) /\ Len(mc) = Len(c)
      BY <1>m DEF ma, mc
    <3>2. ma \o mc \in Seq(T) /\ Len(ma \o mc) = Len(ma) + Len(mc)
      BY <3>1, ConcatProperties
    <3> QED BY <3>1, <3>2, Zenon DEF ma, mc
  <2>2. x \in Seq(T) /\ Len(x) = Len(a) + Len(c)
    BY <1>1, <1>2, Zenon
  <2> QED BY <2>1, <2>2
<1>4. \A i \in 1..Len(a) + Len(c) : x[i] = y[i]
  <2> TAKE i \in 1..Len(a) + Len(c)
  <2>1. x[i] = f[(a \o c)[i]]
    BY <1>1, <1>2, Zenon
  <2> HIDE DEF x, y
  <2>2. CASE i <= Len(a)
    <3>1. i \in 1..Len(a)
      BY <1>2, <2>2
    <3>2. x[i] = f[a[i]] /\ y[i] = Mapped(f, a)[i]
      BY <1>2, <1>y, <2>1, <2>2
    <3> QED BY <1>1, <3>1, <3>2, Zenon
  <2>3. CASE ~ (i <= Len(a))
    <3>1. i - Len(a) \in 1..Len(c)
      BY <1>2, <2>3
    <3>2. x[i] = f[c[i - Len(a)]] /\ y[i] = Mapped(f, c)[i - Len(a)]
      BY <1>2, <1>y, <2>1, <2>3
    <3> QED BY <1>1, <3>1, <3>2, Zenon
  <2> QED BY <2>2, <2>3
<1> HIDE DEF x, y
<1>5. x = y
  BY <1>3, <1>4
<1> QED BY <1>1, <1>5, Zenon DEF x, y, MapsOver

FlattensTo(qq, ss, f) == FlattenSeq(qq) = Mapped(f, FlattenSeq(ss))

\* Flattening and taking a field can be exchanged.
LEMMA MapFlattens ==
    ASSUME NEW S, NEW T, NEW f \in [S -> T], NEW ss \in Seq(Seq(S)),
           NEW qq, qq = [i \in DOMAIN ss |-> Mapped(f, ss[i])]
    PROVE  qq \in Seq(Seq(T)) /\ FlattensTo(qq, ss, f)
<1> DEFINE N == Len(ss)
<1>1. N \in Nat /\ DOMAIN ss = 1..N /\ \A i \in 1..N : ss[i] \in Seq(S)
  OBVIOUS
<1>2. PICK t : Grows(t, ss, S) /\ FlattenSeq(ss) = t[N]
  BY Flattened
<1>3. qq \in Seq(Seq(T)) /\ Len(qq) = N /\ \A i \in 1..N : qq[i] = Mapped(f, ss[i])
  <2>1. \A i \in 1..N : Mapped(f, ss[i]) \in Seq(T)
    BY <1>1, MapJoins
  <2>2. qq \in [1..N -> Seq(T)]
    BY <1>1, <2>1
  <2> QED BY <1>1, <2>2
<1> DEFINE u == [n \in 0..N |-> Mapped(f, t[n])]
<1>4. t \in [0..N -> Seq(S)] /\ t[0] = <<>> /\ \A n \in 1..N : t[n] = t[n - 1] \o ss[n]
  BY <1>2, Zenon DEF Grows
<1>5. u \in [0..N -> Seq(T)]
  <2>1. \A n \in 0..N : t[n] \in Seq(S)
    BY <1>4
  <2>2. \A n \in 0..N : Mapped(f, t[n]) \in Seq(T)
    <3>1. \A n \in 0..N : MapsTo(f, t[n], T)
      BY <2>1, MapList
    <3> QED BY <3>1, Zenon DEF MapsTo
  <2> QED BY <2>2
<1>6. u[0] = <<>>
  <2>1. u[0] = Mapped(f, <<>>)
    BY <1>1, <1>4
  <2> QED BY <2>1 DEF Mapped
<1>7. ASSUME NEW n \in 1..N
      PROVE  u[n] = u[n - 1] \o qq[n]
  <2>0. n - 1 \in 0..N /\ n \in 0..N
    BY <1>1
  <2>1. n - 1 \in 0..N /\ n \in 0..N /\ t[n - 1] \in Seq(S) /\ ss[n] \in Seq(S)
    <3> HIDE DEF N
    <3> QED BY <1>1, <1>4, <2>0
  <2>2. u[n] = Mapped(f, t[n]) /\ u[n - 1] = Mapped(f, t[n - 1])
    BY <2>1
  <2> HIDE DEF u
  <2>3. t[n] = t[n - 1] \o ss[n]
    BY <1>4
  <2>4. Mapped(f, t[n - 1] \o ss[n]) = Mapped(f, t[n - 1]) \o Mapped(f, ss[n])
    <3>1. MapsOver(f, t[n - 1], ss[n])
      BY <2>1, MapJoins
    <3> QED BY <3>1, Zenon DEF MapsOver
  <2> QED BY <1>3, <2>2, <2>3, <2>4, Zenon
<1>8. u[N] = Mapped(f, t[N])
  BY <1>1
<1> HIDE DEF u
<1>9. Grows(u, qq, T)
  BY <1>3, <1>5, <1>6, <1>7 DEF Grows
<1>10. FlattenSeq(qq) = u[Len(qq)]
  BY <1>3, <1>9, Flattens
<1> QED BY <1>2, <1>3, <1>8, <1>10 DEF FlattensTo

\* The last list comes last.
LEMMA LastFlattens ==
    ASSUME NEW S, NEW ss \in Seq(Seq(S)), NEW n \in 1..Len(ss), n = Len(ss),
           NEW front, front = SubSeq(ss, 1, n - 1)
    PROVE  Concatenates(FlattenSeq(ss), FlattenSeq(front), ss[n])
<1>1. PICK t : Grows(t, ss, S) /\ FlattenSeq(ss) = t[Len(ss)]
  BY Flattened
<1>2. t \in [0..Len(ss) -> Seq(S)] /\ t[0] = <<>> /\ t[n] = t[n - 1] \o ss[n]
  BY <1>1, Zenon DEF Grows
<1>3. n - 1 \in 0..Len(ss) /\ 0 \in 0..Len(ss) /\ 0 <= n - 1 /\ 0 + 1 = 1
  OBVIOUS
<1>4. Sums(t, ss)
  BY <1>1, StretchesAdd
<1>5. t[n - 1] = t[0] \o FlattenSeq(SubSeq(ss, 0 + 1, n - 1))
  BY <1>3, <1>4, Zenon DEF Sums
<1>6. t[n - 1] = <<>> \o FlattenSeq(front)
  BY <1>2, <1>3, <1>5, Zenon
<1>7. front \in Seq(Seq(S))
  <2>1. \A i \in 1..n - 1 : ss[i] \in Seq(S)
    OBVIOUS
  <2> QED BY <2>1, SubSeqProperties
<1>8. FlattenSeq(front) \in Seq(S)
  BY <1>7, Flattened
<1>9. <<>> \o FlattenSeq(front) = FlattenSeq(front)
  BY <1>8, ConcatEmptySeq
<1> QED BY <1>1, <1>2, <1>6, <1>9, Zenon DEF Concatenates

\* Lists of which one has an element.
LEMMA SomeFlattens ==
    ASSUME NEW S, NEW ss \in Seq(Seq(S)), NEW k \in 1..Len(ss), ss[k] # <<>>
    PROVE  FlattenSeq(ss) # <<>>
<1> DEFINE N == Len(ss)
<1>1. PICK t : Grows(t, ss, S) /\ FlattenSeq(ss) = t[N]
  BY Flattened
<1> DEFINE T == {n \in 0..N : n < k \/ Len(t[n]) > 0}
<1>2. N \in Nat /\ k \in Nat /\ k <= N /\ \A n \in 1..N : ss[n] \in Seq(S)
  OBVIOUS
<1>3. t \in [0..N -> Seq(S)] /\ t[0] = <<>> /\ \A n \in 1..N : t[n] = t[n - 1] \o ss[n]
  BY <1>1, Zenon DEF Grows
<1>4. 0 \in T
  BY <1>2
<1>5. ASSUME NEW n \in 1..N, n - 1 \in T
      PROVE  n \in T
  <2>0. n - 1 \in 0..N /\ n \in 0..N
    BY <1>2
  <2>1. t[n - 1] \in Seq(S) /\ ss[n] \in Seq(S)
    <3> HIDE DEF N
    <3> QED BY <1>2, <1>3, <2>0
  <2>2. Len(t[n - 1] \o ss[n]) = Len(t[n - 1]) + Len(ss[n])
    BY <2>1, ConcatProperties
  <2>3. Len(t[n]) = Len(t[n - 1]) + Len(ss[n])
    BY <1>3, <2>2, Zenon
  <2>4. Len(ss[n]) \in Nat /\ Len(t[n - 1]) \in Nat /\ (n = k => Len(ss[n]) > 0)
    BY <2>1, EmptySeq, LenProperties
  <2>5. n - 1 < k \/ Len(t[n - 1]) > 0
    BY <1>5
  <2>6. n < k \/ Len(t[n]) > 0
    <3> DEFINE x == Len(t[n - 1])
               y == Len(ss[n])
               z == Len(t[n])
    <3>1. n \in Nat /\ k \in Nat /\ x \in Nat /\ y \in Nat /\ z = x + y
      BY <1>2, <2>3, <2>4
    <3>2. (n = k => y > 0) /\ (n - 1 < k \/ x > 0)
      BY <2>4, <2>5
    <3> HIDE DEF x, y, z, N
    <3>3. n < k \/ z > 0
      BY <3>1, <3>2
    <3> QED BY <3>3 DEF z
  <2> QED BY <2>0, <2>6
<1>6. \A n \in 0..N : n \in T
  <2> HIDE DEF T
  <2> QED BY <1>2, <1>4, <1>5, UpTo
<1>7. N \in T /\ ~ (N < k)
  <2> HIDE DEF T
  <2> QED BY <1>2, <1>6
<1>8. Len(t[N]) > 0
  BY <1>7
<1> QED BY <1>1, <1>8

\* No two elements of a list have both keys.
Apart(s, f, g) == \A i, j \in 1..Len(s) : i # j => f[s[i]] # f[s[j]] \/ g[s[i]] # g[s[j]]

\* Elements that know their list and their place in it stay apart.
LEMMA PlacedApart ==
    ASSUME NEW S, NEW ss \in Seq(Seq(S)), NEW f \in [S -> Nat], NEW g \in [S -> Nat],
           \A i \in 1..Len(ss) : \A j \in 1..Len(ss[i]) :
               f[ss[i][j]] = i /\ g[ss[i][j]] = j
    PROVE  Apart(FlattenSeq(ss), f, g)
<1> DEFINE N == Len(ss)
<1>1. PICK t : Grows(t, ss, S) /\ FlattenSeq(ss) = t[N]
  BY Flattened
<1> DEFINE Upto(s, n) == \A i \in 1..Len(s) : f[s[i]] <= n
           T == {n \in 0..N : Apart(t[n], f, g) /\ Upto(t[n], n)}
<1>2. N \in Nat /\ \A n \in 1..N : ss[n] \in Seq(S)
  OBVIOUS
<1>3. t \in [0..N -> Seq(S)] /\ t[0] = <<>> /\ \A n \in 1..N : t[n] = t[n - 1] \o ss[n]
  BY <1>1, Zenon DEF Grows
<1>4. 0 \in T
  BY <1>2, <1>3 DEF Apart
<1>5. ASSUME NEW n \in 1..N, n - 1 \in T
      PROVE  n \in T
  <2> DEFINE a == t[n - 1]
             c == ss[n]
             s == t[n]
  <2>0. n - 1 \in 0..N /\ n \in 0..N
    BY <1>2
  <2>1. a \in Seq(S) /\ c \in Seq(S) /\ s = a \o c /\ s \in Seq(S)
    <3> HIDE DEF N
    <3>1. t[n] = t[n - 1] \o ss[n]
      BY <1>3, Zenon
    <3>2. t[n - 1] \in Seq(S) /\ ss[n] \in Seq(S) /\ t[n] \in Seq(S)
      BY <1>2, <1>3, <2>0
    <3> QED BY <3>1, <3>2, Zenon
  <2>2. Apart(a, f, g) /\ Upto(a, n - 1)
    BY <1>5
  <2>3. \A j \in 1..Len(c) : f[c[j]] = n /\ g[c[j]] = j
    OBVIOUS
  <2> HIDE DEF a, c, s
  <2>4. /\ Len(a) \in Nat /\ Len(c) \in Nat /\ Len(s) = Len(a) + Len(c)
        /\ \A i \in 1..Len(s) : s[i] = IF i <= Len(a) THEN a[i] ELSE c[i - Len(a)]
    BY <2>1, ConcatProperties
  <2>5. ASSUME NEW i \in 1..Len(s)
        PROVE  \/ i \in 1..Len(a) /\ s[i] = a[i] /\ f[s[i]] \in Nat /\ f[s[i]] <= n - 1
               \/ /\ ~ (i <= Len(a)) /\ f[s[i]] = n /\ g[s[i]] = i - Len(a)
    <3>1. CASE i <= Len(a)
      <4>1. i \in 1..Len(a) /\ s[i] = a[i] /\ a[i] \in S
        BY <2>1, <2>4, <3>1
      <4>2. f[s[i]] \in Nat /\ f[s[i]] <= n - 1
        BY <2>2, <4>1
      <4> QED BY <4>1, <4>2
    <3>2. CASE ~ (i <= Len(a))
      <4>1. i - Len(a) \in 1..Len(c) /\ s[i] = c[i - Len(a)]
        BY <2>4, <3>2
      <4> QED BY <2>3, <3>2, <4>1
    <3> QED BY <3>1, <3>2
  <2>6. Upto(s, n)
    <3> TAKE i \in 1..Len(s)
    <3>1. n \in Nat
      BY <1>2
    <3>2. (f[s[i]] \in Nat /\ f[s[i]] <= n - 1) \/ f[s[i]] = n
      BY <2>5, Zenon
    <3> DEFINE x == f[s[i]]
    <3> HIDE DEF N, x
    <3>3. x <= n
      BY <3>1, <3>2 DEF x
    <3> QED BY <3>3 DEF x
  <2>7. Apart(s, f, g)
    <3> SUFFICES ASSUME NEW i \in 1..Len(s), NEW j \in 1..Len(s), i # j
                 PROVE  f[s[i]] # f[s[j]] \/ g[s[i]] # g[s[j]]
      BY Zenon DEF Apart
    <3>1. CASE i \in 1..Len(a) /\ j \in 1..Len(a)
      <4>1. s[i] = a[i] /\ s[j] = a[j]
        BY <2>4, <3>1
      <4> QED BY <2>2, <3>1, <4>1, Zenon DEF Apart
    <3>2. CASE ~ (i <= Len(a)) /\ ~ (j <= Len(a))
      <4>1. g[s[i]] = i - Len(a) /\ g[s[j]] = j - Len(a)
        BY <2>4, <2>5, <3>2
      <4> QED BY <2>4, <4>1
    <3>3. CASE i \in 1..Len(a) /\ ~ (j <= Len(a))
      BY <2>4, <2>5, <3>3
    <3>4. CASE j \in 1..Len(a) /\ ~ (i <= Len(a))
      BY <2>4, <2>5, <3>4
    <3> QED BY <2>4, <3>1, <3>2, <3>3, <3>4
  <2> QED BY <2>0, <2>6, <2>7 DEF s
<1>6. \A n \in 0..N : n \in T
  <2> HIDE DEF T
  <2> QED BY <1>2, <1>4, <1>5, UpTo
<1>7. N \in T
  <2> HIDE DEF T
  <2> QED BY <1>2, <1>6
<1> QED BY <1>1, <1>7

-----------------------------------------------------------------------------
(* Chunks and batches *)

\* Whole parts, and what is left.
LEMMA Quotient ==
    ASSUME NEW a \in Nat, NEW b \in Nat, b > 0
    PROVE  a \div b \in Nat /\ a % b \in Nat /\ (a >= b => a \div b >= 1)
OBVIOUS

\* Not one group is empty.
GroupsOf(N) == Seq(Seq(1..N) \ {<<>>})

LEMMA PlacedGroups ==
    ASSUME NEW N \in Nat, NEW groups \in GroupsOf(N), NEW i \in 1..N,
           NEW sizes, NEW ceiling
    PROVE  /\ Placed(groups, i, sizes, ceiling) \in GroupsOf(N)
           /\ Placed(groups, i, sizes, ceiling) # <<>>
<1> DEFINE Fits == groups # <<>> /\ JoinedSize(sizes, Append(Last(groups), i)) <= ceiling
           G == Seq(1..N) \ {<<>>}
<1>1. groups \in Seq(G)
  BY Zenon DEF GroupsOf
<1>2. CASE Fits
  <2>1. groups # <<>>
    BY <1>2
  <2>2. Len(groups) \in 1..Len(groups)
    BY <1>1, <2>1
  <2>3. groups[Len(groups)] \in Seq(1..N)
    BY <1>1, <2>2
  <2>4. Append(groups[Len(groups)], i) \in G
    BY <2>3
  <2> DEFINE new == [groups EXCEPT ![Len(groups)] = Append(@, i)]
  <2>5. new \in Seq(G) /\ new # <<>>
    BY <1>1, <2>2, <2>4
  <2>6. Placed(groups, i, sizes, ceiling) = new
    BY <1>2, Zenon DEF Placed
  <2> QED BY <2>5, <2>6, Zenon DEF GroupsOf
<1>3. CASE ~ Fits
  <2>1. <<i>> \in G
    OBVIOUS
  <2>2. Append(groups, <<i>>) \in Seq(G) /\ Append(groups, <<i>>) # <<>>
    <3> DEFINE x == <<i>>
    <3> HIDE DEF x, G
    <3>1. x \in G
      BY <2>1 DEF x
    <3>2. Append(groups, x) \in Seq(G) /\ Append(groups, x) # <<>>
      BY <1>1, <3>1, AppendProperties
    <3> QED BY <3>2 DEF x
  <2>3. Placed(groups, i, sizes, ceiling) = Append(groups, <<i>>)
    BY <1>3, Zenon DEF Placed
  <2> QED BY <2>2, <2>3, Zenon DEF GroupsOf
<1> QED BY <1>2, <1>3

LEMMA PackedGroups ==
    ASSUME NEW sizes, NEW N \in Nat, N = Len(sizes), NEW ceiling
    PROVE  /\ Packed(sizes, ceiling) \in GroupsOf(N)
           /\ N > 0 => Packed(sizes, ceiling) # <<>>
<1> DEFINE T == GroupsOf(N)
           F == [p \in (1..N) \X T |-> Placed(p[2], p[1], sizes, ceiling)]
           Body(g) == [n \in 0..N |-> IF n = 0 THEN <<>>
                                      ELSE Placed(g[n - 1], n, sizes, ceiling)]
           packed == CHOOSE g : g = Body(g)
<1>1. \A n \in 1..N, g \in T : Placed(g, n, sizes, ceiling) \in T
  BY PlacedGroups
<1>2. <<>> \in T
  BY DEF GroupsOf
<1>3. F \in [(1..N) \X T -> T] /\ \A n \in 1..N, g \in T : F[<<n, g>>] = Placed(g, n, sizes, ceiling)
  <2> HIDE DEF T
  <2> QED BY <1>1
<1> HIDE DEF F, T
<1>4. PICK t : Iterates(t, <<>>, F, N, T)
  BY <1>2, <1>3, IterationExists
<1>5. t \in [0..N -> T] /\ t[0] = <<>> /\ \A n \in 1..N : t[n] = F[<<n, t[n - 1]>>]
  BY <1>4, Zenon DEF Iterates
<1>6. ASSUME NEW n \in 1..N
      PROVE  t[n] = Placed(t[n - 1], n, sizes, ceiling) /\ n - 1 \in 0..N
  <2>1. n - 1 \in 0..N
    OBVIOUS
  <2>2. t[n - 1] \in T
    BY <1>5, <2>1
  <2>3. F[<<n, t[n - 1]>>] = Placed(t[n - 1], n, sizes, ceiling)
    BY <1>3, <2>2
  <2> QED BY <1>5, <2>1, <2>3, Zenon
<1>7. t = Body(t)
  <2>1. \A n \in 0..N : t[n] = IF n = 0 THEN <<>> ELSE Placed(t[n - 1], n, sizes, ceiling)
    <3> TAKE n \in 0..N
    <3>1. n = 0 \/ n \in 1..N
      OBVIOUS
    <3> QED BY <1>5, <1>6, <3>1
  <2> QED BY <1>5, <2>1
<1>8. packed = Body(packed)
  <2> HIDE DEF Body
  <2> QED BY <1>7, Zenon
<1>9. \A n \in 0..N : packed[n] = IF n = 0 THEN <<>>
                                  ELSE Placed(packed[n - 1], n, sizes, ceiling)
  <2> HIDE DEF packed
  <2> QED BY <1>8, Zenon
<1>10. Packed(sizes, ceiling) = packed[N]
  BY Zenon DEF Packed
<1> HIDE DEF packed, Body
<1> DEFINE Same == {n \in 0..N : packed[n] = t[n]}
<1>11. 0 \in Same
  BY <1>5, <1>9
<1>12. ASSUME NEW n \in 1..N, n - 1 \in Same
       PROVE  n \in Same
  <2>1. n \in 0..N /\ n # 0 /\ packed[n - 1] = t[n - 1]
    BY <1>12
  <2>2. packed[n] = Placed(packed[n - 1], n, sizes, ceiling)
    BY <1>9, <2>1, Zenon
  <2>3. packed[n] = t[n]
    BY <1>6, <2>1, <2>2, Zenon
  <2> QED BY <2>1, <2>3
<1>13. \A n \in 0..N : n \in Same
  <2> HIDE DEF Same
  <2> QED BY <1>11, <1>12, UpTo
<1>14. packed[N] = t[N] /\ t[N] \in T
  <2>1. N \in 0..N
    OBVIOUS
  <2>2. N \in Same
    <3> HIDE DEF Same
    <3> QED BY <1>13, <2>1
  <2> QED BY <1>5, <2>1, <2>2
<1>15. N > 0 => t[N] # <<>>
  <2> SUFFICES ASSUME N > 0 PROVE t[N] # <<>>
    OBVIOUS
  <2>1. N \in 1..N
    OBVIOUS
  <2>2. t[N] = Placed(t[N - 1], N, sizes, ceiling) /\ t[N - 1] \in GroupsOf(N)
    BY <1>5, <1>6, <2>1 DEF T
  <2> QED BY <2>1, <2>2, PlacedGroups
<1> QED BY <1>10, <1>14, <1>15 DEF T

\* A paragraph fills at least one piece.
LEMMA PiecesType ==
    ASSUME NEW p \in Nat
    PROVE  Pieces(p) \in Seq(Nat) /\ Pieces(p) # <<>>
<1>0. ChunkSize \in Nat /\ ChunkSize > 0
  BY CvDocumentAssumption
<1>1. CASE p <= ChunkSize
  <2>1. Pieces(p) = <<p>>
    BY <1>1 DEF Pieces
  <2> QED BY <2>1
<1>2. CASE ~ (p <= ChunkSize)
  <2> DEFINE q == (p + ChunkSize - 1) \div ChunkSize
             r == p % ChunkSize
             cut == [i \in 1..q |-> IF i * ChunkSize <= p THEN ChunkSize ELSE r]
  <2>1. q \in Nat /\ q >= 1
    <3>1. p + ChunkSize - 1 \in Nat /\ p + ChunkSize - 1 >= ChunkSize
      BY <1>0, <1>2
    <3> QED BY <1>0, <3>1, Quotient
  <2>2. r \in Nat
    BY <1>0, Quotient
  <2>3. Pieces(p) = cut
    BY <1>2, Zenon DEF Pieces
  <2> HIDE DEF q, r
  <2>4. cut \in [1..q -> Nat]
    BY <1>0, <2>2
  <2> HIDE DEF cut
  <2>5. cut \in Seq(Nat) /\ Len(cut) = q
    BY <2>1, <2>4, SeqDef, LenProperties
  <2>6. cut # <<>>
    BY <2>1, <2>5
  <2> QED BY <2>3, <2>5, <2>6
<1> QED BY <1>1, <1>2

\* A text that is not empty has a chunk.
LEMMA ChunksType ==
    ASSUME NEW text \in Seq(Nat), text # <<>>
    PROVE  IsList(ChunksOf(text)) /\ Len(ChunksOf(text)) > 0
<1> DEFINE parts == [i \in DOMAIN text |-> Pieces(text[i])]
           pieces == FlattenSeq(parts)
           groups == Packed(pieces, ChunkSize)
<1>1. Len(text) \in Nat /\ Len(text) > 0 /\ DOMAIN text = 1..Len(text)
      /\ \A i \in 1..Len(text) : text[i] \in Nat
  BY EmptySeq
<1>2. parts \in Seq(Seq(Nat)) /\ Len(parts) = Len(text) /\ parts[1] # <<>>
  <2>1. \A i \in 1..Len(text) : Pieces(text[i]) \in Seq(Nat) /\ Pieces(text[i]) # <<>>
    BY <1>1, PiecesType
  <2>2. parts \in [1..Len(text) -> Seq(Nat)]
    BY <1>1, <2>1
  <2>3. 1 \in 1..Len(text)
    BY <1>1
  <2> QED BY <1>1, <2>1, <2>2, <2>3
<1> HIDE DEF parts
<1>3. pieces \in Seq(Nat)
  BY <1>2, Flattened
<1>4. pieces # <<>>
  BY <1>1, <1>2, SomeFlattens
<1> HIDE DEF pieces
<1>5. Len(pieces) \in Nat /\ Len(pieces) > 0
  BY <1>3, <1>4
<1>6. groups \in GroupsOf(Len(pieces)) /\ groups # <<>>
  BY <1>5, PackedGroups
<1> HIDE DEF groups
<1>7. Len(groups) \in Nat /\ Len(groups) > 0 /\ DOMAIN groups = 1..Len(groups)
  BY <1>6 DEF GroupsOf
<1> DEFINE chunked == [i \in DOMAIN groups |-> JoinedSize(pieces, groups[i])]
<1>8. ChunksOf(text) = chunked
  BY Zenon DEF ChunksOf, groups, pieces, parts
<1>9. DOMAIN chunked = 1..Len(groups) /\ chunked = [i \in 1..Len(groups) |-> chunked[i]]
  BY <1>7, Zenon
<1> HIDE DEF chunked
<1>10. IsList(chunked) /\ Len(chunked) = Len(groups)
  BY <1>7, <1>9, FunctionIsList
<1> QED BY <1>7, <1>8, <1>10

\* A batch has some of the chunks.
LEMMA BatchesType ==
    ASSUME NEW list, IsList(list), Len(list) > 0
    PROVE  BatchesOf(list) \in Seq((SUBSET (1..Len(list))) \ {{}}) /\ Len(BatchesOf(list)) > 0
<1> DEFINE N == Len(list)
           groups == Packed(list, BatchSize)
           all == [i \in DOMAIN groups |-> ToSet(groups[i])]
           B == (SUBSET (1..N)) \ {{}}
<1>1. N \in Nat /\ N > 0
  BY DEF IsList
<1>2. groups \in GroupsOf(N) /\ groups # <<>>
  BY <1>1, PackedGroups
<1>3. BatchesOf(list) = all
  BY Zenon DEF BatchesOf
<1> HIDE DEF groups, N
<1>4. /\ Len(groups) \in Nat /\ Len(groups) > 0 /\ DOMAIN groups = 1..Len(groups)
      /\ \A i \in 1..Len(groups) : groups[i] \in Seq(1..N) /\ groups[i] # <<>>
  BY <1>2 DEF GroupsOf
<1>5. ASSUME NEW i \in 1..Len(groups)
      PROVE  ToSet(groups[i]) \in B
  <2> DEFINE g == groups[i]
  <2>1. g \in Seq(1..N) /\ g # <<>>
    BY <1>4
  <2> HIDE DEF g
  <2>2. ToSet(g) = {g[k] : k \in DOMAIN g}
    BY Zenon DEF ToSet
  <2>3. 1 \in DOMAIN g /\ \A k \in DOMAIN g : g[k] \in 1..N
    <3>1. Len(g) > 0 /\ DOMAIN g = 1..Len(g) /\ Len(g) \in Nat
      BY <2>1, EmptySeq
    <3>2. \A k \in 1..Len(g) : g[k] \in 1..N
      BY <2>1, ElementOfSeq
    <3> QED BY <3>1, <3>2
  <2>4. {g[k] : k \in DOMAIN g} \in B
    <3>1. {g[k] : k \in DOMAIN g} \in SUBSET (1..N)
      BY <2>3
    <3>2. g[1] \in {g[k] : k \in DOMAIN g}
      BY <2>3
    <3> DEFINE R == {g[k] : k \in DOMAIN g}
    <3>3. R \in SUBSET (1..N) /\ R # {}
      BY <3>1, <3>2
    <3> HIDE DEF R
    <3>4. R \in B
      BY <3>3
    <3> QED BY <3>4 DEF R
  <2> QED BY <2>2, <2>4 DEF g
<1>6. all \in [1..Len(groups) -> B]
  BY <1>4, <1>5
<1>7. all \in Seq(B) /\ Len(all) = Len(groups)
  <2> HIDE DEF B, all
  <2> QED BY <1>4, <1>6, SeqDef, LenProperties
<1> QED BY <1>3, <1>4, <1>7 DEF N

-----------------------------------------------------------------------------
(* Sections *)

\* Strings; the provers do not know that a literal is one.
Words == STRING \cup {RecoveredHeading, RecoveredTitle, "other", "none"}

\* What a fragment may hold.
EntryType == [title: Words, sources: SUBSET Int]
FragmentType ==
    [heading: Words, kind: Words, entries: Seq(EntryType), sources: SUBSET Int]

EntrySet(A) == [title: Words, sources: (SUBSET A) \ {{}}, id: Nat \X Nat \X Words]
SectionSet(A) ==
    [heading: Words, kind: Words, sources: SUBSET A, ordinal: Nat,
     entries: Seq(EntrySet(A))]

Referenced(s) == s.entries # <<>> => s.sources = SourcesOf(s.entries)
At(s, i) ==
    /\ s.ordinal = i
    /\ \A k \in 1..Len(s.entries) : s.entries[k].id = <<i, k, s.entries[k].title>>
TitleList(entries) == [k \in DOMAIN entries |-> entries[k].title]

\* What is put at its place is otherwise the same.
Renumbers(n, s, place, A) ==
    /\ n \in SectionSet(A) /\ At(n, place)
    /\ n.heading = s.heading /\ n.kind = s.kind /\ n.sources = s.sources
    /\ Len(n.entries) = Len(s.entries)
    /\ TitleList(n.entries) = TitleList(s.entries)
    /\ SourcesOf(n.entries) = SourcesOf(s.entries)
    /\ Referenced(s) => Referenced(n)

LEMMA SourcesAgree ==
    ASSUME NEW a, NEW c, DOMAIN a = DOMAIN c, \A i \in DOMAIN a : a[i].sources = c[i].sources
    PROVE  SourcesOf(a) = SourcesOf(c)
<1>1. {a[i].sources : i \in DOMAIN a} = {c[i].sources : i \in DOMAIN c}
  OBVIOUS
<1> QED BY <1>1, Zenon DEF SourcesOf

LEMMA NumberedSection ==
    ASSUME NEW A, NEW s \in SectionSet(A), NEW place \in Nat
    PROVE  Renumbers(Numbered(s, place), s, place, A)
<1> DEFINE old == s.entries
           new == [i \in DOMAIN old |-> [old[i] EXCEPT !.id = <<place, i, old[i].title>>]]
           n == Numbered(s, place)
<1>1. old \in Seq(EntrySet(A)) /\ s.heading \in Words /\ s.kind \in Words /\ s.sources \in SUBSET A
  BY DEF SectionSet
<1>2. n = [s EXCEPT !.ordinal = place, !.entries = new]
  BY DEF Numbered
<1>3. /\ n.ordinal = place /\ n.entries = new
      /\ n.heading = s.heading /\ n.kind = s.kind /\ n.sources = s.sources
      /\ n = [heading |-> s.heading, kind |-> s.kind, sources |-> s.sources,
              ordinal |-> place, entries |-> new]
  <2> HIDE DEF new, n
  <2> QED BY <1>2 DEF SectionSet
<1> HIDE DEF old, n
<1>4. Len(old) \in Nat /\ DOMAIN old = 1..Len(old) /\ \A i \in 1..Len(old) : old[i] \in EntrySet(A)
  BY <1>1
<1>5. \A i \in 1..Len(old) :
        /\ new[i] \in EntrySet(A) /\ new[i].id = <<place, i, old[i].title>>
        /\ new[i].title = old[i].title /\ new[i].sources = old[i].sources
  <2> TAKE i \in 1..Len(old)
  <2> DEFINE e == old[i]
  <2>1. e \in EntrySet(A) /\ new[i] = [e EXCEPT !.id = <<place, i, e.title>>]
    BY <1>4
  <2>2. i \in Nat
    BY <1>4
  <2> HIDE DEF e
  <2>3. [e EXCEPT !.id = <<place, i, e.title>>] \in EntrySet(A)
    BY <2>1, <2>2 DEF EntrySet
  <2>4. /\ [e EXCEPT !.id = <<place, i, e.title>>].id = <<place, i, e.title>>
        /\ [e EXCEPT !.id = <<place, i, e.title>>].title = e.title
        /\ [e EXCEPT !.id = <<place, i, e.title>>].sources = e.sources
    BY <2>1 DEF EntrySet
  <2> HIDE DEF new
  <2> QED BY <2>1, <2>3, <2>4 DEF e
<1>6. DOMAIN new = 1..Len(old) /\ new = [i \in 1..Len(old) |-> new[i]]
  BY <1>4
<1> HIDE DEF new
<1>7. new \in Seq(EntrySet(A)) /\ Len(new) = Len(old)
  <2>1. \A i \in 1..Len(old) : new[i] \in EntrySet(A)
    BY <1>5
  <2>2. new \in [1..Len(old) -> EntrySet(A)]
    BY <1>6, <2>1, Zenon
  <2> QED BY <1>4, <2>2, SeqDef, LenProperties
<1>8. n \in SectionSet(A)
  BY <1>1, <1>3, <1>7 DEF SectionSet
<1>9. At(n, place)
  BY <1>3, <1>5, <1>7 DEF At
<1>10. TitleList(new) = TitleList(old)
  BY <1>4, <1>5, <1>6 DEF TitleList
<1>11. SourcesOf(new) = SourcesOf(old)
  BY <1>4, <1>5, <1>6, SourcesAgree
<1>12. Referenced(s) => Referenced(n)
  <2>1. old = <<>> <=> new = <<>>
    BY <1>1, <1>7
  <2> QED BY <1>3, <1>11, <2>1 DEF Referenced, old
<1> QED BY <1>3, <1>7, <1>8, <1>9, <1>10, <1>11, <1>12 DEF Renumbers, old, n

\* Entries with a title and a chunk that was shown.
EntriesLike(E, A) == \A e \in E : e.title \in Words /\ e.sources \in (SUBSET A) \ {{}}

SectionBuilt(s, heading, kind, entries, sources, A) ==
    /\ s \in SectionSet(A)
    /\ s.heading = heading /\ s.kind = kind /\ s.sources = sources
    /\ Len(s.entries) = Len(entries)
    /\ TitleList(s.entries) = TitleList(entries)
    /\ SourcesOf(s.entries) = SourcesOf(entries)

LEMMA SectionType ==
    ASSUME NEW A, NEW E, EntriesLike(E, A), NEW entries \in Seq(E),
           NEW heading \in Words, NEW kind \in Words, NEW sources \in SUBSET A
    PROVE  SectionBuilt(Section(heading, kind, entries, sources),
                        heading, kind, entries, sources, A)
<1> DEFINE new == [i \in DOMAIN entries |->
                      [title |-> entries[i].title, sources |-> entries[i].sources,
                       id |-> <<0, i, entries[i].title>>]]
           s == Section(heading, kind, entries, sources)
<1>1. /\ Len(entries) \in Nat /\ DOMAIN entries = 1..Len(entries)
      /\ \A i \in 1..Len(entries) : entries[i] \in E
  OBVIOUS
<1>2. s = [heading |-> heading, kind |-> kind, sources |-> sources, ordinal |-> 0,
           entries |-> new]
  BY DEF Section
<1>3. \A i \in 1..Len(entries) :
        /\ new[i] \in EntrySet(A)
        /\ new[i].title = entries[i].title /\ new[i].sources = entries[i].sources
  <2> TAKE i \in 1..Len(entries)
  <2>1. entries[i].title \in Words /\ entries[i].sources \in (SUBSET A) \ {{}}
    BY <1>1 DEF EntriesLike
  <2>2. i \in Nat
    BY <1>1
  <2> DEFINE x == entries[i].title
             y == entries[i].sources
  <2>3. new[i] = [title |-> x, sources |-> y, id |-> <<0, i, x>>]
    BY <1>1
  <2> HIDE DEF x, y, new
  <2>4. new[i] \in EntrySet(A) /\ new[i].title = x /\ new[i].sources = y
    BY <2>1, <2>2, <2>3 DEF EntrySet, x, y
  <2> QED BY <2>4 DEF x, y
<1>4. DOMAIN new = 1..Len(entries) /\ new = [i \in 1..Len(entries) |-> new[i]]
  BY <1>1
<1> HIDE DEF new, s
<1>5. new \in Seq(EntrySet(A)) /\ Len(new) = Len(entries)
  <2>1. \A i \in 1..Len(entries) : new[i] \in EntrySet(A)
    BY <1>3
  <2>2. new \in [1..Len(entries) -> EntrySet(A)]
    BY <1>4, <2>1, Zenon
  <2> QED BY <1>1, <2>2, SeqDef, LenProperties
<1>6. s \in SectionSet(A)
  BY <1>2, <1>5 DEF SectionSet
<1>7. TitleList(new) = TitleList(entries)
  BY <1>1, <1>3, <1>4 DEF TitleList
<1>8. SourcesOf(new) = SourcesOf(entries)
  BY <1>1, <1>3, <1>4, SourcesAgree
<1> QED BY <1>2, <1>5, <1>6, <1>7, <1>8 DEF SectionBuilt, s

\* Whatever entries reference, is there.
LEMMA SourcesType ==
    ASSUME NEW A, NEW E, EntriesLike(E, A), NEW entries \in Seq(E)
    PROVE  /\ SourcesOf(entries) \in SUBSET A
           /\ entries # <<>> => SourcesOf(entries) # {}
<1>1. /\ Len(entries) \in Nat /\ DOMAIN entries = 1..Len(entries)
      /\ \A i \in 1..Len(entries) : entries[i] \in E
  OBVIOUS
<1>2. \A i \in DOMAIN entries : entries[i].sources \in (SUBSET A) \ {{}}
  BY <1>1 DEF EntriesLike
<1>3. SourcesOf(entries) \in SUBSET A
  BY <1>2 DEF SourcesOf
<1>4. ASSUME entries # <<>>
      PROVE  SourcesOf(entries) # {}
  <2>1. 1 \in DOMAIN entries
    BY <1>1, <1>4, EmptySeq
  <2>2. PICK x : x \in entries[1].sources
    BY <1>2, <2>1
  <2>3. x \in SourcesOf(entries)
    BY <2>1, <2>2 DEF SourcesOf
  <2> QED BY <2>3
<1> QED BY <1>3, <1>4

\* A selection of a list is a list of the same elements.
LEMMA WhereType ==
    ASSUME NEW S, NEW s \in Seq(S), NEW P \in SUBSET (1..Len(s))
    PROVE  /\ ElementsAt(s, P) \in Seq(S)
           /\ \A n \in 1..Len(ElementsAt(s, P)) : \E i \in P : ElementsAt(s, P)[n] = s[i]
<1> DEFINE q == ElementsAt(s, P)
<1>1. IsList(s) /\ DOMAIN s = 1..Len(s) /\ \A i \in 1..Len(s) : s[i] \in S
  BY DEF IsList
<1>2. Selects(q, s, P)
  BY <1>1, WhereList
<1>3. q = [n \in DOMAIN Ascending(P) |-> s[Ascending(P)[n]]]
  BY DEF ElementsAt
<1>4. q = [n \in DOMAIN q |-> q[n]]
  BY <1>3
<1> HIDE DEF q
<1>5. /\ Len(q) \in Nat /\ DOMAIN q = 1..Len(q)
      /\ \A n \in 1..Len(q) : \E i \in P : q[n] = s[i]
  BY <1>2 DEF Selects, IsList
<1>6. \A n \in 1..Len(q) : q[n] \in S
  BY <1>1, <1>5
<1>7. q \in [1..Len(q) -> S]
  BY <1>4, <1>5, <1>6, Zenon
<1>8. q \in Seq(S)
  BY <1>5, <1>7, SeqDef
<1> QED BY <1>5, <1>8 DEF q

\* A field of the elements that were selected.
LEMMA SelectedTitles ==
    ASSUME NEW S, NEW s \in Seq(S), NEW P \in SUBSET (1..Len(s))
    PROVE  TitleList(ElementsAt(s, P)) = ElementsAt(TitleList(s), P)
<1> DEFINE p == Ascending(P)
           q == ElementsAt(s, P)
<1>1. q = [n \in DOMAIN p |-> s[p[n]]]
  BY DEF ElementsAt
<1>2. ElementsAt(TitleList(s), P) = [n \in DOMAIN p |-> TitleList(s)[p[n]]]
  BY DEF ElementsAt
<1>3. \A n \in DOMAIN p : p[n] \in P
  <2>1. IsList(p) /\ \A k \in 1..Len(p) : p[k] \in P
    BY PlacesInOrder
  <2> QED BY <2>1, Zenon DEF IsList
<1>4. \A n \in DOMAIN p : TitleList(s)[p[n]] = s[p[n]].title
  <2> HIDE DEF p
  <2>1. \A i \in P : i \in DOMAIN s
    OBVIOUS
  <2> QED BY <1>3, <2>1 DEF TitleList
<1>5. TitleList(q) = [n \in DOMAIN p |-> s[p[n]].title]
  <2> HIDE DEF p
  <2> QED BY <1>1 DEF TitleList
<1> HIDE DEF p, q
<1>6. TitleList(q) = ElementsAt(TitleList(s), P)
  BY <1>2, <1>4, <1>5
<1> QED BY <1>6 DEF q

\* The first chunk that was shown.
LEMMA MinIn ==
    ASSUME NEW A \in SUBSET Nat, A # {}
    PROVE  Min(A) \in A /\ \A y \in A : Min(A) <= y
<1>1. \E x \in A : \A y \in A : x <= y
  BY LeastNumber
<1> QED BY <1>1, Zenon DEF Min

ClampedSet(A) == [title: Words, sources: (SUBSET A) \ {{}}]

LEMMA ClampedType ==
    ASSUME NEW A \in SUBSET Nat, A # {}, NEW e \in EntryType
    PROVE  Clamped(e, A) \in ClampedSet(A) /\ Clamped(e, A).title = e.title
<1> DEFINE c == IF e.sources \cap A = {} THEN {Min(A)} ELSE e.sources \cap A
<1>1. c \in (SUBSET A) \ {{}}
  <2>1. Min(A) \in A
    BY MinIn
  <2> DEFINE m == Min(A)
  <2> HIDE DEF m
  <2>2. m \in A
    BY <2>1 DEF m
  <2>3. (IF e.sources \cap A = {} THEN {m} ELSE e.sources \cap A) \in (SUBSET A) \ {{}}
    BY <2>2
  <2> QED BY <2>3 DEF m
<1>2. Clamped(e, A) = [e EXCEPT !.sources = c]
  BY DEF Clamped
<1> HIDE DEF c
<1>3. [e EXCEPT !.sources = c] \in ClampedSet(A) /\ [e EXCEPT !.sources = c].title = e.title
  BY <1>1 DEF EntryType, ClampedSet
<1> QED BY <1>2, <1>3

\* Titles that a fragment contributes to the outline.
TitledAt(entries) == {i \in DOMAIN entries : entries[i].title # NoTitle}
FragmentTitles(fragment) ==
    IF fragment.heading = BlankHeading THEN <<>>
    ELSE ElementsAt(TitleList(fragment.entries), TitledAt(fragment.entries))

FragmentBecomes(s, fragment, A) ==
    /\ s \in SectionSet(A) /\ Referenced(s)
    /\ s.heading = fragment.heading
    /\ s.entries # <<>> => s.sources # {}
    /\ s.heading # BlankHeading => TitleList(s.entries) = FragmentTitles(fragment)

LEMMA SectionOfType ==
    ASSUME NEW A \in SUBSET Nat, A # {}, NEW fragment \in FragmentType
    PROVE  FragmentBecomes(SectionOf(fragment, A), fragment, A)
<1> DEFINE entries == fragment.entries
           P == TitledAt(entries)
           kept == ElementsAt(entries, P)
           clamped == [i \in DOMAIN kept |-> Clamped(kept[i], A)]
           sources == IF clamped = <<>> THEN fragment.sources \cap A ELSE SourcesOf(clamped)
           s == SectionOf(fragment, A)
<1>1. /\ entries \in Seq(EntryType) /\ fragment.heading \in Words
      /\ fragment.kind \in Words /\ fragment.sources \in SUBSET Int
  BY DEF FragmentType
<1>2. Where(fragment.entries, LAMBDA e : e.title # NoTitle) = kept
  BY DEF Where, ElementsAt, Ascending, TitledAt
<1>3. s = Section(fragment.heading, fragment.kind, clamped, sources)
  BY <1>2 DEF SectionOf
<1> HIDE DEF entries, kept, P
<1>4. P \in SUBSET (1..Len(entries))
  BY <1>1 DEF P, TitledAt
<1>5. kept \in Seq(EntryType)
  BY <1>1, <1>4, WhereType DEF kept
<1>6. /\ Len(kept) \in Nat /\ DOMAIN kept = 1..Len(kept)
      /\ \A i \in 1..Len(kept) : kept[i] \in EntryType
  BY <1>5
<1>7. \A i \in 1..Len(kept) :
        Clamped(kept[i], A) \in ClampedSet(A) /\ Clamped(kept[i], A).title = kept[i].title
  BY <1>6, ClampedType
<1>8. clamped = [i \in 1..Len(kept) |-> Clamped(kept[i], A)]
  BY <1>6
<1>9. clamped \in Seq(ClampedSet(A)) /\ Len(clamped) = Len(kept)
  <2> HIDE DEF clamped
  <2>1. clamped \in [1..Len(kept) -> ClampedSet(A)]
    BY <1>7, <1>8
  <2> QED BY <1>6, <2>1, SeqDef, LenProperties
<1>10. TitleList(clamped) = TitleList(kept)
  BY <1>6, <1>7, <1>8 DEF TitleList
<1> HIDE DEF clamped, sources, s
<1>11. EntriesLike(ClampedSet(A), A)
  BY DEF EntriesLike, ClampedSet
<1>12. SourcesOf(clamped) \in SUBSET A /\ (clamped # <<>> => SourcesOf(clamped) # {})
  BY <1>9, <1>11, SourcesType
<1>13. sources \in SUBSET A
  BY <1>1, <1>12 DEF sources
<1>14. SectionBuilt(s, fragment.heading, fragment.kind, clamped, sources, A)
  BY <1>1, <1>3, <1>9, <1>11, <1>13, SectionType
<1>15. /\ s \in SectionSet(A) /\ s.heading = fragment.heading /\ s.sources = sources
       /\ Len(s.entries) = Len(clamped) /\ TitleList(s.entries) = TitleList(clamped)
       /\ SourcesOf(s.entries) = SourcesOf(clamped)
  BY <1>14 DEF SectionBuilt
<1>16. s.entries = <<>> <=> clamped = <<>>
  <2>1. s.entries \in Seq(EntrySet(A))
    BY <1>15 DEF SectionSet
  <2> QED BY <1>9, <1>15, <2>1, EmptySeq
<1>17. Referenced(s) /\ (s.entries # <<>> => s.sources # {})
  BY <1>12, <1>15, <1>16 DEF Referenced, sources
<1>18. TitleList(kept) = ElementsAt(TitleList(entries), P)
  BY <1>1, <1>4, SelectedTitles DEF kept
<1>19. s.heading # BlankHeading => TitleList(s.entries) = FragmentTitles(fragment)
  BY <1>10, <1>15, <1>18 DEF FragmentTitles, entries, P
<1> QED BY <1>15, <1>17, <1>19 DEF FragmentBecomes, s

-----------------------------------------------------------------------------
(* Documents *)

\* Sections at their places, that reference what their entries do.
GoodDocument(d, A) ==
    d \in Seq(SectionSet(A)) /\ \A i \in 1..Len(d) : Referenced(d[i]) /\ At(d[i], i)

TitleLists(d) == [i \in DOMAIN d |-> TitleList(d[i].entries)]
DocumentTitles(d) == FlattenSeq(TitleLists(d))
FragmentsTitles(fragmentList) ==
    FlattenSeq([i \in DOMAIN fragmentList |-> FragmentTitles(fragmentList[i])])

LEMMA TitleListType ==
    ASSUME NEW E, \A e \in E : e.title \in Words, NEW entries \in Seq(E)
    PROVE  /\ TitleList(entries) \in Seq(Words)
           /\ Len(TitleList(entries)) = Len(entries)
<1>1. /\ Len(entries) \in Nat /\ DOMAIN entries = 1..Len(entries)
      /\ \A i \in 1..Len(entries) : entries[i] \in E
  OBVIOUS
<1>2. TitleList(entries) = [i \in 1..Len(entries) |-> entries[i].title]
  BY <1>1 DEF TitleList
<1>3. TitleList(entries) \in [1..Len(entries) -> Words]
  BY <1>1, <1>2
<1> QED BY <1>1, <1>3, SeqDef, LenProperties

LEMMA TitleListsType ==
    ASSUME NEW A, NEW d \in Seq(SectionSet(A))
    PROVE  /\ TitleLists(d) \in Seq(Seq(Words)) /\ Len(TitleLists(d)) = Len(d)
           /\ \A i \in 1..Len(d) : TitleLists(d)[i] = TitleList(d[i].entries)
<1>1. /\ Len(d) \in Nat /\ DOMAIN d = 1..Len(d) /\ \A i \in 1..Len(d) : d[i] \in SectionSet(A)
  OBVIOUS
<1>2. \A i \in 1..Len(d) : TitleList(d[i].entries) \in Seq(Words)
  <2> TAKE i \in 1..Len(d)
  <2>1. d[i].entries \in Seq(EntrySet(A))
    BY <1>1 DEF SectionSet
  <2>2. \A e \in EntrySet(A) : e.title \in Words
    BY DEF EntrySet
  <2> QED BY <2>1, <2>2, TitleListType
<1>3. TitleLists(d) = [i \in 1..Len(d) |-> TitleList(d[i].entries)]
  BY <1>1, Zenon DEF TitleLists
<1>4. TitleLists(d) \in [1..Len(d) -> Seq(Words)]
  BY <1>2, <1>3
<1>5. TitleLists(d) \in Seq(Seq(Words)) /\ Len(TitleLists(d)) = Len(d)
  BY <1>1, <1>4, SeqDef, LenProperties
<1> QED BY <1>3, <1>5

LEMMA FragmentTitlesType ==
    ASSUME NEW fragment \in FragmentType
    PROVE  FragmentTitles(fragment) \in Seq(Words)
<1> DEFINE entries == fragment.entries
<1>1. entries \in Seq(EntryType) /\ \A e \in EntryType : e.title \in Words
  BY DEF FragmentType, EntryType
<1>2. TitleList(entries) \in Seq(Words) /\ Len(TitleList(entries)) = Len(entries)
  BY <1>1, TitleListType
<1>3. TitledAt(entries) \in SUBSET (1..Len(TitleList(entries)))
  <2>1. DOMAIN entries = 1..Len(entries)
    BY <1>1
  <2> HIDE DEF entries
  <2> QED BY <1>2, <2>1, Zenon DEF TitledAt
<1>4. ElementsAt(TitleList(entries), TitledAt(entries)) \in Seq(Words)
  BY <1>2, <1>3, WhereType
<1>5. <<>> \in Seq(Words)
  OBVIOUS
<1> HIDE DEF entries
<1>6. CASE fragment.heading = BlankHeading
  BY <1>5, <1>6, Zenon DEF FragmentTitles
<1>7. CASE fragment.heading # BlankHeading
  BY <1>4, <1>7, Zenon DEF FragmentTitles, entries
<1> QED BY <1>6, <1>7

\* The sections of an outline hold the titles of its fragments, in order.
LEMMA SectionsFromType ==
    ASSUME NEW A \in SUBSET Nat, A # {}, NEW list \in Seq(FragmentType)
    PROVE  /\ GoodDocument(SectionsFrom(list, A), A)
           /\ DocumentTitles(SectionsFrom(list, A)) = FragmentsTitles(list)
<1> DEFINE N == Len(list)
           sections == [i \in DOMAIN list |-> SectionOf(list[i], A)]
           P == {i \in DOMAIN sections :
                    sections[i].heading # BlankHeading /\ sections[i].sources # {}}
           kept == ElementsAt(sections, P)
           d == [i \in DOMAIN kept |-> Numbered(kept[i], i)]
           ss == [i \in DOMAIN list |-> FragmentTitles(list[i])]
           p == Ascending(P)
<1>1. /\ N \in Nat /\ DOMAIN list = 1..N /\ \A i \in 1..N : list[i] \in FragmentType
  OBVIOUS
<1>2. \A i \in 1..N : FragmentBecomes(SectionOf(list[i], A), list[i], A)
  BY <1>1, SectionOfType
<1>3. \A i \in 1..N : /\ sections[i] \in SectionSet(A) /\ Referenced(sections[i])
                      /\ sections[i].heading = list[i].heading
                      /\ sections[i].entries # <<>> => sections[i].sources # {}
                      /\ sections[i].heading # BlankHeading =>
                            TitleList(sections[i].entries) = FragmentTitles(list[i])
  BY <1>1, <1>2 DEF FragmentBecomes
<1>4. DOMAIN sections = 1..N /\ sections = [i \in 1..N |-> sections[i]]
  BY <1>1
<1>5. SectionsFrom(list, A) = d
  BY Zenon DEF SectionsFrom, Where, ElementsAt, Ascending
<1>6. ss \in Seq(Seq(Words)) /\ Len(ss) = N /\ \A i \in 1..N : ss[i] = FragmentTitles(list[i])
  <2>1. \A i \in 1..N : FragmentTitles(list[i]) \in Seq(Words)
    BY <1>1, FragmentTitlesType
  <2>2. ss \in [1..N -> Seq(Words)]
    BY <1>1, <2>1
  <2>3. \A i \in 1..N : ss[i] = FragmentTitles(list[i])
    BY <1>1
  <2> HIDE DEF ss
  <2> QED BY <1>1, <2>2, <2>3, SeqDef, LenProperties
<1>7. FragmentsTitles(list) = FlattenSeq(ss)
  BY DEF FragmentsTitles
<1> HIDE DEF N, sections, ss
<1>8. sections \in Seq(SectionSet(A)) /\ Len(sections) = N
  <2>1. sections \in [1..N -> SectionSet(A)]
    BY <1>3, <1>4, Zenon
  <2> QED BY <1>1, <2>1, SeqDef, LenProperties
<1>9. /\ P \in SUBSET (1..N)
      /\ \A i \in 1..N : i \in P <=> sections[i].heading # BlankHeading /\ sections[i].sources # {}
  BY <1>4
<1> HIDE DEF P
<1>10. kept \in Seq(SectionSet(A)) /\ \A n \in 1..Len(kept) : \E i \in P : kept[n] = sections[i]
  BY <1>8, <1>9, WhereType
<1>11. /\ IsList(p) /\ \A k \in 1..Len(p) : p[k] \in P
  BY <1>1, <1>9, PlacesInOrder
<1>12. kept = [n \in DOMAIN p |-> sections[p[n]]] /\ ElementsAt(ss, P) = [n \in DOMAIN p |-> ss[p[n]]]
  BY DEF ElementsAt
<1> HIDE DEF kept, p
<1>13. /\ Len(kept) \in Nat /\ DOMAIN kept = 1..Len(kept) /\ DOMAIN p = 1..Len(kept)
       /\ \A k \in 1..Len(kept) : /\ p[k] \in 1..N
                                  /\ kept[k] = sections[p[k]]
                                  /\ kept[k] \in SectionSet(A)
  BY <1>9, <1>10, <1>11, <1>12 DEF IsList
<1>14. \A k \in 1..Len(kept) : Renumbers(d[k], kept[k], k, A)
  BY <1>13, NumberedSection
<1>15. d = [k \in 1..Len(kept) |-> d[k]] /\ DOMAIN d = 1..Len(kept)
  BY <1>13
<1> HIDE DEF d
<1>16. d \in Seq(SectionSet(A)) /\ Len(d) = Len(kept)
  <2>1. \A k \in 1..Len(kept) : d[k] \in SectionSet(A)
    BY <1>14 DEF Renumbers
  <2>2. d \in [1..Len(kept) -> SectionSet(A)]
    BY <1>15, <2>1, Zenon
  <2> QED BY <1>13, <2>2, SeqDef, LenProperties
<1>17. GoodDocument(d, A)
  <2>1. \A k \in 1..Len(kept) : Referenced(kept[k])
    BY <1>3, <1>13
  <2>2. \A k \in 1..Len(kept) : Referenced(d[k]) /\ At(d[k], k)
    BY <1>14, <2>1 DEF Renumbers
  <2> QED BY <1>16, <2>2 DEF GoodDocument
<1>18. ASSUME NEW i \in 1..N, i \notin P
       PROVE  ss[i] = <<>>
  <2>1. CASE list[i].heading = BlankHeading
    BY <1>6, <2>1 DEF FragmentTitles
  <2>2. CASE list[i].heading # BlankHeading
    <3>1. sections[i].heading # BlankHeading /\ sections[i].entries = <<>>
      BY <1>3, <1>9, <1>18, <2>2
    <3>2. ss[i] = TitleList(<<>>)
      BY <1>3, <1>6, <3>1
    <3> QED BY <3>2 DEF TitleList
  <2> QED BY <2>1, <2>2
<1>19. FlattenSeq(ElementsAt(ss, P)) = FlattenSeq(ss)
  BY <1>6, <1>9, <1>18, SelectionFlattens
<1>20. \A k \in 1..Len(kept) : ss[p[k]] = TitleList(d[k].entries)
  <2> TAKE k \in 1..Len(kept)
  <2>1. p[k] \in P /\ p[k] \in 1..N /\ kept[k] = sections[p[k]]
    BY <1>11, <1>13 DEF IsList
  <2>2. TitleList(kept[k].entries) = FragmentTitles(list[p[k]])
    BY <1>3, <1>9, <2>1
  <2>3. TitleList(d[k].entries) = TitleList(kept[k].entries)
    BY <1>14 DEF Renumbers
  <2> QED BY <1>6, <2>1, <2>2, <2>3
<1>21. ElementsAt(ss, P) = TitleLists(d)
  BY <1>12, <1>13, <1>15, <1>20 DEF TitleLists
<1>22. DocumentTitles(d) = FlattenSeq(ss)
  BY <1>19, <1>21 DEF DocumentTitles
<1> QED BY <1>5, <1>7, <1>17, <1>22

LEMMA OneFlattens ==
    ASSUME NEW S, NEW ss \in Seq(Seq(S)), Len(ss) = 1
    PROVE  FlattenSeq(ss) = ss[1]
<1>1. PICK t : Grows(t, ss, S) /\ FlattenSeq(ss) = t[Len(ss)]
  BY Flattened
<1>2. \A n \in 1..Len(ss) : t[n] = t[n - 1] \o ss[n]
  BY <1>1, Zenon DEF Grows
<1>3. t[0] = <<>> /\ 1 \in 1..Len(ss) /\ 1 - 1 = 0
  BY <1>1 DEF Grows
<1>4. t[1] = <<>> \o ss[1]
  BY <1>2, <1>3, Zenon
<1>5. ss[1] \in Seq(S)
  BY <1>3, ElementOfSeq
<1>6. <<>> \o ss[1] = ss[1]
  BY <1>5, ConcatEmptySeq
<1> QED BY <1>1, <1>4, <1>6

\* The titles of a run are those of its sections.
LEMMA JoinedType ==
    ASSUME NEW A, NEW run \in Seq(SectionSet(A)), Len(run) > 0,
           \A i \in 1..Len(run) : Referenced(run[i])
    PROVE  /\ Joined(run) \in SectionSet(A) /\ Referenced(Joined(run))
           /\ TitleList(Joined(run).entries) = FlattenSeq(TitleLists(run))
<1> DEFINE lists == [i \in DOMAIN run |-> run[i].entries]
           entries == FlattenSeq(lists)
<1>1. /\ Len(run) \in Nat /\ DOMAIN run = 1..Len(run) /\ 1 \in 1..Len(run)
      /\ \A i \in 1..Len(run) : run[i] \in SectionSet(A)
  OBVIOUS
<1>2. /\ TitleLists(run) \in Seq(Seq(Words)) /\ Len(TitleLists(run)) = Len(run)
      /\ \A i \in 1..Len(run) : TitleLists(run)[i] = TitleList(run[i].entries)
  BY TitleListsType
<1>3. CASE Len(run) = 1
  <2>1. Joined(run) = run[1]
    BY <1>3, Zenon DEF Joined
  <2>2. FlattenSeq(TitleLists(run)) = TitleList(run[1].entries)
    BY <1>1, <1>2, <1>3, OneFlattens
  <2> QED BY <1>1, <2>1, <2>2
<1>4. CASE Len(run) # 1
  <2> DEFINE j == Section(run[1].heading, run[1].kind, entries, SourcesOf(entries))
             title == [e \in EntrySet(A) |-> e.title]
  <2>1. Joined(run) = j
    BY <1>4, Zenon DEF Joined
  <2>2. \A i \in 1..Len(run) : run[i].entries \in Seq(EntrySet(A))
    BY <1>1 DEF SectionSet
  <2>3. lists \in Seq(Seq(EntrySet(A))) /\ DOMAIN lists = 1..Len(run)
        /\ \A i \in 1..Len(run) : lists[i] = run[i].entries
    <3>1. lists \in [1..Len(run) -> Seq(EntrySet(A))]
      BY <1>1, <2>2
    <3>2. \A i \in 1..Len(run) : lists[i] = run[i].entries
      BY <1>1
    <3> HIDE DEF lists
    <3> QED BY <1>1, <3>1, <3>2, SeqDef, LenProperties
  <2> HIDE DEF lists
  <2>4. entries \in Seq(EntrySet(A))
    BY <2>3, Flattened
  <2> HIDE DEF entries
  <2>5. EntriesLike(EntrySet(A), A)
    BY DEF EntriesLike, EntrySet
  <2>6. SourcesOf(entries) \in SUBSET A
    BY <2>4, <2>5, SourcesType
  <2>7. run[1].heading \in Words /\ run[1].kind \in Words
    BY <1>1 DEF SectionSet
  <2>8. SectionBuilt(j, run[1].heading, run[1].kind, entries, SourcesOf(entries), A)
    BY <2>4, <2>5, <2>6, <2>7, SectionType
  <2> HIDE DEF j
  <2>9. /\ j \in SectionSet(A) /\ Referenced(j)
        /\ TitleList(j.entries) = TitleList(entries)
    BY <2>8 DEF SectionBuilt, Referenced
  <2>10. title \in [EntrySet(A) -> Words] /\ \A e \in EntrySet(A) : title[e] = e.title
    BY DEF EntrySet
  <2> HIDE DEF title
  <2>11. ASSUME NEW s \in Seq(EntrySet(A))
         PROVE  Mapped(title, s) = TitleList(s)
    <3>1. \A i \in DOMAIN s : s[i] \in EntrySet(A)
      OBVIOUS
    <3> QED BY <2>10, <3>1 DEF Mapped, TitleList
  <2> DEFINE qq == [i \in DOMAIN lists |-> Mapped(title, lists[i])]
  <2>12. FlattenSeq(qq) = Mapped(title, entries)
    <3> HIDE DEF qq
    <3>1. qq = [i \in DOMAIN lists |-> Mapped(title, lists[i])]
      BY DEF qq
    <3>2. FlattensTo(qq, lists, title)
      BY <2>3, <2>10, <3>1, MapFlattens
    <3> QED BY <3>2, Zenon DEF entries, FlattensTo
  <2>13. qq = TitleLists(run)
    <3>1. \A i \in 1..Len(run) : Mapped(title, lists[i]) = TitleList(run[i].entries)
      BY <2>2, <2>3, <2>11
    <3> QED BY <1>1, <2>3, <3>1 DEF TitleLists
  <2> HIDE DEF qq
  <2>14. TitleList(entries) = FlattenSeq(TitleLists(run))
    BY <2>4, <2>11, <2>12, <2>13
  <2> QED BY <2>1, <2>9, <2>14
<1> QED BY <1>3, <1>4

\* Where a run of like sections starts.
StartsAt(d) == {i \in DOMAIN d : i = 1 \/ ~ Alike(d[i - 1], d[i])}

\* Merges keep every entry and its place.
LEMMA MergedType ==
    ASSUME NEW A, NEW d, GoodDocument(d, A)
    PROVE  GoodDocument(Merged(d), A) /\ DocumentTitles(Merged(d)) = DocumentTitles(d)
<1> DEFINE N == Len(d)
           P == StartsAt(d)
           p == Ascending(P)
           tt == TitleLists(d)
           merged == [k \in DOMAIN p |-> Numbered(Joined(Run(d, k)), k)]
           K == Len(p)
<1>1. /\ d \in Seq(SectionSet(A)) /\ N \in Nat /\ DOMAIN d = 1..N
      /\ \A i \in 1..N : d[i] \in SectionSet(A) /\ Referenced(d[i])
  BY DEF GoodDocument
<1>2. P \in SUBSET (1..N) /\ (N > 0 => 1 \in P)
  BY <1>1 DEF StartsAt
<1>3. Starts(d) = p
  BY Zenon DEF Starts, Ascending, StartsAt
<1>4. Merged(d) = merged
  BY <1>3, Zenon DEF Merged
<1>5. \A k : Run(d, k) = SubSeq(d, p[k], RunEnd(p, k, N))
  BY <1>3, Zenon DEF Run, RunEnd
<1>6. /\ IsList(p) /\ \A k \in 1..K : p[k] \in P /\ p[k] \in 1..N
      /\ \A k \in 1..K, n \in 1..K : p[k] < p[n] <=> k < n
  BY <1>1, <1>2, PlacesInOrder, Zenon
<1> HIDE DEF p, P
<1>7. K \in Nat /\ DOMAIN p = 1..K
  BY <1>6 DEF IsList
<1>8. \A k \in 1..K : RunEnd(p, k, N) \in p[k]..N
  <2> TAKE k \in 1..K
  <2>1. CASE k = K
    BY <1>1, <1>6, <2>1 DEF RunEnd
  <2>2. CASE k # K
    <3>1. k + 1 \in 1..K /\ k < k + 1
      <4> HIDE DEF K
      <4> QED BY <1>7, <2>2
    <3>2. p[k] < p[k + 1] /\ p[k + 1] \in 1..N /\ p[k] \in 1..N
      BY <1>6, <3>1
    <3> QED BY <1>1, <2>2, <3>2 DEF RunEnd
  <2> QED BY <2>1, <2>2
<1>9. tt \in Seq(Seq(Words)) /\ Len(tt) = N /\ \A i \in 1..N : tt[i] = TitleList(d[i].entries)
  BY <1>1, TitleListsType
<1> HIDE DEF tt
<1>10. ASSUME NEW k \in 1..K
       PROVE  /\ Renumbers(merged[k], Joined(Run(d, k)), k, A)
              /\ Referenced(Joined(Run(d, k)))
              /\ TitleList(merged[k].entries) = FlattenSeq(SubSeq(tt, p[k], RunEnd(p, k, N)))
  <2> DEFINE run == Run(d, k)
             m == p[k]
             n == RunEnd(p, k, N)
  <2>1. m \in 1..N /\ n \in m..N
    BY <1>6, <1>8
  <2>2. run = SubSeq(d, m, n)
    BY <1>5
  <2> HIDE DEF run, m, n, N
  <2>3. /\ run \in Seq(SectionSet(A)) /\ Len(run) = n - m + 1
        /\ \A i \in 1..n - m + 1 : run[i] = d[m + i - 1]
    <3>1. \A i \in m..n : d[i] \in SectionSet(A)
      BY <1>1, <2>1
    <3>2. Len(SubSeq(d, m, n)) = (IF m <= n THEN n - m + 1 ELSE 0)
      BY <1>1, <2>1, <3>1, SubSeqProperties
    <3> QED BY <1>1, <2>1, <2>2, <3>1, <3>2, SubSeqProperties
  <2>4. \A i \in 1..Len(run) : m + i - 1 \in 1..N
    BY <1>1, <2>1, <2>3
  <2>5. Len(run) > 0 /\ \A i \in 1..Len(run) : Referenced(run[i])
    BY <1>1, <2>1, <2>3, <2>4
  <2>6. /\ Joined(run) \in SectionSet(A) /\ Referenced(Joined(run))
        /\ TitleList(Joined(run).entries) = FlattenSeq(TitleLists(run))
    BY <2>3, <2>5, JoinedType
  <2>7. TitleLists(run) = SubSeq(tt, m, n)
    <3> DEFINE x == TitleLists(run)
               y == SubSeq(tt, m, n)
    <3>1. /\ x \in Seq(Seq(Words)) /\ Len(x) = n - m + 1
          /\ \A i \in 1..n - m + 1 : x[i] = TitleList(d[m + i - 1].entries)
      BY <2>3, TitleListsType
    <3>2. /\ y \in Seq(Seq(Words)) /\ Len(y) = n - m + 1
          /\ \A i \in 1..n - m + 1 : y[i] = tt[m + i - 1]
      <4>1. \A i \in m..n : tt[i] \in Seq(Words)
        BY <1>1, <1>9, <2>1
      <4>2. Len(y) = (IF m <= n THEN n - m + 1 ELSE 0)
        BY <1>1, <1>9, <2>1, <4>1, SubSeqProperties
      <4> QED BY <1>1, <1>9, <2>1, <4>1, <4>2, SubSeqProperties
    <3>3. \A i \in 1..n - m + 1 : x[i] = y[i]
      BY <1>9, <2>3, <2>4, <3>1, <3>2
    <3> HIDE DEF x, y
    <3>4. x = y
      BY <3>1, <3>2, <3>3, SeqEqual
    <3> QED BY <3>4 DEF x, y
  <2>8. merged[k] = Numbered(Joined(run), k) /\ k \in Nat
    BY <1>7 DEF run
  <2>9. Renumbers(merged[k], Joined(run), k, A)
    BY <2>6, <2>8, NumberedSection
  <2>10. TitleList(merged[k].entries) = FlattenSeq(SubSeq(tt, m, n))
    BY <2>6, <2>7, <2>9 DEF Renumbers
  <2> QED BY <2>6, <2>9, <2>10 DEF run, m, n
<1>11. DOMAIN merged = 1..K /\ merged = [k \in 1..K |-> merged[k]]
  BY <1>7
<1> HIDE DEF merged
<1>12. merged \in Seq(SectionSet(A)) /\ Len(merged) = K
  <2>1. \A k \in 1..K : merged[k] \in SectionSet(A)
    BY <1>10 DEF Renumbers
  <2>2. merged \in [1..K -> SectionSet(A)]
    BY <1>11, <2>1, Zenon
  <2> QED BY <1>7, <2>2, SeqDef, LenProperties
<1>13. GoodDocument(merged, A)
  <2>1. \A k \in 1..K : Referenced(merged[k]) /\ At(merged[k], k)
    BY <1>10 DEF Renumbers
  <2> QED BY <1>12, <2>1 DEF GoodDocument
<1> DEFINE qq == TitleLists(merged)
<1>14. /\ qq \in Seq(Seq(Words)) /\ Len(qq) = Len(p)
       /\ \A k \in 1..Len(p) : qq[k] = FlattenSeq(SubSeq(tt, p[k], RunEnd(p, k, Len(tt))))
  BY <1>9, <1>10, <1>12, TitleListsType
<1> HIDE DEF qq
<1>17. RunsOf(qq, tt, p)
  BY <1>14, Zenon DEF RunsOf
<1>15. P \in SUBSET (1..Len(tt)) /\ (Len(tt) > 0 => 1 \in P) /\ p = Ascending(P)
  BY <1>2, <1>9 DEF p
<1>16. FlattenSeq(qq) = FlattenSeq(tt)
  BY <1>9, <1>14, <1>15, <1>17, RunsFlatten
<1> QED BY <1>4, <1>13, <1>16 DEF DocumentTitles, qq, tt

LEMMA RegroupedLeft ==
    ASSUME NEW S, NEW a \in Seq(S), NEW b \in Seq(S), NEW c \in Seq(S),
           NEW ab, Concatenates(ab, a, b), NEW bc, Concatenates(bc, b, c),
           NEW abc, Concatenates(abc, a, bc)
    PROVE  Concatenates(abc, ab, c)
<1>1. (a \o b) \o c = a \o (b \o c)
  OBVIOUS
<1> QED BY <1>1 DEF Concatenates

\* The text of chunks, as entries.
RecoveredTitles(n) == [i \in 1..n |-> RecoveredTitle]
RecoveredEntries(missing) ==
    [i \in DOMAIN missing |-> [title |-> RecoveredTitle, sources |-> {missing[i]}]]

LEMMA RecoveredEntriesType ==
    ASSUME NEW A \in SUBSET Nat, NEW missing, IsList(missing),
           \A n \in 1..Len(missing) : missing[n] \in A
    PROVE  /\ RecoveredEntries(missing) \in Seq(ClampedSet(A))
           /\ Len(RecoveredEntries(missing)) = Len(missing)
           /\ TitleList(RecoveredEntries(missing)) = RecoveredTitles(Len(missing))
           /\ \A n \in 1..Len(missing) : missing[n] \in SourcesOf(RecoveredEntries(missing))
<1> DEFINE c == Len(missing)
           new == RecoveredEntries(missing)
<1>1. c \in Nat /\ DOMAIN missing = 1..c
  BY DEF IsList
<1>2. new = [i \in 1..c |-> [title |-> RecoveredTitle, sources |-> {missing[i]}]]
  BY <1>1, Zenon DEF RecoveredEntries
<1> HIDE DEF new
<1>3. \A i \in 1..c : /\ new[i] \in ClampedSet(A) /\ new[i].title = RecoveredTitle
                      /\ new[i].sources = {missing[i]}
  <2> TAKE i \in 1..c
  <2> DEFINE m == missing[i]
  <2>1. m \in A /\ new[i] = [title |-> RecoveredTitle, sources |-> {m}]
    BY <1>2
  <2> HIDE DEF m
  <2>2. {m} \in (SUBSET A) \ {{}} /\ RecoveredTitle \in Words
    <3> DEFINE x == {m}
    <3>1. x \in SUBSET A /\ x # {}
      BY <2>1
    <3> HIDE DEF x
    <3>2. x \in (SUBSET A) \ {{}}
      BY <3>1
    <3>3. RecoveredTitle \in Words
      BY DEF Words
    <3> QED BY <3>2, <3>3 DEF x
  <2>3. new[i] \in ClampedSet(A) /\ new[i].title = RecoveredTitle /\ new[i].sources = {m}
    BY <2>1, <2>2 DEF ClampedSet
  <2> QED BY <2>3 DEF m
<1>4. DOMAIN new = 1..c /\ new = [i \in 1..c |-> new[i]]
  BY <1>2
<1>5. new \in Seq(ClampedSet(A)) /\ Len(new) = c
  <2>1. new \in [1..c -> ClampedSet(A)]
    BY <1>3, <1>4, Zenon
  <2> QED BY <1>1, <2>1, SeqDef, LenProperties
<1>6. TitleList(new) = RecoveredTitles(c)
  BY <1>3, <1>4 DEF TitleList, RecoveredTitles
<1>7. \A n \in 1..c : missing[n] \in SourcesOf(new)
  BY <1>3, <1>4 DEF SourcesOf
<1> QED BY <1>5, <1>6, <1>7 DEF new

\* What is appended to the entries of a section.
LEMMA EntriesJoin ==
    ASSUME NEW E, \A e \in E : e.title \in Words, NEW a \in Seq(E), NEW c \in Seq(E)
    PROVE  /\ a \o c \in Seq(E)
           /\ Concatenates(TitleList(a \o c), TitleList(a), TitleList(c))
           /\ SourcesOf(a) \cup SourcesOf(c) \subseteq SourcesOf(a \o c)
<1> DEFINE title == [e \in E |-> e.title]
           ac == a \o c
<1>1. title \in [E -> Words] /\ \A e \in E : title[e] = e.title
  OBVIOUS
<1> HIDE DEF title
<1>2. \A s \in Seq(E) : Mapped(title, s) = TitleList(s)
  <2> SUFFICES ASSUME NEW s \in Seq(E) PROVE Mapped(title, s) = TitleList(s)
    OBVIOUS
  <2>1. \A i \in DOMAIN s : s[i] \in E
    OBVIOUS
  <2> QED BY <1>1, <2>1 DEF Mapped, TitleList
<1>3. MapsOver(title, a, c)
  BY <1>1, MapJoins
<1>4. /\ ac \in Seq(E) /\ Len(ac) = Len(a) + Len(c)
      /\ \A i \in 1..Len(a) + Len(c) : ac[i] = IF i <= Len(a) THEN a[i] ELSE c[i - Len(a)]
      /\ Len(a) \in Nat /\ Len(c) \in Nat
  BY ConcatProperties
<1>5. Mapped(title, ac) = Mapped(title, a) \o Mapped(title, c)
  BY <1>3, Zenon DEF MapsOver
<1>6. /\ Mapped(title, ac) = TitleList(ac) /\ Mapped(title, a) = TitleList(a)
      /\ Mapped(title, c) = TitleList(c)
  BY <1>2, <1>4, Zenon
<1>7. Concatenates(TitleList(ac), TitleList(a), TitleList(c))
  BY <1>5, <1>6, Zenon DEF Concatenates
<1> HIDE DEF ac
<1>8. DOMAIN ac = 1..Len(a) + Len(c) /\ DOMAIN a = 1..Len(a) /\ DOMAIN c = 1..Len(c)
  BY <1>4
<1>9. \A i \in DOMAIN a : i \in DOMAIN ac /\ ac[i] = a[i]
  BY <1>4, <1>8
<1>10. \A i \in DOMAIN c : i + Len(a) \in DOMAIN ac /\ ac[i + Len(a)] = c[i]
  <2> TAKE i \in DOMAIN c
  <2>1. i + Len(a) \in 1..Len(a) + Len(c) /\ ~ (i + Len(a) <= Len(a)) /\ (i + Len(a)) - Len(a) = i
    BY <1>4, <1>8
  <2> QED BY <1>4, <1>8, <2>1
<1>11. SourcesOf(a) \subseteq SourcesOf(ac)
  BY <1>9, Zenon DEF SourcesOf
<1>12. SourcesOf(c) \subseteq SourcesOf(ac)
  BY <1>10, Zenon DEF SourcesOf
<1> QED BY <1>4, <1>7, <1>11, <1>12 DEF ac

\* The recovery adds entries for the chunks that are missing, and only those.
Extends(r, d) ==
    \E n \in Nat : Concatenates(DocumentTitles(r), DocumentTitles(d), RecoveredTitles(n))
EndsInEmptyRecovery(d) ==
    d # <<>> /\ Last(d).heading = RecoveredHeading /\ Last(d).entries = <<>>

\* A document of which the last section, or what follows it, holds the recovery.
Rebuilds(r, d, place, entries, A) ==
    /\ r = SubSeq(d, 1, place - 1) \o
             <<Numbered(Section(RecoveredHeading, "other", entries, SourcesOf(entries)), place)>>
    /\ entries \in Seq(EntrySet(A) \cup ClampedSet(A)) /\ entries # <<>>

RebuiltWell(r, d, place, entries, A) ==
    /\ GoodDocument(r, A) /\ Len(r) = place
    /\ Concatenates(DocumentTitles(r), FlattenSeq(SubSeq(TitleLists(d), 1, place - 1)),
                    TitleList(entries))
    /\ \A i \in 1..place - 1 : r[i] = d[i]
    /\ r[place].sources = SourcesOf(entries)

LEMMA RebuildsWell ==
    ASSUME NEW A, NEW d, GoodDocument(d, A), NEW place \in 1..Len(d) + 1,
           NEW r, NEW entries, Rebuilds(r, d, place, entries, A)
    PROVE  RebuiltWell(r, d, place, entries, A)
<1> DEFINE N == Len(d)
           front == SubSeq(d, 1, place - 1)
           built == Section(RecoveredHeading, "other", entries, SourcesOf(entries))
           new == Numbered(built, place)
           tt == TitleLists(d)
           E == EntrySet(A) \cup ClampedSet(A)
<1>1. /\ d \in Seq(SectionSet(A)) /\ N \in Nat /\ place \in Nat /\ place - 1 <= N /\ place > 0
      /\ \A i \in 1..N : d[i] \in SectionSet(A) /\ Referenced(d[i]) /\ At(d[i], i)
  BY DEF GoodDocument
<1>2. entries \in Seq(E) /\ r = front \o <<new>> /\ EntriesLike(E, A)
  BY DEF Rebuilds, EntriesLike, EntrySet, ClampedSet
<1> HIDE DEF N, E
<1>3. SourcesOf(entries) \in SUBSET A
  BY <1>2, SourcesType
<1>4. SectionBuilt(built, RecoveredHeading, "other", entries, SourcesOf(entries), A)
  <2>1. RecoveredHeading \in Words /\ "other" \in Words
    BY DEF Words
  <2> QED BY <1>2, <1>3, <2>1, SectionType
<1> HIDE DEF built
<1>5. /\ built \in SectionSet(A) /\ Referenced(built) /\ built.sources = SourcesOf(entries)
      /\ TitleList(built.entries) = TitleList(entries)
  BY <1>4 DEF SectionBuilt, Referenced
<1>6. Renumbers(new, built, place, A)
  BY <1>1, <1>5, NumberedSection
<1> HIDE DEF new
<1>7. /\ new \in SectionSet(A) /\ Referenced(new) /\ At(new, place)
      /\ new.sources = SourcesOf(entries) /\ TitleList(new.entries) = TitleList(entries)
  BY <1>5, <1>6 DEF Renumbers
<1>8. /\ front \in Seq(SectionSet(A)) /\ Len(front) = place - 1
      /\ \A i \in 1..place - 1 : front[i] = d[i]
  <2>1. \A i \in 1..place - 1 : d[i] \in SectionSet(A)
    BY <1>1
  <2>2. Len(front) = (IF 1 <= place - 1 THEN (place - 1) - 1 + 1 ELSE 0)
    BY <1>1, <2>1, SubSeqProperties
  <2>3. front \in Seq(SectionSet(A)) /\ \A i \in 1..(place - 1) - 1 + 1 : front[i] = d[1 + i - 1]
    BY <1>1, <2>1, SubSeqProperties
  <2>4. Len(front) = place - 1 /\ \A i \in 1..place - 1 : i \in 1..(place - 1) - 1 + 1 /\ 1 + i - 1 = i
    BY <1>1, <2>2
  <2> HIDE DEF front
  <2> QED BY <2>3, <2>4
<1> HIDE DEF front
<1>9. r = Append(front, new)
  BY <1>2, <1>7, <1>8, AppendIsConcat
<1>10. /\ r \in Seq(SectionSet(A)) /\ Len(r) = place /\ r[place] = new
       /\ \A i \in 1..place - 1 : r[i] = d[i]
  <2>1. /\ Append(front, new) \in Seq(SectionSet(A))
        /\ Len(Append(front, new)) = Len(front) + 1
        /\ \A i \in 1..Len(front) : Append(front, new)[i] = front[i]
        /\ Append(front, new)[Len(front) + 1] = new
    BY <1>7, <1>8, AppendProperties
  <2>2. (place - 1) + 1 = place
    BY <1>1
  <2> QED BY <1>8, <1>9, <2>1, <2>2
<1>11. GoodDocument(r, A)
  <2>1. \A i \in 1..place : i = place \/ (i \in 1..place - 1 /\ i \in 1..N)
    BY <1>1
  <2> QED BY <1>1, <1>7, <1>10, <2>1 DEF GoodDocument
<1>12. /\ tt \in Seq(Seq(Words)) /\ Len(tt) = N
       /\ \A i \in 1..N : tt[i] = TitleList(d[i].entries)
  BY <1>1, TitleListsType DEF N
<1> DEFINE rr == TitleLists(r)
<1>13. /\ rr \in Seq(Seq(Words)) /\ Len(rr) = place
       /\ \A i \in 1..place : rr[i] = TitleList(r[i].entries)
  BY <1>10, TitleListsType
<1> HIDE DEF rr, tt
<1>14. SubSeq(rr, 1, place - 1) = SubSeq(tt, 1, place - 1)
  <2> DEFINE x == SubSeq(rr, 1, place - 1)
             y == SubSeq(tt, 1, place - 1)
  <2>1. \A i \in 1..place - 1 : i \in 1..place /\ i \in 1..N
    BY <1>1
  <2>2. \A i \in 1..place - 1 : rr[i] \in Seq(Words) /\ tt[i] \in Seq(Words) /\ rr[i] = tt[i]
    <3> TAKE i \in 1..place - 1
    <3>1. i \in 1..place /\ i \in 1..N /\ r[i] = d[i]
      BY <1>10, <2>1
    <3>2. rr[i] = TitleList(r[i].entries) /\ tt[i] = TitleList(d[i].entries)
      BY <1>12, <1>13, <3>1, Zenon
    <3>3. tt[i] \in Seq(Words)
      BY <1>12, <3>1, ElementOfSeq
    <3> QED BY <3>1, <3>2, <3>3
  <2>3. /\ x \in Seq(Seq(Words)) /\ Len(x) = (IF 1 <= place - 1 THEN (place - 1) - 1 + 1 ELSE 0)
        /\ \A i \in 1..(place - 1) - 1 + 1 : x[i] = rr[1 + i - 1]
    BY <1>1, <1>13, <2>2, SubSeqProperties
  <2>4. /\ y \in Seq(Seq(Words)) /\ Len(y) = (IF 1 <= place - 1 THEN (place - 1) - 1 + 1 ELSE 0)
        /\ \A i \in 1..(place - 1) - 1 + 1 : y[i] = tt[1 + i - 1]
    BY <1>1, <1>12, <2>2, SubSeqProperties
  <2> HIDE DEF x, y
  <2>5. \A i \in 1..Len(x) : i \in 1..(place - 1) - 1 + 1 /\ 1 + i - 1 = i /\ i \in 1..place - 1
    BY <1>1, <2>3
  <2>6. \A i \in 1..Len(x) : x[i] = y[i]
    BY <2>2, <2>3, <2>4, <2>5
  <2>7. x = y
    BY <2>3, <2>4, <2>6, SeqEqual
  <2> QED BY <2>7 DEF x, y
<1>15. Concatenates(FlattenSeq(rr), FlattenSeq(SubSeq(tt, 1, place - 1)), TitleList(entries))
  <2>1. place \in 1..Len(rr) /\ place = Len(rr)
    BY <1>1, <1>13
  <2>2. Concatenates(FlattenSeq(rr), FlattenSeq(SubSeq(rr, 1, place - 1)), rr[place])
    BY <1>13, <2>1, LastFlattens
  <2>3. rr[place] = TitleList(entries)
    BY <1>7, <1>10, <1>13, <2>1
  <2> QED BY <1>14, <2>2, <2>3
<1> QED BY <1>7, <1>10, <1>11, <1>15 DEF RebuiltWell, DocumentTitles, rr, tt, N

LEMMA CoveredType ==
    ASSUME NEW A, NEW d, GoodDocument(d, A)
    PROVE  Covered(d) \subseteq A /\ \A i \in 1..Len(d) : d[i].sources \subseteq Covered(d)
<1>1. DOMAIN d = 1..Len(d) /\ \A i \in 1..Len(d) : d[i] \in SectionSet(A)
  BY DEF GoodDocument
<1>2. \A i \in DOMAIN d : d[i].sources \in SUBSET A
  BY <1>1 DEF SectionSet
<1>3. Covered(d) \subseteq A
  BY <1>2, Zenon DEF Covered
<1>4. \A i \in DOMAIN d : d[i].sources \subseteq Covered(d)
  BY Zenon DEF Covered
<1> QED BY <1>1, <1>3, <1>4

\* The recovery covers every chunk, unless it replaces a section that holds nothing.
LEMMA RecoveredType ==
    ASSUME NEW A \in SUBSET Nat, IsFiniteSet(A), NEW d, GoodDocument(d, A),
           NEW r, r = Recovered(d, A)
    PROVE  /\ GoodDocument(r, A) /\ Extends(r, d)
           /\ Covered(r) = A \/ EndsInEmptyRecovery(d)
<1> DEFINE N == Len(d)
           missing == InOrder(A \ Covered(d), <)
           entries == RecoveredEntries(missing)
           again == N > 0 /\ Alike(d[N], [kind |-> "other", heading |-> RecoveredHeading])
           place == IF again THEN N ELSE N + 1
           all == (IF place = N THEN d[N].entries ELSE <<>>) \o entries
           tt == TitleLists(d)
           E == EntrySet(A) \cup ClampedSet(A)
<1>1. /\ d \in Seq(SectionSet(A)) /\ N \in Nat
      /\ \A i \in 1..N : d[i] \in SectionSet(A) /\ Referenced(d[i]) /\ At(d[i], i)
  BY DEF GoodDocument
<1>2. /\ IsList(missing) /\ \A n \in 1..Len(missing) : missing[n] \in A \ Covered(d)
      /\ \A x \in A \ Covered(d) : \E n \in 1..Len(missing) : missing[n] = x
  <2> DEFINE M == A \ Covered(d)
  <2>1. M \in SUBSET Nat /\ IsFiniteSet(M)
    BY FS_Subset
  <2> HIDE DEF M
  <2>2. LET o == InOrder(M, <) IN
          /\ IsList(o) /\ \A n \in 1..Len(o) : o[n] \in M
          /\ \A x \in M : \E n \in 1..Len(o) : o[n] = x
    BY <2>1, NumbersInOrder, Zenon
  <2> QED BY <2>2 DEF M
<1>3. r = IF missing = <<>> THEN d
          ELSE SubSeq(d, 1, place - 1) \o
                 <<Numbered(Section(RecoveredHeading, "other", all, SourcesOf(all)), place)>>
  BY DEF Recovered, RecoveredEntries
<1>m. missing = [i \in DOMAIN missing |-> missing[i]]
  <2> DEFINE x(n) == CHOOSE x \in A \ Covered(d) :
                        Cardinality({y \in A \ Covered(d) : y < x}) = n - 1
             C == Cardinality(A \ Covered(d))
  <2>1. missing = [n \in 1..C |-> x(n)]
    BY Zenon DEF InOrder
  <2> HIDE DEF missing, x, C
  <2> QED BY <2>1
<1> HIDE DEF missing
<1>4. Len(missing) \in Nat /\ DOMAIN missing = 1..Len(missing)
  BY <1>2 DEF IsList
<1>5. /\ tt \in Seq(Seq(Words)) /\ Len(tt) = N
      /\ \A i \in 1..N : tt[i] = TitleList(d[i].entries)
  BY <1>1, TitleListsType
<1>6. CASE missing = <<>>
  <2>1. r = d
    BY <1>3, <1>6
  <2>2. A \ Covered(d) = {}
    <3> SUFFICES ASSUME NEW x \in A \ Covered(d) PROVE FALSE
      BY Zenon
    <3>1. PICK n \in 1..Len(missing) : missing[n] = x
      BY <1>2
    <3>2. Len(missing) = 0
      BY <1>6
    <3> QED BY <3>1, <3>2
  <2>3. Covered(d) = A
    BY <2>2, CoveredType
  <2>4. Extends(d, d)
    <3>1. DocumentTitles(d) \in Seq(Words)
      BY <1>5, Flattened DEF DocumentTitles
    <3>2. RecoveredTitles(0) = <<>>
      BY DEF RecoveredTitles
    <3> DEFINE x == DocumentTitles(d)
    <3> HIDE DEF x
    <3>3. x \o <<>> = x
      BY <3>1, ConcatEmptySeq DEF x
    <3>4. Concatenates(x, x, RecoveredTitles(0))
      BY <3>2, <3>3, Zenon DEF Concatenates
    <3>5. 0 \in Nat
      OBVIOUS
    <3> QED BY <3>4, <3>5, Zenon DEF Extends, x
  <2> QED BY <2>1, <2>3, <2>4
<1>7. CASE missing # <<>>
  <2>1. /\ entries \in Seq(ClampedSet(A)) /\ Len(entries) = Len(missing)
        /\ TitleList(entries) = RecoveredTitles(Len(missing))
        /\ \A n \in 1..Len(missing) : missing[n] \in SourcesOf(entries)
    BY <1>2, RecoveredEntriesType
  <2> HIDE DEF entries
  <2>2. entries # <<>>
    <3>1. Len(missing) > 0
      <4>1. missing = [i \in 1..Len(missing) |-> missing[i]]
        BY <1>m, <1>4, Zenon
      <4>2. missing \in Seq({missing[i] : i \in 1..Len(missing)})
        BY <1>4, <4>1, FunctionIsList
      <4> QED BY <1>4, <1>7, <4>2, EmptySeq
    <3> QED BY <1>4, <2>1, <3>1
  <2>3. r = SubSeq(d, 1, place - 1) \o
              <<Numbered(Section(RecoveredHeading, "other", all, SourcesOf(all)), place)>>
    BY <1>3, <1>7
  <2> DEFINE before == IF place = N THEN d[N].entries ELSE <<>>
  <2>4. place \in 1..N + 1 /\ (place = N <=> again) /\ (place = N => N \in 1..N)
    BY <1>1
  <2>5. before \in Seq(E) /\ entries \in Seq(E)
    <3>1. place = N => d[N].entries \in Seq(EntrySet(A))
      BY <1>1, <2>4 DEF SectionSet
    <3>2. <<>> \in Seq(E)
      OBVIOUS
    <3>3. Seq(EntrySet(A)) \subseteq Seq(E) /\ Seq(ClampedSet(A)) \subseteq Seq(E)
      <4>1. EntrySet(A) \subseteq E /\ ClampedSet(A) \subseteq E
        BY Zenon
      <4> HIDE DEF E
      <4> QED BY <4>1, SeqMonotonic
    <3> HIDE DEF E, place
    <3> QED BY <2>1, <3>1, <3>2, <3>3
  <2>6. \A e \in E : e.title \in Words
    BY DEF EntrySet, ClampedSet
  <2>7. all = before \o entries
    OBVIOUS
  <2> HIDE DEF before, all, E, place, again
  <2>8. /\ all \in Seq(E) /\ Concatenates(TitleList(all), TitleList(before), TitleList(entries))
        /\ SourcesOf(before) \subseteq SourcesOf(all) /\ SourcesOf(entries) \subseteq SourcesOf(all)
    <3>1. /\ before \o entries \in Seq(E)
          /\ Concatenates(TitleList(before \o entries), TitleList(before), TitleList(entries))
          /\ SourcesOf(before) \cup SourcesOf(entries) \subseteq SourcesOf(before \o entries)
      BY <2>5, <2>6, EntriesJoin
    <3> QED BY <2>7, <3>1
  <2>9. all # <<>>
    <3>1. Len(all) = Len(before) + Len(entries) /\ Len(entries) \in Nat /\ Len(before) \in Nat
      BY <2>5, <2>7, ConcatProperties
    <3>2. Len(entries) > 0
      BY <2>2, <2>5, EmptySeq
    <3> QED BY <2>8, <3>1, <3>2
  <2>10. Rebuilds(r, d, place, all, A)
    BY <2>3, <2>8, <2>9 DEF Rebuilds, E
  <2>11. RebuiltWell(r, d, place, all, A)
    BY <2>4, <2>10, RebuildsWell
  <2>12. /\ GoodDocument(r, A) /\ Len(r) = place
         /\ Concatenates(DocumentTitles(r), FlattenSeq(SubSeq(tt, 1, place - 1)), TitleList(all))
         /\ \A i \in 1..place - 1 : r[i] = d[i]
         /\ r[place].sources = SourcesOf(all)
    BY <2>11 DEF RebuiltWell
  <2>13. Extends(r, d)
    <3> DEFINE front == FlattenSeq(SubSeq(tt, 1, place - 1))
               rec == RecoveredTitles(Len(missing))
    <3>0. SubSeq(tt, 1, place - 1) \in Seq(Seq(Words))
      <4>1. \A i \in 1..place - 1 : i \in 1..N
        BY <1>1, <2>4
      <4>2. \A i \in 1..place - 1 : tt[i] \in Seq(Words)
        BY <1>5, <4>1, ElementOfSeq
      <4> HIDE DEF tt
      <4>3. place - 1 \in Int /\ 1 \in Int
        BY <1>1, <2>4
      <4> QED BY <1>5, <4>2, <4>3, SubSeqProperties
    <3>1. /\ front \in Seq(Words) /\ rec \in Seq(Words)
          /\ TitleList(before) \in Seq(Words)
      <4>1. front \in Seq(Words)
        BY <3>0, Flattened
      <4>2. rec \in Seq(Words) /\ TitleList(before) \in Seq(Words)
        BY <2>1, <2>5, <2>6, TitleListType
      <4> QED BY <4>1, <4>2
    <3>2. Concatenates(TitleList(all), TitleList(before), rec)
      BY <2>1, <2>8
    <3>3. Concatenates(DocumentTitles(r), front, TitleList(all))
      BY <2>12
    <3> HIDE DEF front, rec
    <3>4. Concatenates(DocumentTitles(d), front, TitleList(before))
      <4>1. CASE place = N
        <5>1. N \in 1..Len(tt) /\ N = Len(tt)
          BY <1>5, <2>4, <4>1
        <5>2. Concatenates(FlattenSeq(tt), FlattenSeq(SubSeq(tt, 1, N - 1)), tt[N])
          BY <1>5, <5>1, LastFlattens
        <5>3. tt[N] = TitleList(before)
          BY <1>5, <2>4, <4>1 DEF before
        <5> QED BY <4>1, <5>2, <5>3 DEF front, DocumentTitles
      <4>2. CASE place # N
        <5>1. place - 1 = N
          BY <1>1, <4>2 DEF place
        <5>2. SubSeq(tt, 1, N) = tt
          BY <1>5, SubSeqFull
        <5>3. TitleList(before) = <<>>
          BY <4>2 DEF before, TitleList
        <5>4. DocumentTitles(d) = front
          BY <5>1, <5>2 DEF front, DocumentTitles
        <5>5. front \o <<>> = front
          BY <3>1, ConcatEmptySeq
        <5> QED BY <5>3, <5>4, <5>5, Zenon DEF Concatenates
      <4> QED BY <4>1, <4>2
    <3>5. Concatenates(DocumentTitles(r), DocumentTitles(d), rec)
      BY <3>1, <3>2, <3>3, <3>4, RegroupedLeft
    <3> QED BY <1>4, <3>5 DEF Extends, rec
  <2>14. ASSUME ~ EndsInEmptyRecovery(d)
         PROVE  Covered(r) = A
    <3>1. Covered(r) \subseteq A /\ \A i \in 1..place : r[i].sources \subseteq Covered(r)
      BY <2>12, CoveredType
    <3>2. place \in 1..place /\ \A i \in 1..place - 1 : i \in 1..place
      BY <1>1, <2>4
    <3>3. SourcesOf(all) \subseteq Covered(r)
      BY <2>12, <3>1, <3>2
    <3>4. \A x \in A \ Covered(d) : x \in SourcesOf(all)
      BY <1>2, <2>1, <2>8
    <3>5. ASSUME NEW i \in 1..N
          PROVE  d[i].sources \subseteq Covered(r)
      <4>1. CASE i \in 1..place - 1
        <5>1. r[i] = d[i]
          BY <2>12, <4>1
        <5> QED BY <3>1, <3>2, <4>1, <5>1
      <4>2. CASE i \notin 1..place - 1
        <5>1. i = N /\ place = N
          BY <1>1, <2>4, <4>2 DEF place
        <5>2. d[N].entries # <<>>
          <6>1. again
            BY <2>4, <5>1
          <6>2. d[N].heading = RecoveredHeading /\ d # <<>> /\ Last(d) = d[N]
            BY <1>1, <6>1 DEF again, Alike, Last
          <6> QED BY <2>14, <6>2 DEF EndsInEmptyRecovery
        <5>3. d[N].sources = SourcesOf(d[N].entries)
          BY <1>1, <5>1, <5>2 DEF Referenced
        <5>4. before = d[N].entries
          BY <5>1 DEF before
        <5> QED BY <2>8, <3>3, <5>1, <5>3, <5>4
      <4> QED BY <4>1, <4>2
    <3>6. Covered(d) \subseteq Covered(r)
      <4>1. DOMAIN d = 1..N
        BY <1>1
      <4> QED BY <3>5, <4>1, Zenon DEF Covered
    <3> QED BY <3>1, <3>3, <3>4, <3>6
  <2> QED BY <2>12, <2>13, <2>14
<1> QED BY <1>6, <1>7

\* The entries of a document keep their order and stay apart.
LEMMA EntriesType ==
    ASSUME NEW A, NEW d, GoodDocument(d, A)
    PROVE  /\ EntriesOf(d) \in Seq(EntrySet(A))
           /\ TitleList(EntriesOf(d)) = DocumentTitles(d)
           /\ \A i, j \in DOMAIN EntriesOf(d) :
                i # j => EntriesOf(d)[i].id # EntriesOf(d)[j].id
<1> DEFINE N == Len(d)
           ss == [i \in DOMAIN d |-> d[i].entries]
           entries == EntriesOf(d)
           title == [e \in EntrySet(A) |-> e.title]
           first == [e \in EntrySet(A) |-> e.id[1]]
           second == [e \in EntrySet(A) |-> e.id[2]]
<1>1. /\ d \in Seq(SectionSet(A)) /\ N \in Nat /\ DOMAIN d = 1..N
      /\ \A i \in 1..N : d[i] \in SectionSet(A) /\ At(d[i], i)
  BY DEF GoodDocument
<1>2. \A i \in 1..N : d[i].entries \in Seq(EntrySet(A))
  BY <1>1 DEF SectionSet
<1>3. entries = FlattenSeq(ss)
  BY Zenon DEF EntriesOf
<1>4. /\ ss \in Seq(Seq(EntrySet(A))) /\ Len(ss) = N /\ DOMAIN ss = 1..N
      /\ \A i \in 1..N : ss[i] = d[i].entries
  <2>1. ss \in [1..N -> Seq(EntrySet(A))]
    BY <1>1, <1>2
  <2>2. \A i \in 1..N : ss[i] = d[i].entries
    BY <1>1
  <2> HIDE DEF ss
  <2> QED BY <1>1, <2>1, <2>2, SeqDef, LenProperties
<1> HIDE DEF ss, entries
<1>5. entries \in Seq(EntrySet(A))
  BY <1>3, <1>4, Flattened
<1>6. /\ title \in [EntrySet(A) -> Words] /\ \A e \in EntrySet(A) : title[e] = e.title
      /\ first \in [EntrySet(A) -> Nat] /\ second \in [EntrySet(A) -> Nat]
      /\ \A e \in EntrySet(A) : first[e] = e.id[1] /\ second[e] = e.id[2]
  BY DEF EntrySet
<1> HIDE DEF title, first, second
<1>7. ASSUME NEW s \in Seq(EntrySet(A))
      PROVE  Mapped(title, s) = TitleList(s)
  <2>1. \A i \in DOMAIN s : s[i] \in EntrySet(A)
    OBVIOUS
  <2> QED BY <1>6, <2>1 DEF Mapped, TitleList
<1>8. TitleList(entries) = DocumentTitles(d)
  <2> DEFINE qq == [i \in DOMAIN ss |-> Mapped(title, ss[i])]
  <2>1. qq = TitleLists(d)
    <3>1. \A i \in 1..N : Mapped(title, ss[i]) = TitleList(d[i].entries)
      BY <1>2, <1>4, <1>7
    <3> QED BY <1>1, <1>4, <3>1 DEF TitleLists
  <2>2. qq = [i \in DOMAIN ss |-> Mapped(title, ss[i])]
    OBVIOUS
  <2> HIDE DEF qq
  <2>3. FlattensTo(qq, ss, title)
    BY <1>4, <1>6, <2>2, MapFlattens
  <2>4. FlattenSeq(qq) = Mapped(title, entries)
    BY <1>3, <2>3, Zenon DEF FlattensTo
  <2> QED BY <1>5, <1>7, <2>1, <2>4 DEF DocumentTitles
<1>9. \A i \in 1..Len(ss) : \A j \in 1..Len(ss[i]) :
        first[ss[i][j]] = i /\ second[ss[i][j]] = j
  <2> TAKE i \in 1..Len(ss)
  <2> TAKE j \in 1..Len(ss[i])
  <2>1. i \in 1..N /\ ss[i] = d[i].entries /\ d[i].entries \in Seq(EntrySet(A))
    BY <1>2, <1>4
  <2>2. d[i].entries[j].id = <<i, j, d[i].entries[j].title>>
    BY <1>1, <2>1 DEF At
  <2>3. ss[i][j] \in EntrySet(A)
    BY <2>1, ElementOfSeq
  <2> QED BY <1>6, <2>1, <2>2, <2>3
<1>10. Apart(entries, first, second)
  BY <1>3, <1>4, <1>6, <1>9, PlacedApart
<1>11. \A i, j \in DOMAIN entries : i # j => entries[i].id # entries[j].id
  <2> TAKE i, j \in DOMAIN entries
  <2> SUFFICES ASSUME i # j PROVE entries[i].id # entries[j].id
    OBVIOUS
  <2>1. i \in 1..Len(entries) /\ j \in 1..Len(entries)
    BY <1>5
  <2>2. entries[i] \in EntrySet(A) /\ entries[j] \in EntrySet(A)
    BY <1>5, <2>1
  <2>3. first[entries[i]] # first[entries[j]] \/ second[entries[i]] # second[entries[j]]
    BY <1>10, <2>1, Zenon DEF Apart
  <2> QED BY <1>6, <2>2, <2>3
<1> QED BY <1>5, <1>8, <1>11 DEF entries

\* The titles of an outline, as the property states them.
LEMMA OutlineTitled ==
    ASSUME Outline \in Seq(FragmentType)
    PROVE  OutlineTitles = FragmentsTitles(Outline)
<1>1. ASSUME NEW i \in DOMAIN Outline
      PROVE  (IF Outline[i].heading = BlankHeading THEN <<>>
              ELSE Where([j \in DOMAIN Outline[i].entries |-> Outline[i].entries[j].title],
                         LAMBDA t : t # NoTitle))
             = FragmentTitles(Outline[i])
  <2> DEFINE entries == Outline[i].entries
             titles == [j \in DOMAIN entries |-> entries[j].title]
  <2>1. Where(titles, LAMBDA t : t # NoTitle)
          = ElementsAt(titles, {j \in DOMAIN titles : titles[j] # NoTitle})
    BY Zenon DEF Where, ElementsAt, Ascending
  <2>2. {j \in DOMAIN titles : titles[j] # NoTitle} = TitledAt(entries)
    BY DEF TitledAt
  <2>3. Where(titles, LAMBDA t : t # NoTitle) = ElementsAt(TitleList(entries), TitledAt(entries))
    BY <2>1, <2>2, Zenon DEF TitleList
  <2> QED BY <2>3, Zenon DEF FragmentTitles
<1> QED BY <1>1 DEF OutlineTitles, FragmentsTitles

\* A fragment of a batch keeps only chunks of the batch.
ClampedFragments(A) ==
    [heading: Words, kind: Words, entries: Seq(ClampedSet(A)), sources: SUBSET A]

LEMMA ClampedFragmentType ==
    ASSUME NEW B \in SUBSET Nat, NEW A \in SUBSET B, A # {}, NEW fragment \in FragmentType
    PROVE  ClampedFragment(fragment, A) \in ClampedFragments(B)
<1> DEFINE old == fragment.entries
           new == [i \in DOMAIN old |-> Clamped(old[i], A)]
           sources == IF new = <<>> THEN fragment.sources \cap A ELSE SourcesOf(new)
<1>1. /\ old \in Seq(EntryType) /\ fragment.heading \in Words /\ fragment.kind \in Words
      /\ fragment.sources \in SUBSET Int /\ A \in SUBSET Nat
  BY DEF FragmentType
<1>2. ClampedFragment(fragment, A) = [fragment EXCEPT !.entries = new, !.sources = sources]
  BY DEF ClampedFragment
<1> HIDE DEF old
<1>3. Len(old) \in Nat /\ DOMAIN old = 1..Len(old) /\ \A i \in 1..Len(old) : old[i] \in EntryType
  BY <1>1
<1>4. new \in Seq(ClampedSet(A))
  <2>1. \A i \in 1..Len(old) : Clamped(old[i], A) \in ClampedSet(A)
    BY <1>1, <1>3, ClampedType
  <2>2. new \in [1..Len(old) -> ClampedSet(A)]
    BY <1>3, <2>1
  <2> HIDE DEF new
  <2> QED BY <1>3, <2>2, SeqDef
<1> HIDE DEF new
<1>5. EntriesLike(ClampedSet(A), A)
  BY DEF EntriesLike, ClampedSet
<1>6. SourcesOf(new) \in SUBSET A
  BY <1>4, <1>5, SourcesType
<1>7. sources \in SUBSET B
  BY <1>6
<1>8. new \in Seq(ClampedSet(B))
  <2>1. ClampedSet(A) \subseteq ClampedSet(B)
    BY DEF ClampedSet
  <2> QED BY <1>4, <2>1, SeqMonotonic
<1> HIDE DEF sources
<1>9. [fragment EXCEPT !.entries = new, !.sources = sources] \in ClampedFragments(B)
  BY <1>1, <1>7, <1>8 DEF FragmentType, ClampedFragments
<1> QED BY <1>2, <1>9

\* The source records of entries, and their batches.
LEMMA RecordsType ==
    ASSUME NEW S, NEW entries \in Seq(S)
    PROVE  /\ RecordsOf(entries) \in Seq(DOMAIN entries)
           /\ entries # <<>> => RecordsOf(entries) # <<>>
<1> DEFINE D == DOMAIN entries
           ss == [i \in D |-> IF entries[i].title \in LongTitles THEN <<i, i>> ELSE <<i>>]
<1>1. Len(entries) \in Nat /\ D = 1..Len(entries)
  OBVIOUS
<1>2. RecordsOf(entries) = FlattenSeq(ss)
  BY Zenon DEF RecordsOf
<1> HIDE DEF D
<1>3. \A i \in D : ss[i] \in Seq(D) /\ ss[i] # <<>>
  OBVIOUS
<1>4. ss \in [1..Len(entries) -> Seq(D)]
  BY <1>1, <1>3
<1> HIDE DEF ss
<1>5. ss \in Seq(Seq(D)) /\ Len(ss) = Len(entries)
  BY <1>1, <1>4, SeqDef, LenProperties
<1>6. RecordsOf(entries) \in Seq(D)
  BY <1>2, <1>5, Flattened
<1>7. ASSUME entries # <<>>
      PROVE  RecordsOf(entries) # <<>>
  <2>1. 1 \in D /\ 1 \in 1..Len(ss)
    BY <1>1, <1>5, <1>7, EmptySeq
  <2>2. ss[1] # <<>>
    BY <1>3, <2>1
  <2> QED BY <1>2, <1>5, <2>1, <2>2, SomeFlattens
<1> QED BY <1>6, <1>7 DEF D

LEMMA SkillBatchesType ==
    ASSUME NEW S, NEW entries \in Seq(S), entries # <<>>, SkillBatchSize # 0
    PROVE  /\ SkillBatchesOf(entries) \in Seq(SUBSET DOMAIN entries)
           /\ Len(SkillBatchesOf(entries)) > 0
<1> DEFINE records == RecordsOf(entries)
           n == (Len(records) + SkillBatchSize - 1) \div SkillBatchSize
           bs == [b \in 1..n |-> {records[i] : i \in {j \in DOMAIN records :
                                     (j - 1) \div SkillBatchSize = b - 1}}]
<1>1. records \in Seq(DOMAIN entries) /\ records # <<>>
  BY RecordsType
<1>2. SkillBatchesOf(entries) = bs
  BY Zenon DEF SkillBatchesOf
<1> HIDE DEF records
<1>3. SkillBatchSize \in Nat /\ SkillBatchSize > 0
  BY ExtractionAssumption
<1>4. n \in Nat /\ n > 0
  <2>1. Len(records) \in Nat /\ Len(records) > 0
    BY <1>1, EmptySeq
  <2>2. /\ Len(records) + SkillBatchSize - 1 \in Nat
        /\ Len(records) + SkillBatchSize - 1 >= SkillBatchSize
    BY <1>3, <2>1
  <2>3. n \in Nat /\ n >= 1
    BY <1>3, <2>2, Quotient
  <2> HIDE DEF n
  <2> QED BY <2>3
<1>5. \A b \in 1..n : bs[b] \in SUBSET DOMAIN entries
  <2>1. \A j \in DOMAIN records : records[j] \in DOMAIN entries
    BY <1>1
  <2> HIDE DEF n
  <2> QED BY <2>1
<1> HIDE DEF n
<1>6. bs \in [1..n -> SUBSET DOMAIN entries]
  <2>1. bs = [b \in 1..n |-> bs[b]]
    BY Zenon
  <2> HIDE DEF bs
  <2> QED BY <1>5, <2>1, Zenon
<1> HIDE DEF bs
<1>7. bs \in Seq(SUBSET DOMAIN entries) /\ Len(bs) = n
  BY <1>4, <1>6, SeqDef, LenProperties
<1> QED BY <1>2, <1>4, <1>7

-----------------------------------------------------------------------------
(* The invariant of a pipeline *)

CallSet == [attempt: 0..MAX_PROVIDER_RETRIES, repairs: 0..MAX_REPAIR_ATTEMPTS]
FrameSet ==
    [items: Seq(FragmentType), name: Words, left: Seq(FragmentType), merged: BOOLEAN,
     at: {"left", "right", "whole"}]
Shown == UNION {answer.contacts : answer \in BatchAnswers}
IdentitySet == [name: Words, contacts: SUBSET Shown]

BeforeText == {"reading", "job"}
WithOutline == {"consolidating", "building", "merging", "recovering",
                "sourcing", "skills", "projecting"}
WithText == {"batches"} \cup WithOutline

StageInv ==
    /\ stage \in Stages /\ outcome \in Failures \cup {"none", "published"}
    /\ (stage = "ended") = (outcome # "none")
    /\ call \in CallSet /\ batch \in Nat \ {0}
    /\ stage \notin {"batches", "skills", "ended"} => batch = 1

\* The text and the fragments of its batches.
TextInv ==
    /\ IsList(chunks) /\ fragments \in Seq(ClampedFragments(Allowed))
    /\ stage \in BeforeText => chunks = <<>> /\ fragments = <<>>
    /\ stage \in WithText => Len(chunks) > 0
    /\ stage = "batches" =>
         batches \in Seq((SUBSET Allowed) \ {{}}) /\ batch \in 1..Len(batches)

StackInv == stage \in WithOutline => stack \in Seq(FrameSet) /\ Len(stack) > 0

IdentityInv ==
    stage # "ended" => identity \in IdentitySet /\ IsFiniteSet(identity.contacts)

\* The document keeps the titles of the outline at every stage of its construction.
DocumentInv ==
    /\ stage \in {"merging", "recovering"} =>
         /\ GoodDocument(document, Allowed)
         /\ DocumentTitles(document) = FragmentsTitles(Outline)
    /\ stage \in {"sourcing", "skills", "projecting"} =>
         /\ GoodDocument(document, Allowed) /\ Covered(document) = Allowed
         /\ \E n \in Nat : Concatenates(DocumentTitles(document),
                               FragmentsTitles(Outline), RecoveredTitles(n))

\* An assertion that passed the guard.
SoundAssertion(a, entries) ==
    /\ ToSet(a.sources) \subseteq entries /\ a.quoted \in ToSet(a.sources)
    /\ SoundLabel(a.label)
SoundSkills(list, entries) ==
    list \in Seq(AssertionFields) /\ \A i \in 1..Len(list) : SoundAssertion(list[i], entries)

SkillsInv ==
    /\ stage \notin {"skills", "projecting", "ended"} => skills = <<>>
    /\ stage = "skills" =>
         /\ batches \in Seq(SUBSET DOMAIN EntriesOf(document))
         /\ batch \in 1..Len(batches)
    /\ stage \in {"skills", "projecting"} =>
         SoundSkills(skills, DOMAIN EntriesOf(document))

ExtractionInv ==
    /\ StageInv /\ TextInv /\ StackInv /\ IdentityInv /\ DocumentInv /\ SkillsInv
    /\ PublishedGrounded

LEMMA FragmentFieldsType == FragmentFields \subseteq FragmentType
<1>1. EntryFields \subseteq EntryType
  BY DEF EntryFields, EntryType, Words
<1>2. Seq(EntryFields) \subseteq Seq(EntryType)
  BY <1>1, SeqMonotonic
<1> SUFFICES ASSUME NEW f \in FragmentFields PROVE f \in FragmentType
  OBVIOUS
<1> QED BY <1>2 DEF FragmentFields, FragmentType, Words

\* Answers of the provider that their schemas accept.
LEMMA AnswersType ==
    /\ \A answer \in BatchAnswers \cup OutlineAnswers :
         answer.sections \in Seq(FragmentType) /\ answer.name \in Words
    /\ \A answer \in BatchAnswers : IsFiniteSet(answer.contacts)
    /\ SkillAnswers \subseteq Seq(AssertionFields)
    /\ \A answer \in JobAnswers :
         answer.required \in Seq(DOMAIN Canonical) /\ answer.preferred \in Seq(DOMAIN Canonical)
<1>1. Seq(FragmentFields) \subseteq Seq(FragmentType)
  BY FragmentFieldsType, SeqMonotonic
<1>2. \A x \in STRING : x \in Words
  BY DEF Words
<1> QED BY <1>1, <1>2, ExtractionAssumption

LEMMA InvInit ==
    ASSUME ExtractionInit PROVE ExtractionInv
<1>1. /\ stage \in {"reading", "job"} /\ call = NewCall /\ outcome = "none"
      /\ chunks = <<>> /\ batch = 1 /\ fragments = <<>> /\ identity = NoIdentity
      /\ skills = <<>>
  BY DEF ExtractionInit
<1>2. StageInv
  BY <1>1 DEF StageInv, Stages, Failures, CallSet, NewCall, MAX_PROVIDER_RETRIES,
              MAX_REPAIR_ATTEMPTS
<1>3. TextInv
  BY <1>1 DEF TextInv, IsList, BeforeText, WithText, WithOutline
<1>4. StackInv /\ DocumentInv /\ SkillsInv /\ PublishedGrounded
  BY <1>1 DEF StackInv, DocumentInv, SkillsInv, PublishedGrounded, WithOutline
<1>5. IdentityInv
  <2>1. IsFiniteSet({})
    BY FS_EmptySet
  <2>2. identity \in IdentitySet /\ identity.contacts = {}
    BY <1>1 DEF NoIdentity, IdentitySet, Words
  <2> QED BY <2>1, <2>2 DEF IdentityInv
<1> QED BY <1>2, <1>3, <1>4, <1>5 DEF ExtractionInv

\* A failure ends the pipeline, whatever it has found.
LEMMA InvFail ==
    ASSUME ExtractionInv, stage # "ended", NEW code \in Failures, Fail(code)
    PROVE  ExtractionInv'
<1>1. /\ outcome' = code /\ stage' = "ended" /\ chunks' = chunks /\ fragments' = fragments
      /\ call' = call /\ batch' = batch
  BY DEF Fail
<1>2. code # "none" /\ code # "published"
  BY DEF Failures
<1>3. StageInv'
  BY <1>1, <1>2 DEF ExtractionInv, StageInv, Stages
<1>4. TextInv'
  BY <1>1 DEF ExtractionInv, TextInv, BeforeText, WithText, WithOutline, Allowed
<1>5. StackInv' /\ IdentityInv' /\ DocumentInv' /\ SkillsInv' /\ PublishedGrounded'
  BY <1>1, <1>2 DEF StackInv, IdentityInv, DocumentInv, SkillsInv, PublishedGrounded, WithOutline
<1> QED BY <1>3, <1>4, <1>5 DEF ExtractionInv

\* A call that is tried again, or repaired, changes nothing else.
LEMMA InvAgain ==
    ASSUME ExtractionInv, call' \in CallSet,
           UNCHANGED <<stage, outcome, chunks, batches, batch, fragments, stack, document,
                       identity, skills>>
    PROVE  ExtractionInv'
<1>1. StageInv'
  BY DEF ExtractionInv, StageInv
<1>2. TextInv'
  BY DEF ExtractionInv, TextInv, Allowed
<1>3. StackInv' /\ IdentityInv'
  BY DEF ExtractionInv, StackInv, IdentityInv
<1>4. DocumentInv'
  BY DEF ExtractionInv, DocumentInv, Allowed, Outline
<1>5. SkillsInv'
  BY DEF ExtractionInv, SkillsInv
<1>6. PublishedGrounded'
  <2>1. PublishedGrounded
    BY DEF ExtractionInv
  <2> QED BY <2>1, ZenonT(30) DEF PublishedGrounded, Allowed
<1> QED BY <1>1, <1>2, <1>3, <1>4, <1>5, <1>6 DEF ExtractionInv

LEMMA InvInvalid ==
    ASSUME ExtractionInv, stage # "ended", CallInvalid
    PROVE  ExtractionInv'
<1>1. call \in CallSet
  BY DEF ExtractionInv, StageInv
<1>2. CASE call.repairs < MAX_REPAIR_ATTEMPTS
  <2>1. /\ call' = [attempt |-> 0, repairs |-> call.repairs + 1]
        /\ UNCHANGED <<stage, outcome, chunks, batches, batch, fragments, stack, document,
                       identity, skills>>
    BY <1>2 DEF CallInvalid
  <2>2. call' \in CallSet
    BY <1>1, <1>2, <2>1 DEF CallSet, MAX_PROVIDER_RETRIES, MAX_REPAIR_ATTEMPTS
  <2> QED BY <2>1, <2>2, InvAgain
<1>3. CASE ~ (call.repairs < MAX_REPAIR_ATTEMPTS)
  <2>1. Fail("INVALID_STRUCTURED_OUTPUT")
    BY <1>3 DEF CallInvalid
  <2>2. "INVALID_STRUCTURED_OUTPUT" \in Failures
    BY DEF Failures
  <2> QED BY <2>1, <2>2, InvFail
<1> QED BY <1>2, <1>3

LEMMA InvTimeout ==
    ASSUME ExtractionInv, CallTimesOut
    PROVE  ExtractionInv'
<1>0. stage # "ended"
  BY DEF CallTimesOut, Asks
<1>1. call \in CallSet
  BY DEF ExtractionInv, StageInv
<1>2. CASE call.attempt < MAX_PROVIDER_RETRIES
  <2>1. /\ call' = [call EXCEPT !.attempt = @ + 1]
        /\ UNCHANGED <<stage, outcome, chunks, batches, batch, fragments, stack, document,
                       identity, skills>>
    BY <1>2 DEF CallTimesOut
  <2>2. call' \in CallSet
    BY <1>1, <1>2, <2>1 DEF CallSet, MAX_PROVIDER_RETRIES, MAX_REPAIR_ATTEMPTS
  <2> QED BY <2>1, <2>2, InvAgain
<1>3. CASE ~ (call.attempt < MAX_PROVIDER_RETRIES)
  <2>1. Fail("PROVIDER_TIMEOUT") \/ Fail("PROVIDER_RATE_LIMIT")
    BY <1>3 DEF CallTimesOut
  <2>2. "PROVIDER_TIMEOUT" \in Failures /\ "PROVIDER_RATE_LIMIT" \in Failures
    BY DEF Failures
  <2> QED BY <1>0, <2>1, <2>2, InvFail
<1> QED BY <1>2, <1>3

LEMMA InvErrors ==
    ASSUME ExtractionInv, CallErrors
    PROVE  ExtractionInv'
<1>1. stage # "ended" /\ Fail("PROVIDER_ERROR")
  BY DEF CallErrors, Asks
<1>2. "PROVIDER_ERROR" \in Failures
  BY DEF Failures
<1> QED BY <1>1, <1>2, InvFail

LEMMA InvSchemaFails ==
    ASSUME ExtractionInv, SchemaFails
    PROVE  ExtractionInv'
<1>1. stage # "ended" /\ CallInvalid
  BY DEF SchemaFails, Asks
<1> QED BY <1>1, InvInvalid

\* What no step of the construction disturbs.
LEMMA NotPublished ==
    ASSUME outcome' = "none"
    PROVE  PublishedGrounded'
BY DEF PublishedGrounded

LEMMA InvReadPdf ==
    ASSUME ExtractionInv, ReadPdf
    PROVE  ExtractionInv'
<1>1. stage = "reading" /\ chunks = <<>> /\ fragments = <<>> /\ batch = 1 /\ outcome = "none"
  BY DEF ReadPdf, ExtractionInv, StageInv, TextInv, BeforeText
<1>2. CASE Fail("MALFORMED_PDF") \/ Fail("NO_EXTRACTABLE_TEXT")
  <2>1. "MALFORMED_PDF" \in Failures /\ "NO_EXTRACTABLE_TEXT" \in Failures
    BY DEF Failures
  <2> QED BY <1>1, <1>2, <2>1, InvFail
<1>3. CASE ~ (Fail("MALFORMED_PDF") \/ Fail("NO_EXTRACTABLE_TEXT"))
  <2>1. PICK layout \in Texts, normal \in Texts :
          LET text == IF layout # <<>> THEN layout ELSE normal IN
          IF text = <<>> THEN Fail("NO_EXTRACTABLE_TEXT")
          ELSE /\ chunks' = ChunksOf(text)
               /\ batches' = BatchesOf(chunks')
               /\ stage' = "batches"
               /\ UNCHANGED <<call, outcome, batch, fragments, stack, document,
                              identity, skills>>
    BY <1>3 DEF ReadPdf
  <2> DEFINE text == IF layout # <<>> THEN layout ELSE normal
  <2>2. /\ text # <<>> /\ chunks' = ChunksOf(text) /\ batches' = BatchesOf(chunks')
        /\ stage' = "batches"
        /\ UNCHANGED <<call, outcome, batch, fragments, stack, document, identity, skills>>
    BY <1>3, <2>1
  <2>3. text \in Seq(Nat)
    BY ExtractionAssumption
  <2> HIDE DEF text
  <2>4. IsList(chunks') /\ Len(chunks') > 0
    BY <2>2, <2>3, ChunksType
  <2>5. batches' \in Seq((SUBSET (1..Len(chunks'))) \ {{}}) /\ Len(batches') > 0
    BY <2>2, <2>4, BatchesType
  <2>6. StageInv'
    <3>1. stage' \in Stages /\ outcome' = "none" /\ batch' = 1
      BY <1>1, <2>2 DEF Stages
    <3>2. (stage' = "ended") = (outcome' # "none")
      BY <2>2, <3>1
    <3>3. outcome' \in Failures \cup {"none", "published"} /\ batch' \in Nat \ {0}
      BY <3>1
    <3>4. call' \in CallSet
      BY <2>2 DEF ExtractionInv, StageInv
    <3> QED BY <3>1, <3>2, <3>3, <3>4 DEF StageInv
  <2>7. TextInv'
    <3>1. fragments' \in Seq(ClampedFragments(Allowed'))
      BY <1>1, <2>2
    <3>2. batches' \in Seq((SUBSET Allowed') \ {{}})
      BY <2>5 DEF Allowed
    <3>3. batch' \in 1..Len(batches')
      <4>1. Len(batches') \in Nat
        BY <3>2
      <4> QED BY <1>1, <2>2, <2>5, <4>1
    <3> QED BY <2>2, <2>4, <3>1, <3>2, <3>3 DEF TextInv, BeforeText
  <2>8. StackInv' /\ DocumentInv'
    BY <2>2 DEF StackInv, DocumentInv, WithOutline
  <2>9. SkillsInv' /\ IdentityInv'
    BY <1>1, <2>2 DEF ExtractionInv, SkillsInv, IdentityInv
  <2>10. PublishedGrounded'
    BY <1>1, <2>2, NotPublished
  <2> QED BY <2>6, <2>7, <2>8, <2>9, <2>10 DEF ExtractionInv
<1> QED BY <1>2, <1>3

LEMMA FrameType ==
    ASSUME NEW items \in Seq(FragmentType), NEW name \in Words,
           NEW at \in {"left", "right", "whole"}
    PROVE  Frame(items, name, at) \in FrameSet
BY DEF Frame, FrameSet

LEMMA ClampedFragmentsAreFragments ==
    ASSUME NEW A \in SUBSET Nat
    PROVE  ClampedFragments(A) \subseteq FragmentType
<1>0. SUBSET A \subseteq SUBSET Int
  <2>1. A \subseteq Int
    OBVIOUS
  <2> QED BY <2>1, Zenon
<1>1. ClampedSet(A) \subseteq EntryType
  BY <1>0 DEF ClampedSet, EntryType
<1>2. Seq(ClampedSet(A)) \subseteq Seq(EntryType)
  BY <1>1, SeqMonotonic
<1> SUFFICES ASSUME NEW f \in ClampedFragments(A) PROVE f \in FragmentType
  OBVIOUS
<1> QED BY <1>0, <1>2 DEF ClampedFragments, FragmentType

LEMMA NameType == "none" \in Words
BY DEF Words

LEMMA InvAnswerBatch ==
    ASSUME ExtractionInv, NEW answer \in BatchAnswers, AnswerBatch(answer)
    PROVE  ExtractionInv'
<1> DEFINE A == batches[batch]
           new == [i \in DOMAIN answer.sections |-> ClampedFragment(answer.sections[i], A)]
<1>1. /\ stage = "batches" /\ outcome = "none" /\ skills = <<>>
      /\ IsList(chunks) /\ Len(chunks) > 0
      /\ fragments \in Seq(ClampedFragments(Allowed))
      /\ batches \in Seq((SUBSET Allowed) \ {{}}) /\ batch \in 1..Len(batches)
      /\ identity \in IdentitySet /\ IsFiniteSet(identity.contacts)
  BY DEF AnswerBatch, ExtractionInv, StageInv, TextInv, IdentityInv, SkillsInv, WithText
<1>2. /\ fragments' = fragments \o new /\ identity' = Identified(answer) /\ call' = NewCall
      /\ UNCHANGED <<outcome, chunks, batches, document, skills>>
  BY DEF AnswerBatch
<1>3. \/ batch < Len(batches) /\ batch' = batch + 1 /\ UNCHANGED <<stage, stack>>
      \/ /\ batch' = 1 /\ stage' = "consolidating"
         /\ stack' = <<Frame(fragments', "none", "whole")>>
  BY Zenon DEF AnswerBatch
<1>4. A \in SUBSET Allowed /\ A # {} /\ Allowed \in SUBSET Nat
  <2>1. A \in (SUBSET Allowed) \ {{}}
    BY <1>1, ElementOfSeq
  <2>2. Allowed \in SUBSET Nat
    BY DEF Allowed
  <2> HIDE DEF A
  <2> QED BY <2>1, <2>2
<1>5. answer.sections \in Seq(FragmentType) /\ answer.name \in Words
      /\ IsFiniteSet(answer.contacts) /\ answer.contacts \subseteq Shown
  <2>1. answer.contacts \subseteq Shown
    BY Zenon DEF Shown
  <2> QED BY <2>1, AnswersType
<1>6. new \in Seq(ClampedFragments(Allowed))
  <2> DEFINE list == answer.sections
  <2>1. Len(list) \in Nat /\ DOMAIN list = 1..Len(list)
        /\ \A i \in 1..Len(list) : list[i] \in FragmentType
    BY <1>5
  <2>2. \A i \in 1..Len(list) : ClampedFragment(list[i], A) \in ClampedFragments(Allowed)
    BY <1>4, <2>1, ClampedFragmentType
  <2>3. new \in [1..Len(list) -> ClampedFragments(Allowed)]
    BY <2>1, <2>2
  <2> HIDE DEF new, list
  <2> QED BY <2>1, <2>3, SeqDef
<1> HIDE DEF new, A
<1>7. fragments' \in Seq(ClampedFragments(Allowed))
  BY <1>1, <1>2, <1>6, ConcatProperties
<1>8. fragments' \in Seq(FragmentType)
  <2>1. Seq(ClampedFragments(Allowed)) \subseteq Seq(FragmentType)
    BY <1>4, ClampedFragmentsAreFragments, SeqMonotonic
  <2> QED BY <1>7, <2>1
<1>9. StageInv'
  <2>1. call' \in CallSet
    BY <1>2 DEF NewCall, CallSet, MAX_PROVIDER_RETRIES, MAX_REPAIR_ATTEMPTS
  <2>2. batch' \in Nat \ {0} /\ (stage' \notin {"batches", "skills", "ended"} => batch' = 1)
    BY <1>1, <1>3
  <2>3. stage' \in Stages /\ stage' # "ended" /\ outcome' = "none"
    BY <1>1, <1>2, <1>3 DEF Stages
  <2>4. outcome' \in Failures \cup {"none", "published"}
    BY <2>3
  <2>5. (stage' = "ended") = (outcome' # "none")
    BY <2>3
  <2>6. batch' \in Nat \ {0}
    BY <2>2
  <2>7. stage' \notin {"batches", "skills", "ended"} => batch' = 1
    BY <2>2
  <2>8. stage' \in Stages
    BY <2>3
  <2> QED BY <2>1, <2>4, <2>5, <2>6, <2>7, <2>8 DEF StageInv
<1>10. TextInv'
  <2>1. IsList(chunks') /\ Len(chunks') > 0 /\ Allowed' = Allowed
    BY <1>1, <1>2 DEF Allowed
  <2>2. stage' = "batches" => batch' \in 1..Len(batches')
    BY <1>1, <1>2, <1>3
  <2>3. batches' = batches /\ stage' \notin BeforeText
    BY <1>1, <1>2, <1>3 DEF BeforeText
  <2> QED BY <1>1, <1>7, <2>1, <2>2, <2>3, Zenon DEF TextInv
<1>11. StackInv'
  <2>1. CASE stage' = "batches"
    BY <2>1 DEF StackInv, WithOutline
  <2>2. CASE stage' # "batches"
    <3> DEFINE frame == Frame(fragments', "none", "whole")
    <3>1. stack' = <<frame>>
      BY <1>1, <1>3, <2>2
    <3>2. frame \in FrameSet
      BY <1>8, NameType, FrameType
    <3> HIDE DEF frame
    <3>3. stack' \in Seq(FrameSet) /\ Len(stack') > 0
      BY <3>1, <3>2
    <3> QED BY <3>3 DEF StackInv
  <2> QED BY <2>1, <2>2
<1>12. IdentityInv'
  <2> DEFINE found == {c \in answer.contacts : c.source \in A}
  <2>1. identity' = [name |-> FirstName(identity.name, answer.name),
                     contacts |-> identity.contacts \cup found]
    BY <1>2 DEF Identified, A
  <2>2. found \subseteq answer.contacts /\ IsFiniteSet(found)
    BY <1>5, FS_Subset
  <2> HIDE DEF found
  <2>3. IsFiniteSet(identity.contacts \cup found)
    BY <1>1, <2>2, FS_Union
  <2>4. FirstName(identity.name, answer.name) \in Words
    BY <1>1, <1>5 DEF FirstName, IdentitySet
  <2>5. identity' \in IdentitySet /\ identity'.contacts = identity.contacts \cup found
    BY <1>1, <1>5, <2>1, <2>2, <2>4 DEF IdentitySet
  <2> QED BY <2>3, <2>5 DEF IdentityInv
<1>13. DocumentInv' /\ SkillsInv'
  BY <1>1, <1>2, <1>3 DEF DocumentInv, SkillsInv
<1>14. PublishedGrounded'
  BY <1>1, <1>2, NotPublished
<1> QED BY <1>9, <1>10, <1>11, <1>12, <1>13, <1>14 DEF ExtractionInv

LEMMA HalvesType ==
    ASSUME NEW S, NEW s \in Seq(S)
    PROVE  /\ SubSeq(s, 1, Len(s) \div 2) \in Seq(S)
           /\ SubSeq(s, (Len(s) \div 2) + 1, Len(s)) \in Seq(S)
<1> DEFINE n == Len(s)
           m == n \div 2
<1>1. n \in Nat /\ m \in 0..n
  OBVIOUS
<1>2. \A i \in 1..m : s[i] \in S
  <2> HIDE DEF m
  <2>1. \A i \in 1..m : i \in 1..n
    BY <1>1
  <2> QED BY <2>1, ElementOfSeq
<1>3. \A i \in m + 1..n : s[i] \in S
  <2> HIDE DEF m
  <2>1. \A i \in m + 1..n : i \in 1..n
    BY <1>1
  <2> QED BY <2>1, ElementOfSeq
<1> HIDE DEF m, n
<1>4. SubSeq(s, 1, m) \in Seq(S)
  BY <1>1, <1>2, SubSeqProperties
<1>5. SubSeq(s, m + 1, n) \in Seq(S)
  BY <1>1, <1>3, SubSeqProperties
<1> QED BY <1>4, <1>5 DEF m, n

\* A consolidation returns fragments to the frame that waits for them.
LEMMA InvReturns ==
    ASSUME ExtractionInv, stage = "consolidating",
           NEW items \in Seq(FragmentType), NEW name \in Words, Returns(items, name),
           call' \in CallSet,
           UNCHANGED <<outcome, chunks, batches, batch, fragments, document, skills>>
    PROVE  ExtractionInv'
<1>1. /\ stage = "consolidating" /\ outcome = "none" /\ batch = 1 /\ skills = <<>>
      /\ stack \in Seq(FrameSet) /\ Len(stack) > 0 /\ Len(stack) \in Nat
      /\ identity \in IdentitySet /\ IsFiniteSet(identity.contacts)
  BY DEF ExtractionInv, StageInv, StackInv, IdentityInv, SkillsInv, WithOutline
<1>2. stage' \in {"consolidating", "building"}
  BY <1>1 DEF Returns
<1>3. stack' \in Seq(FrameSet) /\ Len(stack') > 0
  <2>1. CASE Len(stack) = 1
    <3> DEFINE frame == Frame(items, name, "whole")
    <3>1. stack' = <<frame>>
      BY <2>1 DEF Returns
    <3>2. frame \in FrameSet
      BY FrameType
    <3> HIDE DEF frame
    <3> QED BY <3>1, <3>2
  <2>2. CASE Len(stack) # 1
    <3> DEFINE parent == Head(Tail(stack))
               rest == Tail(Tail(stack))
               mid == Len(parent.items) \div 2
               right == Frame(SubSeq(parent.items, mid + 1, Len(parent.items)), "none", "right")
               waits == [parent EXCEPT !.left = items, !.name = name]
               whole == [parent EXCEPT !.items = parent.left \o items, !.merged = TRUE,
                                       !.left = <<>>, !.name = FirstName(parent.name, name)]
    <3>1. parent \in FrameSet /\ rest \in Seq(FrameSet)
      <4> DEFINE tail == Tail(stack)
      <4>1. tail \in Seq(FrameSet) /\ Len(tail) = Len(stack) - 1
        BY <1>1
      <4> HIDE DEF tail
      <4>2. Len(tail) > 0
        BY <1>1, <2>2, <4>1
      <4>3. tail # <<>>
        BY <4>2, EmptySeq
      <4>4. Head(tail) \in FrameSet /\ Tail(tail) \in Seq(FrameSet)
        BY <4>1, <4>3, HeadTailProperties
      <4> QED BY <4>4 DEF tail
    <3>2. \/ stack' = <<right, waits>> \o rest
          \/ stack' = <<whole>> \o rest
      BY <2>2 DEF Returns
    <3> HIDE DEF parent, rest
    <3>3. right \in FrameSet
      <4>1. parent.items \in Seq(FragmentType)
        BY <3>1 DEF FrameSet
      <4>2. SubSeq(parent.items, mid + 1, Len(parent.items)) \in Seq(FragmentType)
        BY <4>1, HalvesType
      <4> QED BY <4>2, NameType, FrameType
    <3>4. waits \in FrameSet
      BY <3>1 DEF FrameSet
    <3>5. whole \in FrameSet
      <4>1. parent.left \in Seq(FragmentType) /\ parent.name \in Words
        BY <3>1 DEF FrameSet
      <4>2. parent.left \o items \in Seq(FragmentType)
        BY <4>1, ConcatProperties
      <4>3. FirstName(parent.name, name) \in Words
        BY <4>1 DEF FirstName
      <4>4. <<>> \in Seq(FragmentType)
        OBVIOUS
      <4> DEFINE joined == parent.left \o items
                 first == FirstName(parent.name, name)
      <4> HIDE DEF joined, first
      <4>5. [parent EXCEPT !.items = joined, !.merged = TRUE, !.left = <<>>, !.name = first]
              \in FrameSet
        BY <3>1, <4>2, <4>3, <4>4 DEF FrameSet, joined, first
      <4> QED BY <4>5 DEF joined, first
    <3> HIDE DEF right, waits, whole
    <3>6. <<right, waits>> \in Seq(FrameSet) /\ Len(<<right, waits>>) = 2
          /\ <<whole>> \in Seq(FrameSet) /\ Len(<<whole>>) = 1
      BY <3>3, <3>4, <3>5
    <3>7. Len(rest) \in Nat
      BY <3>1
    <3>8. CASE stack' = <<right, waits>> \o rest
      <4>1. /\ <<right, waits>> \o rest \in Seq(FrameSet)
            /\ Len(<<right, waits>> \o rest) = 2 + Len(rest)
        BY <3>1, <3>6, ConcatProperties
      <4> QED BY <3>7, <3>8, <4>1
    <3>9. CASE stack' = <<whole>> \o rest
      <4>1. <<whole>> \o rest \in Seq(FrameSet) /\ Len(<<whole>> \o rest) = 1 + Len(rest)
        BY <3>1, <3>6, ConcatProperties
      <4> QED BY <3>7, <3>9, <4>1
    <3> QED BY <3>2, <3>8, <3>9
  <2> QED BY <2>1, <2>2
<1>4. identity' \in IdentitySet /\ identity'.contacts = identity.contacts
  <2>1. identity' = identity \/ identity' = [identity EXCEPT !.name = FirstName(name, @)]
    BY DEF Returns
  <2>2. FirstName(name, identity.name) \in Words
    BY <1>1 DEF FirstName, IdentitySet
  <2> QED BY <1>1, <2>1, <2>2 DEF IdentitySet
<1>5. StageInv'
  <2>1. stage' \in Stages /\ stage' # "ended" /\ outcome' = "none" /\ batch' = 1
    BY <1>1, <1>2 DEF Stages
  <2>2. outcome' \in Failures \cup {"none", "published"} /\ batch' \in Nat \ {0}
    BY <2>1
  <2>3. (stage' = "ended") = (outcome' # "none")
    BY <2>1
  <2> QED BY <2>1, <2>2, <2>3, Zenon DEF StageInv
<1>6. TextInv'
  BY <1>1, <1>2 DEF ExtractionInv, TextInv, BeforeText, WithText, WithOutline, Allowed
<1>7. StackInv' /\ IdentityInv'
  BY <1>1, <1>3, <1>4 DEF StackInv, IdentityInv
<1>8. DocumentInv' /\ SkillsInv'
  BY <1>1, <1>2 DEF DocumentInv, SkillsInv
<1>9. PublishedGrounded'
  BY <1>1, NotPublished
<1> QED BY <1>5, <1>6, <1>7, <1>8, <1>9 DEF ExtractionInv

LEMMA OutlineType ==
    ASSUME ExtractionInv, stage \in WithOutline
    PROVE  /\ Outline \in Seq(FragmentType)
           /\ Head(stack) \in FrameSet /\ stack \in Seq(FrameSet) /\ Len(stack) > 0
           /\ Allowed \in SUBSET Nat /\ Allowed # {} /\ IsFiniteSet(Allowed)
<1>1. stack \in Seq(FrameSet) /\ Len(stack) > 0
  BY DEF ExtractionInv, StackInv
<1>2. Head(stack) \in FrameSet
  BY <1>1, HeadTailProperties
<1>3. Outline \in Seq(FragmentType)
  BY <1>2 DEF Outline, FrameSet
<1>4. Len(chunks) \in Nat /\ Len(chunks) > 0
  BY DEF ExtractionInv, TextInv, WithText, IsList
<1>5. IsFiniteSet(Allowed)
  BY <1>4, FS_Interval DEF Allowed
<1>6. Allowed \in SUBSET Nat /\ Allowed # {}
  <2>1. 1 \in Allowed
    BY <1>4 DEF Allowed
  <2> QED BY <2>1 DEF Allowed
<1> QED BY <1>1, <1>2, <1>3, <1>5, <1>6

LEMMA InvConsolidate ==
    ASSUME ExtractionInv, Consolidate
    PROVE  ExtractionInv'
<1>1. stage = "consolidating" /\ call' = call /\ call \in CallSet
      /\ UNCHANGED <<outcome, chunks, batches, batch, fragments, document, skills>>
  BY DEF Consolidate, ExtractionInv, StageInv
<1>2. stage \in WithOutline
  BY <1>1 DEF WithOutline
<1>3. /\ Outline \in Seq(FragmentType) /\ Head(stack) \in FrameSet
      /\ stack \in Seq(FrameSet) /\ Len(stack) > 0
  BY <1>2, OutlineType
<1>4. CASE Len(Outline) <= 1 \/ Head(stack).merged
  <2>1. Returns(Outline, Head(stack).name)
    BY <1>4 DEF Consolidate
  <2>2. Head(stack).name \in Words
    BY <1>3 DEF FrameSet
  <2> QED BY <1>1, <1>3, <2>1, <2>2, InvReturns
<1>5. CASE ~ (Len(Outline) <= 1 \/ Head(stack).merged)
  <2> DEFINE half == Frame(SubSeq(Outline, 1, Len(Outline) \div 2), "none", "left")
  <2>1. stack' = <<half>> \o stack /\ UNCHANGED <<stage, identity>>
    BY <1>5 DEF Consolidate
  <2>2. half \in FrameSet
    BY <1>3, HalvesType, NameType, FrameType
  <2> HIDE DEF half
  <2>3. stack' \in Seq(FrameSet) /\ Len(stack') > 0
    <3>1. <<half>> \in Seq(FrameSet) /\ Len(<<half>>) = 1 /\ Len(stack) \in Nat
      BY <1>3, <2>2
    <3>2. <<half>> \o stack \in Seq(FrameSet) /\ Len(<<half>> \o stack) = 1 + Len(stack)
      BY <1>3, <3>1, ConcatProperties
    <3> QED BY <2>1, <3>1, <3>2
  <2>4. StageInv' /\ IdentityInv'
    BY <1>1, <2>1 DEF ExtractionInv, StageInv, IdentityInv
  <2>5. TextInv'
    BY <1>1, <2>1 DEF ExtractionInv, TextInv, Allowed
  <2>6. StackInv'
    BY <2>3 DEF StackInv
  <2>7. DocumentInv'
    BY <1>1, <2>1 DEF DocumentInv
  <2>8. SkillsInv'
    BY <1>1, <2>1 DEF ExtractionInv, SkillsInv
  <2>9. PublishedGrounded'
    <3>1. outcome' = "none"
      BY <1>1 DEF ExtractionInv, StageInv
    <3> QED BY <3>1, NotPublished
  <2> QED BY <2>4, <2>5, <2>6, <2>7, <2>8, <2>9 DEF ExtractionInv
<1> QED BY <1>4, <1>5

LEMMA InvAnswerOutline ==
    ASSUME ExtractionInv, NEW answer \in OutlineAnswers, AnswerOutline(answer)
    PROVE  ExtractionInv'
<1>1. /\ stage = "consolidating" /\ Returns(answer.sections, answer.name)
      /\ call' = NewCall
      /\ UNCHANGED <<outcome, chunks, batches, batch, fragments, document, skills>>
  BY DEF AnswerOutline
<1>2. answer.sections \in Seq(FragmentType) /\ answer.name \in Words
  BY AnswersType
<1>3. call' \in CallSet
  BY <1>1 DEF NewCall, CallSet, MAX_PROVIDER_RETRIES, MAX_REPAIR_ATTEMPTS
<1> QED BY <1>1, <1>2, <1>3, InvReturns

\* A step of the construction that changes only the document, or what follows from it.
LEMMA InvBuilt ==
    ASSUME ExtractionInv, stage \in {"building", "merging"},
           stage' \in {"merging", "recovering"},
           GoodDocument(document', Allowed),
           DocumentTitles(document') = FragmentsTitles(Outline),
           UNCHANGED <<call, outcome, chunks, batches, batch, fragments, stack, identity,
                       skills>>
    PROVE  ExtractionInv'
<1>1. outcome' = "none" /\ batch' = 1 /\ skills' = <<>> /\ call' \in CallSet
  BY DEF ExtractionInv, StageInv, SkillsInv
<1>2. stage' \in Stages /\ stage' # "ended" /\ stage' \notin BeforeText
      /\ stage' # "batches" /\ stage' \notin {"sourcing", "skills", "projecting"}
  BY DEF Stages, BeforeText
<1>3. StageInv'
  <2>1. (stage' = "ended") = (outcome' # "none")
    BY <1>1, <1>2
  <2>2. outcome' \in Failures \cup {"none", "published"} /\ batch' \in Nat \ {0}
    BY <1>1
  <2> QED BY <1>1, <1>2, <2>1, <2>2 DEF StageInv
<1>4. Allowed' = Allowed /\ Outline' = Outline
  BY DEF Allowed, Outline
<1>5. TextInv'
  <2>1. stage \in WithText
    BY DEF WithText, WithOutline
  <2> QED BY <1>2, <1>4, <2>1 DEF ExtractionInv, TextInv
<1>6. StackInv' /\ IdentityInv'
  BY <1>2 DEF ExtractionInv, StackInv, IdentityInv, WithOutline
<1>7. DocumentInv'
  BY <1>2, <1>4 DEF DocumentInv
<1>8. SkillsInv'
  BY <1>1, <1>2 DEF SkillsInv
<1>9. PublishedGrounded'
  BY <1>1, NotPublished
<1> QED BY <1>3, <1>5, <1>6, <1>7, <1>8, <1>9 DEF ExtractionInv

LEMMA InvBuildSections ==
    ASSUME ExtractionInv, BuildSections
    PROVE  ExtractionInv'
<1>1. /\ stage = "building" /\ document' = SectionsFrom(Outline, Allowed)
      /\ stage' = "merging"
      /\ UNCHANGED <<call, outcome, chunks, batches, batch, fragments, stack, identity,
                     skills>>
  BY DEF BuildSections
<1>2. Outline \in Seq(FragmentType) /\ Allowed \in SUBSET Nat /\ Allowed # {}
  BY <1>1, OutlineType DEF WithOutline
<1>3. /\ GoodDocument(document', Allowed)
      /\ DocumentTitles(document') = FragmentsTitles(Outline)
  BY <1>1, <1>2, SectionsFromType
<1> QED BY <1>1, <1>3, InvBuilt

LEMMA InvMergeSections ==
    ASSUME ExtractionInv, MergeSections
    PROVE  ExtractionInv'
<1>1. /\ stage = "merging" /\ document' = Merged(document) /\ stage' = "recovering"
      /\ UNCHANGED <<call, outcome, chunks, batches, batch, fragments, stack, identity,
                     skills>>
  BY DEF MergeSections
<1>2. /\ GoodDocument(document, Allowed)
      /\ DocumentTitles(document) = FragmentsTitles(Outline)
  BY <1>1 DEF ExtractionInv, DocumentInv
<1>3. /\ GoodDocument(document', Allowed)
      /\ DocumentTitles(document') = FragmentsTitles(Outline)
  BY <1>1, <1>2, MergedType
<1> QED BY <1>1, <1>3, InvBuilt

\* What is recovered is complete when the audit holds.
LEMMA AuditedType ==
    ASSUME NEW A \in SUBSET Nat, IsFiniteSet(A), NEW d, GoodDocument(d, A),
           NEW r, r = Recovered(d, A)
    PROVE  /\ GoodDocument(r, A) /\ Extends(r, d)
           /\ AuditHolds(r, A) => Covered(r) = A
           /\ ~ AuditHolds(r, A) => EndsInEmptyRecovery(d)
           /\ ValidDocument(r)
<1>1. /\ GoodDocument(r, A) /\ Extends(r, d)
      /\ Covered(r) = A \/ EndsInEmptyRecovery(d)
  BY RecoveredType
<1>2. Covered(r) \subseteq A
  BY <1>1, CoveredType
<1>3. DOMAIN r = 1..Len(r) /\ \A i \in 1..Len(r) : Referenced(r[i]) /\ At(r[i], i)
  BY <1>1 DEF GoodDocument
<1>4. ValidDocument(r)
  BY <1>3 DEF ValidDocument, Referenced, At
<1> QED BY <1>1, <1>2, <1>4 DEF AuditHolds

LEMMA InvRecoverSections ==
    ASSUME ExtractionInv, RecoverSections
    PROVE  ExtractionInv'
<1> DEFINE built == Recovered(document, Allowed)
<1>1. /\ stage = "recovering" /\ stage \in WithOutline
      /\ outcome = "none" /\ batch = 1 /\ skills = <<>> /\ call \in CallSet
      /\ GoodDocument(document, Allowed)
      /\ DocumentTitles(document) = FragmentsTitles(Outline)
  BY DEF RecoverSections, ExtractionInv, StageInv, SkillsInv, DocumentInv, WithOutline
<1>2. Allowed \in SUBSET Nat /\ IsFiniteSet(Allowed)
  BY <1>1, OutlineType
<1>3. /\ GoodDocument(built, Allowed) /\ Extends(built, document)
      /\ AuditHolds(built, Allowed) => Covered(built) = Allowed
      /\ ValidDocument(built)
  BY <1>1, <1>2, AuditedType
<1>4. \/ Fail("COVERAGE_AUDIT_FAILED")
      \/ /\ AuditHolds(built, Allowed)
         /\ document' = built
         /\ stage' = "sourcing"
         /\ UNCHANGED <<call, outcome, chunks, batches, batch, fragments, stack, identity,
                        skills>>
  BY <1>3 DEF RecoverSections
<1>5. CASE Fail("COVERAGE_AUDIT_FAILED")
  <2>1. "COVERAGE_AUDIT_FAILED" \in Failures
    BY DEF Failures
  <2> QED BY <1>1, <1>5, <2>1, InvFail
<1>6. CASE ~ Fail("COVERAGE_AUDIT_FAILED")
  <2>1. /\ Covered(built) = Allowed /\ document' = built
        /\ stage' = "sourcing"
        /\ UNCHANGED <<call, outcome, chunks, batches, batch, fragments, stack, identity,
                       skills>>
    BY <1>3, <1>4, <1>6
  <2> HIDE DEF built
  <2>5. StageInv'
    <3>1. stage' \in Stages /\ stage' # "ended" /\ outcome' = "none" /\ batch' = 1
      BY <1>1, <2>1 DEF Stages
    <3>2. (stage' = "ended") = (outcome' # "none")
      BY <3>1
    <3>3. outcome' \in Failures \cup {"none", "published"} /\ batch' \in Nat \ {0}
      BY <3>1
    <3>4. call' \in CallSet
      BY <1>1, <2>1
    <3> QED BY <3>1, <3>2, <3>3, <3>4 DEF StageInv
  <2>6. Allowed' = Allowed /\ Outline' = Outline
    BY <2>1 DEF Allowed, Outline
  <2>7. TextInv'
    <3>1. stage \in WithText
      BY <1>1 DEF WithText
    <3>2. stage' \in WithText
      BY <2>1 DEF WithText, WithOutline
    <3> QED BY <2>1, <2>6, <3>1, <3>2 DEF ExtractionInv, TextInv, BeforeText
  <2>8. StackInv' /\ IdentityInv'
    BY <1>1, <2>1 DEF ExtractionInv, StackInv, IdentityInv
  <2>9. DocumentInv'
    <3>1. \E n \in Nat : Concatenates(DocumentTitles(built), DocumentTitles(document),
                                      RecoveredTitles(n))
      BY <1>3, Zenon DEF Extends
    <3>2. \E n \in Nat : Concatenates(DocumentTitles(document'), FragmentsTitles(Outline'),
                                      RecoveredTitles(n))
      BY <1>1, <2>1, <2>6, <3>1, Zenon
    <3>3. GoodDocument(document', Allowed') /\ Covered(document') = Allowed'
      BY <1>3, <2>1, <2>6
    <3>4. stage' \notin {"merging", "recovering"}
      BY <2>1
    <3> QED BY <3>2, <3>3, <3>4 DEF DocumentInv
  <2>10. SkillsInv'
    BY <1>1, <2>1 DEF SkillsInv
  <2>11. PublishedGrounded'
    BY <1>1, <2>1, NotPublished
  <2> QED BY <2>5, <2>7, <2>8, <2>9, <2>10, <2>11 DEF ExtractionInv
<1> QED BY <1>5, <1>6

LEMMA InvBatchSkills ==
    ASSUME ExtractionInv, BatchSkills
    PROVE  ExtractionInv'
<1> DEFINE entries == EntriesOf(document)
<1>1. /\ stage = "sourcing" /\ stage \in WithOutline /\ stage \in WithText
      /\ outcome = "none" /\ batch = 1 /\ skills = <<>> /\ call \in CallSet
      /\ GoodDocument(document, Allowed)
  BY DEF BatchSkills, ExtractionInv, StageInv, SkillsInv, DocumentInv, WithOutline, WithText
<1>2. CASE SourceRefused(entries)
  <2>1. Fail("INVALID_STRUCTURED_OUTPUT")
    BY <1>2 DEF BatchSkills
  <2>2. "INVALID_STRUCTURED_OUTPUT" \in Failures
    BY DEF Failures
  <2> QED BY <1>1, <2>1, <2>2, InvFail
<1>3. CASE ~ SourceRefused(entries)
  <2>1. /\ batches' = SkillBatchesOf(entries)
        /\ stage' = IF entries = <<>> THEN "projecting" ELSE "skills"
        /\ UNCHANGED <<call, outcome, chunks, batch, fragments, stack, document, identity,
                       skills>>
    BY <1>3 DEF BatchSkills
  <2>2. SkillBatchSize # 0
    BY <1>3 DEF SourceRefused
  <2>3. entries \in Seq(EntrySet(Allowed))
    BY <1>1, EntriesType
  <2>4. EntriesOf(document') = entries
    BY <2>1
  <2> HIDE DEF entries
  <2>5. stage' \in {"skills", "projecting"} /\ (stage' = "skills" => entries # <<>>)
    BY <2>1
  <2>6. StageInv'
    <3>1. stage' \in Stages /\ stage' # "ended" /\ outcome' = "none" /\ batch' = 1
      BY <1>1, <2>1, <2>5 DEF Stages
    <3>2. (stage' = "ended") = (outcome' # "none")
      BY <3>1
    <3>3. outcome' \in Failures \cup {"none", "published"} /\ batch' \in Nat \ {0}
      BY <3>1
    <3>4. call' \in CallSet
      BY <1>1, <2>1
    <3> QED BY <3>1, <3>2, <3>3, <3>4 DEF StageInv
  <2>7. Allowed' = Allowed /\ Outline' = Outline
    BY <2>1 DEF Allowed, Outline
  <2>8. TextInv'
    BY <1>1, <2>1, <2>5, <2>7 DEF ExtractionInv, TextInv, BeforeText
  <2>9. StackInv' /\ IdentityInv'
    BY <1>1, <2>1 DEF ExtractionInv, StackInv, IdentityInv
  <2>10. DocumentInv'
    BY <1>1, <2>1, <2>5, <2>7 DEF ExtractionInv, DocumentInv
  <2>11. SkillsInv'
    <3>1. skills' = <<>> /\ SoundSkills(skills', DOMAIN EntriesOf(document'))
      BY <1>1, <2>1 DEF SoundSkills
    <3>2. ASSUME stage' = "skills"
          PROVE  /\ batches' \in Seq(SUBSET DOMAIN EntriesOf(document'))
                 /\ batch' \in 1..Len(batches')
      <4>1. batches' \in Seq(SUBSET DOMAIN entries) /\ Len(batches') > 0
        BY <2>1, <2>2, <2>3, <2>5, <3>2, SkillBatchesType
      <4>2. Len(batches') \in Nat
        BY <4>1
      <4> QED BY <1>1, <2>1, <2>4, <4>1, <4>2
    <3> QED BY <3>1, <3>2 DEF SkillsInv
  <2>12. PublishedGrounded'
    BY <1>1, <2>1, NotPublished
  <2> QED BY <2>6, <2>8, <2>9, <2>10, <2>11, <2>12 DEF ExtractionInv
<1> QED BY <1>2, <1>3

\* What passes the guard is sound.
LEMMA GuardedType ==
    ASSUME NEW answer \in Seq(AssertionFields), NEW entries, Guard(answer, entries)
    PROVE  SoundSkills(answer, entries)
<1>1. DOMAIN answer = 1..Len(answer)
  OBVIOUS
<1> QED BY <1>1 DEF Guard, SoundSkills, SoundAssertion

LEMMA SoundJoin ==
    ASSUME NEW E, NEW F \in SUBSET E, NEW a, SoundSkills(a, E), NEW b, SoundSkills(b, F),
           NEW q, Concatenates(q, a, b)
    PROVE  SoundSkills(q, E)
<1>1. /\ a \in Seq(AssertionFields) /\ \A i \in 1..Len(a) : SoundAssertion(a[i], E)
      /\ b \in Seq(AssertionFields) /\ \A i \in 1..Len(b) : SoundAssertion(b[i], F)
      /\ q = a \o b
  BY DEF SoundSkills, Concatenates
<1>2. \A i \in 1..Len(b) : SoundAssertion(b[i], E)
  BY <1>1 DEF SoundAssertion
<1>3. /\ q \in Seq(AssertionFields) /\ Len(q) = Len(a) + Len(b)
      /\ Len(a) \in Nat /\ Len(b) \in Nat
      /\ \A i \in 1..Len(a) + Len(b) : q[i] = IF i <= Len(a) THEN a[i] ELSE b[i - Len(a)]
  BY <1>1, ConcatProperties
<1>4. ASSUME NEW i \in 1..Len(q) PROVE SoundAssertion(q[i], E)
  <2>1. CASE i <= Len(a)
    <3>1. i \in 1..Len(a) /\ q[i] = a[i]
      BY <1>3, <2>1
    <3> QED BY <1>1, <3>1
  <2>2. CASE ~ (i <= Len(a))
    <3>1. i - Len(a) \in 1..Len(b) /\ q[i] = b[i - Len(a)]
      BY <1>3, <2>2
    <3> QED BY <1>2, <3>1
  <2> QED BY <2>1, <2>2
<1> QED BY <1>3, <1>4 DEF SoundSkills

LEMMA InvAnswerSkills ==
    ASSUME ExtractionInv, NEW answer \in SkillAnswers, AnswerSkills(answer)
    PROVE  ExtractionInv'
<1> DEFINE E == DOMAIN EntriesOf(document)
<1>1. /\ stage = "skills" /\ outcome = "none" /\ stage \in WithOutline /\ stage \in WithText
      /\ batches \in Seq(SUBSET E) /\ batch \in 1..Len(batches)
      /\ SoundSkills(skills, E)
  BY DEF AnswerSkills, ExtractionInv, StageInv, SkillsInv, WithOutline, WithText
<1>2. answer \in Seq(AssertionFields)
  BY AnswersType
<1>3. CASE ~ Guard(answer, batches[batch])
  <2>1. CallInvalid
    BY <1>3 DEF AnswerSkills
  <2> QED BY <1>1, <2>1, InvInvalid
<1>4. CASE Guard(answer, batches[batch])
  <2>1. /\ skills' = skills \o answer /\ call' = NewCall
        /\ UNCHANGED <<outcome, chunks, batches, fragments, stack, document, identity>>
    BY <1>4 DEF AnswerSkills
  <2>2. \/ batch < Len(batches) /\ batch' = batch + 1 /\ stage' = "skills"
        \/ batch' = 1 /\ stage' = "projecting"
    BY <1>1, <1>4 DEF AnswerSkills
  <2>3. SoundSkills(skills', E)
    <3>1. batches[batch] \in SUBSET E
      BY <1>1, ElementOfSeq
    <3>2. SoundSkills(answer, batches[batch])
      BY <1>2, <1>4, GuardedType
    <3>3. Concatenates(skills', skills, answer)
      BY <2>1 DEF Concatenates
    <3> HIDE DEF E
    <3> QED BY <1>1, <3>1, <3>2, <3>3, SoundJoin
  <2>4. StageInv'
    <3>1. stage' \in Stages /\ stage' # "ended" /\ outcome' = "none"
      BY <1>1, <2>1, <2>2 DEF Stages
    <3>2. (stage' = "ended") = (outcome' # "none")
      BY <3>1
    <3>3. outcome' \in Failures \cup {"none", "published"}
      BY <3>1
    <3>4. call' \in CallSet
      BY <2>1 DEF NewCall, CallSet, MAX_PROVIDER_RETRIES, MAX_REPAIR_ATTEMPTS
    <3>5. batch' \in Nat \ {0} /\ (stage' \notin {"batches", "skills", "ended"} => batch' = 1)
      BY <1>1, <2>2
    <3> QED BY <3>1, <3>2, <3>3, <3>4, <3>5 DEF StageInv
  <2>5. Allowed' = Allowed /\ Outline' = Outline /\ stage' \in {"skills", "projecting"}
    BY <2>1, <2>2 DEF Allowed, Outline
  <2>6. TextInv'
    BY <1>1, <2>1, <2>5 DEF ExtractionInv, TextInv, BeforeText
  <2>7. StackInv' /\ IdentityInv'
    BY <1>1, <2>1, <2>5 DEF ExtractionInv, StackInv, IdentityInv
  <2>8. DocumentInv'
    BY <1>1, <2>1, <2>5 DEF ExtractionInv, DocumentInv
  <2>9. SkillsInv'
    <3>1. EntriesOf(document') = EntriesOf(document)
      BY <2>1
    <3>2. stage' = "skills" => batch' \in 1..Len(batches')
      BY <1>1, <2>1, <2>2
    <3> QED BY <1>1, <2>1, <2>3, <2>5, <3>1, <3>2 DEF SkillsInv
  <2>10. PublishedGrounded'
    BY <1>1, <2>1, NotPublished
  <2> QED BY <2>4, <2>6, <2>7, <2>8, <2>9, <2>10 DEF ExtractionInv
<1> QED BY <1>3, <1>4

\* As many keys as places, when no key stands twice.
LEMMA KeysApart ==
    ASSUME NEW S, NEW keys \in Seq(S),
           \A i, j \in 1..Len(keys) : i # j => keys[i] # keys[j]
    PROVE  Cardinality(ToSet(keys)) = Len(keys)
<1> DEFINE n == Len(keys)
           K == ToSet(keys)
           f == [i \in 1..n |-> keys[i]]
<1>1. n \in Nat /\ DOMAIN keys = 1..n
  OBVIOUS
<1>2. K = {keys[i] : i \in 1..n}
  BY <1>1 DEF ToSet
<1>3. f \in [1..n -> K] /\ \A i \in 1..n : f[i] = keys[i]
  BY <1>2
<1> HIDE DEF f, K
<1>4. f \in Bijection(1..n, K)
  <2>1. f \in Injection(1..n, K)
    BY <1>3 DEF Injection, IsInjective
  <2>2. f \in Surjection(1..n, K)
    BY <1>2, <1>3 DEF Surjection
  <2> QED BY <2>1, <2>2 DEF Bijection
<1>5. IsFiniteSet(1..n) /\ Cardinality(1..n) = n
  BY <1>1, FS_Interval
<1>6. Cardinality(K) = n
  BY <1>4, <1>5, FS_Bijection DEF ExistsBijection
<1> QED BY <1>6 DEF K

\* The keys of a job's skills are those of its labels, in both groups.
LEMMA JobKeys ==
    ASSUME NEW answer \in JobAnswers, GuardJob(answer), Normalizes(answer)
    PROVE  LET keys == JobPost(answer).required \o JobPost(answer).preferred IN
           Cardinality(ToSet(keys)) = Len(keys) /\ NoKey \notin ToSet(keys)
<1> DEFINE a == answer.required
           b == answer.preferred
           labels == a \o b
           L == DOMAIN Canonical
           K == {Canonical[l] : l \in L}
           key == [l \in L |-> Canonical[l]]
           keys == Mapped(key, labels)
<1>1. a \in Seq(L) /\ b \in Seq(L)
  BY AnswersType
<1>2. key \in [L -> K] /\ \A l \in L : key[l] = Canonical[l]
  BY Zenon
<1>3. /\ \A i \in DOMAIN labels : Canonical[labels[i]] # NoKey
      /\ \A i, j \in DOMAIN labels : i # j => Canonical[labels[i]] # Canonical[labels[j]]
  <2>1. \A i \in DOMAIN labels : Canonical[labels[i]] # NoKey
    BY Zenon DEF Normalizes, JobLabels, ToSet
  <2> QED BY <2>1, Zenon DEF GuardJob, JobLabels
<1> HIDE DEF L, K, key
<1>4. labels \in Seq(L)
  BY <1>1, ConcatProperties
<1>5. MapsTo(key, labels, K) /\ MapsTo(key, a, K) /\ MapsTo(key, b, K)
  BY <1>1, <1>2, <1>4, MapList
<1>6. MapsOver(key, a, b)
  BY <1>1, <1>2, MapJoins
<1>7. /\ JobPost(answer).required = Mapped(key, a)
      /\ JobPost(answer).preferred = Mapped(key, b)
  <2>1. \A i \in DOMAIN a : Canonical[a[i]] = key[a[i]]
    BY <1>1, <1>2
  <2>2. \A i \in DOMAIN b : Canonical[b[i]] = key[b[i]]
    BY <1>1, <1>2
  <2> QED BY <2>1, <2>2 DEF JobPost, Mapped
<1>8. JobPost(answer).required \o JobPost(answer).preferred = keys
  BY <1>6, <1>7, Zenon DEF MapsOver
<1>9. /\ \A i, j \in 1..Len(keys) : i # j => keys[i] # keys[j]
      /\ \A i \in 1..Len(keys) : keys[i] # NoKey
  <2> HIDE DEF labels
  <2>1. /\ DOMAIN labels = 1..Len(labels) /\ Len(keys) = Len(labels)
        /\ \A i \in 1..Len(labels) : labels[i] \in L /\ keys[i] = Canonical[labels[i]]
    BY <1>2, <1>4, <1>5 DEF MapsTo
  <2> HIDE DEF keys
  <2> QED BY <1>3, <2>1, Zenon
<1>10. keys \in Seq(K)
  BY <1>5 DEF MapsTo
<1> HIDE DEF keys
<1>11. Cardinality(ToSet(keys)) = Len(keys)
  BY <1>9, <1>10, KeysApart
<1>12. NoKey \notin ToSet(keys)
  BY <1>9, <1>10 DEF ToSet
<1> QED BY <1>8, <1>11, <1>12, Zenon

LEMMA InvAnswerJob ==
    ASSUME ExtractionInv, NEW answer \in JobAnswers, AnswerJob(answer)
    PROVE  ExtractionInv'
<1>1. stage = "job" /\ outcome = "none" /\ chunks = <<>> /\ fragments = <<>>
  BY DEF AnswerJob, ExtractionInv, StageInv, TextInv, BeforeText
<1>2. CASE ~ (GuardJob(answer) /\ Normalizes(answer))
  <2>1. CallInvalid
    BY <1>2 DEF AnswerJob
  <2> QED BY <1>1, <2>1, InvInvalid
<1>3. CASE GuardJob(answer) /\ Normalizes(answer)
  <2>1. /\ skills' = JobPost(answer) /\ stage' = "ended" /\ outcome' = "published"
        /\ UNCHANGED <<call, chunks, batches, batch, fragments, stack, document, identity>>
    BY <1>3 DEF AnswerJob
  <2>2. StageInv'
    BY <2>1 DEF ExtractionInv, StageInv, Stages
  <2>3. TextInv'
    BY <2>1 DEF ExtractionInv, TextInv, BeforeText, WithText, WithOutline, Allowed
  <2>4. StackInv' /\ IdentityInv' /\ DocumentInv' /\ SkillsInv'
    BY <2>1 DEF StackInv, IdentityInv, DocumentInv, SkillsInv, WithOutline
  <2>5. PublishedGrounded'
    <3>1. chunks' = <<>> /\ skills'.required = JobPost(answer).required
          /\ skills'.preferred = JobPost(answer).preferred
      BY <1>1, <2>1
    <3>2. LET keys == JobPost(answer).required \o JobPost(answer).preferred IN
          Cardinality(ToSet(keys)) = Len(keys) /\ NoKey \notin ToSet(keys)
      BY <1>3, JobKeys
    <3>3. LET keys == skills'.required \o skills'.preferred IN
          Cardinality(ToSet(keys)) = Len(keys) /\ NoKey \notin ToSet(keys)
      BY <3>1, <3>2, Zenon
    <3> QED BY <3>1, <3>3, Zenon DEF PublishedGrounded
  <2> QED BY <2>2, <2>3, <2>4, <2>5 DEF ExtractionInv
<1> QED BY <1>2, <1>3

LEMMA InvStutter ==
    ASSUME ExtractionInv, UNCHANGED extractionVars
    PROVE  ExtractionInv'
<1>1. call' = call /\ call \in CallSet
      /\ UNCHANGED <<stage, outcome, chunks, batches, batch, fragments, stack, document,
                     identity, skills>>
  BY DEF extractionVars, ExtractionInv, StageInv
<1> QED BY <1>1, InvAgain

-----------------------------------------------------------------------------
(* What is published *)

LEMMA ContactsType ==
    ASSUME ExtractionInv, stage # "ended"
    PROVE  /\ \A v, w \in Contacts : v = w
           /\ Contacts \subseteq {c.value : c \in {d \in Shown : d.grounded}}
<1> DEFINE G == {d \in identity.contacts : d.grounded}
           values == {c.value : c \in G}
           f == [c \in G |-> c.value]
<1>1. identity \in IdentitySet /\ IsFiniteSet(identity.contacts)
  BY DEF ExtractionInv, IdentityInv
<1>2. identity.contacts \in SUBSET Shown
  BY <1>1 DEF IdentitySet
<1>3. G \in SUBSET identity.contacts
  BY Zenon
<1>4. IsFiniteSet(G)
  BY <1>1, <1>3, FS_Subset
<1>5. Contacts = IF Cardinality(values) = 1 THEN values ELSE {}
  BY Zenon DEF Contacts
<1>6. values \subseteq {c.value : c \in {d \in Shown : d.grounded}}
  BY <1>2, Zenon
<1>7. f \in Surjection(G, values)
  <2> HIDE DEF G
  <2> QED BY Zenon DEF Surjection
<1> HIDE DEF f, values
<1>8. IsFiniteSet(values)
  BY <1>4, <1>7, FS_Surjection
<1>9. ASSUME Cardinality(values) = 1
      PROVE  \A v, w \in values : v = w
  <2>1. PICK x : values = {x}
    BY <1>8, <1>9, FS_Singleton
  <2> QED BY <2>1
<1> QED BY <1>5, <1>6, <1>9 DEF values

\* The last of some chunks.
LEMMA MaxIn ==
    ASSUME NEW N \in Nat, NEW A \in SUBSET (1..N), A # {}
    PROVE  Max(A) \in A /\ \A y \in A : y <= Max(A)
<1> DEFINE B == {N - x : x \in A}
<1>1. B \in SUBSET Nat /\ B # {}
  <2>1. \A x \in A : N - x \in Nat
    OBVIOUS
  <2>2. PICK x : x \in A
    OBVIOUS
  <2>3. N - x \in B
    BY <2>2
  <2> QED BY <2>1, <2>3
<1>2. PICK b \in B : \A y \in B : b <= y
  <2> HIDE DEF B
  <2> QED BY <1>1, LeastNumber
<1>3. PICK x \in A : b = N - x
  OBVIOUS
<1>4. ASSUME NEW y \in A PROVE x >= y
  <2>1. N - x <= N - y
    BY <1>2, <1>3
  <2> QED BY <2>1
<1>5. \E z \in A : \A y \in A : z >= y
  BY <1>4
<1>6. Max(A) \in A /\ \A y \in A : Max(A) >= y
  BY <1>5, Zenon DEF Max
<1> DEFINE m == Max(A)
<1> HIDE DEF m
<1>7. m \in A /\ \A y \in A : m >= y
  BY <1>6 DEF m
<1>8. m \in A /\ \A y \in A : y <= m
  BY <1>7
<1> QED BY <1>8 DEF m

\* The ranges of a document that covers the text cover it too.
LEMMA OutlineRanges ==
    ASSUME NEW N \in Nat, NEW d, GoodDocument(d, 1..N), Covered(d) = 1..N
    PROVE  LET outline == ProjectedOutline(d) IN
           UNION {outline[i].range : i \in DOMAIN outline} = 1..N
<1> DEFINE outline == ProjectedOutline(d)
           RangeOf(S) == IF S = {} THEN {} ELSE Min(S)..Max(S)
<1>1. DOMAIN d = 1..Len(d) /\ \A i \in 1..Len(d) : d[i] \in SectionSet(1..N)
  BY DEF GoodDocument
<1>2. ASSUME NEW S \in SUBSET (1..N)
      PROVE  RangeOf(S) \in SUBSET (1..N) /\ S \subseteq RangeOf(S)
  <2>1. CASE S = {}
    BY <2>1
  <2>2. CASE S # {}
    <3> DEFINE a == Min(S)
               b == Max(S)
    <3>1. a \in S /\ (\A y \in S : a <= y) /\ b \in S /\ (\A y \in S : y <= b)
      <4>1. S \in SUBSET Nat
        OBVIOUS
      <4>2. Min(S) \in S /\ \A y \in S : Min(S) <= y
        BY <2>2, <4>1, MinIn
      <4>3. Max(S) \in S /\ \A y \in S : y <= Max(S)
        BY <2>2, MaxIn
      <4> QED BY <4>2, <4>3, Zenon
    <3> HIDE DEF a, b
    <3>2. a..b \in SUBSET (1..N) /\ S \subseteq a..b
      BY <3>1
    <3> QED BY <2>2, <3>2 DEF a, b
  <2> QED BY <2>1, <2>2
<1>3. /\ DOMAIN outline = DOMAIN d
      /\ \A i \in DOMAIN d : outline[i].range = RangeOf(d[i].sources)
  BY DEF ProjectedOutline
<1>4. \A i \in DOMAIN d : d[i].sources \in SUBSET (1..N)
  BY <1>1 DEF SectionSet
<1> HIDE DEF outline, RangeOf
<1>5. UNION {outline[i].range : i \in DOMAIN outline} \subseteq 1..N
  <2>1. \A i \in DOMAIN outline : outline[i].range \in SUBSET (1..N)
    BY <1>2, <1>3, <1>4
  <2> QED BY <2>1, Zenon
<1>6. ASSUME NEW x \in 1..N
      PROVE  x \in UNION {outline[i].range : i \in DOMAIN outline}
  <2>1. PICK i \in DOMAIN d : x \in d[i].sources
    BY DEF Covered
  <2>2. x \in outline[i].range
    BY <1>2, <1>3, <1>4, <2>1
  <2> QED BY <1>3, <2>2
<1>7. UNION {outline[i].range : i \in DOMAIN outline} = 1..N
  BY <1>5, <1>6
<1> QED BY <1>7 DEF outline

\* The order of two numbers of an element is strict when the second tells elements apart.
Lexical(S, f, g) ==
    {p \in S \X S : f[p[1]] < f[p[2]] \/ (f[p[1]] = f[p[2]] /\ g[p[1]] < g[p[2]])}

LEMMA LexicalOrders ==
    ASSUME NEW S, NEW f \in [S -> Nat], NEW g \in [S -> Nat],
           \A x, y \in S : x # y => g[x] # g[y]
    PROVE  Orders(Lexical(S, f, g), S)
<1> DEFINE R == Lexical(S, f, g)
<1>1. \A x, y \in S : <<x, y>> \in R <=>
                        f[x] < f[y] \/ (f[x] = f[y] /\ g[x] < g[y])
  BY DEF Lexical
<1>2. \A x \in S : f[x] \in Nat /\ g[x] \in Nat
  OBVIOUS
<1> HIDE DEF R
<1>3. \A x \in S : <<x, x>> \notin R
  BY <1>1, <1>2
<1>4. \A x, y, z \in S : <<x, y>> \in R /\ <<y, z>> \in R => <<x, z>> \in R
  <2> TAKE x, y, z \in S
  <2>1. /\ f[x] \in Nat /\ f[y] \in Nat /\ f[z] \in Nat
        /\ g[x] \in Nat /\ g[y] \in Nat /\ g[z] \in Nat
    BY <1>2
  <2> QED BY <1>1, <2>1
<1>5. \A x, y \in S : x # y => <<x, y>> \in R \/ <<y, x>> \in R
  <2> TAKE x, y \in S
  <2>1. f[x] \in Nat /\ f[y] \in Nat /\ g[x] \in Nat /\ g[y] \in Nat
    BY <1>2
  <2>2. x # y => g[x] # g[y]
    OBVIOUS
  <2> QED BY <1>1, <2>1, <2>2
<1> QED BY <1>3, <1>4, <1>5 DEF Orders, R

\* The keys of assertions, and where each is supported first.
KeysOf(list) == {Canonical[list[i].label] : i \in DOMAIN list}
Support(list, key) == {i \in DOMAIN list : Canonical[list[i].label] = key}
FirstEntry(list, key) == Min({Min(ToSet(list[i].sources)) : i \in Support(list, key)})
FirstPlace(list, key) == Min(Support(list, key))
KeysInOrder(list) ==
    InOrder(KeysOf(list), LAMBDA a, b :
        \/ FirstEntry(list, a) < FirstEntry(list, b)
        \/ FirstEntry(list, a) = FirstEntry(list, b) /\ FirstPlace(list, a) < FirstPlace(list, b))

\* Each key once.
KeysListed(o, list) ==
    /\ IsList(o) /\ \A k \in DOMAIN o : o[k] \in KeysOf(list)
    /\ \A i, j \in DOMAIN o : i # j => o[i] # o[j]

LEMMA KeysInOrderType ==
    ASSUME NEW list, NEW E \in SUBSET Nat, SoundSkills(list, E)
    PROVE  KeysListed(KeysInOrder(list), list)
<1> DEFINE n == Len(list)
           K == KeysOf(list)
           f == [k \in K |-> FirstEntry(list, k)]
           g == [k \in K |-> FirstPlace(list, k)]
           R == Lexical(K, f, g)
           o == KeysInOrder(list)
<1>1. /\ n \in Nat /\ DOMAIN list = 1..n
      /\ \A i \in 1..n : /\ ToSet(list[i].sources) \subseteq E
                         /\ list[i].quoted \in ToSet(list[i].sources)
  BY DEF SoundSkills, SoundAssertion
<1>2. IsFiniteSet(K)
  <2> DEFINE h == [i \in 1..n |-> Canonical[list[i].label]]
  <2>1. h \in Surjection(1..n, K)
    BY <1>1, Zenon DEF Surjection, KeysOf
  <2>2. IsFiniteSet(1..n)
    BY <1>1, FS_Interval
  <2> HIDE DEF h, K
  <2> QED BY <2>1, <2>2, FS_Surjection
<1>3. ASSUME NEW k \in K
      PROVE  FirstPlace(list, k) \in Support(list, k) /\ Support(list, k) \in SUBSET (1..n)
  <2>1. Support(list, k) # {} /\ Support(list, k) \in SUBSET (1..n)
    BY <1>1, Zenon DEF KeysOf, Support
  <2>2. Support(list, k) \in SUBSET Nat
    BY <2>1
  <2>3. Min(Support(list, k)) \in Support(list, k)
    BY <2>1, <2>2, MinIn
  <2> QED BY <2>1, <2>3, Zenon DEF FirstPlace
<1>4. ASSUME NEW k \in K
      PROVE  FirstEntry(list, k) \in Nat
  <2> DEFINE T == {Min(ToSet(list[i].sources)) : i \in Support(list, k)}
  <2>1. \A i \in 1..n : Min(ToSet(list[i].sources)) \in Nat
    <3> TAKE i \in 1..n
    <3>1. ToSet(list[i].sources) \in SUBSET Nat /\ ToSet(list[i].sources) # {}
      BY <1>1
    <3>2. Min(ToSet(list[i].sources)) \in ToSet(list[i].sources)
      BY <3>1, MinIn
    <3> QED BY <3>1, <3>2, Zenon
  <2>2. T \in SUBSET Nat /\ T # {}
    BY <1>3, <2>1, Zenon
  <2> HIDE DEF T
  <2>3. Min(T) \in T
    BY <2>2, MinIn
  <2> QED BY <2>2, <2>3, Zenon DEF FirstEntry, T
<1>5. f \in [K -> Nat] /\ g \in [K -> Nat]
  <2>1. \A k \in K : FirstPlace(list, k) \in Nat
    <3> TAKE k \in K
    <3> DEFINE p == FirstPlace(list, k)
    <3>1. p \in 1..n
      BY <1>3
    <3> HIDE DEF p
    <3> QED BY <3>1 DEF p
  <2> QED BY <1>4, <2>1, Zenon
<1>6. \A a, b \in K : a # b => g[a] # g[b]
  <2> TAKE a, b \in K
  <2>1. g[a] \in Support(list, a) /\ g[b] \in Support(list, b)
    BY <1>3, Zenon
  <2> QED BY <2>1, Zenon DEF Support
<1>7. Orders(R, K)
  <2> HIDE DEF f, g, K
  <2> QED BY <1>5, <1>6, LexicalOrders
<1>8. o = RankOrder(R, K)
  <2> DEFINE Before(a, b) ==
               \/ FirstEntry(list, a) < FirstEntry(list, b)
               \/ /\ FirstEntry(list, a) = FirstEntry(list, b)
                  /\ FirstPlace(list, a) < FirstPlace(list, b)
             Counted(m) == CHOOSE x \in K : Cardinality({y \in K : Before(y, x)}) = m - 1
             Ranked(m) == CHOOSE x \in K : RankOf(R, K, x) = m - 1
  <2>1. o = [m \in 1..Cardinality(K) |-> Counted(m)]
    BY Zenon DEF InOrder, KeysInOrder
  <2>2. RankOrder(R, K) = [m \in 1..Cardinality(K) |-> Ranked(m)]
    BY Zenon DEF RankOrder
  <2>3. \A x, y \in K : Before(y, x) <=> <<y, x>> \in R
    <3>1. \A k \in K : f[k] = FirstEntry(list, k) /\ g[k] = FirstPlace(list, k)
      BY Zenon
    <3> HIDE DEF f, g, K
    <3> QED BY <3>1 DEF Lexical
  <2> HIDE DEF Before
  <2>4. \A x \in K : Cardinality({y \in K : Before(y, x)}) = RankOf(R, K, x)
    <3> TAKE x \in K
    <3>1. {y \in K : Before(y, x)} = {y \in K : <<y, x>> \in R}
      BY <2>3, Zenon
    <3> QED BY <3>1, Zenon DEF RankOf
  <2>5. \A m : Counted(m) = Ranked(m)
    BY <2>4, Zenon
  <2> HIDE DEF R, K, o, Counted, Ranked
  <2> QED BY <2>1, <2>2, <2>5, Zenon
<1> HIDE DEF o, R, K
<1>9. /\ o \in Seq(K)
      /\ \A i, j \in 1..Len(o) : i < j => <<o[i], o[j]>> \in R
  BY <1>2, <1>7, <1>8, ListedByRank
<1>10. Len(o) \in Nat /\ DOMAIN o = 1..Len(o) /\ \A i \in 1..Len(o) : o[i] \in K
  BY <1>9
<1>11. \A i, j \in 1..Len(o) : i # j => o[i] # o[j]
  <2> TAKE i, j \in 1..Len(o)
  <2>1. o[i] \in K /\ <<o[i], o[i]>> \notin R
    BY <1>7, <1>10 DEF Orders
  <2>2. i # j => i < j \/ j < i
    BY <1>10
  <2>3. i < j => <<o[i], o[j]>> \in R
    BY <1>9
  <2>4. j < i => <<o[j], o[i]>> \in R
    BY <1>9
  <2> QED BY <2>1, <2>2, <2>3, <2>4
<1> QED BY <1>10, <1>11, Zenon DEF KeysListed, IsList, K, o

\* Skills of a profile: each once, with a key, quoting and citing entries.
SoundProfile(list, E) ==
    /\ \A i, j \in DOMAIN list : i # j => list[i].key # list[j].key
    /\ \A i \in DOMAIN list : /\ list[i].key # NoKey
                              /\ list[i].quoted \subseteq list[i].sources
                              /\ list[i].sources \subseteq E

LEMMA AggregatedType ==
    ASSUME NEW E \in SUBSET Nat, SoundSkills(skills, E)
    PROVE  SoundProfile(Aggregated, E)
<1> DEFINE order == KeysInOrder(skills)
           Quoted(key) == {skills[i].quoted : i \in Support(skills, key)}
           Sources(key) == UNION {ToSet(skills[i].sources) : i \in Support(skills, key)}
           all == Aggregated
<1>1. /\ DOMAIN all = DOMAIN order
      /\ \A k \in DOMAIN order : /\ all[k].key = order[k]
                                 /\ all[k].quoted = Quoted(order[k])
                                 /\ all[k].sources = Sources(order[k])
  BY DEF Aggregated, KeysInOrder, KeysOf, Support, FirstEntry, FirstPlace
<1>2. KeysListed(order, skills)
  BY KeysInOrderType
<1>3. /\ DOMAIN skills = 1..Len(skills)
      /\ \A i \in 1..Len(skills) : SoundAssertion(skills[i], E)
  BY DEF SoundSkills
<1>4. ASSUME NEW key
      PROVE  Quoted(key) \subseteq Sources(key) /\ Sources(key) \subseteq E
  <2>1. \A i \in Support(skills, key) :
          /\ ToSet(skills[i].sources) \subseteq E
          /\ skills[i].quoted \in ToSet(skills[i].sources)
    BY <1>3, Zenon DEF Support, SoundAssertion
  <2> QED BY <2>1, Zenon
<1>5. \A key \in KeysOf(skills) : key # NoKey
  BY <1>3, Zenon DEF KeysOf, SoundAssertion, SoundLabel
<1> HIDE DEF order, Quoted, Sources, all
<1>6. \A i, j \in DOMAIN all : i # j => all[i].key # all[j].key
  <2> TAKE i, j \in DOMAIN all
  <2>1. i \in DOMAIN order /\ j \in DOMAIN order
    BY <1>1
  <2>2. all[i].key = order[i] /\ all[j].key = order[j]
    BY <1>1, <2>1
  <2>3. i # j => order[i] # order[j]
    BY <1>2, <2>1 DEF KeysListed
  <2> QED BY <2>2, <2>3
<1>7. \A k \in DOMAIN all : /\ all[k].key # NoKey
                            /\ all[k].quoted \subseteq all[k].sources
                            /\ all[k].sources \subseteq E
  <2> TAKE k \in DOMAIN all
  <2>1. /\ all[k].key = order[k] /\ all[k].quoted = Quoted(order[k])
        /\ all[k].sources = Sources(order[k]) /\ order[k] \in KeysOf(skills)
    BY <1>1, <1>2 DEF KeysListed
  <2> QED BY <1>4, <1>5, <2>1, Zenon
<1> QED BY <1>6, <1>7, Zenon DEF SoundProfile, all

LEMMA InvProject ==
    ASSUME ExtractionInv, Project
    PROVE  ExtractionInv'
<1> DEFINE E == DOMAIN EntriesOf(document)
           N == Len(chunks)
<1>1. /\ stage = "projecting" /\ skills' = Aggregated
      /\ identity' = [name |-> GroundedName(identity.name), contacts |-> Contacts,
                      experiences |-> OfKind(document, "experience"),
                      outline |-> ProjectedOutline(document)]
      /\ stage' = "ended" /\ outcome' = "published"
      /\ UNCHANGED <<call, chunks, batches, batch, fragments, stack, document>>
  BY DEF Project
<1>2. /\ IsList(chunks) /\ Len(chunks) > 0
      /\ GoodDocument(document, Allowed) /\ Covered(document) = Allowed
      /\ SoundSkills(skills, E)
  BY <1>1 DEF ExtractionInv, TextInv, DocumentInv, SkillsInv, WithText, WithOutline
<1>3. N \in Nat /\ Allowed = 1..N /\ chunks' # <<>> /\ Allowed' = Allowed
  <2>1. Len(chunks) \in Nat
    BY <1>2 DEF IsList
  <2>2. Len(<<>>) = 0
    OBVIOUS
  <2>3. chunks # <<>>
    BY <1>2, <2>1, <2>2
  <2> QED BY <1>1, <2>1, <2>3 DEF Allowed
<1>4. E \in SUBSET Nat
  <2>1. EntriesOf(document) \in Seq(EntrySet(Allowed))
    BY <1>2, EntriesType
  <2> QED BY <2>1
<1>5. SoundProfile(skills', E)
  <2> HIDE DEF E
  <2>1. SoundProfile(Aggregated, E)
    BY <1>2, <1>4, AggregatedType
  <2> QED BY <1>1, <2>1
<1>6. identity'.name # "invented"
  BY <1>1 DEF GroundedName
<1>7. UNION {identity'.outline[i].range : i \in DOMAIN identity'.outline} = Allowed'
  <2>1. identity'.outline = ProjectedOutline(document)
    BY <1>1
  <2>2. GoodDocument(document, 1..N) /\ Covered(document) = 1..N
    BY <1>2, <1>3
  <2> HIDE DEF N
  <2>3. LET outline == ProjectedOutline(document) IN
        UNION {outline[i].range : i \in DOMAIN outline} = 1..N
    BY <1>3, <2>2, OutlineRanges
  <2> QED BY <1>3, <2>1, <2>3, Zenon
<1>8. /\ \A v, w \in identity'.contacts : v = w
      /\ identity'.contacts \subseteq {c.value : c \in {d \in Shown : d.grounded}}
  <2>1. stage # "ended" /\ identity'.contacts = Contacts
    BY <1>1
  <2> QED BY <2>1, ContactsType
<1>9. PublishedGrounded'
  <2>1. EntriesOf(document') = EntriesOf(document)
    BY <1>1
  <2>2. /\ \A i, j \in DOMAIN skills' : i # j => skills'[i].key # skills'[j].key
        /\ \A i \in DOMAIN skills' :
             /\ skills'[i].key # NoKey
             /\ skills'[i].quoted \subseteq skills'[i].sources
             /\ skills'[i].sources \subseteq DOMAIN EntriesOf(document')
    BY <1>5, <2>1, Zenon DEF SoundProfile
  <2> QED BY <1>3, <1>6, <1>7, <1>8, <2>2, Zenon DEF PublishedGrounded, Shown
<1>10. StageInv'
  BY <1>1 DEF ExtractionInv, StageInv, Stages
<1>11. TextInv'
  BY <1>1, <1>3 DEF ExtractionInv, TextInv, BeforeText, WithText, WithOutline
<1>12. StackInv' /\ IdentityInv' /\ DocumentInv' /\ SkillsInv'
  BY <1>1 DEF StackInv, IdentityInv, DocumentInv, SkillsInv, WithOutline
<1> QED BY <1>9, <1>10, <1>11, <1>12 DEF ExtractionInv

LEMMA InvNext ==
    ASSUME ExtractionInv, [ExtractionStep]_extractionVars
    PROVE  ExtractionInv'
<1>1. CASE CallTimesOut
  BY <1>1, InvTimeout
<1>2. CASE CallErrors
  BY <1>2, InvErrors
<1>3. CASE SchemaFails
  BY <1>3, InvSchemaFails
<1>4. CASE ReadPdf
  BY <1>4, InvReadPdf
<1>5. CASE Consolidate
  BY <1>5, InvConsolidate
<1>6. CASE BuildSections
  BY <1>6, InvBuildSections
<1>7. CASE MergeSections
  BY <1>7, InvMergeSections
<1>8. CASE RecoverSections
  BY <1>8, InvRecoverSections
<1>9. CASE BatchSkills \/ Project
  BY <1>9, InvBatchSkills, InvProject
<1>10. CASE \E answer \in BatchAnswers : AnswerBatch(answer)
  BY <1>10, InvAnswerBatch
<1>11. CASE \E answer \in OutlineAnswers : AnswerOutline(answer)
  BY <1>11, InvAnswerOutline
<1>12. CASE \E answer \in SkillAnswers : AnswerSkills(answer)
  BY <1>12, InvAnswerSkills
<1>13. CASE \E answer \in JobAnswers : AnswerJob(answer)
  BY <1>13, InvAnswerJob
<1>14. CASE UNCHANGED extractionVars
  BY <1>14, InvStutter
<1> QED BY <1>1, <1>2, <1>3, <1>4, <1>5, <1>6, <1>7, <1>8, <1>9, <1>10, <1>11, <1>12, <1>13,
           <1>14 DEF ExtractionStep

-----------------------------------------------------------------------------
(* The theorems *)

LEMMA InvAlways == ExtractionSpec => []ExtractionInv
<1>1. ExtractionInit => ExtractionInv
  BY InvInit
<1>2. ExtractionInv /\ [ExtractionStep]_extractionVars => ExtractionInv'
  BY InvNext
<1> QED BY <1>1, <1>2, PTL DEF ExtractionSpec

\* Whatever the provider answers, and whenever a call fails, the pipeline is in a known
\* stage with one retry and one repair at most, it has an outcome exactly when it has
\* ended, and an entry of a fragment names chunks of the text, one at least: what a
\* batch returns is clamped to the chunks it was shown.
THEOREM ExtractionIsTypeCorrect == ExtractionSpec => []ExtractionTypeOK
<1>1. ASSUME ExtractionInv
      PROVE  ExtractionTypeOK
  <2>1. \A i \in DOMAIN fragments : \A j \in DOMAIN fragments[i].entries :
          fragments[i].entries[j].sources \in (SUBSET Allowed) \ {{}}
    <3> TAKE i \in DOMAIN fragments
    <3> TAKE j \in DOMAIN fragments[i].entries
    <3>1. fragments[i] \in ClampedFragments(Allowed)
      BY <1>1 DEF ExtractionInv, TextInv
    <3> DEFINE list == fragments[i].entries
    <3>2. list \in Seq(ClampedSet(Allowed))
      BY <3>1 DEF ClampedFragments
    <3> HIDE DEF list
    <3>3. \A k \in DOMAIN list : list[k] \in ClampedSet(Allowed)
      BY <3>2
    <3>4. list[j] \in ClampedSet(Allowed)
      BY <3>3 DEF list
    <3> QED BY <3>4 DEF ClampedSet, list
  <2> QED BY <1>1, <2>1 DEF ExtractionTypeOK, ExtractionInv, StageInv, CallSet
<1> QED BY <1>1, InvAlways, PTL

LEMMA FragmentsTitlesType ==
    ASSUME NEW list \in Seq(FragmentType)
    PROVE  FragmentsTitles(list) \in Seq(Words)
<1> DEFINE ss == [i \in DOMAIN list |-> FragmentTitles(list[i])]
<1>1. Len(list) \in Nat /\ DOMAIN list = 1..Len(list)
      /\ \A i \in 1..Len(list) : list[i] \in FragmentType
  OBVIOUS
<1>2. \A i \in 1..Len(list) : FragmentTitles(list[i]) \in Seq(Words)
  BY <1>1, FragmentTitlesType
<1>3. ss \in [1..Len(list) -> Seq(Words)]
  BY <1>1, <1>2
<1>4. FragmentsTitles(list) = FlattenSeq(ss)
  BY Zenon DEF FragmentsTitles
<1> HIDE DEF ss
<1>5. ss \in Seq(Seq(Words))
  BY <1>1, <1>3, SeqDef
<1> QED BY <1>4, <1>5, Flattened

\* The entries of a document under construction are those of the outline, then the
\* recovered ones.
LEMMA OutlineKept ==
    ASSUME ExtractionInv, stage \in {"sourcing", "skills", "projecting"}
    PROVE  LET entries == EntriesOf(document) IN
           /\ Len(entries) >= Len(OutlineTitles)
           /\ \A i \in DOMAIN entries :
                entries[i].title = IF i <= Len(OutlineTitles) THEN OutlineTitles[i]
                                                              ELSE RecoveredTitle
<1> DEFINE entries == EntriesOf(document)
           kept == OutlineTitles
           q == TitleList(entries)
<1>1. stage \in WithOutline
  BY DEF WithOutline
<1>2. Outline \in Seq(FragmentType)
  BY <1>1, OutlineType
<1>3. kept = FragmentsTitles(Outline) /\ kept \in Seq(Words)
  BY <1>2, OutlineTitled, FragmentsTitlesType
<1>4. GoodDocument(document, Allowed)
  BY DEF ExtractionInv, DocumentInv
<1>5. PICK n \in Nat : Concatenates(DocumentTitles(document), FragmentsTitles(Outline),
                                    RecoveredTitles(n))
  BY DEF ExtractionInv, DocumentInv
<1>6. entries \in Seq(EntrySet(Allowed)) /\ q = DocumentTitles(document)
  BY <1>4, EntriesType
<1>7. Concatenates(q, kept, RecoveredTitles(n))
  BY <1>3, <1>5, <1>6
<1> HIDE DEF kept
<1>8. IsList(kept) /\ kept = [i \in DOMAIN kept |-> kept[i]]
  BY <1>3 DEF IsList
<1>9. /\ IsList(RecoveredTitles(n)) /\ Len(RecoveredTitles(n)) = n
      /\ RecoveredTitles(n) = [i \in DOMAIN RecoveredTitles(n) |-> RecoveredTitles(n)[i]]
      /\ \A i \in 1..n : RecoveredTitles(n)[i] = RecoveredTitle
  <2> DEFINE r == RecoveredTitles(n)
  <2>1. r = [i \in 1..n |-> RecoveredTitle]
    BY DEF RecoveredTitles
  <2>2. r \in [1..n -> {RecoveredTitle}]
    BY <2>1
  <2> HIDE DEF r
  <2>3. r \in Seq({RecoveredTitle}) /\ Len(r) = n
    BY <2>2, SeqDef, LenProperties
  <2> QED BY <2>1, <2>2, <2>3 DEF IsList, r
<1>10. /\ Len(q) = Len(kept) + n
       /\ \A i \in 1..Len(q) :
            q[i] = IF i <= Len(kept) THEN kept[i] ELSE RecoveredTitles(n)[i - Len(kept)]
  <2> HIDE DEF q
  <2> QED BY <1>7, <1>8, <1>9, JoinedLists
<1>11. Len(q) = Len(entries) /\ DOMAIN entries = 1..Len(entries)
       /\ \A i \in DOMAIN entries : q[i] = entries[i].title
  <2>1. \A e \in EntrySet(Allowed) : e.title \in Words
    BY DEF EntrySet
  <2>2. Len(q) = Len(entries)
    BY <1>6, <2>1, TitleListType
  <2> HIDE DEF entries
  <2> QED BY <1>6, <2>2 DEF TitleList
<1> HIDE DEF q, entries
<1>12. Len(kept) \in Nat
  BY <1>8 DEF IsList
<1>13. Len(entries) >= Len(kept)
  BY <1>10, <1>11, <1>12
<1>14. ASSUME NEW i \in DOMAIN entries
       PROVE  entries[i].title = IF i <= Len(kept) THEN kept[i] ELSE RecoveredTitle
  <2>1. i \in 1..Len(q) /\ q[i] = entries[i].title
    BY <1>11
  <2>2. CASE i <= Len(kept)
    BY <1>10, <2>1, <2>2
  <2>3. CASE ~ (i <= Len(kept))
    <3>1. i - Len(kept) \in 1..n
      BY <1>10, <1>12, <2>1, <2>3
    <3>2. q[i] = RecoveredTitles(n)[i - Len(kept)]
      BY <1>10, <2>1, <2>3
    <3> QED BY <1>9, <2>1, <2>3, <3>1, <3>2
  <2> QED BY <2>2, <2>3
<1> QED BY <1>13, <1>14, Zenon DEF kept, entries

\* For every text, every packing of it in chunks and batches, and every answer of the
\* provider: a document references every chunk of the text, and its entries are those of
\* the consolidated outline, once and in order, followed by recovered text
\* (sections_from_fragments, merge_adjacent_sections, apply_coverage_recovery).
THEOREM DocumentsKeepTheirOutline == ExtractionSpec => []DocumentKeepsOutline
<1>1. ASSUME ExtractionInv
      PROVE  DocumentKeepsOutline
  <2> SUFFICES ASSUME stage \in {"sourcing", "skills", "projecting"}
               PROVE  LET entries == EntriesOf(document) IN
                      /\ Covered(document) = Allowed
                      /\ Len(entries) >= Len(OutlineTitles)
                      /\ \A i \in DOMAIN entries :
                           entries[i].title = IF i <= Len(OutlineTitles)
                                              THEN OutlineTitles[i] ELSE RecoveredTitle
                      /\ \A i, j \in DOMAIN entries : i # j => entries[i].id # entries[j].id
    BY Zenon DEF DocumentKeepsOutline
  <2>1. GoodDocument(document, Allowed) /\ Covered(document) = Allowed
    BY <1>1 DEF ExtractionInv, DocumentInv
  <2>2. \A i, j \in DOMAIN EntriesOf(document) :
          i # j => EntriesOf(document)[i].id # EntriesOf(document)[j].id
    BY <2>1, EntriesType
  <2>3. LET entries == EntriesOf(document) IN
        /\ Len(entries) >= Len(OutlineTitles)
        /\ \A i \in DOMAIN entries :
             entries[i].title = IF i <= Len(OutlineTitles) THEN OutlineTitles[i]
                                                           ELSE RecoveredTitle
    BY <1>1, OutlineKept
  <2> QED BY <2>1, <2>2, <2>3, Zenon
<1> QED BY <1>1, InvAlways, PTL

\* Whatever outline the provider returns, a valid document is built from it
\* (build_cv_document_from_consolidated), and the audit refuses one only when its outline
\* ends in a section of the recovery's own heading that holds no entry.
THEOREM EveryOutlineIsBuilt == ExtractionSpec => DocumentIsBuilt
<1> DEFINE Built ==
      \/ outcome' = "none"
      \/ /\ outcome' = "COVERAGE_AUDIT_FAILED"
         /\ document # <<>>
         /\ Last(document).heading = RecoveredHeading
         /\ Last(document).entries = <<>>
<1>1. ASSUME ExtractionInv, ExtractionStep, stage = "recovering"
      PROVE  Built
  <2>1. RecoverSections
    BY <1>1 DEF ExtractionStep, CallTimesOut, CallErrors, SchemaFails, Asks, ReadPdf,
                Consolidate, BuildSections, MergeSections, BatchSkills, Project, AnswerBatch,
                AnswerOutline, AnswerSkills, AnswerJob
  <2> DEFINE built == Recovered(document, Allowed)
  <2>2. GoodDocument(document, Allowed) /\ outcome = "none"
    BY <1>1 DEF ExtractionInv, StageInv, DocumentInv
  <2>3. Allowed \in SUBSET Nat /\ IsFiniteSet(Allowed)
    BY <1>1, OutlineType DEF WithOutline
  <2>4. (~ AuditHolds(built, Allowed) => EndsInEmptyRecovery(document)) /\ ValidDocument(built)
    BY <2>2, <2>3, AuditedType
  <2>5. CASE AuditHolds(built, Allowed)
    BY <2>1, <2>2, <2>4, <2>5 DEF RecoverSections
  <2>6. CASE ~ AuditHolds(built, Allowed)
    BY <2>1, <2>4, <2>6 DEF RecoverSections, Fail, EndsInEmptyRecovery
  <2> QED BY <2>5, <2>6
<1>2. ExtractionInv /\ [ExtractionStep]_extractionVars
        => [stage = "recovering" => Built]_extractionVars
  BY <1>1
<1> QED BY <1>2, InvAlways, PTL DEF ExtractionSpec, DocumentIsBuilt

\* What is published is supported by the text, for every answer of the provider and
\* every canonical form of the labels: each skill stands once and cites entries of the
\* document, among them the ones it quotes; no name is invented; the outline shows the
\* whole text; a contact is the only one with evidence; and the skills of a job are in
\* one group (_guard_batch, _aggregate, guard_extracted_job_post,
\* project_candidate_profile).
THEOREM PublishedIsGrounded == ExtractionSpec => []PublishedGrounded
<1>1. ExtractionInv => PublishedGrounded
  BY DEF ExtractionInv
<1> QED BY <1>1, InvAlways, PTL
=============================================================================
