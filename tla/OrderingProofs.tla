---------------------------- MODULE OrderingProofs ---------------------------
(***************************************************************************)
(* What ORDER BY (Ordering) returns, for every finite table and order: the *)
(* element with n - 1 before it is the n-th, so a listing needs no         *)
(* induction over sequences to be reasoned about.                          *)
(***************************************************************************)
EXTENDS Ordering, FiniteSetTheorems, SequenceTheorems, TLAPS

\* A strict total order on S.
Orders(R, S) ==
    /\ \A x \in S : <<x, x>> \notin R
    /\ \A x, y, z \in S : <<x, y>> \in R /\ <<y, z>> \in R => <<x, z>> \in R
    /\ \A x, y \in S : x # y => <<x, y>> \in R \/ <<y, x>> \in R

\* How many elements of S are before x.
RankOf(R, S, x) == Cardinality({y \in S : <<y, x>> \in R})

\* A later element of a finite ordered set has a greater rank.
LEMMA RankGrows ==
    ASSUME NEW S, IsFiniteSet(S), NEW R, Orders(R, S),
           NEW x \in S, NEW y \in S, <<x, y>> \in R
    PROVE  RankOf(R, S, x) < RankOf(R, S, y)
<1> DEFINE P(z) == {w \in S : <<w, z>> \in R}
<1>1. IsFiniteSet(P(x)) /\ IsFiniteSet(P(y))
  BY FS_Subset
<1>2. P(x) \in SUBSET P(y)
  BY DEF Orders
<1>3. x \in P(y) /\ x \notin P(x)
  BY DEF Orders
<1>4. Cardinality(P(x)) <= Cardinality(P(y)) /\ Cardinality(P(y)) # Cardinality(P(x))
  <2> HIDE DEF P
  <2> QED BY <1>1, <1>2, <1>3, FS_Subset
<1>5. Cardinality(P(x)) \in Nat /\ Cardinality(P(y)) \in Nat
  <2> HIDE DEF P
  <2> QED BY <1>1, FS_CardinalityType
<1>6. Cardinality(P(x)) < Cardinality(P(y))
  <2> HIDE DEF P
  <2> QED BY <1>4, <1>5
<1> QED BY <1>6, Zenon DEF RankOf

\* The ranks of a finite ordered set are 0, 1, ... without a gap.
LEMMA RanksFill ==
    ASSUME NEW S, IsFiniteSet(S), NEW R, Orders(R, S)
    PROVE  /\ Cardinality(S) \in Nat
           /\ \A x \in S : RankOf(R, S, x) \in 0..Cardinality(S) - 1
           /\ \A n \in 1..Cardinality(S) : \E x \in S : RankOf(R, S, x) = n - 1
<1> DEFINE N == Cardinality(S)
           f == [x \in S |-> RankOf(R, S, x)]
<1>1. N \in Nat
  BY FS_CardinalityType
<1>2. ASSUME NEW x \in S
      PROVE  RankOf(R, S, x) \in 0..N - 1
  <2> DEFINE P == {w \in S : <<w, x>> \in R}
  <2>1. P \in SUBSET S /\ x \notin P
    BY DEF Orders
  <2>2. RankOf(R, S, x) = Cardinality(P)
    BY Zenon DEF RankOf
  <2> HIDE DEF P
  <2>3. IsFiniteSet(P) /\ Cardinality(P) <= N /\ Cardinality(P) # N
    BY <2>1, FS_Subset
  <2>4. Cardinality(P) \in Nat
    BY <2>3, FS_CardinalityType
  <2> QED BY <2>2, <2>3, <2>4, <1>1
<1>3. f \in Injection(S, 0..N - 1)
  <2>1. f \in [S -> 0..N - 1]
    BY <1>2
  <2>2. ASSUME NEW x \in S, NEW y \in S, x # y
        PROVE  f[x] # f[y]
    <3>1. RankOf(R, S, x) \in Int /\ RankOf(R, S, y) \in Int
      BY <1>2
    <3>2. RankOf(R, S, x) < RankOf(R, S, y) \/ RankOf(R, S, y) < RankOf(R, S, x)
      BY <2>2, RankGrows DEF Orders
    <3> QED BY <3>1, <3>2
  <2> HIDE DEF f
  <2> QED BY <2>1, <2>2, Zenon DEF Injection, IsInjective
<1>4. IsFiniteSet(0..N - 1) /\ Cardinality(0..N - 1) = N
  BY <1>1, FS_Interval
<1>5. f \in Surjection(S, 0..N - 1)
  <2> HIDE DEF f
  <2> QED BY <1>3, <1>4, FS_Injection
<1>6. ASSUME NEW n \in 1..N
      PROVE  \E x \in S : RankOf(R, S, x) = n - 1
  <2>1. n - 1 \in 0..N - 1
    BY <1>1
  <2>2. PICK x \in S : f[x] = n - 1
    <3> HIDE DEF f
    <3> QED BY <1>5, <2>1 DEF Surjection
  <2> QED BY <2>2
<1> QED BY <1>1, <1>2, <1>6

RankOrder(R, S) ==
    [n \in 1..Cardinality(S) |-> CHOOSE x \in S : RankOf(R, S, x) = n - 1]

\* What InOrder lists.
LEMMA ListedByRank ==
    ASSUME NEW S, IsFiniteSet(S), NEW R, Orders(R, S), NEW o,
           o = RankOrder(R, S)
    PROVE  /\ o \in Seq(S) /\ Len(o) = Cardinality(S)
           /\ \A i, j \in 1..Len(o) : i < j => <<o[i], o[j]>> \in R
           /\ \A x \in S : \E n \in 1..Len(o) : o[n] = x
<1> DEFINE N == Cardinality(S)
<1>1. N \in Nat
  BY RanksFill
<1>2. ASSUME NEW n \in 1..N
      PROVE  o[n] \in S /\ RankOf(R, S, o[n]) = n - 1
  <2>1. o[n] = CHOOSE x \in S : RankOf(R, S, x) = n - 1
    BY Zenon DEF RankOrder
  <2>2. \E x \in S : RankOf(R, S, x) = n - 1
    BY RanksFill
  <2> QED BY <2>1, <2>2, Zenon
<1>3. o \in [1..N -> S]
  <2>1. o = [n \in 1..N |-> CHOOSE x \in S : RankOf(R, S, x) = n - 1]
    BY Zenon DEF RankOrder
  <2>2. \A n \in 1..N : (CHOOSE x \in S : RankOf(R, S, x) = n - 1) \in S
    BY <2>1, <1>2, Zenon
  <2> QED BY <2>1, <2>2, Zenon
<1>4. o \in Seq(S) /\ Len(o) = N
  BY <1>1, <1>3
<1>5. ASSUME NEW i \in 1..N, NEW j \in 1..N, i < j
      PROVE  <<o[i], o[j]>> \in R
  <2>1. o[i] \in S /\ o[j] \in S
    BY <1>2
  <2>2. RankOf(R, S, o[i]) = i - 1 /\ RankOf(R, S, o[j]) = j - 1
    BY <1>2
  <2>3. o[i] # o[j]
    BY <2>2, <1>5
  <2>4. ~ (<<o[j], o[i]>> \in R)
    <3> SUFFICES ASSUME <<o[j], o[i]>> \in R PROVE FALSE
      OBVIOUS
    <3>1. RankOf(R, S, o[j]) < RankOf(R, S, o[i])
      BY <2>1, RankGrows
    <3> QED BY <3>1, <2>2, <1>5, <1>1
  <2> QED BY <2>1, <2>3, <2>4 DEF Orders
<1>6. ASSUME NEW x \in S
      PROVE  \E n \in 1..N : o[n] = x
  <2> DEFINE n == RankOf(R, S, x) + 1
  <2>1. RankOf(R, S, x) \in 0..N - 1
    BY RanksFill
  <2>2. n \in 1..N
    BY <2>1, <1>1
  <2>3. o[n] \in S /\ RankOf(R, S, o[n]) = RankOf(R, S, x)
    <3>1. RankOf(R, S, o[n]) = n - 1
      BY <2>2, <1>2
    <3> QED BY <2>1, <2>2, <1>2, <3>1
  <2>4. o[n] = x
    <3> SUFFICES ASSUME o[n] # x PROVE FALSE
      OBVIOUS
    <3>1. <<o[n], x>> \in R \/ <<x, o[n]>> \in R
      BY <2>3 DEF Orders
    <3>2. RankOf(R, S, o[n]) < RankOf(R, S, x) \/ RankOf(R, S, x) < RankOf(R, S, o[n])
      BY <3>1, <2>3, RankGrows
    <3> QED BY <3>2, <2>3, <2>1
  <2> QED BY <2>2, <2>4
<1> QED BY <1>4, <1>5, <1>6

\* An interval in ascending order.
LEMMA IntervalListed ==
    ASSUME NEW k \in Nat, NEW N \in Nat, k <= N
    PROVE  InOrder(k + 1..N, <) = [n \in 1..N - k |-> k + n]
<1> DEFINE S == k + 1..N
           Least(n) == CHOOSE x \in S : Cardinality({y \in S : y < x}) = n - 1
<1>1. Cardinality(S) = N - k
  <2>1. k + 1 \in Int /\ N \in Int
    OBVIOUS
  <2>2. Cardinality(k + 1..N) = IF k + 1 > N THEN 0 ELSE N - (k + 1) + 1
    BY <2>1, FS_Interval, Zenon
  <2> QED BY <2>2
<1>2. ASSUME NEW x \in S PROVE Cardinality({y \in S : y < x}) = x - 1 - k
  <2>1. {y \in S : y < x} = k + 1..x - 1
    OBVIOUS
  <2>2. Cardinality(k + 1..x - 1) = x - 1 - k
    BY FS_Interval
  <2> QED BY <2>1, <2>2, Zenon
<1>3. ASSUME NEW n \in 1..N - k PROVE Least(n) = k + n
  <2>1. k + n \in S
    OBVIOUS
  <2>2. Cardinality({y \in S : y < k + n}) = n - 1
    <3>1. Cardinality({y \in S : y < k + n}) = (k + n) - 1 - k
      BY <1>2, <2>1
    <3> QED BY <3>1
  <2>3. \A x \in S : Cardinality({y \in S : y < x}) = n - 1 => x = k + n
    <3> SUFFICES ASSUME NEW x \in S, Cardinality({y \in S : y < x}) = n - 1
                 PROVE  x = k + n
      BY Zenon
    <3>1. x - 1 - k = n - 1
      BY <1>2
    <3> QED BY <3>1
  <2> HIDE DEF S
  <2> QED BY <2>1, <2>2, <2>3, Zenon
<1>4. InOrder(S, <) = [n \in 1..N - k |-> Least(n)]
  <2> HIDE DEF S
  <2> QED BY <1>1, Zenon DEF InOrder
<1> HIDE DEF Least
<1> QED BY <1>3, <1>4, Zenon

-----------------------------------------------------------------------------
(* Lists and numbers *)

\* A sequence of whatever elements.
IsList(s) == Len(s) \in Nat /\ DOMAIN s = 1..Len(s)

\* A function on 1..n is a sequence.
LEMMA FunctionIsList ==
    ASSUME NEW n \in Nat, NEW s, DOMAIN s = 1..n, s = [i \in 1..n |-> s[i]]
    PROVE  s \in Seq({s[i] : i \in 1..n}) /\ IsList(s) /\ Len(s) = n
<1> DEFINE S == {s[i] : i \in 1..n}
<1>1. \A i \in 1..n : s[i] \in S
  OBVIOUS
<1> HIDE DEF S
<1>2. s \in [1..n -> S]
  BY <1>1, Zenon
<1>3. s \in Seq(S) /\ Len(s) = n
  BY <1>2, SeqDef, LenProperties
<1> QED BY <1>3 DEF IsList, S

\* Numbers in their order rise, and each is there.
LEMMA NumbersInOrder ==
    ASSUME NEW P \in SUBSET Nat, IsFiniteSet(P)
    PROVE  LET o == InOrder(P, <) IN
           /\ IsList(o) /\ Len(o) = Cardinality(P)
           /\ \A n \in 1..Len(o) : o[n] \in P
           /\ \A i, j \in 1..Len(o) : i < j => o[i] < o[j]
           /\ \A x \in P : \E n \in 1..Len(o) : o[n] = x
<1> DEFINE R == {p \in P \X P : p[1] < p[2]}
           o == InOrder(P, <)
<1>1. \A x, y \in P : <<x, y>> \in R <=> x < y
  OBVIOUS
<1>2. Orders(R, P)
  <2> HIDE DEF R
  <2> QED BY <1>1 DEF Orders
<1>3. \A x \in P : {y \in P : y < x} = {y \in P : <<y, x>> \in R}
  <2> HIDE DEF R
  <2> QED BY <1>1
<1>4. o = RankOrder(R, P)
  <2>1. \A x \in P : Cardinality({y \in P : y < x}) = RankOf(R, P, x)
    BY <1>3, Zenon DEF RankOf
  <2> DEFINE Counted(n) == CHOOSE x \in P : Cardinality({y \in P : y < x}) = n - 1
             Ranked(n) == CHOOSE x \in P : RankOf(R, P, x) = n - 1
  <2>2. \A n : Counted(n) = Ranked(n)
    BY <2>1, Zenon
  <2>3. o = [n \in 1..Cardinality(P) |-> Counted(n)]
    BY Zenon DEF InOrder
  <2>4. RankOrder(R, P) = [n \in 1..Cardinality(P) |-> Ranked(n)]
    BY Zenon DEF RankOrder
  <2> HIDE DEF R, o, Counted, Ranked
  <2> QED BY <2>2, <2>3, <2>4, Zenon
<1> HIDE DEF o
<1>5. /\ o \in Seq(P) /\ Len(o) = Cardinality(P)
      /\ \A i, j \in 1..Len(o) : i < j => <<o[i], o[j]>> \in R
      /\ \A x \in P : \E n \in 1..Len(o) : o[n] = x
  <2> HIDE DEF R
  <2> QED BY <1>2, <1>4, ListedByRank
<1>6. Len(o) \in Nat /\ DOMAIN o = 1..Len(o) /\ \A n \in 1..Len(o) : o[n] \in P
  BY <1>5
<1>7. \A i, j \in 1..Len(o) : i < j => o[i] < o[j]
  <2> HIDE DEF R
  <2> QED BY <1>1, <1>5, <1>6
<1> QED BY <1>5, <1>6, <1>7 DEF o, IsList

Ascending(P) == InOrder(P, <)
ElementsAt(s, P) == [n \in DOMAIN Ascending(P) |-> s[Ascending(P)[n]]]

Selects(q, s, P) ==
    /\ IsList(q) /\ Len(q) = Cardinality(P)
    /\ \A n \in 1..Len(q) : \E i \in P : q[n] = s[i]
    /\ \A i \in P : \E n \in 1..Len(q) : q[n] = s[i]

\* What Where keeps of a list, when P are the places that pass.
LEMMA WhereList ==
    ASSUME NEW s, IsList(s), NEW P \in SUBSET DOMAIN s, NEW q, q = ElementsAt(s, P)
    PROVE  Selects(q, s, P)
<1> DEFINE places == Ascending(P)
<1> HIDE DEF places
<1>1. P \in SUBSET Nat /\ IsFiniteSet(P)
  <2>1. Len(s) \in Nat /\ P \in SUBSET (1..Len(s))
    BY DEF IsList
  <2>2. IsFiniteSet(1..Len(s))
    BY <2>1, FS_Interval
  <2>3. IsFiniteSet(P)
    BY <2>1, <2>2, FS_Subset
  <2> QED BY <2>1, <2>3
<1>2. /\ IsList(places) /\ Len(places) = Cardinality(P)
      /\ \A n \in 1..Len(places) : places[n] \in P
      /\ \A x \in P : \E n \in 1..Len(places) : places[n] = x
  BY <1>1, NumbersInOrder, Zenon DEF places, Ascending
<1>3. q = [n \in DOMAIN places |-> s[places[n]]]
  BY Zenon DEF ElementsAt, places
<1>4. DOMAIN q = 1..Len(places) /\ Len(places) \in Nat
  BY <1>2, <1>3, Zenon DEF IsList
<1>5. IsList(q) /\ Len(q) = Len(places)
  <2>1. q = [n \in 1..Len(places) |-> q[n]]
    BY <1>3, <1>4, Zenon
  <2> QED BY <1>4, <2>1, FunctionIsList
<1>6. \A n \in 1..Len(q) : q[n] = s[places[n]]
  BY <1>2, <1>3, <1>5, Zenon DEF IsList
<1>7. \A n \in 1..Len(q) : \E i \in P : q[n] = s[i]
  BY <1>2, <1>5, <1>6, Zenon
<1>8. ASSUME NEW i \in P PROVE \E n \in 1..Len(q) : q[n] = s[i]
  <2>1. PICK n \in 1..Len(places) : places[n] = i
    BY <1>2
  <2>2. n \in 1..Len(q) /\ q[n] = s[i]
    BY <1>5, <1>6, <2>1
  <2> QED BY <2>2
<1>9. IsList(q) /\ Len(q) = Cardinality(P)
  BY <1>2, <1>5
<1> QED BY <1>7, <1>8, <1>9 DEF Selects

\* A list is a sequence over its own elements.
LEMMA ListRange ==
    ASSUME NEW s, IsList(s), s = [i \in DOMAIN s |-> s[i]]
    PROVE  s \in Seq({s[i] : i \in 1..Len(s)})
<1>1. Len(s) \in Nat /\ DOMAIN s = 1..Len(s) /\ s = [i \in 1..Len(s) |-> s[i]]
  BY Zenon DEF IsList
<1> QED BY <1>1, FunctionIsList

Concatenates(q, s, r) == q = s \o r

\* Where the elements of two joined lists stand.
LEMMA JoinedLists ==
    ASSUME NEW a, IsList(a), a = [i \in DOMAIN a |-> a[i]],
           NEW b, IsList(b), b = [i \in DOMAIN b |-> b[i]], NEW q, Concatenates(q, a, b)
    PROVE  /\ IsList(q) /\ Len(q) = Len(a) + Len(b)
           /\ \A i \in 1..Len(q) :
                q[i] = IF i <= Len(a) THEN a[i] ELSE b[i - Len(a)]
<1> DEFINE S == {a[i] : i \in 1..Len(a)} \cup {b[i] : i \in 1..Len(b)}
<1>1. a \in Seq(S) /\ b \in Seq(S)
  <2>1. a \in Seq({a[i] : i \in 1..Len(a)}) /\ b \in Seq({b[i] : i \in 1..Len(b)})
    BY ListRange
  <2>2. {a[i] : i \in 1..Len(a)} \subseteq S /\ {b[i] : i \in 1..Len(b)} \subseteq S
    BY Zenon
  <2> HIDE DEF S
  <2> QED BY <2>1, <2>2, SeqMonotonic, Zenon
<1> HIDE DEF S
<1>2. /\ a \o b \in Seq(S) /\ Len(a \o b) = Len(a) + Len(b)
      /\ \A i \in 1..Len(a) + Len(b) :
           (a \o b)[i] = IF i <= Len(a) THEN a[i] ELSE b[i - Len(a)]
  <2>1. a \o b \in Seq(S)
    BY <1>1, ConcatProperties
  <2>2. Len(a \o b) = Len(a) + Len(b)
    BY <1>1, ConcatProperties
  <2>3. \A i \in 1..Len(a) + Len(b) :
           (a \o b)[i] = IF i <= Len(a) THEN a[i] ELSE b[i - Len(a)]
    BY <1>1, ConcatProperties
  <2> QED BY <2>1, <2>2, <2>3, Zenon
<1>3. q = a \o b
  BY Zenon DEF Concatenates
<1>4. /\ q \in Seq(S) /\ Len(q) = Len(a) + Len(b)
      /\ \A i \in 1..Len(a) + Len(b) :
           q[i] = IF i <= Len(a) THEN a[i] ELSE b[i - Len(a)]
  BY <1>2, <1>3, Zenon
<1>5. IsList(q)
  BY <1>4, LenProperties, Zenon DEF IsList
<1> QED BY <1>4, <1>5, Zenon

\* A set of numbers that is not empty has a least one.  A proof by induction is
\* one from the least counterexample.
LEMMA NatWF == IsWellFoundedOn({ss \in Nat \X Nat : ss[1] < ss[2]}, Nat)
BY NatLessThanWellFounded DEF OpToRel

LEMMA LeastNumber ==
    ASSUME NEW T \in SUBSET Nat, T # {}
    PROVE  \E x \in T : \A y \in T : x =< y
<1> DEFINE R == {ss \in Nat \X Nat : ss[1] < ss[2]}
<1>1. IsWellFoundedOn(R, Nat)
  BY NatWF
<1>2. \E x \in T : \A y \in T : ~ (<<y, x>> \in R)
  <2> HIDE DEF R
  <2> QED BY <1>1, WFMin
<1>3. \A x, y \in T : y < x => <<y, x>> \in R
  OBVIOUS
<1>4. \A x, y \in T : ~ (y < x) => x =< y
  OBVIOUS
<1> HIDE DEF R
<1> QED BY <1>2, <1>3, <1>4, Zenon

\* Induction up to N, over a set of numbers in place of a formula.
LEMMA UpTo ==
    ASSUME NEW N \in Nat, NEW T, 0 \in T,
           \A n \in 1..N : n - 1 \in T => n \in T
    PROVE  \A n \in 0..N : n \in T
<1> DEFINE Missing == {n \in 0..N : n \notin T}
<1> SUFFICES ASSUME Missing # {} PROVE FALSE
  OBVIOUS
<1>1. Missing \in SUBSET Nat
  OBVIOUS
<1>2. PICK x \in Missing : \A y \in Missing : x =< y
  <2> HIDE DEF Missing
  <2> QED BY <1>1, LeastNumber
<1>3. x \in 1..N
  BY <1>2
<1>4. x - 1 \notin Missing /\ x - 1 \in 0..N
  BY <1>2, <1>3
<1> QED BY <1>2, <1>3, <1>4
=============================================================================
