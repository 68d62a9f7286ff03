---------------------------- MODULE ReadingProofs ----------------------------
(***************************************************************************)
(* Theorems about the readers, for every PDF, set of questions, caps, and  *)
(* set of rows, stamps and limits.                                         *)
(*                                                                         *)
(* Both kinds of walk are proved alike.  A list is a finite set in order   *)
(* (ListedByRank), so a page of it is found from the cursor alone; the     *)
(* invariant says that what was shown is the list down to the cursor and   *)
(* that what is owed is below it.  For the CV it also says that the page a *)
(* call holds would keep it so (CallFits): the call may be overtaken       *)
(* between its sessions.                                                   *)
(*                                                                         *)
(* Equalities with the empty text have definitions of their own (NoError,  *)
(* Granted, Followed), and so have the conditions on stored (There, Gone): *)
(* the provers then take them as facts about names.                        *)
(***************************************************************************)
EXTENDS Reading, OrderingProofs

\* The rows of a table by (created_at, id), newest first.
DistinctIds(T) == \A a, b \in T : a.id = b.id => a = b

\* A scope of rows, newest first, is a list of its rows with strictly falling keys.
LEMMA NewestFirstLists ==
    ASSUME NEW T \in SUBSET Row, IsFiniteSet(T), DistinctIds(T)
    PROVE  LET o == InOrder(T, NewestFirst) IN
           /\ o \in Seq(T)
           /\ \A i, j \in 1..Len(o) : i < j => NewestFirst(o[i], o[j])
           /\ \A x \in T : \E n \in 1..Len(o) : o[n] = x
<1> DEFINE R == {p \in T \X T : NewestFirst(p[1], p[2])}
           o == InOrder(T, NewestFirst)
<1>1. \A x, y \in T : <<x, y>> \in R <=> NewestFirst(x, y)
  OBVIOUS
<1>2. \A x \in T : x.id \in Nat /\ x.stamp \in Nat
  BY HistoryAssumption DEF Row
<1>3. Orders(R, T)
  <2> SUFFICES /\ \A x \in T : ~ NewestFirst(x, x)
               /\ \A x, y, z \in T : NewestFirst(x, y) /\ NewestFirst(y, z)
                                       => NewestFirst(x, z)
               /\ \A x, y \in T : x # y => NewestFirst(x, y) \/ NewestFirst(y, x)
    BY <1>1, Zenon DEF Orders
  <2>1. \A x, y \in T : NewestFirst(x, y) <=>
           y.stamp < x.stamp \/ (y.stamp = x.stamp /\ y.id < x.id)
    BY DEF NewestFirst, Precedes, Key
  <2>2. \A x, y \in T : x # y => x.id # y.id
    BY DEF DistinctIds
  <2> HIDE DEF R
  <2> QED BY <2>1, <2>2, <1>2
<1>4. \A x \in T : {y \in T : NewestFirst(y, x)} = {y \in T : <<y, x>> \in R}
  <2> HIDE DEF R
  <2> QED BY <1>1
<1>5. o = RankOrder(R, T)
  <2>1. \A x \in T : Cardinality({y \in T : NewestFirst(y, x)}) = RankOf(R, T, x)
    BY <1>4, Zenon DEF RankOf
  <2> DEFINE Counted(n) ==
               CHOOSE x \in T : Cardinality({y \in T : NewestFirst(y, x)}) = n - 1
             Ranked(n) == CHOOSE x \in T : RankOf(R, T, x) = n - 1
  <2>2. \A n : Counted(n) = Ranked(n)
    BY <2>1, Zenon
  <2>3. o = [n \in 1..Cardinality(T) |-> Counted(n)]
    BY Zenon DEF InOrder
  <2>4. RankOrder(R, T) = [n \in 1..Cardinality(T) |-> Ranked(n)]
    BY Zenon DEF RankOrder
  <2> HIDE DEF R, o, Counted, Ranked
  <2> QED BY <2>2, <2>3, <2>4, Zenon
<1>6. /\ o \in Seq(T) /\ Len(o) = Cardinality(T)
      /\ \A i, j \in 1..Len(o) : i < j => <<o[i], o[j]>> \in R
      /\ \A x \in T : \E n \in 1..Len(o) : o[n] = x
  <2> HIDE DEF R, o
  <2> QED BY <1>3, <1>5, ListedByRank
<1>7. ASSUME NEW i \in 1..Len(o), NEW j \in 1..Len(o), i < j
      PROVE  NewestFirst(o[i], o[j])
  <2> HIDE DEF R, o
  <2>1. o[i] \in T /\ o[j] \in T
    BY <1>6
  <2> QED BY <1>6, <1>7, <2>1, <1>1
<1> QED BY <1>6, <1>7, Zenon

-----------------------------------------------------------------------------
(* Pages *)

\* The rows a page is taken from.
Listed(scope, cursor) ==
    {row \in rows : /\ scope # NoProfile => row.profile = scope
                    /\ cursor # <<>> => Precedes(Key(row), cursor)}

Occurs(x, s) == \E n \in 1..Len(s) : s[n] = x

\* The first limit of the first limit + 1 are the first limit.
LEMMA FirstOfFirst ==
    ASSUME NEW S, NEW o \in Seq(S), NEW limit \in Nat \ {0}
    PROVE  LET seen == SubSeq(o, 1, SmallerOf(limit + 1, Len(o)))
               page == SubSeq(seen, 1, SmallerOf(limit, Len(seen)))
           IN  /\ page \in Seq(S) /\ Len(page) = SmallerOf(limit, Len(o))
               /\ Len(seen) > limit <=> Len(o) > limit
               /\ \A i \in 1..Len(page) : page[i] = o[i]
<1> DEFINE m == SmallerOf(limit + 1, Len(o))
           seen == SubSeq(o, 1, m)
           k == SmallerOf(limit, Len(seen))
           page == SubSeq(seen, 1, k)
<1>1. Len(o) \in Nat /\ \A i \in 1..Len(o) : o[i] \in S
  OBVIOUS
<1>2. m \in Int /\ m <= Len(o) /\ (m > limit <=> Len(o) > limit) /\ m >= 0
  BY <1>1 DEF SmallerOf
<1>3. \A i \in 1..m : o[i] \in S
  <2> HIDE DEF m
  <2> QED BY <1>1, <1>2
<1>4. seen \in Seq(S) /\ Len(seen) = m /\ \A i \in 1..m : seen[i] = o[i]
  <2> HIDE DEF m
  <2>1. /\ seen \in Seq(S)
        /\ Len(seen) = IF 1 <= m THEN m - 1 + 1 ELSE 0
        /\ \A i \in 1..m - 1 + 1 : seen[i] = o[1 + i - 1]
    BY <1>2, <1>3, SubSeqProperties
  <2> HIDE DEF seen
  <2> QED BY <2>1, <1>2
<1>5. k \in Int /\ k <= m /\ k = SmallerOf(limit, Len(o)) /\ k >= 0
  BY <1>1, <1>2, <1>4 DEF SmallerOf
<1>6. \A i \in 1..k : seen[i] \in S
  <2> HIDE DEF m, k, seen
  <2> QED BY <1>3, <1>4, <1>5, <1>2
<1>7. page \in Seq(S) /\ Len(page) = k /\ \A i \in 1..k : page[i] = seen[i]
  <2> HIDE DEF m, k, seen
  <2>1. /\ page \in Seq(S)
        /\ Len(page) = IF 1 <= k THEN k - 1 + 1 ELSE 0
        /\ \A i \in 1..k - 1 + 1 : page[i] = seen[1 + i - 1]
    BY <1>5, <1>6, SubSeqProperties
  <2> HIDE DEF page
  <2> QED BY <2>1, <1>5
<1> HIDE DEF m, k, seen, page
<1>8. \A i \in 1..Len(page) : page[i] = o[i]
  BY <1>2, <1>4, <1>5, <1>7
<1>9. Len(seen) > limit <=> Len(o) > limit
  BY <1>2, <1>4
<1> QED BY <1>5, <1>7, <1>8, <1>9 DEF m, k, seen, page

\* A keyset page lists the newest rows below its cursor, and its cursor is the
\* key of its last row unless it has them all.
LEMMA PageOfRows ==
    ASSUME rows \in SUBSET Row, IsFiniteSet(rows),
           DistinctIds(rows), NEW scope, NEW cursor, NEW limit \in Limits
    PROVE  LET page == KeysetPage(scope, cursor, limit)
               last == page.items[Len(page.items)]
           IN  /\ page.items \in Seq(Listed(scope, cursor))
               /\ \A i, j \in 1..Len(page.items) :
                     i < j => NewestFirst(page.items[i], page.items[j])
               /\ page.next = <<>> =>
                     \A x \in Listed(scope, cursor) : Occurs(x, page.items)
               /\ page.next # <<>> =>
                     /\ page.items # <<>> /\ page.next = Key(last)
                     /\ \A x \in Listed(scope, cursor) :
                           Occurs(x, page.items) \/ Precedes(Key(x), page.next)
<1> DEFINE M == Listed(scope, cursor)
           o == InOrder(M, NewestFirst)
           seen == SubSeq(o, 1, SmallerOf(limit + 1, Len(o)))
           items == SubSeq(seen, 1, SmallerOf(limit, Len(seen)))
           next == IF Len(seen) > limit THEN Key(items[Len(items)]) ELSE <<>>
           page == KeysetPage(scope, cursor, limit)
<1>1. limit \in Nat \ {0}
  BY HistoryAssumption
<1>2. page = [items |-> items, next |-> next]
  BY Zenon DEF KeysetPage, Before, Listed
<1>3. M \in SUBSET Row /\ IsFiniteSet(M) /\ DistinctIds(M)
  <2>1. M \in SUBSET rows
    BY DEF Listed
  <2> HIDE DEF M
  <2> QED BY <2>1, FS_Subset DEF DistinctIds
<1>4. /\ o \in Seq(M)
      /\ \A i, j \in 1..Len(o) : i < j => NewestFirst(o[i], o[j])
      /\ \A x \in M : \E n \in 1..Len(o) : o[n] = x
  <2> HIDE DEF M
  <2> QED BY <1>3, NewestFirstLists
<1>5. /\ items \in Seq(M) /\ Len(items) = SmallerOf(limit, Len(o))
      /\ Len(seen) > limit <=> Len(o) > limit
      /\ \A i \in 1..Len(items) : items[i] = o[i]
  <2> HIDE DEF M, o
  <2> QED BY <1>1, <1>4, FirstOfFirst
<1> HIDE DEF M, o, seen, items
<1>6. Len(o) \in Nat
  BY <1>4
<1>7. \A i, j \in 1..Len(items) : i < j => NewestFirst(items[i], items[j])
  <2>1. \A i \in 1..Len(items) : i \in 1..Len(o)
    BY <1>5, <1>6, <1>1 DEF SmallerOf
  <2> QED BY <1>4, <1>5, <2>1
<1>8. CASE Len(o) <= limit
  <2>1. next = <<>> /\ Len(items) = Len(o)
    BY <1>5, <1>6, <1>8, <1>1 DEF SmallerOf
  <2>2. \A x \in M : Occurs(x, items)
    BY <1>4, <1>5, <2>1 DEF Occurs
  <2> QED BY <1>2, <1>5, <1>7, <2>1, <2>2 DEF M
<1>9. CASE ~ (Len(o) <= limit)
  <2>1. Len(items) = limit /\ next = Key(items[limit])
    BY <1>5, <1>6, <1>9, <1>1 DEF SmallerOf
  <2>2. items # <<>> /\ next # <<>>
    BY <2>1, <1>1 DEF Key
  <2>3. ASSUME NEW x \in M, ~ Occurs(x, items)
        PROVE  Precedes(Key(x), next)
    <3>1. PICK n \in 1..Len(o) : o[n] = x
      BY <1>4
    <3>2. ~ (n <= limit)
      BY <1>1, <1>5, <2>1, <2>3, <3>1 DEF Occurs
    <3>3. limit \in 1..Len(o) /\ limit < n /\ items[limit] = o[limit]
      BY <1>1, <1>5, <1>6, <2>1, <3>2
    <3>4. NewestFirst(o[limit], o[n])
      BY <1>4, <3>3
    <3> QED BY <2>1, <3>1, <3>3, <3>4 DEF NewestFirst
  <2> QED BY <1>2, <1>5, <1>7, <2>1, <2>2, <2>3 DEF M
<1> QED BY <1>8, <1>9, Zenon
\* What Where keeps of the indices from k + 1 on.
LEMMA IndicesFrom ==
    ASSUME NEW N \in Nat, NEW k \in 0..N, NEW T \in SUBSET (1..N),
           \A i \in 1..N : i \in T <=> i > k
    PROVE  InOrder(T, <) = [n \in 1..N - k |-> k + n]
<1>1. k \in Nat /\ k <= N
  OBVIOUS
<1>2. \A i : i \in T <=> i \in k + 1..N
  <2>1. \A i : i \in T => i \in 1..N
    BY Zenon
  <2>2. \A i \in k + 1..N : i \in 1..N /\ i > k
    BY <1>1
  <2>3. \A i \in 1..N : i > k => i \in k + 1..N
    BY <1>1
  <2> QED BY <2>1, <2>2, <2>3, Zenon
<1>3. T = k + 1..N
  BY <1>2, Zenon
<1>4. InOrder(k + 1..N, <) = [n \in 1..N - k |-> k + n]
  BY <1>1, IntervalListed
<1> QED BY <1>3, <1>4, Zenon

\* The chunk rows that follow a cursor are those from the k-th on.
Past(cursor, k) ==
    \A i \in 1..Len(Chunks) :
        (cursor # <<>> => Precedes(cursor, <<published, i - 1>>)) <=> i > k

\* A page of chunks holds the ordinals that follow the k behind the cursor.
LEMMA PageOfChunks ==
    ASSUME Stored, NEW cursor, NEW k \in 0..Len(Chunks),
           Past(cursor, k), NEW limit \in Nat \ {0}
    PROVE  LET page == ChunkPage(cursor, limit)
               left == Len(Chunks) - k
           IN  /\ Len(Chunks) \in Nat /\ DOMAIN Chunks = 1..Len(Chunks)
               /\ page.items =
                     [i \in 1..SmallerOf(limit, left) |-> (k + i) - 1]
               /\ page.next = IF left > limit
                              THEN <<published, (k + limit) - 1>> ELSE <<>>
<1> DEFINE N == Len(Chunks)
           Test(i) == cursor # <<>> => Precedes(cursor, <<published, i - 1>>)
           matching == [n \in 1..N - k |-> k + n]
           seen == SubSeq(matching, 1, SmallerOf(limit + 1, Len(matching)))
           shown == SubSeq(seen, 1, SmallerOf(limit, Len(seen)))
           page == ChunkPage(cursor, limit)
<1>1. N \in Nat /\ DOMAIN Chunks = 1..N
  BY ReadingAssumption
<1>2. ChunkIndices(Stored) = [i \in 1..N |-> i]
  BY <1>1, Zenon DEF ChunkIndices
<1>3. Where([i \in 1..N |-> i], Test) = matching
  <2> DEFINE T == {i \in DOMAIN [n \in 1..N |-> n] : Test([n \in 1..N |-> n][i])}
             places == InOrder(T, <)
  <2>1. T \in SUBSET (1..N) /\ \A i \in 1..N : i \in T <=> i > k
    BY DEF Past
  <2>2. places = matching
    <3> HIDE DEF T
    <3> QED BY <1>1, <2>1, IndicesFrom
  <2>3. Where([i \in 1..N |-> i], Test)
          = [n \in DOMAIN places |-> [i \in 1..N |-> i][places[n]]]
    BY Zenon DEF Where
  <2> HIDE DEF T, places
  <2>4. [n \in DOMAIN places |-> [i \in 1..N |-> i][places[n]]] = matching
    BY <2>2, <1>1
  <2> QED BY <2>3, <2>4, Zenon
<1>4. ChunksAfter(cursor, limit + 1) = seen
  BY <1>2, <1>3, Zenon DEF ChunksAfter
<1>5. matching \in Seq(Nat) /\ Len(matching) = N - k
  BY <1>1
<1>6. /\ shown \in Seq(Nat) /\ Len(shown) = SmallerOf(limit, N - k)
      /\ Len(seen) > limit <=> N - k > limit
      /\ \A i \in 1..Len(shown) : shown[i] = matching[i]
  <2> HIDE DEF matching
  <2>1. /\ shown \in Seq(Nat) /\ Len(shown) = SmallerOf(limit, Len(matching))
        /\ Len(seen) > limit <=> Len(matching) > limit
        /\ \A i \in 1..Len(shown) : shown[i] = matching[i]
    BY <1>5, FirstOfFirst
  <2> HIDE DEF seen, shown
  <2> QED BY <1>5, <2>1
<1>7. page = [items |-> Each(LAMBDA i : i - 1, shown),
              next |-> IF Len(seen) > limit
                       THEN <<published, shown[Len(shown)] - 1>> ELSE <<>>]
  BY <1>4, Zenon DEF ChunkPage
<1> HIDE DEF seen, shown, page
<1>8. \A i \in 1..Len(shown) : shown[i] = k + i
  <2> HIDE DEF matching
  <2>1. \A i \in 1..Len(shown) : i \in 1..N - k
    <3>1. Len(shown) <= N - k /\ Len(shown) \in Int
      <4>1. SmallerOf(limit, N - k) <= N - k /\ SmallerOf(limit, N - k) \in Int
        BY <1>1 DEF SmallerOf
      <4>2. Len(shown) = SmallerOf(limit, N - k)
        BY <1>6
      <4> QED BY <4>1, <4>2, Zenon
    <3> QED BY <1>1, <3>1
  <2> USE DEF matching
  <2> QED BY <1>6, <2>1
<1>9. page.items = [i \in 1..SmallerOf(limit, N - k) |-> (k + i) - 1]
  BY <1>6, <1>7, <1>8 DEF Each
<1>10. page.next = IF N - k > limit THEN <<published, (k + limit) - 1>> ELSE <<>>
  <2>1. CASE N - k > limit
    <3>1. Len(shown) = limit
      BY <1>1, <1>6, <2>1 DEF SmallerOf
    <3>2. page.next = <<published, shown[limit] - 1>>
      <4> HIDE DEF matching
      <4> QED BY <1>6, <1>7, <2>1, <3>1
    <3>3. shown[limit] = k + limit
      BY <1>8, <3>1
    <3> QED BY <2>1, <3>2, <3>3
  <2>2. CASE ~ (N - k > limit)
    BY <1>6, <1>7, <2>2
  <2> QED BY <2>1, <2>2
<1> QED BY <1>1, <1>9, <1>10 DEF page

-----------------------------------------------------------------------------
(* The walk over rows *)

Owns(row) == view.kind = "workspace" \/ row.profile = view.scope

\* A walk that RowWalkExact speaks of: its client names the owner.
Named == view.kind # "chunks" /\ (view.kind = "workspace" \/ view.scope # NoProfile)

\* Still below the cursor, for the pages to come.
Pending(row) ==
    view.at = "paging" /\ (view.next = <<>> \/ Precedes(Key(row), view.next))

Sorted(s) ==
    \A i, j \in 1..Len(s) : i < j =>
        IF view.kind = "workspace" THEN NewestFirst(s[i], s[j])
                                   ELSE NewestFirst(s[j], s[i])

\* The rows are shown down to the cursor, and those of the beginning that are
\* not shown are still to come.
RowWalk ==
    view.at \in {"paging", "complete"} /\ Named =>
        /\ view.shown \in Seq(Row)
        /\ Sorted(view.shown)
        /\ \A i \in 1..Len(view.shown) : Owns(view.shown[i])
        /\ view.next # <<>> =>
             /\ view.next \in Nat \X Nat
             /\ \A i \in 1..Len(view.shown) :
                  ~ Precedes(Key(view.shown[i]), view.next)
        /\ view.at = "paging" /\ view.next = <<>> => view.shown = <<>>
        /\ \A row \in view.began \cap rows :
             Occurs(row, view.shown) \/ Pending(row)

RowsInv ==
    /\ HistoryTypeOK
    /\ IsFiniteSet(rows) /\ DistinctIds(rows)
    /\ view = [at |-> view.at, kind |-> view.kind, scope |-> view.scope,
               next |-> view.next, shown |-> view.shown, began |-> view.began,
               editions |-> view.editions]
    /\ view.kind = "workspace" => view.scope = NoProfile
    /\ view.began \subseteq Row /\ {row.id : row \in view.began} \subseteq used
    /\ \A row \in view.began : Owns(row)
    /\ RowWalk

-----------------------------------------------------------------------------
(* The walk over chunks *)

\* The ordinals up to the cursor are shown; if all pages came from one
\* publication, nothing else is.
ChunksShown ==
    /\ view.shown \in Seq(0..Len(Chunks) - 1)
    /\ view.editions \subseteq 0..extracted /\ IsFiniteSet(view.editions)
    /\ view.next # <<>> =>
         /\ view.next \in view.editions \X (0..Len(Chunks) - 1)
         /\ owned /\ Stored => view.next[1] <= published
         /\ \A n \in 0..view.next[2] : Occurs(n, view.shown)
         /\ view.editions = {view.next[1]} =>
              view.shown = [i \in 1..view.next[2] + 1 |-> i - 1]
    /\ view.next = <<>> =>
         IF view.at = "paging"
         THEN view.shown = <<>> /\ view.editions = {}
         ELSE /\ \A n \in 0..Len(Chunks) - 1 : Occurs(n, view.shown)
              /\ \A e : view.editions = {e} =>
                   view.shown = [i \in 1..Len(Chunks) |-> i - 1]

ChunkWalk ==
    /\ published <= extracted /\ extracted \in Nat /\ published \in Nat
    /\ view.at \in {"paging", "complete"} /\ view.kind = "chunks" =>
         ChunksShown /\ (view.at = "complete" => view.next = <<>>)

-----------------------------------------------------------------------------
(* Rows come and go *)

\* What concerns another reader leaves the walk over rows alone.
LEMMA RowsUntouched ==
    ASSUME RowsInv, UNCHANGED historyVars
    PROVE  RowsInv'
BY DEF RowsInv, historyVars, HistoryTypeOK, RowWalk, Named, Sorted, Owns, Pending,
       Occurs, DistinctIds

\* A new row is not one of the beginning: ids are not given out twice.
LEMMA RowAdded ==
    ASSUME RowsInv, NEW row \in Row, AddRow(row)
    PROVE  RowsInv'
<1> USE DEF RowsInv
<1>1. HistoryTypeOK'
  BY DEF HistoryTypeOK, AddRow
<1>2. IsFiniteSet(rows')
  BY FS_AddElement, Zenon DEF AddRow
<1>3. DistinctIds(rows')
  <2>1. \A other \in rows : other.id \in used
    BY DEF HistoryTypeOK
  <2> QED BY <2>1 DEF DistinctIds, AddRow
<1>4. row \notin view.began
  BY DEF AddRow
<1>5. RowWalk'
  BY <1>4 DEF RowWalk, Named, Sorted, Owns, Pending, Occurs, AddRow
<1>6. UNCHANGED view /\ used \subseteq used'
  BY DEF AddRow
<1> QED BY <1>1, <1>2, <1>3, <1>5, <1>6 DEF Owns

\* A row that goes is owed to nobody.
LEMMA RowRemoved ==
    ASSUME RowsInv, NEW row \in rows, RemoveRow(row)
    PROVE  RowsInv'
<1> USE DEF RowsInv
<1>1. rows' \in SUBSET rows /\ UNCHANGED <<view, used, selected, live>>
  BY DEF RemoveRow
<1>2. HistoryTypeOK'
  BY <1>1 DEF HistoryTypeOK
<1>3. IsFiniteSet(rows')
  BY <1>1, FS_Subset
<1>4. DistinctIds(rows')
  BY <1>1 DEF DistinctIds
<1>5. RowWalk'
  BY <1>1 DEF RowWalk, Named, Sorted, Owns, Pending, Occurs
<1> QED BY <1>1, <1>2, <1>3, <1>4, <1>5 DEF Owns

\* Which profile is selected or ready does not show in the rows.
LEMMA SelectionWritten ==
    ASSUME RowsInv, SelectionWrites
    PROVE  RowsInv'
<1> USE DEF RowsInv
<1>1. /\ UNCHANGED <<rows, used, view>>
      /\ selected' \in Profiles \cup {NoProfile} /\ live' \subseteq Profiles
  BY DEF SelectionWrites, Activate, Completes, HistoryTypeOK
<1>2. HistoryTypeOK'
  BY <1>1 DEF HistoryTypeOK
<1>3. RowWalk'
  BY <1>1 DEF RowWalk, Named, Sorted, Owns, Pending, Occurs
<1> QED BY <1>1, <1>2, <1>3 DEF Owns, DistinctIds

-----------------------------------------------------------------------------
(* The client pages *)

\* A walk begins with nothing shown and everything to come.
LEMMA ViewOpened ==
    ASSUME RowsInv, NEW kind, NEW scope, OpenView(kind, scope)
    PROVE  RowsInv'
<1> USE DEF RowsInv
<1>1. UNCHANGED <<selected, live, rows, used>>
  BY DEF OpenView
<1>2. view' = [at |-> "paging", kind |-> kind, scope |-> scope, next |-> <<>>,
               shown |-> <<>>, editions |-> {},
               began |-> {row \in rows : kind = "workspace" \/ row.profile = scope}]
  BY DEF OpenView, NoView
<1>3. HistoryTypeOK'
  BY <1>1, <1>2 DEF HistoryTypeOK
<1>4. view'.began \subseteq rows /\ \A row \in view'.began : Owns(row)'
  BY <1>2 DEF Owns
<1>5. RowWalk'
  BY <1>2, <1>4 DEF RowWalk, Sorted, Pending
<1>6. kind = "workspace" => scope = NoProfile
  BY DEF OpenView
<1>7. view'.began \subseteq Row /\ {row.id : row \in view'.began} \subseteq used'
  BY <1>1, <1>4 DEF HistoryTypeOK
<1> QED BY <1>1, <1>2, <1>3, <1>4, <1>5, <1>6, <1>7 DEF DistinctIds

\* A walk that is refused promises nothing.
LEMMA ViewRefused ==
    ASSUME RowsInv, Refuse
    PROVE  RowsInv'
<1> USE DEF RowsInv
<1>1. UNCHANGED <<selected, live, rows, used>>
  BY DEF Refuse
<1>2. view' = [at |-> "failed", kind |-> view.kind, scope |-> view.scope,
               next |-> view.next, shown |-> view.shown, began |-> view.began,
               editions |-> view.editions]
  BY DEF Refuse
<1>3. HistoryTypeOK'
  BY <1>1, <1>2 DEF HistoryTypeOK
<1>4. RowWalk'
  BY <1>2 DEF RowWalk
<1> QED BY <1>1, <1>2, <1>3, <1>4 DEF Owns, DistinctIds

\* Showing a page changes these fields of the view and no other.
LEMMA ItemsShown ==
    ASSUME NEW page, NEW shown, ShowItems(page, shown),
           view = [at |-> view.at, kind |-> view.kind, scope |-> view.scope,
                   next |-> view.next, shown |-> view.shown, began |-> view.began,
                   editions |-> view.editions]
    PROVE  view' = [at |-> IF page.next = <<>> THEN "complete" ELSE view.at,
                    kind |-> view.kind, scope |-> view.scope, next |-> page.next,
                    shown |-> shown, began |-> view.began,
                    editions |-> view.editions \cup {published}]
BY DEF ShowItems

\* Chunks that are shown leave the rows alone.
LEMMA ChunksPaged ==
    ASSUME RowsInv, NextChunks
    PROVE  RowsInv'
<1> USE DEF RowsInv
<1>1. UNCHANGED <<selected, live, rows, used>> /\ view.kind = "chunks"
  BY DEF NextChunks
<1>2. PICK page, shown : ShowItems(page, shown)
  BY Zenon DEF NextChunks
<1>3. /\ view'.at = IF page.next = <<>> THEN "complete" ELSE view.at
      /\ view' = [at |-> view'.at, kind |-> view.kind, scope |-> view.scope,
                  next |-> page.next, shown |-> shown, began |-> view.began,
                  editions |-> view.editions \cup {published}]
  BY <1>2, ItemsShown
<1>4. HistoryTypeOK'
  BY <1>1, <1>3 DEF HistoryTypeOK
<1>5. RowWalk'
  BY <1>1, <1>3 DEF RowWalk, Named
<1> QED BY <1>1, <1>3, <1>4, <1>5 DEF Owns, DistinctIds

\* Newest first, and the other way round.
Falling(s) == \A i, j \in 1..Len(s) : i < j => NewestFirst(s[i], s[j])
Rising(s) == \A i, j \in 1..Len(s) : i < j => NewestFirst(s[j], s[i])

\* Where the elements of two joined sequences stand.
LEMMA AppendedRows ==
    ASSUME NEW S, NEW s \in Seq(S), NEW r \in Seq(S), NEW q, Concatenates(q, s, r)
    PROVE  /\ q \in Seq(S)
           /\ \A x : Occurs(x, q) <=> Occurs(x, s) \/ Occurs(x, r)
           /\ \A i, j \in 1..Len(q) : i < j =>
                \/ \E a, b \in 1..Len(s) : a < b /\ q[i] = s[a] /\ q[j] = s[b]
                \/ \E a, b \in 1..Len(r) : a < b /\ q[i] = r[a] /\ q[j] = r[b]
                \/ \E a \in 1..Len(s), b \in 1..Len(r) : q[i] = s[a] /\ q[j] = r[b]
<1>1. /\ q \in Seq(S) /\ Len(q) = Len(s) + Len(r)
      /\ \A i \in 1..Len(s) + Len(r) :
           q[i] = IF i <= Len(s) THEN s[i] ELSE r[i - Len(s)]
  BY ConcatProperties DEF Concatenates
<1>2. Len(s) \in Nat /\ Len(r) \in Nat
  OBVIOUS
<1>3. \A a \in 1..Len(s) : a \in 1..Len(q) /\ q[a] = s[a]
  BY <1>1, <1>2
<1>4. \A b \in 1..Len(r) : b + Len(s) \in 1..Len(q) /\ q[b + Len(s)] = r[b]
  BY <1>1, <1>2
<1>5. ASSUME NEW i \in 1..Len(q)
      PROVE  \/ i \in 1..Len(s) /\ q[i] = s[i]
             \/ i > Len(s) /\ i - Len(s) \in 1..Len(r) /\ q[i] = r[i - Len(s)]
  BY <1>1, <1>2
<1>6. ASSUME NEW x
      PROVE  Occurs(x, q) <=> Occurs(x, s) \/ Occurs(x, r)
  BY <1>3, <1>4, <1>5 DEF Occurs
<1>7. ASSUME NEW i \in 1..Len(q), NEW j \in 1..Len(q), i < j
      PROVE  \/ \E a, b \in 1..Len(s) : a < b /\ q[i] = s[a] /\ q[j] = s[b]
             \/ \E a, b \in 1..Len(r) : a < b /\ q[i] = r[a] /\ q[j] = r[b]
             \/ \E a \in 1..Len(s), b \in 1..Len(r) : q[i] = s[a] /\ q[j] = r[b]
  <2>1. CASE j <= Len(s)
    <3>1. i \in 1..Len(s) /\ j \in 1..Len(s)
      BY <1>2, <1>7, <2>1
    <3> QED BY <1>3, <1>7, <3>1
  <2>2. CASE ~ (i <= Len(s))
    <3> DEFINE a == i - Len(s)  b == j - Len(s)
    <3>1. a \in 1..Len(r) /\ b \in 1..Len(r) /\ a < b
      BY <1>1, <1>2, <1>7, <2>2
    <3>2. q[i] = r[a] /\ q[j] = r[b]
      BY <1>1, <1>2, <1>7, <2>2
    <3> HIDE DEF a, b
    <3> QED BY <3>1, <3>2
  <2>3. CASE i <= Len(s) /\ ~ (j <= Len(s))
    <3>1. i \in 1..Len(s) /\ q[i] = s[i]
      BY <1>2, <1>3, <1>7, <2>3
    <3>2. j - Len(s) \in 1..Len(r) /\ q[j] = r[j - Len(s)]
      BY <1>2, <1>5, <1>7, <2>3
    <3> QED BY <3>1, <3>2
  <2> QED BY <2>1, <2>2, <2>3
<1> QED BY <1>1, <1>6, <1>7, Zenon

\* Two falling sequences join to one if the first ends above the second.
LEMMA AppendedOrder ==
    ASSUME NEW s \in Seq(Row), NEW r \in Seq(Row), NEW q, Concatenates(q, s, r)
    PROVE  /\ /\ Falling(s) /\ Falling(r)
              /\ \A i \in 1..Len(s), j \in 1..Len(r) : NewestFirst(s[i], r[j])
              => Falling(q)
           /\ /\ Rising(s) /\ Rising(r)
              /\ \A i \in 1..Len(s), j \in 1..Len(r) : NewestFirst(r[j], s[i])
              => Rising(q)
<1>1. \A i, j \in 1..Len(q) : i < j =>
        \/ \E a, b \in 1..Len(s) : a < b /\ q[i] = s[a] /\ q[j] = s[b]
        \/ \E a, b \in 1..Len(r) : a < b /\ q[i] = r[a] /\ q[j] = r[b]
        \/ \E a \in 1..Len(s), b \in 1..Len(r) : q[i] = s[a] /\ q[j] = r[b]
  BY AppendedRows
<1>2. ASSUME Falling(s), Falling(r),
             \A i \in 1..Len(s), j \in 1..Len(r) : NewestFirst(s[i], r[j])
      PROVE  Falling(q)
  <2> SUFFICES ASSUME NEW i \in 1..Len(q), NEW j \in 1..Len(q), i < j
               PROVE  NewestFirst(q[i], q[j])
    BY DEF Falling
  <2>1. CASE \E a, b \in 1..Len(s) : a < b /\ q[i] = s[a] /\ q[j] = s[b]
    BY <1>2, <2>1 DEF Falling
  <2>2. CASE \E a, b \in 1..Len(r) : a < b /\ q[i] = r[a] /\ q[j] = r[b]
    BY <1>2, <2>2 DEF Falling
  <2>3. CASE \E a \in 1..Len(s), b \in 1..Len(r) : q[i] = s[a] /\ q[j] = r[b]
    BY <1>2, <2>3
  <2> QED BY <1>1, <2>1, <2>2, <2>3
<1>3. ASSUME Rising(s), Rising(r),
             \A i \in 1..Len(s), j \in 1..Len(r) : NewestFirst(r[j], s[i])
      PROVE  Rising(q)
  <2> SUFFICES ASSUME NEW i \in 1..Len(q), NEW j \in 1..Len(q), i < j
               PROVE  NewestFirst(q[j], q[i])
    BY DEF Rising
  <2>1. CASE \E a, b \in 1..Len(s) : a < b /\ q[i] = s[a] /\ q[j] = s[b]
    BY <1>3, <2>1 DEF Rising
  <2>2. CASE \E a, b \in 1..Len(r) : a < b /\ q[i] = r[a] /\ q[j] = r[b]
    BY <1>3, <2>2 DEF Rising
  <2>3. CASE \E a \in 1..Len(s), b \in 1..Len(r) : q[i] = s[a] /\ q[j] = r[b]
    BY <1>3, <2>3
  <2> QED BY <1>1, <2>1, <2>2, <2>3
<1> QED BY <1>2, <1>3

\* A falling page is rising when it is turned round, with the same rows.
LEMMA ReversedRows ==
    ASSUME NEW s \in Seq(Row)
    PROVE  /\ Reverse(s) \in Seq(Row) /\ Len(Reverse(s)) = Len(s)
           /\ \A x : Occurs(x, Reverse(s)) <=> Occurs(x, s)
           /\ \A i \in 1..Len(s) : /\ (Len(s) - i) + 1 \in 1..Len(s)
                                   /\ Reverse(s)[i] = s[(Len(s) - i) + 1]
<1>1. Len(s) \in Nat
  OBVIOUS
<1>2. Reverse(s) = [i \in 1..Len(s) |-> s[(Len(s) - i) + 1]]
  BY Zenon DEF Reverse
<1>3. \A i \in 1..Len(s) : (Len(s) - i) + 1 \in 1..Len(s)
  BY <1>1
<1>4. \A i \in 1..Len(s) : s[(Len(s) - i) + 1] \in Row
  BY <1>3
<1>5. Reverse(s) \in Seq(Row) /\ Len(Reverse(s)) = Len(s)
  BY <1>1, <1>2, <1>4
<1>6. \A i \in 1..Len(s) : Reverse(s)[i] = s[(Len(s) - i) + 1]
  BY <1>2
<1>7. \A i \in 1..Len(s) : Reverse(s)[(Len(s) - i) + 1] = s[i]
  BY <1>1, <1>3, <1>6
<1>8. ASSUME NEW x
      PROVE  Occurs(x, Reverse(s)) <=> Occurs(x, s)
  BY <1>3, <1>5, <1>6, <1>7 DEF Occurs
<1> QED BY <1>3, <1>5, <1>6, <1>8

\* What a page adds to a walk that names its owner: rows of the owner, below
\* the cursor and newest first, and every row down to its own cursor.
Continues(page) ==
    /\ page.items \in Seq(Row)
    /\ \A i \in 1..Len(page.items) :
         /\ Owns(page.items[i])
         /\ view.next # <<>> => Precedes(Key(page.items[i]), view.next)
         /\ page.next # <<>> => ~ Precedes(Key(page.items[i]), page.next)
    /\ \A i, j \in 1..Len(page.items) :
         i < j => NewestFirst(page.items[i], page.items[j])
    /\ page.next # <<>> =>
         /\ page.next \in Nat \X Nat
         /\ view.next # <<>> => Precedes(page.next, view.next)
    /\ \A row \in rows :
         Owns(row) /\ (view.next = <<>> \/ Precedes(Key(row), view.next)) =>
           \/ Occurs(row, page.items)
           \/ page.next # <<>> /\ Precedes(Key(row), page.next)

\* A page of rows is below what was shown, and leaves only rows below its cursor.
LEMMA PageContinues ==
    ASSUME RowsInv, Named, ~ Refused, NEW limit \in Limits
    PROVE  Continues(KeysetPage(IF view.kind = "selected" THEN selected
                                ELSE view.scope, view.next, limit))
<1> DEFINE scope == IF view.kind = "selected" THEN selected ELSE view.scope
           M == Listed(scope, view.next)
           page == KeysetPage(scope, view.next, limit)
           last == page.items[Len(page.items)]
<1>1. rows \in SUBSET Row /\ IsFiniteSet(rows) /\ DistinctIds(rows)
  BY DEF RowsInv, HistoryTypeOK
<1>2. /\ page.items \in Seq(M)
      /\ \A i, j \in 1..Len(page.items) :
            i < j => NewestFirst(page.items[i], page.items[j])
      /\ page.next = <<>> => \A x \in M : Occurs(x, page.items)
      /\ page.next # <<>> =>
            /\ page.items # <<>> /\ page.next = Key(last)
            /\ \A x \in M : Occurs(x, page.items) \/ Precedes(Key(x), page.next)
  <2> HIDE DEF scope, M
  <2> QED BY <1>1, PageOfRows DEF M
<1>3. ASSUME NEW row \in Row
      PROVE  (scope # NoProfile => row.profile = scope) <=> Owns(row)
  <2>1. CASE view.kind = "selected"
    <3>1. view.scope # NoProfile /\ scope = selected /\ selected = view.scope
      BY <2>1 DEF Named, Refused, SelectionRefused
    <3> QED BY <2>1, <3>1 DEF Owns
  <2>2. CASE view.kind = "workspace"
    BY <2>2 DEF Owns, RowsInv
  <2>3. CASE view.kind \notin {"selected", "workspace"}
    BY <2>3 DEF Owns, Named
  <2> QED BY <2>1, <2>2, <2>3
<1>4. \A row \in rows :
        row \in M <=> Owns(row) /\ (view.next = <<>> \/ Precedes(Key(row), view.next))
  <2> HIDE DEF scope
  <2> QED BY <1>1, <1>3 DEF Listed
<1>5. M \in SUBSET rows
  BY DEF Listed
<1> HIDE DEF scope, M, page
<1>6. \A row \in rows : Key(row) \in Nat \X Nat /\ row.id \in Nat /\ row.stamp \in Nat
  BY HistoryAssumption, <1>1 DEF Row, Key
<1>7. Len(page.items) \in Nat /\ \A i \in 1..Len(page.items) : page.items[i] \in M
  BY <1>2
<1>8. ASSUME page.next # <<>>
      PROVE  /\ page.next \in Nat \X Nat
             /\ view.next # <<>> => Precedes(page.next, view.next)
  <2>1. Len(page.items) \in 1..Len(page.items)
    BY <1>2, <1>8, EmptySeq
  <2>2. last \in M /\ page.next = Key(last)
    BY <1>2, <1>7, <1>8, <2>1 DEF last
  <2> QED BY <1>4, <1>5, <1>6, <2>2
<1>9. ASSUME NEW i \in 1..Len(page.items), page.next # <<>>
      PROVE  ~ Precedes(Key(page.items[i]), page.next)
  <2> DEFINE n == Len(page.items)
  <2>1. n \in 1..n /\ page.next = Key(page.items[n])
    BY <1>2, <1>7, <1>9
  <2>2. page.items[i] \in rows /\ page.items[n] \in rows
    BY <1>5, <1>7, <2>1
  <2>3. i = n \/ NewestFirst(page.items[i], page.items[n])
    BY <1>2, <1>7, <2>1
  <2> HIDE DEF n
  <2>4. ASSUME NEW a \in rows, NEW b \in rows, a = b \/ NewestFirst(a, b)
        PROVE  ~ Precedes(Key(a), Key(b))
    <3>1. a.id \in Nat /\ b.id \in Nat /\ a.stamp \in Nat /\ b.stamp \in Nat
      BY <1>6
    <3>2. Precedes(Key(a), Key(b)) <=>
            a.stamp < b.stamp \/ (a.stamp = b.stamp /\ a.id < b.id)
      BY DEF Precedes, Key
    <3>3. NewestFirst(a, b) <=>
            b.stamp < a.stamp \/ (b.stamp = a.stamp /\ b.id < a.id)
      BY DEF NewestFirst, Precedes, Key
    <3> QED BY <2>4, <3>1, <3>2, <3>3
  <2> QED BY <2>1, <2>2, <2>3, <2>4
<1>10. page.items \in Seq(Row)
  BY <1>1, <1>2, <1>5
<1>11. \A i \in 1..Len(page.items) :
         /\ Owns(page.items[i])
         /\ view.next # <<>> => Precedes(Key(page.items[i]), view.next)
  BY <1>4, <1>5, <1>7
<1>12. \A row \in M : \/ Occurs(row, page.items)
                      \/ page.next # <<>> /\ Precedes(Key(row), page.next)
  BY <1>2
<1>13. Continues(page)
  BY <1>2, <1>4, <1>8, <1>9, <1>10, <1>11, <1>12 DEF Continues
<1> QED BY <1>13 DEF page, scope

\* The next page of rows keeps the walk over rows.
LEMMA RowsPaged ==
    ASSUME RowsInv, NextRows
    PROVE  RowsInv'
<1> USE DEF RowsInv
<1>1. /\ UNCHANGED <<selected, live, rows, used>>
      /\ view.at = "paging" /\ view.kind # "chunks" /\ ~ Refused
  BY DEF NextRows
<1> DEFINE scope == IF view.kind = "selected" THEN selected ELSE view.scope
           After(page) == IF view.kind = "workspace"
                          THEN view.shown \o page.items
                          ELSE Reverse(page.items) \o view.shown
<1>2. PICK limit \in Limits :
        ShowItems(KeysetPage(scope, view.next, limit),
                  After(KeysetPage(scope, view.next, limit)))
  BY Zenon DEF NextRows
<1>3. Named => Continues(KeysetPage(scope, view.next, limit))
  BY <1>1, PageContinues
<1>4. PICK page : ShowItems(page, After(page)) /\ (Named => Continues(page))
  <2> HIDE DEF After, scope
  <2> QED BY <1>2, <1>3
<1> DEFINE items == page.items
           after == After(page)
<1>5. view' = [at |-> IF page.next = <<>> THEN "complete" ELSE "paging",
               kind |-> view.kind, scope |-> view.scope, next |-> page.next,
               shown |-> after, began |-> view.began,
               editions |-> view.editions \cup {published}]
  <2> HIDE DEF After
  <2> QED BY <1>1, <1>4, ItemsShown
<1>6. HistoryTypeOK'
  <2> HIDE DEF after
  <2> QED BY <1>1, <1>5 DEF HistoryTypeOK
<1>7. RowWalk'
  <2> SUFFICES ASSUME Named PROVE RowWalk'
    <3> HIDE DEF after
    <3> QED BY <1>5 DEF RowWalk, Named
  <2>1. /\ view.shown \in Seq(Row) /\ Sorted(view.shown)
        /\ \A i \in 1..Len(view.shown) : Owns(view.shown[i])
        /\ view.next # <<>> =>
             /\ view.next \in Nat \X Nat
             /\ \A i \in 1..Len(view.shown) :
                  ~ Precedes(Key(view.shown[i]), view.next)
        /\ view.next = <<>> => view.shown = <<>>
        /\ \A row \in view.began \cap rows :
             \/ Occurs(row, view.shown)
             \/ view.next = <<>> \/ Precedes(Key(row), view.next)
    BY <1>1 DEF RowWalk, Pending
  <2>2. Continues(page)
    BY <1>4
  <2>3. items \in Seq(Row)
    BY <2>2 DEF Continues
  <2>4. /\ \A x : Occurs(x, after) <=> Occurs(x, view.shown) \/ Occurs(x, items)
        /\ after \in Seq(Row)
    <3>1. /\ Reverse(items) \in Seq(Row)
          /\ \A x : Occurs(x, Reverse(items)) <=> Occurs(x, items)
      BY <2>3, ReversedRows
    <3>2. \/ Concatenates(after, view.shown, items)
          \/ Concatenates(after, Reverse(items), view.shown)
      BY DEF Concatenates
    <3> HIDE DEF after, items
    <3> QED BY <2>1, <2>3, <3>1, <3>2, AppendedRows
  <2>5. after \in Seq(Row) /\ view.shown \in Seq(Row)
    BY <2>1, <2>4
  <2>6. \A i \in 1..Len(view.shown), j \in 1..Len(items) :
          NewestFirst(view.shown[i], items[j])
    <3> SUFFICES ASSUME NEW i \in 1..Len(view.shown), NEW j \in 1..Len(items)
                 PROVE  Precedes(Key(items[j]), Key(view.shown[i]))
      BY DEF NewestFirst
    <3>1. view.next # <<>>
      BY <2>1
    <3>2. view.next \in Nat \X Nat /\ ~ Precedes(Key(view.shown[i]), view.next)
      BY <2>1, <3>1
    <3>3. Precedes(Key(items[j]), view.next)
      BY <2>2, <3>1 DEF Continues
    <3>4. view.shown[i] \in Row /\ items[j] \in Row
      BY <2>1, <2>3
    <3>5. \A row \in Row : row.stamp \in Nat /\ row.id \in Nat
      BY HistoryAssumption DEF Row
    <3> QED BY <3>2, <3>3, <3>4, <3>5 DEF Precedes, Key
  <2>7. \A i, j \in 1..Len(items) : i < j => NewestFirst(items[i], items[j])
    BY <2>2 DEF Continues
  <2>8. Sorted(after)
    <3>1. CASE view.kind = "workspace"
      <4>1. Concatenates(after, view.shown, items)
        BY <3>1 DEF Concatenates
      <4> HIDE DEF after, items
      <4>2. Falling(view.shown) /\ Falling(items)
        BY <2>1, <2>7, <3>1 DEF Sorted, Falling
      <4>3. Falling(after)
        BY <2>3, <2>5, <2>6, <4>1, <4>2, AppendedOrder
      <4> QED BY <3>1, <4>3 DEF Sorted, Falling
    <3>2. CASE view.kind # "workspace"
      <4> DEFINE back == Reverse(items)
      <4>1. Concatenates(after, back, view.shown)
        BY <3>2 DEF Concatenates
      <4>2. /\ back \in Seq(Row) /\ Len(back) = Len(items)
            /\ \A i \in 1..Len(items) : /\ (Len(items) - i) + 1 \in 1..Len(items)
                                        /\ back[i] = items[(Len(items) - i) + 1]
        BY <2>3, ReversedRows
      <4> HIDE DEF after, items, back
      <4>3. ASSUME NEW a \in 1..Len(back), NEW b \in 1..Len(back), a < b
            PROVE  NewestFirst(back[b], back[a])
        <5>1. Len(items) \in Nat
          BY <2>3
        <5>2. (Len(items) - b) + 1 < (Len(items) - a) + 1
          BY <4>2, <4>3, <5>1
        <5> QED BY <2>7, <4>2, <4>3, <5>2
      <4>4. \A a \in 1..Len(back), b \in 1..Len(view.shown) :
              NewestFirst(view.shown[b], back[a])
        BY <2>6, <4>2
      <4>5. Rising(view.shown) /\ Rising(back)
        BY <2>1, <3>2, <4>3 DEF Sorted, Rising
      <4>6. Rising(after)
        BY <2>5, <4>1, <4>2, <4>4, <4>5, AppendedOrder
      <4> QED BY <3>2, <4>6 DEF Sorted, Rising
    <3> QED BY <3>1, <3>2
  <2>9. \A i \in 1..Len(after) : Owns(after[i])
    <3> HIDE DEF after, items
    <3>1. \A i \in 1..Len(items) : Owns(items[i])
      BY <2>2 DEF Continues, items
    <3> QED BY <2>1, <2>4, <3>1 DEF Occurs
  <2>10. ASSUME page.next # <<>>
         PROVE  /\ page.next \in Nat \X Nat
                /\ \A i \in 1..Len(after) : ~ Precedes(Key(after[i]), page.next)
    <3>1. page.next \in Nat \X Nat
      BY <2>2, <2>10 DEF Continues
    <3>2. \A i \in 1..Len(items) : ~ Precedes(Key(items[i]), page.next)
      BY <2>2, <2>10 DEF Continues
    <3>3. ASSUME NEW i \in 1..Len(view.shown)
          PROVE  ~ Precedes(Key(view.shown[i]), page.next)
      <4>1. view.next # <<>>
        BY <2>1
      <4>2. view.next \in Nat \X Nat /\ ~ Precedes(Key(view.shown[i]), view.next)
        BY <2>1, <4>1
      <4>3. Precedes(page.next, view.next)
        BY <2>2, <2>10, <4>1 DEF Continues
      <4>4. Key(view.shown[i]) \in Nat \X Nat
        <5>1. view.shown[i] \in Row
          BY <2>1
        <5> QED BY HistoryAssumption, <5>1 DEF Row, Key
      <4> HIDE DEF after, items
      <4>5. ASSUME NEW a \in Nat \X Nat, NEW b \in Nat \X Nat, NEW c \in Nat \X Nat,
                   Precedes(a, b), Precedes(b, c)
            PROVE  Precedes(a, c)
        BY <4>5 DEF Precedes
      <4> QED BY <3>1, <4>2, <4>3, <4>4, <4>5
    <3> HIDE DEF after, items
    <3> QED BY <2>4, <3>1, <3>2, <3>3 DEF Occurs
  <2>11. \A row \in view.began \cap rows :
           \/ Occurs(row, after)
           \/ page.next # <<>> /\ Precedes(Key(row), page.next)
    <3> HIDE DEF after, items
    <3>1. \A row \in view.began \cap rows : Owns(row)
      OBVIOUS
    <3> QED BY <2>1, <2>2, <2>4, <3>1 DEF Continues, items
  <2> HIDE DEF after, items
  <2> QED BY <1>1, <1>5, <2>5, <2>8, <2>9, <2>10, <2>11
          DEF RowWalk, Sorted, Owns, Pending
<1> HIDE DEF after
<1> QED BY <1>1, <1>5, <1>6, <1>7 DEF Owns, DistinctIds

-----------------------------------------------------------------------------
(* The client pages through the chunks of a CV *)

\* The ordinals up to k and those from k + 1 to m are those up to m.
LEMMA CountedOn ==
    ASSUME NEW k \in Nat, NEW m \in Nat, k <= m
    PROVE  [i \in 1..k |-> i - 1] \o [i \in 1..m - k |-> (k + i) - 1]
             = [i \in 1..m |-> i - 1]
<1> DEFINE s == [i \in 1..k |-> i - 1]
           r == [i \in 1..m - k |-> (k + i) - 1]
           c == [i \in 1..m |-> i - 1]
<1>1. s \in Seq(Int) /\ r \in Seq(Int) /\ c \in Seq(Int)
  OBVIOUS
<1>2. Len(s) = k /\ Len(r) = m - k /\ Len(c) = m
  OBVIOUS
<1>3. /\ \A i \in 1..k : s[i] = i - 1
      /\ \A i \in 1..m - k : r[i] = (k + i) - 1
      /\ \A i \in 1..m : c[i] = i - 1
  OBVIOUS
<1> HIDE DEF s, r, c
<1>4. /\ s \o r \in Seq(Int) /\ Len(s \o r) = k + (m - k)
      /\ \A i \in 1..k + (m - k) : (s \o r)[i] = IF i <= k THEN s[i] ELSE r[i - k]
  <2>1. /\ s \o r \in Seq(Int) /\ Len(s \o r) = Len(s) + Len(r)
        /\ \A i \in 1..Len(s) + Len(r) :
             (s \o r)[i] = IF i <= Len(s) THEN s[i] ELSE r[i - Len(s)]
    BY <1>1, ConcatProperties
  <2> QED BY <1>2, <2>1
<1>5. k + (m - k) = m
  OBVIOUS
<1>6. \A i \in 1..m : (s \o r)[i] = c[i]
  BY <1>3, <1>4, <1>5
<1>7. s \o r = c
  BY <1>1, <1>2, <1>4, <1>5, <1>6, SeqEqual
<1> QED BY <1>7 DEF s, r, c

\* A pair has two parts.
LEMMA PairParts ==
    ASSUME NEW A, NEW B, NEW p \in A \X B
    PROVE  \E a \in A : \E b \in B : p = <<a, b>>
OBVIOUS

\* How many ordinals the walk has behind it when it reads this publication: a
\* cursor of an earlier one lets it begin again.
Behind == IF view.next # <<>> /\ view.next[1] = published
          THEN view.next[2] + 1 ELSE 0

\* The cursor stands behind the ordinals that the walk has of this publication.
LEMMA ChunksBehind ==
    ASSUME ChunksShown, view.at = "paging", owned, Stored,
           published \in Nat
    PROVE  /\ Behind \in 0..Len(Chunks) /\ Past(view.next, Behind)
           /\ \A n \in 0..Behind - 1 : Occurs(n, view.shown)
           /\ \A e : view.editions \cup {published} = {e} =>
                view.shown = [i \in 1..Behind |-> i - 1]
<1> DEFINE N == Len(Chunks)
<1>1. N \in Nat
  BY ReadingAssumption
<1>2. CASE view.next = <<>>
  <2>1. Behind = 0 /\ view.shown = <<>>
    BY <1>2 DEF Behind, ChunksShown
  <2>2. Past(view.next, 0)
    BY <1>1, <1>2 DEF Past
  <2>3. <<>> = [i \in 1..0 |-> i - 1]
    OBVIOUS
  <2> QED BY <1>1, <2>1, <2>2, <2>3
<1>3. CASE view.next # <<>>
  <2>1. PICK e \in view.editions, ord \in 0..N - 1 : view.next = <<e, ord>>
    <3> DEFINE A == view.editions  B == 0..N - 1  cursor == view.next
    <3>1. cursor \in A \X B
      BY <1>3 DEF ChunksShown
    <3> HIDE DEF A, B, cursor
    <3>2. \E a \in A : \E b \in B : cursor = <<a, b>>
      BY <3>1, PairParts
    <3> QED BY <3>2 DEF A, B, cursor
  <2>2. /\ e \in Int /\ e <= published
        /\ \A n \in 0..ord : Occurs(n, view.shown)
        /\ view.editions = {e} => view.shown = [i \in 1..ord + 1 |-> i - 1]
    BY <1>3, <2>1 DEF ChunksShown
  <2>3. CASE e = published
    <3>1. Behind = ord + 1
      BY <1>3, <2>1, <2>3 DEF Behind
    <3>2. Past(view.next, ord + 1)
      BY <1>1, <2>1, <2>3 DEF Past, Precedes
    <3> QED BY <1>1, <2>1, <2>2, <2>3, <3>1, <3>2
  <2>4. CASE e # published
    <3>1. Behind = 0 /\ e < published
      BY <1>3, <2>1, <2>2, <2>4 DEF Behind
    <3>2. Past(view.next, 0)
      BY <1>1, <2>1, <3>1 DEF Past, Precedes
    <3>3. ASSUME NEW x, view.editions \cup {published} = {x}
          PROVE  FALSE
      <4>1. e = x /\ published = x
        BY <2>1, <3>3, Zenon
      <4> QED BY <2>4, <4>1
    <3>4. 0 \in 0..N /\ \A n : n \notin 0..0 - 1
      BY <1>1
    <3>5. \A x : view.editions \cup {published} = {x} => FALSE
      BY <3>3, Zenon
    <3>6. Behind \in 0..N /\ Past(view.next, Behind)
      BY <3>1, <3>2, <3>4
    <3>7. \A n \in 0..Behind - 1 : Occurs(n, view.shown)
      BY <3>1, <3>4
    <3> QED BY <3>5, <3>6, <3>7, Zenon
  <2> QED BY <2>3, <2>4
<1> QED BY <1>2, <1>3

\* The next page of chunks keeps the walk over chunks.
LEMMA ChunksPagedOn ==
    ASSUME RowsInv, ChunkWalk, NextChunks
    PROVE  ChunkWalk'
<1> DEFINE N == Len(Chunks)
<1>1. /\ UNCHANGED cvVars
      /\ view.at = "paging" /\ view.kind = "chunks" /\ owned /\ Stored
  BY DEF NextChunks, Refused
<1>2. PICK limit \in Limits :
        LET page == ChunkPage(view.next, limit)
        IN  ShowItems(page, view.shown \o page.items)
  BY Zenon DEF NextChunks
<1> DEFINE k == Behind
           page == ChunkPage(view.next, limit)
           count == SmallerOf(limit, N - k)
           m == k + count
           shown == view.shown \o page.items
<1>3. limit \in Nat \ {0} /\ published \in Nat /\ extracted \in Nat /\ published <= extracted
  BY HistoryAssumption DEF ChunkWalk
<1>4. ChunksShown
  BY <1>1 DEF ChunkWalk
<1>5. /\ k \in 0..N /\ Past(view.next, k)
      /\ \A n \in 0..k - 1 : Occurs(n, view.shown)
      /\ \A e : view.editions \cup {published} = {e} =>
           view.shown = [i \in 1..k |-> i - 1]
  BY <1>1, <1>3, <1>4, ChunksBehind
<1>6. /\ N \in Nat
      /\ page.items = [i \in 1..count |-> (k + i) - 1]
      /\ page.next = IF N - k > limit THEN <<published, (k + limit) - 1>> ELSE <<>>
  <2> HIDE DEF k
  <2> QED BY <1>1, <1>3, <1>5, PageOfChunks
<1>7. view' = [at |-> IF page.next = <<>> THEN "complete" ELSE "paging",
               kind |-> "chunks", scope |-> view.scope, next |-> page.next,
               shown |-> shown, began |-> view.began,
               editions |-> view.editions \cup {published}]
  BY <1>1, <1>2, ItemsShown DEF RowsInv
<1> HIDE DEF k, page
<1>8. /\ count \in Nat /\ m \in k..N /\ m \in Nat /\ k \in Nat
      /\ N - k > limit => m = k + limit
      /\ ~ (N - k > limit) => m = N
  BY <1>3, <1>5, <1>6 DEF SmallerOf
<1> HIDE DEF count
<1>9. view.shown \in Seq(0..N - 1) /\ page.items \in Seq(0..N - 1)
  <2>1. \A i \in 1..count : (k + i) - 1 \in 0..N - 1
    BY <1>5, <1>6, <1>8
  <2> HIDE DEF m
  <2> QED BY <1>4, <1>6, <1>8, <2>1 DEF ChunksShown
<1>10. /\ shown \in Seq(0..N - 1)
       /\ \A x : Occurs(x, shown) <=> Occurs(x, view.shown) \/ Occurs(x, page.items)
  <2>1. Concatenates(shown, view.shown, page.items)
    BY DEF Concatenates
  <2> HIDE DEF shown
  <2> QED BY <1>9, <2>1, AppendedRows
<1>11. \A n \in 0..m - 1 : Occurs(n, shown)
  <2> SUFFICES ASSUME NEW n \in 0..m - 1, ~ (n \in 0..k - 1)
               PROVE  Occurs(n, page.items)
    BY <1>5, <1>10
  <2>1. (n - k) + 1 \in 1..count /\ (k + ((n - k) + 1)) - 1 = n
    BY <1>5, <1>8
  <2>2. Len(page.items) = count
    BY <1>6, <1>8
  <2>3. page.items[(n - k) + 1] = n
    BY <1>6, <2>1
  <2> QED BY <2>1, <2>2, <2>3 DEF Occurs
<1>12. \A e : view.editions \cup {published} = {e} => shown = [i \in 1..m |-> i - 1]
  <2> SUFFICES ASSUME NEW e, view.editions \cup {published} = {e}
               PROVE  shown = [i \in 1..m |-> i - 1]
    OBVIOUS
  <2>1. view.shown = [i \in 1..k |-> i - 1]
    BY <1>5
  <2>2. m - k = count
    BY <1>5, <1>8
  <2>3. page.items = [i \in 1..m - k |-> (k + i) - 1]
    BY <1>6, <2>2
  <2> HIDE DEF m
  <2> QED BY <1>8, <2>1, <2>3, CountedOn
<1> HIDE DEF m, shown
<1>13. /\ view.editions \cup {published} \subseteq 0..extracted
       /\ IsFiniteSet(view.editions \cup {published})
  <2>1. view.editions \subseteq 0..extracted /\ IsFiniteSet(view.editions)
    BY <1>4 DEF ChunksShown
  <2>2. IsFiniteSet(view.editions \cup {published})
    BY <2>1, FS_AddElement
  <2> QED BY <1>3, <2>1, <2>2
<1>14. ChunksShown'
  <2> DEFINE editions == view.editions \cup {published}
  <2>0. /\ view'.next = page.next /\ view'.shown = shown /\ view'.editions = editions
        /\ view'.at = IF page.next = <<>> THEN "complete" ELSE "paging"
        /\ UNCHANGED <<owned, published, extracted>> /\ Stored' = Stored
    BY <1>1, <1>7 DEF cvVars, Stored
  <2>1. CASE N - k > limit
    <3>1. page.next = <<published, m - 1>> /\ m - 1 \in 0..N - 1
      BY <1>3, <1>5, <1>6, <1>8, <2>1
    <3>2. page.next # <<>> /\ page.next[1] = published /\ page.next[2] = m - 1
      BY <3>1
    <3>3. page.next \in editions \X (0..N - 1)
      BY <3>1
    <3>4. shown = [i \in 1..(m - 1) + 1 |-> i - 1] \/ editions # {published}
      <4>1. (m - 1) + 1 = m
        BY <1>8
      <4> QED BY <1>12, <4>1
    <3> HIDE DEF editions
    <3>5. editions \subseteq 0..extracted /\ IsFiniteSet(editions)
      BY <1>13 DEF editions
    <3>6. /\ \A n \in 0..page.next[2] : Occurs(n, shown)
          /\ editions = {page.next[1]} =>
               shown = [i \in 1..page.next[2] + 1 |-> i - 1]
          /\ page.next[1] <= published
      BY <1>3, <1>11, <3>2, <3>4
    <3> QED BY <1>10, <2>0, <3>2, <3>3, <3>5, <3>6 DEF ChunksShown, Occurs
  <2>2. CASE ~ (N - k > limit)
    <3>1. page.next = <<>> /\ m = N
      BY <1>6, <1>8, <2>2
    <3>2. shown \in Seq(0..N - 1) /\ \A n \in 0..N - 1 : Occurs(n, shown)
      BY <1>10, <1>11, <3>1
    <3>3. \A e : editions = {e} => shown = [i \in 1..N |-> i - 1]
      BY <1>12, <3>1
    <3> HIDE DEF editions
    <3>4. editions \subseteq 0..extracted /\ IsFiniteSet(editions)
      BY <1>13 DEF editions
    <3> QED BY <2>0, <3>1, <3>2, <3>3, <3>4 DEF ChunksShown, Occurs
  <2> QED BY <2>1, <2>2
<1>15. /\ view'.at = IF page.next = <<>> THEN "complete" ELSE "paging"
       /\ view'.next = page.next /\ UNCHANGED <<published, extracted>>
  BY <1>1, <1>7 DEF cvVars
<1> QED BY <1>3, <1>14, <1>15 DEF ChunkWalk

\* The walk over chunks depends on the view and the publication only.
LEMMA ChunksUntouched ==
    ASSUME ChunkWalk, UNCHANGED historyVars,
           UNCHANGED <<extracted, published, owned>>
    PROVE  ChunkWalk'
BY DEF ChunkWalk, ChunksShown, historyVars, Stored, Occurs

\* A publication has a greater number than the cursor, and a deletion ends the paging.
LEMMA ChunksWritten ==
    ASSUME ChunkWalk, Writes, UNCHANGED historyVars
    PROVE  ChunkWalk'
<1>1. CASE \E d \in Documents : Publish(d)
  <2>1. /\ owned' = owned /\ UNCHANGED view
        /\ extracted' = extracted + 1 /\ published' = extracted + 1
    BY <1>1 DEF Publish, historyVars
  <2>2. extracted \in Nat /\ published \in Nat /\ published <= extracted
    BY DEF ChunkWalk
  <2>3. /\ extracted' \in Nat /\ published' \in Nat /\ published' <= extracted'
        /\ 0..extracted \subseteq 0..extracted'
        /\ \A n \in 0..extracted : n <= published'
    BY <2>1, <2>2
  <2>4. CASE view.at \in {"paging", "complete"} /\ view.kind = "chunks"
    <3>1. ChunksShown
      BY <2>4 DEF ChunkWalk
    <3>2. view.next # <<>> => view.next[1] <= published'
      <4> SUFFICES ASSUME view.next # <<>> PROVE view.next[1] <= published'
        OBVIOUS
      <4>1. view.next \in view.editions \X (0..Len(Chunks) - 1)
        BY <3>1 DEF ChunksShown
      <4>2. view.next[1] \in view.editions
        BY <4>1
      <4> QED BY <2>3, <3>1, <4>2 DEF ChunksShown
    <3>3. ChunksShown'
      BY <2>1, <2>3, <3>1, <3>2 DEF ChunksShown, Occurs
    <3> QED BY <2>1, <2>3, <3>3 DEF ChunkWalk
  <2>5. CASE ~ (view.at \in {"paging", "complete"} /\ view.kind = "chunks")
    BY <2>1, <2>3, <2>5 DEF ChunkWalk
  <2> QED BY <2>4, <2>5
<1>2. CASE Approve \/ Discard
  <2>1. UNCHANGED <<extracted, published, owned>>
    BY <1>2 DEF Approve, Discard
  <2> QED BY <2>1, ChunksUntouched
<1>3. CASE Delete
  <2>1. UNCHANGED <<view, extracted>> /\ owned' = FALSE /\ published' = 0
    BY <1>3 DEF Delete, historyVars
  <2>2. ChunksShown => ChunksShown'
    BY <2>1 DEF ChunksShown, Occurs
  <2> QED BY <2>1, <2>2 DEF ChunkWalk
<1> QED BY <1>1, <1>2, <1>3 DEF Writes

\* No step of a client or of the selection disturbs the walk over chunks.
LEMMA ChunksKept ==
    ASSUME RowsInv, ChunkWalk,
           \/ RowWrites \/ SelectionWrites
           \/ \E kinds : HistoryReads(kinds)
    PROVE  ChunkWalk'
<1>1. CASE RowWrites \/ SelectionWrites
  <2>1. UNCHANGED <<cvVars, view>>
    BY <1>1 DEF RowWrites, AddRow, RemoveRow, SelectionWrites, Activate, Completes
  <2> QED BY <2>1 DEF ChunkWalk, ChunksShown, cvVars, Stored, Occurs
<1>2. CASE \E kind, scope : OpenView(kind, scope)
  <2>1. UNCHANGED cvVars
    BY <1>2 DEF OpenView
  <2>2. view'.at = "paging" /\ view'.next = <<>> /\ view'.shown = <<>> /\ view'.editions = {}
    BY <1>2 DEF OpenView, NoView
  <2>3. ChunksShown'
    BY <2>1, <2>2, FS_EmptySet DEF ChunksShown
  <2> QED BY <2>1, <2>2, <2>3 DEF ChunkWalk, cvVars
<1>3. CASE Refuse
  <2>1. UNCHANGED cvVars /\ view'.at = "failed"
    BY <1>3 DEF Refuse, RowsInv
  <2> QED BY <2>1 DEF ChunkWalk, cvVars
<1>4. CASE NextRows
  <2>1. UNCHANGED cvVars /\ view.kind # "chunks"
    BY <1>4 DEF NextRows
  <2>2. PICK page, shown : ShowItems(page, shown)
    BY <1>4, Zenon DEF NextRows
  <2>3. view'.kind = view.kind
    BY <2>2, ItemsShown DEF RowsInv
  <2> QED BY <2>1, <2>3 DEF ChunkWalk, cvVars
<1>5. CASE NextChunks
  BY <1>5, ChunksPagedOn
<1>6. ASSUME NEW kinds, HistoryReads(kinds)
      PROVE  \/ \E kind, scope : OpenView(kind, scope)
             \/ Refuse \/ NextRows \/ NextChunks
  BY <1>6, Zenon DEF HistoryReads
<1> QED BY <1>1, <1>2, <1>3, <1>4, <1>5, <1>6, Zenon

\* No step of a client, of the rows or of the selection disturbs the walk over rows.
LEMMA RowsKept ==
    ASSUME RowsInv,
           \/ RowWrites \/ SelectionWrites
           \/ \E kinds : HistoryReads(kinds)
    PROVE  RowsInv'
<1>1. ASSUME NEW kinds, HistoryReads(kinds) PROVE RowsInv'
  BY <1>1, ViewOpened, ViewRefused, RowsPaged, ChunksPaged, Zenon DEF HistoryReads
<1>2. CASE RowWrites
  BY <1>2, RowAdded, RowRemoved, Zenon DEF RowWrites
<1> QED BY <1>1, <1>2, SelectionWritten, Zenon

-----------------------------------------------------------------------------
(* Candidates: lists whose rows have distinct identities *)


Identified(s) ==
    /\ IsList(s)
    /\ \A i \in 1..Len(s) : s[i].identity # <<>>
    /\ \A i, j \in 1..Len(s) : s[i].identity = s[j].identity => i = j

\* What Where keeps of a list.
LEMMA KeptList ==
    ASSUME NEW s, IsList(s), NEW P \in SUBSET DOMAIN s, NEW q, q = ElementsAt(s, P)
    PROVE  /\ IsList(q)
           /\ Len(s) = 0 => Len(q) = 0
           /\ Identified(s) => Identified(q)
<1> DEFINE places == Ascending(P)
<1> HIDE DEF places
<1>1. P \in SUBSET Nat /\ IsFiniteSet(P)
  <2>1. Len(s) \in Nat /\ P \in SUBSET (1..Len(s))
    BY DEF IsList
  <2>2. IsFiniteSet(1..Len(s))
    BY <2>1, FS_Interval
  <2>3. IsFiniteSet(P)
    BY <2>1, <2>2, FS_Subset
  <2> QED BY <2>1, <2>3
<1>2. /\ IsList(places) /\ Len(places) = Cardinality(P)
      /\ \A n \in 1..Len(places) : places[n] \in P
      /\ \A i, j \in 1..Len(places) : i < j => places[i] < places[j]
  BY <1>1, NumbersInOrder, Zenon DEF places, Ascending
<1>3. IsList(q) /\ Len(q) = Len(places)
  <2>1. DOMAIN q = 1..Len(places) /\ Len(places) \in Nat
    BY <1>2, Zenon DEF IsList, ElementsAt, places
  <2>2. q = [n \in 1..Len(places) |-> q[n]]
    BY <2>1, Zenon DEF ElementsAt, places
  <2> QED BY <2>1, <2>2, FunctionIsList
<1>4. \A n \in 1..Len(q) : q[n] = s[places[n]]
  BY <1>2, <1>3, Zenon DEF IsList, ElementsAt, places
<1>5. Len(s) = 0 => Len(q) = 0
  <2> SUFFICES ASSUME Len(s) = 0 PROVE Len(q) = 0
    OBVIOUS
  <2>1. P = {}
    BY DEF IsList
  <2> QED BY <1>2, <1>3, <2>1, FS_EmptySet
<1>6. ASSUME Identified(s) PROVE Identified(q)
  <2>1. \A n \in 1..Len(q) : places[n] \in 1..Len(s) /\ places[n] \in Int
    BY <1>1, <1>2, <1>3 DEF IsList
  <2>2. ASSUME NEW i \in 1..Len(q), NEW j \in 1..Len(q), q[i].identity = q[j].identity
        PROVE  i = j
    <3>1. places[i] = places[j]
      BY <1>4, <1>6, <2>1, <2>2 DEF Identified
    <3>2. i \in Int /\ j \in Int /\ ~ (i < j) /\ ~ (j < i)
      BY <1>2, <1>3, <2>1, <3>1 DEF IsList
    <3> QED BY <3>2
  <2>3. \A i \in 1..Len(q) : q[i].identity # <<>>
    BY <1>4, <1>6, <2>1 DEF Identified
  <2> QED BY <1>3, <2>2, <2>3 DEF Identified
<1> QED BY <1>3, <1>5, <1>6

\* The least of a set of numbers is one of them.
LEMMA LeastIn ==
    ASSUME NEW T \in SUBSET Nat, T # {}
    PROVE  Min(T) \in T
  BY LeastNumber, Zenon DEF Min

\* The indices of the chunk rows are those of the chunks, or none.
LEMMA ChunkIndicesList ==
    ASSUME NEW stored
    PROVE  /\ IsList(ChunkIndices(stored))
           /\ ~ stored => Len(ChunkIndices(stored)) = 0
           /\ \A i \in 1..Len(ChunkIndices(stored)) :
                ChunkIndices(stored)[i] = i /\ i \in Nat
<1>1. Len(Chunks) \in Nat /\ DOMAIN Chunks = 1..Len(Chunks)
  BY ReadingAssumption
<1>2. CASE stored
  <2>1. ChunkIndices(stored) = [i \in 1..Len(Chunks) |-> i]
    BY <1>1, <1>2, Zenon DEF ChunkIndices
  <2>2. [i \in 1..Len(Chunks) |-> i] \in Seq(Nat)
    BY <1>1
  <2>3. /\ DOMAIN [i \in 1..Len(Chunks) |-> i] = 1..Len(Chunks)
        /\ Len([i \in 1..Len(Chunks) |-> i]) = Len(Chunks)
        /\ \A j \in 1..Len(Chunks) : [i \in 1..Len(Chunks) |-> i][j] = j /\ j \in Nat
    BY <1>1
  <2> QED BY <1>1, <1>2, <2>1, <2>3, Zenon DEF IsList
<1>3. CASE ~ stored
  <2>1. ChunkIndices(stored) = <<>>
    BY <1>3, Zenon DEF ChunkIndices
  <2> QED BY <1>3, <2>1 DEF IsList
<1> QED BY <1>2, <1>3

\* What is made of every element is as long as the list.
LEMMA EachList ==
    ASSUME NEW s, IsList(s), NEW q, DOMAIN q = DOMAIN s, q = [i \in DOMAIN s |-> q[i]]
    PROVE  IsList(q) /\ Len(q) = Len(s)
<1>1. Len(s) \in Nat /\ DOMAIN q = 1..Len(s)
  BY DEF IsList
<1>2. q = [i \in 1..Len(s) |-> q[i]]
  BY Zenon DEF IsList
<1> QED BY <1>1, <1>2, FunctionIsList

\* Entries have identities of their own.
LEMMA EntryRowsIdentified ==
    ASSUME NEW es \in Seq(CvEntry), Unrepeated(es)
    PROVE  Identified(Each(EntryRow, es))
<1> DEFINE q == Each(EntryRow, es)
<1>1. q = [i \in DOMAIN es |-> EntryRow(es[i])]
  BY Zenon DEF Each
<1>2. IsList(es)
  BY DEF IsList
<1>3. DOMAIN q = DOMAIN es /\ q = [i \in DOMAIN es |-> q[i]]
  BY <1>1, Zenon
<1> HIDE DEF q
<1>4. IsList(q) /\ Len(q) = Len(es)
  BY <1>2, <1>3, EachList
<1>5. \A i \in 1..Len(es) : q[i] = EntryRow(es[i])
  BY <1>1, <1>2, Zenon DEF IsList
<1>6. \A i \in 1..Len(es) : q[i].identity = <<"entry", es[i].id>>
  <2>1. \A e : EntryRow(e).identity = <<"entry", e.id>>
    BY DEF EntryRow
  <2> QED BY <1>5, <2>1
<1>7. \A i, j \in 1..Len(es) : es[i].id = es[j].id => i = j
  BY <1>2 DEF Unrepeated, IsList
<1>8. Identified(q)
  BY <1>4, <1>6, <1>7 DEF Identified
<1> QED BY <1>8 DEF q

\* Chunks have identities of their own.
LEMMA ChunkRowsIdentified ==
    ASSUME NEW stored
    PROVE  /\ Identified(Each(ChunkRow, ChunkIndices(stored)))
           /\ ~ stored => Len(Each(ChunkRow, ChunkIndices(stored))) = 0
<1> DEFINE s == ChunkIndices(stored)
           q == Each(ChunkRow, s)
<1>1. q = [i \in DOMAIN s |-> ChunkRow(s[i])]
  BY Zenon DEF Each
<1>2. /\ IsList(s) /\ (~ stored => Len(s) = 0)
      /\ \A i \in 1..Len(s) : s[i] = i /\ i \in Nat
  BY ChunkIndicesList
<1>3. DOMAIN q = DOMAIN s /\ q = [i \in DOMAIN s |-> q[i]]
  BY <1>1, Zenon
<1> HIDE DEF q, s
<1>4. IsList(q) /\ Len(q) = Len(s)
  BY <1>2, <1>3, EachList
<1>5. \A i \in 1..Len(s) : q[i] = ChunkRow(s[i])
  BY <1>1, <1>2, Zenon DEF IsList
<1>6. \A i \in 1..Len(s) : q[i].identity = <<"chunk", i - 1>>
  <2>1. \A i : ChunkRow(i).identity = <<"chunk", i - 1>>
    BY DEF ChunkRow
  <2> QED BY <1>2, <1>5, <2>1
<1>7. \A i, j \in 1..Len(s) : <<"chunk", i - 1>> = <<"chunk", j - 1>> => i = j
  BY <1>2
<1>8. Identified(q)
  <2>1. \A i \in 1..Len(s) : q[i].identity # <<>>
    BY <1>6
  <2>2. \A i, j \in 1..Len(s) : q[i].identity = q[j].identity => i = j
    BY <1>6, <1>7, Zenon
  <2> QED BY <1>4, <2>1, <2>2 DEF Identified
<1> QED BY <1>2, <1>4, <1>8 DEF q, s

\* The first n of a list.
LEMMA FirstOfList ==
    ASSUME NEW s, IsList(s), NEW n \in 0..Len(s)
    PROVE  /\ IsList(SubSeq(s, 1, n)) /\ Len(SubSeq(s, 1, n)) = n
           /\ \A i \in 1..n : SubSeq(s, 1, n)[i] = s[i]
           /\ Identified(s) => Identified(SubSeq(s, 1, n))
<1> DEFINE S == {s[i] : i \in 1..n}
           q == SubSeq(s, 1, n)
<1>1. n \in Int /\ n >= 0 /\ n <= Len(s) /\ Len(s) \in Nat
  BY DEF IsList
<1>2. \A i \in 1..n : s[i] \in S
  BY Zenon
<1> HIDE DEF S
<1>3. /\ q \in Seq(S) /\ Len(q) = IF 1 <= n THEN n - 1 + 1 ELSE 0
      /\ \A i \in 1..n - 1 + 1 : q[i] = s[1 + i - 1]
  BY <1>1, <1>2, SubSeqProperties
<1> HIDE DEF q
<1>4. Len(q) = n /\ \A i \in 1..n : q[i] = s[i]
  BY <1>1, <1>3
<1>5. IsList(q)
  BY <1>3, LenProperties, Zenon DEF IsList
<1>6. Identified(s) => Identified(q)
  BY <1>1, <1>4, <1>5 DEF Identified
<1> QED BY <1>4, <1>5, <1>6 DEF q

\* An entry and a chunk never have one identity, and no identity is empty.
LEMMA Tagged ==
    ASSUME NEW x, NEW y
    PROVE  /\ <<"entry", x>> # <<>> /\ <<"chunk", x>> # <<>>
           /\ <<"entry", x>> # <<"chunk", y>>
           /\ <<"entry", x>> = <<"entry", y>> => x = y
           /\ <<"chunk", x>> = <<"chunk", y>> => x = y
OBVIOUS

\* A search scans rows of different identities.
LEMMA ScannedIdentified ==
    ASSUME NEW content \in Contents, NEW stored
    PROVE  /\ Identified(Scanned(content, stored))
           /\ ~ Structured(content) /\ ~ stored => Len(Scanned(content, stored)) = 0
<1> DEFINE es == Entries(content)
           is == ChunkIndices(stored)
           a == Each(EntryHit, es)
           b == Each(ChunkHit, is)
           rows_ == a \o b
<1>1. /\ IsList(es) /\ (~ Structured(content) => Len(es) = 0)
      /\ \A i, j \in 1..Len(es) : es[i].id = es[j].id => i = j
  <2>1. CASE content \in Documents
    <3>1. es \in Seq(CvEntry) /\ Unrepeated(es) /\ Structured(content)
      BY <2>1, OutlineAssumption, ReadingAssumption DEF Structured
    <3> HIDE DEF es
    <3>2. IsList(es)
      BY <3>1 DEF IsList
    <3> QED BY <3>1, <3>2 DEF Unrepeated, IsList
  <2>2. CASE content \notin Documents
    <3>1. es = <<>>
      BY <2>2, Zenon DEF Entries, Structured, Contents
    <3> QED BY <3>1 DEF IsList
  <2> QED BY <2>1, <2>2
<1>2. /\ IsList(is) /\ (~ stored => Len(is) = 0)
      /\ \A i \in 1..Len(is) : is[i] = i /\ i \in Nat
  BY ChunkIndicesList
<1> HIDE DEF es, is
<1>3. a = [i \in DOMAIN es |-> EntryHit(es[i])] /\ b = [i \in DOMAIN is |-> ChunkHit(is[i])]
  BY Zenon DEF Each
<1> HIDE DEF a, b
<1>4. /\ DOMAIN a = DOMAIN es /\ a = [i \in DOMAIN a |-> a[i]]
      /\ DOMAIN b = DOMAIN is /\ b = [i \in DOMAIN b |-> b[i]]
  BY <1>3, Zenon
<1>5. IsList(a) /\ Len(a) = Len(es) /\ IsList(b) /\ Len(b) = Len(is)
  <2>1. a = [i \in DOMAIN es |-> a[i]] /\ b = [i \in DOMAIN is |-> b[i]]
    BY <1>4, Zenon
  <2> QED BY <1>1, <1>2, <1>4, <2>1, EachList
<1>6. \A i \in 1..Len(a) : a[i].identity = <<"entry", es[i].id>>
  <2>1. \A e : EntryHit(e).identity = <<"entry", e.id>>
    BY DEF EntryHit
  <2>2. \A i \in 1..Len(es) : a[i] = EntryHit(es[i])
    BY <1>1, <1>3, Zenon DEF IsList
  <2> QED BY <1>5, <2>1, <2>2, Zenon
<1>7. \A i \in 1..Len(b) : b[i].identity = <<"chunk", i - 1>>
  <2>1. \A i : ChunkHit(i).identity = <<"chunk", i - 1>>
    BY DEF ChunkHit
  <2>2. \A i \in 1..Len(is) : b[i] = ChunkHit(is[i])
    BY <1>2, <1>3, Zenon DEF IsList
  <2> QED BY <1>2, <1>5, <2>1, <2>2
<1>8. /\ IsList(rows_) /\ Len(rows_) = Len(a) + Len(b)
      /\ \A i \in 1..Len(rows_) :
           rows_[i] = IF i <= Len(a) THEN a[i] ELSE b[i - Len(a)]
  <2>1. Concatenates(rows_, a, b)
    BY Zenon DEF Concatenates
  <2> HIDE DEF rows_
  <2> QED BY <1>4, <1>5, <2>1, JoinedLists
<1> HIDE DEF rows_
<1>9. Identified(rows_)
  <2>1. ASSUME NEW i \in 1..Len(rows_)
        PROVE  \/ i \in 1..Len(a) /\ rows_[i].identity = <<"entry", es[i].id>>
               \/ /\ i - Len(a) \in 1..Len(b) /\ i > Len(a)
                  /\ rows_[i].identity = <<"chunk", (i - Len(a)) - 1>>
    <3>1. Len(a) \in Nat /\ Len(b) \in Nat
      BY <1>5 DEF IsList
    <3>2. CASE i <= Len(a)
      BY <1>6, <1>8, <3>1, <3>2
    <3>3. CASE ~ (i <= Len(a))
      <4>1. i - Len(a) \in 1..Len(b) /\ rows_[i] = b[i - Len(a)]
        BY <1>8, <3>1, <3>3
      <4> QED BY <1>7, <3>1, <3>3, <4>1
    <3> QED BY <3>2, <3>3
  <2>2. \A i \in 1..Len(rows_) : rows_[i].identity # <<>>
    BY <2>1, Tagged, Zenon
  <2>3. ASSUME NEW i \in 1..Len(rows_), NEW j \in 1..Len(rows_),
               rows_[i].identity = rows_[j].identity
        PROVE  i = j
    <3>1. Len(a) \in Nat /\ Len(a) = Len(es) /\ i \in Int /\ j \in Int
      BY <1>5 DEF IsList
    <3>2. CASE i \in 1..Len(a) /\ j \in 1..Len(a)
      <4>1. rows_[i].identity = <<"entry", es[i].id>> /\ rows_[j].identity = <<"entry", es[j].id>>
        BY <2>1, <3>1, <3>2
      <4>2. es[i].id = es[j].id
        BY <2>3, <4>1, Tagged, Zenon
      <4> QED BY <1>1, <3>1, <3>2, <4>2
    <3>3. CASE i > Len(a) /\ j > Len(a)
      <4>1. /\ rows_[i].identity = <<"chunk", (i - Len(a)) - 1>>
            /\ rows_[j].identity = <<"chunk", (j - Len(a)) - 1>>
        BY <2>1, <3>1, <3>3
      <4>2. (i - Len(a)) - 1 = (j - Len(a)) - 1
        BY <2>3, <4>1, Tagged, Zenon
      <4> QED BY <3>1, <4>2
    <3>4. CASE ~ (i \in 1..Len(a) <=> j \in 1..Len(a))
      <4>1. \/ \E x, y : rows_[i].identity = <<"entry", x>> /\ rows_[j].identity = <<"chunk", y>>
            \/ \E x, y : rows_[j].identity = <<"entry", x>> /\ rows_[i].identity = <<"chunk", y>>
        BY <2>1, <3>1, <3>4
      <4> QED BY <2>3, <4>1, Tagged
    <3> QED BY <2>1, <3>1, <3>2, <3>3, <3>4
  <2> QED BY <1>8, <2>2, <2>3 DEF Identified
<1>10. ~ Structured(content) /\ ~ stored => Len(rows_) = 0
  BY <1>1, <1>2, <1>5, <1>8
<1> DEFINE n == SmallerOf(Len(rows_), SearchCeiling)
<1>11. n \in 0..Len(rows_) /\ (Len(rows_) = 0 => n = 0)
  BY <1>8, ReadingAssumption DEF SmallerOf, IsList
<1>12. Scanned(content, stored) = SubSeq(rows_, 1, n)
  BY Zenon DEF Scanned, rows_, a, b, es, is
<1> HIDE DEF n
<1> QED BY <1>8, <1>9, <1>10, <1>11, <1>12, FirstOfList

\* The numbers from 1 are natural.
LEMMA UpToNat ==
    ASSUME NEW n \in Nat
    PROVE  1..n \in SUBSET Nat
OBVIOUS

\* Whether the chunk rows are stored.
There(stored) == stored = TRUE
Gone(stored) == stored = FALSE

\* The question has something to page through.
Granted(content, stored, ask) == Refusal(content, stored, ask) = ""

\* What a question pages through, where it is not refused.
LEMMA CandidatesIdentified ==
    ASSUME NEW content \in Contents, NEW stored, There(stored) \/ Gone(stored), NEW ask,
           ask.mode \in {"section", "search", "chunk"},
           Granted(content, stored, ask)
    PROVE  /\ Identified(Candidates(content, stored, ask))
           /\ ask.mode = "section" => Structured(content)
           /\ ask.mode = "chunk" => There(stored)
           /\ ~ Structured(content) /\ Gone(stored) =>
                Len(Candidates(content, stored, ask)) = 0
<1>1. CASE ask.mode = "section"
  <2>1. Structured(content) /\ SectionsNamed(content, ask.selector) # {}
    BY <1>1, Zenon DEF Granted, Refusal
  <2> DEFINE place == Min(SectionsNamed(content, ask.selector))
             es == Outline[content][place].entries
  <2>2. content \in Documents
    BY <2>1 DEF Structured, Contents
  <2>3. Outline[content] \in Seq([id: STRING, entries: Seq(CvEntry)])
    BY <2>2, OutlineAssumption
  <2> DEFINE outline == Outline[content]
             Sections == [id: STRING, entries: Seq(CvEntry)]
  <2>4. DOMAIN outline \in SUBSET Nat /\ \A i \in DOMAIN outline : outline[i] \in Sections
    <3> HIDE DEF outline, Sections
    <3>1. /\ Len(outline) \in Nat /\ DOMAIN outline = 1..Len(outline)
          /\ outline \in [1..Len(outline) -> Sections]
      BY <2>3, LenProperties DEF outline, Sections
    <3>2. 1..Len(outline) \in SUBSET Nat
      <4>1. Len(outline) \in Nat
        BY <3>1
      <4> QED BY <4>1, UpToNat, Zenon
    <3>3. \A i \in 1..Len(outline) : outline[i] \in Sections
      BY <3>1
    <3> QED BY <3>1, <3>2, <3>3, Zenon
  <2>5. place \in SectionsNamed(content, ask.selector)
    BY <2>1, <2>4, LeastIn DEF SectionsNamed
  <2>6. place \in DOMAIN Outline[content]
    BY <2>5 DEF SectionsNamed
  <2> HIDE DEF place
  <2>7. es \in Seq(CvEntry) /\ Unrepeated(es)
    <3>1. Outline[content][place] \in Sections
      BY <2>4, <2>6, Zenon
    <3>2. es \in Seq(CvEntry)
      BY <3>1
    <3>3. Unrepeated(es)
      BY <2>2, <2>6, OutlineAssumption, Zenon
    <3> QED BY <3>2, <3>3
  <2>8. Candidates(content, stored, ask) = Each(EntryRow, es)
    BY <1>1, Zenon DEF Candidates, place
  <2> QED BY <1>1, <2>1, <2>7, <2>8, EntryRowsIdentified
<1>2. CASE ask.mode = "search"
  <2> DEFINE s == Scanned(content, stored)
             P == {i \in DOMAIN s : ask.selector \in s[i].terms}
  <2>1. Candidates(content, stored, ask) = ElementsAt(s, P)
    BY <1>2, Zenon DEF Candidates, SearchCandidates, Where, ElementsAt, Ascending
  <2>2. P \in SUBSET DOMAIN s
    BY Zenon
  <2> HIDE DEF P
  <2>3. Identified(s) /\ (~ Structured(content) /\ ~ stored => Len(s) = 0)
    BY ScannedIdentified
  <2> HIDE DEF s
  <2>4. IsList(s)
    BY <2>3 DEF Identified
  <2>5. Identified(ElementsAt(s, P)) /\ (Len(s) = 0 => Len(ElementsAt(s, P)) = 0)
    BY <2>2, <2>3, <2>4, KeptList
  <2> QED BY <1>2, <2>1, <2>3, <2>5 DEF Gone
<1>3. CASE ask.mode = "chunk"
  <2> DEFINE s == Each(ChunkRow, ChunkIndices(stored))
             P == {i \in DOMAIN s : s[i].identity[2] >= ask.selector}
  <2>1. ChunkCandidates(stored, ask.selector) = ElementsAt(s, P)
    BY Zenon DEF ChunkCandidates, Where, ElementsAt, Ascending
  <2>2. Candidates(content, stored, ask) = ChunkCandidates(stored, ask.selector)
    BY <1>3, Zenon DEF Candidates
  <2>3. P \in SUBSET DOMAIN s
    BY Zenon
  <2> HIDE DEF P
  <2>4. Identified(s) /\ (~ stored => Len(s) = 0)
    BY ChunkRowsIdentified
  <2> HIDE DEF s
  <2>5. IsList(s)
    BY <2>4 DEF Identified
  <2>6. Identified(ElementsAt(s, P)) /\ (Len(s) = 0 => Len(ElementsAt(s, P)) = 0)
    BY <2>3, <2>4, <2>5, KeptList
  <2>7. ~ stored => ChunkCandidates(stored, ask.selector) = <<>>
    <3> SUFFICES ASSUME ~ stored PROVE ElementsAt(s, P) = <<>>
      BY <2>1
    <3>1. IsList(ElementsAt(s, P)) /\ Len(ElementsAt(s, P)) = 0
      BY <2>4, <2>6 DEF Identified
    <3>2. ElementsAt(s, P) = [n \in DOMAIN ElementsAt(s, P) |-> ElementsAt(s, P)[n]]
      BY Zenon DEF ElementsAt
    <3>3. DOMAIN ElementsAt(s, P) = 1..0
      BY <3>1, Zenon DEF IsList
    <3> DEFINE q == ElementsAt(s, P)
    <3> HIDE DEF q
    <3>4. DOMAIN q = 1..0 /\ q = [n \in 1..0 |-> q[n]]
      BY <3>2, <3>3, Zenon DEF q
    <3>5. q \in Seq({q[i] : i \in 1..0}) /\ Len(q) = 0
      BY <3>4, FunctionIsList
    <3>6. q = <<>>
      BY <3>5, EmptySeq, Zenon
    <3> QED BY <3>6 DEF q
  <2>8. There(stored)
    BY <1>3, <2>7, Zenon DEF Granted, Refusal, There, Gone
  <2>9. ~ Gone(stored)
    BY <2>8 DEF There, Gone
  <2> QED BY <1>3, <2>1, <2>2, <2>6, <2>8, <2>9
<1> QED BY <1>1, <1>2, <1>3

-----------------------------------------------------------------------------
(* Pages of candidates *)

\* Nothing has no size.
LEMMA EmptyTotal ==
    ASSUME NEW list, DOMAIN list = {}
    PROVE  Total(list) = 0
<1> DEFINE f == [s \in SUBSET (DOMAIN list) |-> 0]
           Body(g) == [s \in SUBSET (DOMAIN list) |->
                         IF s = {} THEN 0
                         ELSE g[s \ {Max(s)}] + list[Max(s)].size]
           iter == CHOOSE g : g = Body(g)
<1>1. f = Body(f)
  BY Zenon
<1>2. iter = Body(iter)
  BY <1>1, Zenon
<1>3. iter[DOMAIN list] = 0
  <2>1. DOMAIN list \in SUBSET (DOMAIN list)
    BY Zenon
  <2>2. Body(iter)[DOMAIN list] = 0
    BY <2>1, Zenon
  <2> HIDE DEF Body, iter
  <2> QED BY <1>2, <2>2, Zenon
<1>4. Total(list) = iter[DOMAIN list]
  BY Zenon DEF Total, FoldLeft, MapThenFoldSet
<1> QED BY <1>3, <1>4, Zenon

\* A page takes a first record whenever there is one, and never more than are left.
LEMMA TakenBounds ==
    ASSUME NEW r, IsList(r), NEW results \in Nat \ {0}, NEW chars \in Nat \ {0}
    PROVE  /\ TakenCount(r, results, chars) \in 0..Len(r)
           /\ Len(r) > 0 => TakenCount(r, results, chars) > 0
<1> DEFINE m == SmallerOf(results, Len(r))
           Fits(n) == Total(SubSeq(r, 1, n - 1)) < chars
           T == {n \in 1..m : Fits(n)}
<1>1. TakenCount(r, results, chars) = Cardinality(T)
  BY Zenon DEF TakenCount
<1>2. m \in Nat /\ m <= Len(r) /\ (Len(r) > 0 => m >= 1) /\ Len(r) \in Nat
  BY DEF SmallerOf, IsList
<1>3. T \in SUBSET (1..m)
  BY Zenon
<1>4. Fits(1)
  <2>1. SubSeq(r, 1, 0) = <<>>
    BY SubSeqEmpty
  <2>2. DOMAIN <<>> = {}
    OBVIOUS
  <2>3. Total(<<>>) = 0
    BY <2>2, EmptyTotal
  <2>4. 1 - 1 = 0
    OBVIOUS
  <2>5. 0 < chars
    OBVIOUS
  <2> QED BY <2>1, <2>3, <2>4, <2>5, Zenon
<1> HIDE DEF m, Fits
<1>5. IsFiniteSet(1..m) /\ Cardinality(1..m) = m
  BY <1>2, FS_Interval
<1>6. IsFiniteSet(T) /\ Cardinality(T) <= m
  <2> HIDE DEF T
  <2> QED BY <1>3, <1>5, FS_Subset
<1>7. Cardinality(T) \in Nat
  <2> HIDE DEF T
  <2> QED BY <1>6, FS_CardinalityType
<1>8. Len(r) > 0 => Cardinality(T) # 0
  <2> SUFFICES ASSUME Len(r) > 0 PROVE T # {}
    <3> HIDE DEF T
    <3> QED BY <1>6, FS_EmptySet
  <2>1. 1 \in 1..m
    BY <1>2
  <2>2. 1 \in T
    BY <1>4, <2>1, Zenon
  <2> QED BY <2>2, Zenon
<1> HIDE DEF T
<1> QED BY <1>1, <1>2, <1>6, <1>7, <1>8

Cursor(list, k) == IF k = 0 THEN <<>> ELSE list[k].identity

LeftBehind(r, list, k) ==
    /\ IsList(r) /\ Len(r) = Len(list) - k
    /\ \A i \in 1..Len(list) - k : r[i] = list[k + i]

\* What is left behind the k-th record.
LEMMA RestOfList ==
    ASSUME NEW list, Identified(list), NEW k \in 0..Len(list)
    PROVE  LeftBehind(Rest(list, Cursor(list, k)), list, k)
<1> DEFINE after == Cursor(list, k)
           r == Rest(list, after)
           places == {i \in DOMAIN list : list[i].identity = after}
<1>1. IsList(list) /\ Len(list) \in Nat /\ k \in Nat /\ k <= Len(list)
  BY DEF Identified, IsList
<1>2. CASE k = 0
  <2>1. r = list
    BY <1>2, Zenon DEF Rest, Cursor
  <2> HIDE DEF r
  <2>2. LeftBehind(r, list, k)
    BY <1>1, <1>2, <2>1 DEF LeftBehind
  <2> QED BY <2>2, Zenon DEF r, after
<1>3. CASE k # 0
  <2>1. k \in 1..Len(list) /\ after = list[k].identity
    BY <1>1, <1>3 DEF Cursor
  <2>2. after # <<>>
    BY <2>1 DEF Identified
  <2>3. \A i \in DOMAIN list : list[i].identity = after => i = k
    BY <2>1 DEF Identified, IsList
  <2>4. k \in DOMAIN list
    BY <2>1 DEF Identified, IsList
  <2> HIDE DEF after
  <2>5. places = {k}
    BY <2>1, <2>3, <2>4, Zenon
  <2>6. (CHOOSE i \in places : \A j \in places : i <= j) = k
    <3>1. k <= k
      BY <1>1
    <3> QED BY <2>5, <3>1, Zenon
  <2>7. r = SubSeq(list, k + 1, Len(list))
    BY <2>2, <2>5, <2>6, Zenon DEF Rest
  <2> DEFINE S == {list[i] : i \in k + 1..Len(list)}
  <2>8. \A i \in k + 1..Len(list) : list[i] \in S
    BY Zenon
  <2> HIDE DEF S, r
  <2>9. /\ r \in Seq(S)
        /\ Len(r) = IF k + 1 <= Len(list) THEN Len(list) - (k + 1) + 1 ELSE 0
        /\ \A i \in 1..Len(list) - (k + 1) + 1 : r[i] = list[k + 1 + i - 1]
    BY <1>1, <2>7, <2>8, SubSeqProperties
  <2>10. Len(r) = Len(list) - k /\ \A i \in 1..Len(list) - k : r[i] = list[k + i]
    BY <1>1, <2>9
  <2>11. IsList(r)
    BY <2>9, LenProperties, Zenon DEF IsList
  <2>12. LeftBehind(r, list, k)
    BY <2>10, <2>11 DEF LeftBehind
  <2> QED BY <2>12, Zenon DEF r, after
<1> QED BY <1>2, <1>3

\* Nothing is behind a cursor into an empty list.
LEMMA EmptyRest ==
    ASSUME NEW list, IsList(list), Len(list) = 0, NEW after
    PROVE  IsList(Rest(list, after)) /\ Len(Rest(list, after)) = 0
<1>1. DOMAIN list = {}
  BY DEF IsList
<1>2. {i \in DOMAIN list : list[i].identity = after} = {}
  BY <1>1, Zenon
<1>3. Rest(list, after) = list \/ Rest(list, after) = <<>>
  BY <1>2, Zenon DEF Rest
<1>4. IsList(<<>>) /\ Len(<<>>) = 0
  BY DEF IsList
<1> QED BY <1>3, <1>4, Zenon

-----------------------------------------------------------------------------
(* The walk over the CV *)

FirstOf(list, k) == [i \in 1..k |-> list[i].identity]

\* A walk that has paged over one list only: it has been shown the records up to
\* the cursor, or all of them.
ShownOf(w, list) ==
    \E k \in 0..Len(list) :
        /\ w.shown = FirstOf(list, k)
        /\ IF w.at = "complete" THEN k = Len(list)
           ELSE k > 0 /\ w.next.after = list[k].identity

BasisFits(w, basis) ==
    /\ basis \in Basis
    /\ Granted(basis.content, basis.stored, w.ask)
    /\ Structured(basis.content) => There(basis.stored)
    /\ ~ Structured(basis.content) => w.bases = {basis}
    /\ w.at = "walking" =>
         /\ There(basis.stored)
         /\ w.next # Begin /\ w.next.hash = Hash(basis.content)
         /\ w.next.mode = w.ask.mode /\ w.next.selector = w.ask.selector
    /\ w.bases = {basis} \/ w.ask.mode = "chunk" =>
         ShownOf(w, Candidates(basis.content, basis.stored, w.ask))

WalkFits(w) ==
    w.at \in {"walking", "complete"} =>
        /\ w.ask \in Asks
        /\ IsFiniteSet(w.bases)
        /\ w.bases = {} => w.at = "walking" /\ w.shown = <<>> /\ w.next = Begin
        /\ \A basis \in w.bases : BasisFits(w, basis)

IsWalk(w) ==
    w = [at |-> w.at, ask |-> w.ask, next |-> w.next, shown |-> w.shown,
         bases |-> w.bases, code |-> w.code]

IsCall(c) ==
    c = [at |-> c.at, expected |-> c.expected, page |-> c.page,
         basis |-> c.basis]

Showing(w, page, basis) ==
    [w EXCEPT !.at = IF page.next = Begin THEN "complete" ELSE @,
              !.next = page.next,
              !.shown = @ \o page.shown,
              !.bases = @ \cup {basis}]

SourceOK ==
    /\ document \in Contents /\ draft \in Contents
    /\ extracted \in 1..MaxExtractions + 1 /\ published \in 0..extracted
    /\ owned \in BOOLEAN
    /\ Structured(document) => Stored
    /\ draft # NoDocument => Stored

ToolOK ==
    /\ call.at \in {"idle", "identified", "read"}
    /\ call.expected \in {"", "canonical"}
    /\ walk.at \in {"none", "walking", "complete", "failed"}
    /\ walk.code \in Codes
    /\ \A basis \in walk.bases : basis \in Basis
    /\ IsWalk(walk) /\ IsCall(call)

\* Chunk rows that were there are there until the deletion.
StillStored(basis) == owned /\ There(basis.stored) => Stored

WalkStored ==
    walk.at \in {"walking", "complete"} =>
        \A basis \in walk.bases : StillStored(basis)

\* The page that a call holds would leave the walk as fit as it is.
CallFits ==
    /\ call.at # "idle" => walk.at = "walking"
    /\ call.at = "read" =>
         /\ WalkFits(Showing(walk, call.page, call.basis))
         /\ call.basis \in Basis
         /\ StillStored(call.basis)

CvInv == SourceOK /\ ToolOK /\ WalkFits(walk) /\ WalkStored /\ CallFits

NextOf(list, k, t) == [i \in 1..t |-> list[k + i].identity]

Marked(page, content, ask) ==
    page.next # Begin =>
        /\ page.next.hash = Hash(content)
        /\ page.next.mode = ask.mode /\ page.next.selector = ask.selector

\* A page continues a walk of which the first k records are shown.
PageFits(page, list, k) ==
    \E t \in 0..Len(list) - k :
        /\ page.shown = NextOf(list, k, t)
        /\ page.next = Begin => k + t = Len(list)
        /\ page.next # Begin => k + t > 0 /\ page.next.after = list[k + t].identity

\* The cursor of a page is of its text and question.
LEMMA PageMarked ==
    ASSUME NEW content, NEW stored, NEW ask, NEW after,
           NEW results \in Nat \ {0}, NEW chars \in Nat \ {0},
           IsList(Candidates(content, stored, ask)), NEW page,
           page = PageOf(content, stored, ask, after, results, chars)
    PROVE  /\ Marked(page, content, ask)
           /\ Len(Candidates(content, stored, ask)) = 0 => page.next = Begin
<1> DEFINE C == Candidates(content, stored, ask)
           r == Rest(C, after)
           taken == TakenCount(r, results, chars)
           cut == Total(SubSeq(r, 1, taken)) > chars
           marked == [hash |-> Hash(content), mode |-> ask.mode,
                      selector |-> ask.selector, after |-> r[taken].identity]
<1>1. page.next = NextCursor(content, ask, r, taken, cut)
  BY DEF PageOf
<1>2. page.next = Begin \/ (page.next = marked /\ taken > 0)
  <2> HIDE DEF r, taken, cut
  <2> QED BY <1>1, Zenon DEF NextCursor
<1>3. Marked(page, content, ask)
  <2> HIDE DEF r, taken
  <2> QED BY <1>2 DEF Marked
<1>4. Len(C) = 0 => page.next = Begin
  <2> SUFFICES ASSUME Len(C) = 0 PROVE ~ (taken > 0)
    BY <1>2, Zenon
  <2> HIDE DEF C, marked
  <2>1. IsList(r) /\ Len(r) = 0
    BY EmptyRest DEF C
  <2> HIDE DEF r
  <2>2. taken \in 0..0
    BY <2>1, TakenBounds
  <2> HIDE DEF taken
  <2> QED BY <2>2
<1> QED BY <1>3, <1>4, Zenon

\* A page takes up behind the cursor and leaves a cursor unless it reaches the end.
LEMMA PageContinuesWalk ==
    ASSUME NEW content, NEW stored, NEW ask, NEW k,
           NEW results \in Nat \ {0}, NEW chars \in Nat \ {0},
           Identified(Candidates(content, stored, ask)),
           k \in 0..Len(Candidates(content, stored, ask)), NEW after,
           after = Cursor(Candidates(content, stored, ask), k), NEW page,
           page = PageOf(content, stored, ask, after, results, chars)
    PROVE  PageFits(page, Candidates(content, stored, ask), k)
<1> DEFINE C == Candidates(content, stored, ask)
           r == Rest(C, after)
           t == TakenCount(r, results, chars)
           cut == Total(SubSeq(r, 1, t)) > chars
           marked == [hash |-> Hash(content), mode |-> ask.mode,
                      selector |-> ask.selector, after |-> r[t].identity]
<1>1. page.shown = [i \in 1..t |-> r[i].identity] /\ page.next = NextCursor(content, ask, r, t, cut)
  BY DEF PageOf
<1>2. LeftBehind(r, C, k)
  BY RestOfList, Zenon
<1>3. k \in 0..Len(C) /\ Len(C) \in Nat
  BY DEF Identified, IsList
<1> HIDE DEF C
<1> HIDE DEF r
<1>4. t \in 0..Len(C) - k /\ (Len(C) - k > 0 => t > 0)
  BY <1>2, <1>3, TakenBounds DEF LeftBehind
<1> HIDE DEF t
<1>5. \A i \in 1..t : r[i] = C[k + i]
  BY <1>2, <1>3, <1>4 DEF LeftBehind
<1>6. page.shown = NextOf(C, k, t)
  BY <1>1, <1>5, Zenon DEF NextOf
<1> HIDE DEF cut
<1>7. \/ page.next = marked /\ t > 0
      \/ page.next = Begin /\ ~ (t > 0 /\ (cut \/ t < Len(r)))
  BY <1>1, Zenon DEF NextCursor
<1>8. page.next = Begin => k + t = Len(C)
  <2> SUFFICES ASSUME page.next = Begin PROVE k + t = Len(C)
    OBVIOUS
  <2>1. ASSUME page.next = marked, t > 0
        PROVE  FALSE
    <3>1. page.next.after = C[k + t].identity
      BY <2>1, <1>5, <1>4, <1>3
    <3>2. C[k + t].identity # <<>>
      <4>1. k + t \in 1..Len(C) /\ Identified(C)
        BY <2>1, <1>3, <1>4 DEF C
      <4> QED BY <4>1 DEF Identified
    <3>3. Begin.after = <<>>
      BY DEF Begin
    <3> QED BY <3>1, <3>2, <3>3, Zenon
  <2>2. ~ (t > 0 /\ t < Len(r))
    BY <1>7, <2>1, Zenon
  <2>3. Len(r) = Len(C) - k
    BY <1>2 DEF LeftBehind
  <2> QED BY <2>2, <2>3, <1>3, <1>4
<1>9. page.next # Begin => k + t > 0 /\ page.next.after = C[k + t].identity
  <2> SUFFICES ASSUME page.next = marked, t > 0
               PROVE  k + t > 0 /\ page.next.after = C[k + t].identity
    BY <1>7, Zenon
  <2>1. page.next.after = r[t].identity
    OBVIOUS
  <2> HIDE DEF marked
  <2> QED BY <2>1, <1>3, <1>4, <1>5
<1>10. PageFits(page, C, k)
  BY <1>4, <1>6, <1>8, <1>9, Zenon DEF PageFits
<1> QED BY <1>10, Zenon DEF C

\* The page behind the first k records makes them the first k + t.
LEMMA PrefixGrows ==
    ASSUME NEW list, NEW k \in Nat, NEW t \in Nat
    PROVE  FirstOf(list, k) \o NextOf(list, k, t) = FirstOf(list, k + t)
<1> DEFINE f(i) == list[i].identity
           S == {f(i) : i \in 1..k + t}
           a == FirstOf(list, k)
           b == NextOf(list, k, t)
           c == FirstOf(list, k + t)
<1>1. a = [i \in 1..k |-> f(i)] /\ b = [i \in 1..t |-> f(k + i)] /\ c = [i \in 1..k + t |-> f(i)]
  BY Zenon DEF FirstOf, NextOf
<1>2. \A i \in 1..k + t : f(i) \in S
  BY Zenon
<1> HIDE DEF f, S, a, b, c
<1>3. a \in Seq(S) /\ Len(a) = k /\ \A i \in 1..k : a[i] = f(i)
  BY <1>1, <1>2
<1>4. b \in Seq(S) /\ Len(b) = t /\ \A i \in 1..t : b[i] = f(k + i)
  BY <1>1, <1>2
<1>5. c \in Seq(S) /\ Len(c) = k + t /\ \A i \in 1..k + t : c[i] = f(i)
  BY <1>1, <1>2
<1>6. a \o b \in Seq(S) /\ Len(a \o b) = k + t
  BY <1>3, <1>4
<1>7. ASSUME NEW i \in 1..k + t
      PROVE  (a \o b)[i] = c[i]
  <2>1. CASE i <= k
    <3>1. (a \o b)[i] = a[i]
      BY <1>3, <1>4, <2>1
    <3> QED BY <3>1, <1>3, <1>5, <2>1
  <2>2. CASE ~ (i <= k)
    <3>1. (a \o b)[i] = b[i - k]
      <4>1. Len(a) = k /\ Len(b) = t /\ a \in Seq(S) /\ b \in Seq(S)
        BY <1>3, <1>4
      <4>2. (a \o b)[i] = IF i <= Len(a) THEN a[i] ELSE b[i - Len(a)]
        BY <4>1, ConcatProperties
      <4> QED BY <4>1, <4>2, <2>2
    <3>2. i - k \in 1..t /\ k + (i - k) = i
      BY <2>2
    <3>3. b[i - k] = f(k + (i - k)) /\ c[i] = f(i)
      BY <3>2, <1>4, <1>5
    <3>4. f(k + (i - k)) = f(i)
      BY <3>2
    <3> QED BY <3>1, <3>3, <3>4
  <2> QED BY <2>1, <2>2, Zenon
<1>8. a \o b = c
  BY <1>5, <1>6, <1>7, SeqEqual
<1> QED BY <1>8 DEF a, b, c

\* In chunk mode the list depends on the question and the chunk rows only.
LEMMA ChunkListsAgree ==
    ASSUME NEW ask, ask.mode = "chunk", NEW stored, NEW c, NEW d
    PROVE  Candidates(c, stored, ask) = Candidates(d, stored, ask)
BY Zenon DEF Candidates

Shown(w, page) == w.shown \o page.shown

\* Showing a page changes these fields of a walk and no other.
LEMMA ShowingFields ==
    ASSUME NEW w, NEW page, NEW basis, NEW v, v = Showing(w, page, basis),
           IsWalk(w)
    PROVE  /\ page.next = Begin => v.at = "complete"
           /\ page.next # Begin => v.at = w.at
           /\ v.ask = w.ask /\ v.next = page.next /\ v.code = w.code
           /\ v.shown = Shown(w, page)
           /\ v.bases = w.bases \cup {basis}
           /\ IsWalk(v)
BY DEF Showing, IsWalk, Shown

\* What a walk has been shown of the one list it has paged over so far.
LEMMA WalkBegun ==
    ASSUME NEW w, WalkFits(w), w.at = "walking", NEW basis,
           w.bases \subseteq {basis} \/ w.ask.mode = "chunk",
           \A c \in w.bases :
             Candidates(c.content, c.stored, w.ask)
               = Candidates(basis.content, basis.stored, w.ask)
    PROVE  LET list == Candidates(basis.content, basis.stored, w.ask) IN
           Len(list) \in Nat =>
           \E k \in 0..Len(list) :
             w.shown = FirstOf(list, k) /\ w.next.after = Cursor(list, k)
<1> DEFINE list == Candidates(basis.content, basis.stored, w.ask)
<1> SUFFICES ASSUME Len(list) \in Nat
             PROVE  \E k \in 0..Len(list) :
                      w.shown = FirstOf(list, k) /\ w.next.after = Cursor(list, k)
  BY Zenon
<1>1. CASE w.bases = {}
  <2>1. w.shown = <<>> /\ w.next.after = <<>>
    <3>1. w.shown = <<>> /\ w.next = Begin
      BY <1>1, Zenon DEF WalkFits
    <3>2. Begin.after = <<>>
      BY DEF Begin
    <3> QED BY <3>1, <3>2, Zenon
  <2> HIDE DEF list
  <2>2. FirstOf(list, 0) = <<>>
    BY DEF FirstOf
  <2>3. Cursor(list, 0) = <<>>
    BY DEF Cursor
  <2>4. 0 \in 0..Len(list)
    OBVIOUS
  <2> QED BY <2>1, <2>2, <2>3, <2>4, Zenon
<1>2. CASE w.bases # {}
  <2>1. PICK c \in w.bases : TRUE
    BY <1>2, Zenon
  <2>2. BasisFits(w, c)
    BY <2>1, Zenon DEF WalkFits
  <2>3. w.bases = {c} \/ w.ask.mode = "chunk"
    BY <2>1, Zenon
  <2>4. ShownOf(w, Candidates(c.content, c.stored, w.ask))
    BY <2>2, <2>3, Zenon DEF BasisFits
  <2>5. ShownOf(w, list)
    BY <2>1, <2>4, Zenon
  <2> HIDE DEF list
  <2>6. PICK k \in 0..Len(list) :
          w.shown = FirstOf(list, k) /\ k > 0 /\ w.next.after = list[k].identity
    BY <2>5 DEF ShownOf
  <2>7. w.next.after = Cursor(list, k)
    BY <2>6 DEF Cursor
  <2> QED BY <2>6, <2>7, Zenon
<1> QED BY <1>1, <1>2, Zenon

\* A record of the basis has these fields and no other.
LEMMA BasisRecords ==
    ASSUME NEW b \in Basis
    PROVE  /\ b.content \in Contents /\ b.stored \in BOOLEAN
           /\ \A c \in Basis : c.content = b.content /\ c.stored = b.stored => c = b
BY DEF Basis

\* Two steps into a list.
LEMMA SumBound ==
    ASSUME NEW n \in Nat, NEW k \in 0..n, NEW t \in 0..n - k
    PROVE  k \in Nat /\ t \in Nat /\ k + t \in 0..n
OBVIOUS

\* The chunk rows are there if the content has a document or an earlier page of
\* the walk found them.
StoredAlong(w, content, stored) ==
    \/ There(stored)
    \/ Gone(stored) /\ ~ Structured(content) /\ \A c \in w.bases : ~ There(c.stored)

Followed(cursor, content, ask) == CursorRefusal(cursor, content, ask) = ""

\* A page that its cursor and its question allow continues the walk.
LEMMA PageKeepsFit ==
    ASSUME NEW w, IsWalk(w), WalkFits(w), w.at = "walking",
           NEW content \in Contents, NEW stored,
           StoredAlong(w, content, stored),
           Followed(w.next, content, w.ask),
           Granted(content, stored, w.ask),
           NEW results \in ResultCaps, NEW chars \in CharCaps
    PROVE  WalkFits(Showing(w, PageOf(content, stored, w.ask, w.next.after, results, chars),
                            [content |-> content, stored |-> stored]))
<1> DEFINE page == PageOf(content, stored, w.ask, w.next.after, results, chars)
           basis == [content |-> content, stored |-> stored]
           v == Showing(w, page, basis)
           list == Candidates(content, stored, w.ask)
<1>1. /\ page.next = Begin => v.at = "complete"
      /\ page.next # Begin => v.at = w.at
      /\ v.ask = w.ask /\ v.next = page.next
      /\ v.shown = Shown(w, page)
      /\ v.bases = w.bases \cup {basis}
  <2>1. v = Showing(w, page, basis)
    OBVIOUS
  <2> HIDE DEF v, page, basis
  <2> QED BY <2>1, ShowingFields
<1>2. basis \in Basis /\ basis.content = content /\ basis.stored = stored
  <2>1. stored \in BOOLEAN
    BY Zenon DEF StoredAlong, There, Gone
  <2> QED BY <2>1 DEF Basis
<1>a. \/ There(stored)
      \/ /\ Gone(stored) /\ ~ Structured(content)
         /\ \A c \in w.bases : ~ There(c.stored)
  BY Zenon DEF StoredAlong
<1>0. page = PageOf(content, stored, w.ask, w.next.after, results, chars)
  OBVIOUS
<1> HIDE DEF v, page, basis
<1>3. /\ w.ask \in Asks /\ IsFiniteSet(w.bases)
      /\ w.bases = {} => w.shown = <<>> /\ w.next = Begin
      /\ \A c \in w.bases : BasisFits(w, c)
  BY Zenon DEF WalkFits
<1>4. w.ask.mode \in {"section", "search", "chunk"}
  BY <1>3, ReadingAssumption
<1>5. /\ Identified(list) /\ (w.ask.mode = "chunk" => There(stored))
      /\ ~ Structured(content) /\ Gone(stored) => Len(list) = 0
  <2>1. Identified(list)
    BY <1>a, <1>4, CandidatesIdentified
  <2>2. (w.ask.mode = "chunk" => There(stored))
    BY <1>a, <1>4, CandidatesIdentified
  <2>3. ~ Structured(content) /\ Gone(stored) => Len(list) = 0
    BY <1>a, <1>4, CandidatesIdentified
  <2> QED BY <2>1, <2>2, <2>3
<1>6. IsList(list) /\ Len(list) \in Nat
  BY <1>5 DEF Identified, IsList
<1>7. results \in Nat \ {0} /\ chars \in Nat \ {0}
  BY ReadingAssumption
<1>8. Marked(page, content, w.ask) /\ (Len(list) = 0 => page.next = Begin)
  <2>1. Marked(page, content, w.ask)
    BY <1>0, <1>6, <1>7, PageMarked
  <2>2. (Len(list) = 0 => page.next = Begin)
    BY <1>0, <1>6, <1>7, PageMarked
  <2> QED BY <2>1, <2>2
<1>9. \A c \in w.bases :
        /\ c \in Basis /\ There(c.stored) /\ Hash(c.content) = Hash(content)
        /\ Structured(c.content) <=> Structured(content)
        /\ ~ Structured(c.content) => w.bases = {c}
        /\ Granted(c.content, c.stored, w.ask)
        /\ Structured(c.content) => There(c.stored)
  <2> SUFFICES ASSUME NEW c \in w.bases
               PROVE  /\ c \in Basis /\ There(c.stored) /\ Hash(c.content) = Hash(content)
                      /\ Structured(c.content) <=> Structured(content)
                      /\ ~ Structured(c.content) => w.bases = {c}
                      /\ Granted(c.content, c.stored, w.ask)
                      /\ Structured(c.content) => There(c.stored)
    BY Zenon
  <2>1. BasisFits(w, c)
    BY <1>3
  <2>2. /\ c \in Basis /\ There(c.stored) /\ w.next # Begin /\ w.next.hash = Hash(c.content)
        /\ ~ Structured(c.content) => w.bases = {c}
        /\ Granted(c.content, c.stored, w.ask)
        /\ Structured(c.content) => There(c.stored)
    BY <2>1, Zenon DEF BasisFits
  <2>3. w.next.hash = Hash(content)
    <3> SUFFICES ASSUME w.next.hash # Hash(content) PROVE FALSE
      OBVIOUS
    <3>1. CursorRefusal(w.next, content, w.ask) = "ACTIVE_CV_CHANGED"
      BY <2>2, Zenon DEF CursorRefusal
    <3> QED BY <3>1, Zenon DEF Followed
  <2>4. Structured(c.content) <=> Structured(content)
    BY <2>2, <2>3 DEF Hash
  <2> QED BY <2>2, <2>3, <2>4
<1>10. page.next # Begin => There(stored)
  BY <1>a, <1>5, <1>8
<1>11. ~ Structured(content) => w.bases \subseteq {basis}
  <2> SUFFICES ASSUME ~ Structured(content), NEW c \in w.bases PROVE c = basis
    BY Zenon
  <2>1. c \in Basis /\ There(c.stored) /\ There(stored) /\ ~ Structured(c.content)
    BY <1>a, <1>9
  <2>2. c.content = content
    BY <2>1 DEF Structured
  <2>4. c.stored = basis.stored /\ c.content = basis.content
    BY <1>2, <2>1, <2>2, Zenon DEF There
  <2> QED BY <1>2, <2>1, <2>4, BasisRecords, Zenon
<1>12. \A c \in w.bases : w.ask.mode = "chunk" =>
          Candidates(c.content, c.stored, w.ask) = list
  <2> SUFFICES ASSUME NEW c \in w.bases, w.ask.mode = "chunk"
               PROVE  Candidates(c.content, c.stored, w.ask) = list
    BY Zenon
  <2>1. c.stored = stored
    BY <1>5, <1>9, Zenon DEF There
  <2>2. Candidates(c.content, stored, w.ask) = Candidates(content, stored, w.ask)
    BY ChunkListsAgree, Zenon
  <2> QED BY <2>1, <2>2, Zenon
<1>13. ASSUME w.bases \subseteq {basis} \/ w.ask.mode = "chunk"
       PROVE  ShownOf(v, list)
  <2>1. \A c \in w.bases :
           Candidates(c.content, c.stored, w.ask)
             = Candidates(basis.content, basis.stored, w.ask)
    BY <1>2, <1>12, <1>13, Zenon
  <2>2. list = Candidates(basis.content, basis.stored, w.ask)
    BY <1>2, Zenon
  <2>3. PICK k \in 0..Len(list) : w.shown = FirstOf(list, k) /\ w.next.after = Cursor(list, k)
    BY <1>6, <1>13, <2>1, <2>2, WalkBegun, Zenon
  <2>4. PageFits(page, list, k)
    BY <1>0, <1>5, <1>7, <2>3, PageContinuesWalk, Zenon
  <2> HIDE DEF list
  <2>5. PICK t \in 0..Len(list) - k :
           /\ page.shown = NextOf(list, k, t)
           /\ page.next = Begin => k + t = Len(list)
           /\ page.next # Begin => k + t > 0 /\ page.next.after = list[k + t].identity
    BY <2>4, Zenon DEF PageFits
  <2>6. k \in Nat /\ t \in Nat /\ k + t \in 0..Len(list)
    BY <1>6, <2>3, <2>5, SumBound, Zenon
  <2>7. v.shown = FirstOf(list, k + t)
    <3>1. v.shown = w.shown \o page.shown
      BY <1>1, Zenon DEF Shown
    <3> QED BY <2>3, <2>5, <2>6, <3>1, PrefixGrows, Zenon
  <2>8. IF v.at = "complete" THEN k + t = Len(list)
        ELSE k + t > 0 /\ v.next.after = list[k + t].identity
    BY <1>1, <2>5
  <2> QED BY <2>6, <2>7, <2>8, Zenon DEF ShownOf
<1> HIDE DEF list
<1>14. ASSUME NEW c \in v.bases
       PROVE  BasisFits(v, c)
  <2>1. /\ c \in Basis /\ Hash(c.content) = Hash(content)
        /\ Structured(c.content) <=> Structured(content)
        /\ Granted(c.content, c.stored, v.ask)
        /\ Structured(c.content) => There(c.stored)
        /\ page.next # Begin => There(c.stored)
    <3>1. v.bases = w.bases \cup {basis} /\ v.ask = w.ask
      BY <1>1, Zenon
    <3>2. CASE c = basis
      <4>1. Granted(c.content, c.stored, v.ask)
        BY <1>2, <3>1, <3>2, Zenon
      <4>2. Structured(content) => There(stored)
        BY <1>a, Zenon
      <4> QED BY <1>2, <1>10, <3>2, <4>1, <4>2, Zenon
    <3>3. CASE c \in w.bases
      <4>1. Granted(c.content, c.stored, v.ask)
        BY <1>9, <3>1, <3>3, Zenon
      <4> QED BY <1>9, <3>3, <4>1, Zenon
    <3> QED BY <3>1, <3>2, <3>3, Zenon
  <2>2. ~ Structured(c.content) => v.bases = {c}
    BY <1>1, <1>11, <2>1
  <2>3. v.at = "walking" =>
         /\ There(c.stored)
         /\ v.next # Begin /\ v.next.hash = Hash(c.content)
         /\ v.next.mode = v.ask.mode /\ v.next.selector = v.ask.selector
    BY <1>1, <1>8, <2>1 DEF Marked
  <2>4. ASSUME v.bases = {c} \/ v.ask.mode = "chunk"
        PROVE  ShownOf(v, Candidates(c.content, c.stored, v.ask))
    <3>1. w.bases \subseteq {basis} \/ w.ask.mode = "chunk"
      BY <1>1, <2>4, Zenon
    <3>2. Candidates(c.content, c.stored, v.ask) = list
      <4>1. c \in w.bases \/ c = basis
        BY <1>1, Zenon
      <4>2. c = basis \/ w.ask.mode = "chunk"
        <5>1. v.bases = w.bases \cup {basis} /\ v.ask = w.ask
          BY <1>1, Zenon
        <5> QED BY <2>4, <5>1
      <4>3. basis.content = content /\ basis.stored = stored
        BY <1>2
      <4> QED BY <1>1, <1>12, <4>1, <4>2, <4>3, Zenon DEF list
    <3> QED BY <1>13, <3>1, <3>2, Zenon
  <2> QED BY <2>1, <2>2, <2>3, <2>4, Zenon DEF BasisFits
<1>15. IsFiniteSet(v.bases) /\ v.bases # {}
  BY <1>1, <1>3, FS_AddElement, Zenon
<1>16. WalkFits(v)
  BY <1>1, <1>3, <1>14, <1>15, Zenon DEF WalkFits
<1> QED BY <1>16, Zenon DEF v, page, basis

-----------------------------------------------------------------------------
(* The writers of the CV *)

\* A write leaves the call and the walk alone, and the chunk rows where they were
\* unless it is the deletion.
LEMMA CvWritten ==
    ASSUME SourceOK, Writes
    PROVE  /\ SourceOK'
           /\ UNCHANGED <<call, walk>>
           /\ owned' => owned
           /\ owned' /\ Stored => Stored'
<1> USE DEF SourceOK, Stored, Structured, Contents
<1>1. ASSUME NEW d \in Documents, Publish(d)
      PROVE  /\ SourceOK'
             /\ UNCHANGED <<call, walk>>
             /\ owned' => owned
             /\ owned' /\ Stored => Stored'
  <2>1. extracted' \in 1..MaxExtractions + 1 /\ published' \in 0..extracted' /\ published' # 0
    BY <1>1, ReadingAssumption DEF Publish
  <2> QED BY <1>1, <2>1 DEF Publish
<1>2. CASE Approve
  BY <1>2 DEF Approve
<1>3. CASE Discard
  BY <1>3 DEF Discard
<1>4. CASE Delete
  <2>1. extracted' = extracted /\ published' = 0 /\ extracted \in 1..MaxExtractions + 1
    BY <1>4 DEF Delete
  <2>2. published' \in 0..extracted'
    BY <2>1, ReadingAssumption
  <2>3. owned' = FALSE /\ owned' \in BOOLEAN
    BY <1>4 DEF Delete
  <2>4. document' = NoDocument /\ draft' = NoDocument /\ UNCHANGED <<call, walk>>
    BY <1>4 DEF Delete
  <2>5. ~ owned'
    BY <2>3
  <2>6. document' \in Contents /\ draft' \in Contents /\ ~ Structured(document)'
    BY <2>4
  <2>7. extracted' \in 1..MaxExtractions + 1
    BY <2>1
  <2>8. SourceOK'
    BY <2>2, <2>3, <2>4, <2>6, <2>7, Zenon
  <2> QED BY <2>4, <2>5, <2>8, Zenon
<1> QED BY <1>1, <1>2, <1>3, <1>4 DEF Writes

\* No write disturbs what a walk and a call rest on.
LEMMA WriteKeepsCv ==
    ASSUME CvInv, Writes
    PROVE  CvInv'
<1>1. SourceOK' /\ walk' = walk /\ call' = call
  BY CvWritten, Zenon DEF CvInv
<1>2. \A basis : StillStored(basis) => StillStored(basis)'
  <2>1. (owned' => owned) /\ (owned' /\ Stored => Stored')
    BY CvWritten, Zenon DEF CvInv
  <2> QED BY <2>1, Zenon DEF StillStored
<1>3. ToolOK' /\ WalkFits(walk)'
  BY <1>1, Zenon DEF CvInv, ToolOK
<1>4. WalkStored' /\ CallFits'
  BY <1>1, <1>2, Zenon DEF CvInv, WalkStored, CallFits
<1> QED BY <1>1, <1>3, <1>4, Zenon DEF CvInv

-----------------------------------------------------------------------------
(* The steps of the tool *)

\* The reader changes nothing that it reads.
LEMMA SourceKept ==
    ASSUME SourceOK, UNCHANGED sourceVars
    PROVE  SourceOK' /\ (\A basis : StillStored(basis)' <=> StillStored(basis))
<1>1. UNCHANGED <<document, draft, extracted, published, owned>>
  BY DEF sourceVars
<1> QED BY <1>1, Zenon DEF SourceOK, StillStored, Stored

\* A walk that is over, with an error, is no longer of interest.
LEMMA EndedInError ==
    ASSUME CvInv, NEW code \in Codes, EndInError(code), UNCHANGED sourceVars
    PROVE  CvInv'
<1>1. call' = NoCall /\ walk' = [walk EXCEPT !.at = "failed", !.code = code]
  BY Zenon DEF EndInError
<1>2. NoCall.at = "idle" /\ NoCall.expected = "" /\ IsCall(NoCall)
  BY Zenon DEF NoCall, IsCall
<1>3. IsWalk(walk) /\ \A basis \in walk.bases : basis \in Basis
  BY Zenon DEF CvInv, ToolOK
<1>4. walk'.at = "failed" /\ walk'.code = code /\ walk'.bases = walk.bases /\ IsWalk(walk')
  BY <1>1, <1>3 DEF IsWalk
<1>5. SourceOK'
  BY SourceKept, Zenon DEF CvInv
<1>6. ToolOK'
  BY <1>1, <1>2, <1>3, <1>4, Zenon DEF ToolOK
<1>7. WalkFits(walk')
  BY <1>4 DEF WalkFits
<1>8. WalkStored'
  BY <1>4 DEF WalkStored
<1>9. CallFits'
  BY <1>1, <1>2 DEF CallFits
<1> QED BY <1>5, <1>6, <1>7, <1>8, <1>9, Zenon DEF CvInv

\* A walk begins with nothing shown.
LEMMA StartKeepsCv ==
    ASSUME CvInv, NEW ask \in Asks, StartWalk(ask)
    PROVE  CvInv'
<1>1. /\ walk.at = "none" /\ call' = call /\ UNCHANGED sourceVars
      /\ walk' = [NoWalk EXCEPT !.at = "walking", !.ask = ask]
  BY Zenon DEF StartWalk
<1>2. /\ IsWalk(NoWalk) /\ NoWalk.next = Begin /\ NoWalk.shown = <<>>
      /\ NoWalk.bases = {} /\ NoWalk.code = ""
  BY Zenon DEF NoWalk, IsWalk
<1>3. /\ IsWalk(walk') /\ walk'.at = "walking" /\ walk'.ask = ask
      /\ walk'.next = NoWalk.next /\ walk'.shown = NoWalk.shown
      /\ walk'.bases = NoWalk.bases /\ walk'.code = NoWalk.code
  <2>1. IsWalk(NoWalk)
    BY <1>2, Zenon
  <2> QED BY <1>1, <2>1 DEF IsWalk
<1>4. SourceOK'
  BY <1>1, SourceKept, Zenon DEF CvInv
<1>5. ToolOK'
  <2>1. "" \in Codes
    BY Zenon DEF Codes
  <2>2. walk'.code = "" /\ walk'.bases = {}
    BY <1>2, <1>3, Zenon
  <2> QED BY <1>1, <1>3, <2>1, <2>2, Zenon DEF CvInv, ToolOK
<1>6. WalkFits(walk')
  <2>1. walk'.bases = {} /\ walk'.shown = <<>> /\ walk'.next = Begin
    BY <1>2, <1>3, Zenon
  <2>2. IsFiniteSet(walk'.bases)
    BY <2>1, FS_EmptySet
  <2> QED BY <1>3, <2>1, <2>2, Zenon DEF WalkFits
<1>7. WalkStored'
  BY <1>2, <1>3, Zenon DEF WalkStored
<1>8. CallFits'
  <2>1. call.at = "idle"
    BY <1>1 DEF CvInv, CallFits
  <2> QED BY <1>1, <2>1 DEF CallFits
<1> QED BY <1>4, <1>5, <1>6, <1>7, <1>8, Zenon DEF CvInv

\* The first session: the call knows which CV it reads.
LEMMA IdentifyKeepsCv ==
    ASSUME CvInv, Identify
    PROVE  CvInv'
<1>1. UNCHANGED sourceVars /\ walk.at = "walking"
  BY Zenon DEF Identify
<1>2. CASE EndInError("NO_ACTIVE_CV")
  <2>1. "NO_ACTIVE_CV" \in Codes
    BY Zenon DEF Codes
  <2> QED BY <1>1, <1>2, <2>1, EndedInError, Zenon
<1>3. CASE /\ call' = [NoCall EXCEPT !.at = "identified", !.expected = Hash(document)]
           /\ UNCHANGED walk
  <2>1. IsCall(NoCall)
    BY Zenon DEF NoCall, IsCall
  <2>2. IsCall(call') /\ call'.at = "identified" /\ call'.expected = Hash(document)
    BY <1>3, <2>1 DEF IsCall
  <2>3. Hash(document) \in {"", "canonical"}
    BY Zenon DEF Hash
  <2>4. SourceOK' /\ WalkStored'
    BY <1>1, <1>3, SourceKept, Zenon DEF CvInv, WalkStored
  <2>5. ToolOK'
    BY <1>3, <2>2, <2>3, Zenon DEF CvInv, ToolOK
  <2>6. WalkFits(walk')
    BY <1>3, Zenon DEF CvInv
  <2>7. CallFits'
    BY <1>1, <1>3, <2>2 DEF CallFits
  <2> QED BY <2>4, <2>5, <2>6, <2>7, Zenon DEF CvInv
<1> QED BY <1>2, <1>3, Zenon DEF Identify

\* A call that fails may be repeated: the walk is where it was.
LEMMA RaisedKeepsCv ==
    ASSUME CvInv, ReadRaises
    PROVE  CvInv'
<1>1. call' = NoCall /\ UNCHANGED sourceVars /\ walk' = walk
  BY Zenon DEF ReadRaises
<1>2. NoCall.at = "idle" /\ NoCall.expected = "" /\ IsCall(NoCall)
  BY Zenon DEF NoCall, IsCall
<1>3. SourceOK' /\ WalkStored'
  BY <1>1, SourceKept, Zenon DEF CvInv, WalkStored
<1>4. ToolOK'
  BY <1>1, <1>2, Zenon DEF CvInv, ToolOK
<1>5. WalkFits(walk')
  BY <1>1, Zenon DEF CvInv
<1>6. CallFits'
  <2>1. call'.at = "idle"
    BY <1>1, <1>2, Zenon
  <2> QED BY <2>1 DEF CallFits
<1> QED BY <1>3, <1>4, <1>5, <1>6, Zenon DEF CvInv

\* The third session: the agent is shown the page, or the walk is over.
LEMMA ConfirmKeepsCv ==
    ASSUME CvInv, Confirm
    PROVE  CvInv'
<1>1. UNCHANGED sourceVars /\ call.at = "read"
  BY Zenon DEF Confirm
<1>2. CASE EndInError("ACTIVE_CV_CHANGED")
  <2>1. "ACTIVE_CV_CHANGED" \in Codes
    BY Zenon DEF Codes
  <2> QED BY <1>1, <1>2, <2>1, EndedInError, Zenon
<1>3. CASE Show(call.page, call.basis) /\ call' = NoCall
  <2>1. walk' = Showing(walk, call.page, call.basis)
    BY <1>3, Zenon DEF Show, Showing
  <2>2. IsWalk(walk) /\ walk.code \in Codes /\ walk.at = "walking"
    BY <1>1 , Zenon DEF CvInv, ToolOK, CallFits
  <2>3. /\ call.page.next = Begin => walk'.at = "complete"
        /\ call.page.next # Begin => walk'.at = walk.at
        /\ walk'.code = walk.code
        /\ walk'.bases = walk.bases \cup {call.basis}
        /\ IsWalk(walk')
    BY <2>1, <2>2, ShowingFields
  <2>4. walk'.at \in {"walking", "complete"}
    BY <2>2, <2>3
  <2>5. /\ WalkFits(Showing(walk, call.page, call.basis))
        /\ call.basis \in Basis /\ StillStored(call.basis)
    BY <1>1, Zenon DEF CvInv, CallFits
  <2>6. SourceOK'
    BY <1>1, SourceKept, Zenon DEF CvInv
  <2>7. NoCall.at = "idle" /\ NoCall.expected = "" /\ IsCall(NoCall)
    BY Zenon DEF NoCall, IsCall
  <2>8. ToolOK'
    <3>1. \A basis \in walk'.bases : basis \in Basis
      BY <2>3, <2>5, Zenon DEF CvInv, ToolOK
    <3>2. call'.at \in {"idle", "identified", "read"} /\ call'.expected \in {"", "canonical"}
      BY <1>3, <2>7, Zenon
    <3>3. walk'.at \in {"none", "walking", "complete", "failed"}
      BY <2>4, Zenon
    <3> QED BY <1>3, <2>2, <2>3, <2>7, <3>1, <3>2, <3>3, Zenon DEF ToolOK
  <2>9. WalkStored'
    <3>1. \A basis \in walk.bases : StillStored(basis)
      BY <2>2, Zenon DEF CvInv, WalkStored
    <3>2. \A basis \in walk'.bases : StillStored(basis)
      BY <2>3, <2>5, <3>1, Zenon
    <3>3. \A basis \in walk'.bases : StillStored(basis)'
      BY <1>1, <3>2, SourceKept, Zenon DEF CvInv
    <3> QED BY <3>3, Zenon DEF WalkStored
  <2>10. CallFits'
    <3>1. call'.at = "idle"
      BY <1>3, <2>7, Zenon
    <3> QED BY <3>1 DEF CallFits
  <2> QED BY <2>1, <2>5, <2>6, <2>8, <2>9, <2>10, Zenon DEF CvInv
<1> QED BY <1>2, <1>3, Zenon DEF Confirm

\* A cursor that is followed is of the question that is asked.
LEMMA FollowedCursor ==
    ASSUME NEW cursor, NEW content, NEW ask, Followed(cursor, content, ask),
           cursor # Begin
    PROVE  cursor.selector = ask.selector
<1>1. CursorRefusal(cursor, content, ask) = ""
  BY Zenon DEF Followed
<1>2. cursor.hash = Hash(content)
  BY <1>1, Zenon DEF CursorRefusal
<1>3. CASE cursor.selector # ask.selector
  <2>1. CursorRefusal(cursor, content, ask) = "MALFORMED_CURSOR"
    BY <1>2, <1>3, Zenon DEF CursorRefusal
  <2> QED BY <1>1, <2>1, Zenon
<1> QED BY <1>3, Zenon

NoError(page) == page.code = ""

IsPage(page, content, stored, ask, after, results, chars) ==
    page = PageOf(content, stored, ask, after, results, chars)

\* A page without an error is a page of the candidates.
LEMMA PageRead ==
    ASSUME NEW expected, NEW content, NEW stored, NEW ask, NEW cursor,
           NEW results, NEW chars, NEW page,
           page = ReadPage(expected, content, stored, ask, cursor, results, chars),
           NoError(page)
    PROVE  /\ IsPage(page, content, stored, ask, cursor.after, results, chars)
           /\ Followed(cursor, content, ask)
           /\ Granted(content, stored, ask)
<1> DEFINE bound == CursorRefusal(cursor, content, ask)
           refused == Refusal(content, stored, ask)
<1>0. page.code = ""
  BY Zenon DEF NoError
<1>1. \A code : Failed(code).code = code
  BY Zenon DEF Failed
<1>2. Hash(content) = expected
  <2>1. Hash(content) # expected => page = Failed("ACTIVE_CV_CHANGED")
    BY Zenon DEF ReadPage
  <2>2. Failed("ACTIVE_CV_CHANGED").code # ""
    BY Zenon DEF Failed
  <2> QED BY <1>0, <2>1, <2>2, Zenon
<1>3. bound = ""
  <2>1. bound # "" => page = Failed(bound)
    BY <1>2, Zenon DEF ReadPage
  <2> QED BY <1>0, <1>1, <2>1, Zenon
<1>4. refused = ""
  <2>1. refused # "" => page = Failed(refused)
    BY <1>2, <1>3, Zenon DEF ReadPage
  <2> QED BY <1>0, <1>1, <2>1, Zenon
<1>5. page = PageOf(content, stored, ask, cursor.after, results, chars)
  BY <1>2, <1>3, <1>4, Zenon DEF ReadPage
<1> QED BY <1>3, <1>4, <1>5, Zenon DEF Followed, Granted, IsPage

\* Why a page was refused is one of the codes.
LEMMA PageCodes ==
    ASSUME NEW expected, NEW content, NEW stored, NEW ask, NEW cursor,
           NEW results, NEW chars, NEW page,
           page = ReadPage(expected, content, stored, ask, cursor, results, chars)
    PROVE  page.code \in Codes
<1>1. CursorRefusal(cursor, content, ask) \in Codes
  BY Zenon DEF CursorRefusal, Codes
<1>2. Refusal(content, stored, ask) \in Codes
  BY Zenon DEF Refusal, Codes
<1>3. "ACTIVE_CV_CHANGED" \in Codes /\ "" \in Codes
  BY Zenon DEF Codes
<1>4. \A code : Failed(code).code = code
  BY Zenon DEF Failed
<1>5. PageOf(content, stored, ask, cursor.after, results, chars).code = ""
  BY Zenon DEF PageOf
<1>6. \/ page = Failed("ACTIVE_CV_CHANGED")
      \/ page = Failed(CursorRefusal(cursor, content, ask))
      \/ page = Failed(Refusal(content, stored, ask))
      \/ page = PageOf(content, stored, ask, cursor.after, results, chars)
  BY Zenon DEF ReadPage
<1> QED BY <1>1, <1>2, <1>3, <1>4, <1>5, <1>6, Zenon

\* A call asks what the walk asks, though it may leave the ordinal out.
LEMMA AskUnchanged ==
    ASSUME WalkFits(walk), walk.at = "walking", NEW ask \in AskedNow,
           Followed(walk.next, document, ask)
    PROVE  ask = walk.ask
<1>1. walk.ask \in Asks
  BY Zenon DEF WalkFits
<1>2. CASE walk.next # Begin /\ ask = [walk.ask EXCEPT !.selector = 0]
  <2>1. PICK c \in walk.bases : TRUE
    BY <1>2, Zenon DEF WalkFits
  <2>2. BasisFits(walk, c)
    BY <2>1, Zenon DEF WalkFits
  <2>3. walk.next.selector = walk.ask.selector
    BY <2>2, Zenon DEF BasisFits
  <2>4. walk.next.selector = ask.selector
    BY <1>2, FollowedCursor, Zenon
  <2>5. walk.ask = [mode |-> walk.ask.mode, selector |-> walk.ask.selector]
    BY <1>1, ReadingAssumption, Zenon
  <2>6. ask = [mode |-> walk.ask.mode, selector |-> 0]
    BY <1>2, <2>5
  <2>7. walk.ask.selector = 0
    BY <2>3, <2>4, <2>6
  <2> QED BY <2>5, <2>6, <2>7, Zenon
<1>3. CASE ask = walk.ask
  BY <1>3
<1> QED BY <1>2, <1>3, Zenon DEF AskedNow

\* The second session: the page that is read would continue the walk.
LEMMA ReadKeepsCv ==
    ASSUME CvInv, Read
    PROVE  CvInv'
<1>1. UNCHANGED sourceVars /\ call.at = "identified"
  BY Zenon DEF Read
<1>2. WalkFits(walk) /\ walk.at = "walking" /\ IsWalk(walk) /\ IsCall(call) /\ SourceOK
  <2>1. call.at # "idle"
    BY <1>1
  <2> QED BY <2>1, Zenon DEF CvInv, ToolOK, CallFits
<1>3. CASE EndInError("NO_ACTIVE_CV")
  <2>1. "NO_ACTIVE_CV" \in Codes
    BY Zenon DEF Codes
  <2> QED BY <1>1, <1>3, <2>1, EndedInError, Zenon
<1>4. ASSUME owned, NEW ask \in AskedNow, NEW results \in ResultCaps,
             NEW chars \in CharCaps, NEW page,
             page = ReadPage(call.expected, document, Stored, ask, walk.next,
                             results, chars),
             \/ EndInError(page.code)
             \/ /\ NoError(page)
                /\ call' = [call EXCEPT
                     !.at = "read", !.page = page,
                     !.basis = [content |-> document, stored |-> Stored]]
                /\ UNCHANGED walk
      PROVE  CvInv'
  <2>1. page.code \in Codes
    BY <1>4, PageCodes, Zenon
  <2>2. CASE EndInError(page.code)
    BY <1>1, <2>1, <2>2, EndedInError, Zenon
  <2>3. CASE /\ NoError(page)
             /\ call' = [call EXCEPT
                  !.at = "read", !.page = page,
                  !.basis = [content |-> document, stored |-> Stored]]
             /\ UNCHANGED walk
    <3>0. PICK basis : basis = [content |-> document, stored |-> Stored]
      OBVIOUS
    <3>1. /\ page = PageOf(document, Stored, ask, walk.next.after, results, chars)
          /\ Followed(walk.next, document, ask)
          /\ Granted(document, Stored, ask)
      <4>1. page = ReadPage(call.expected, document, Stored, ask, walk.next, results, chars)
        BY <1>4, Zenon
      <4>2. NoError(page)
        BY <2>3, Zenon
      <4>3. /\ IsPage(page, document, Stored, ask, walk.next.after, results, chars)
            /\ Followed(walk.next, document, ask)
            /\ Granted(document, Stored, ask)
        BY <4>1, <4>2, PageRead, Zenon
      <4> QED BY <4>3, Zenon DEF IsPage
    <3>2. ask = walk.ask
      BY <1>2, <3>1, AskUnchanged, Zenon
    <3>3. StoredAlong(walk, document, Stored) /\ Stored \in BOOLEAN
      <4>1. CASE Stored
        <5>1. Stored = TRUE
          BY <4>1
        <5> QED BY <5>1, Zenon DEF StoredAlong, There
      <4>2. CASE ~ Stored
        <5>1. Stored = FALSE
          BY <4>2
        <5>2. ~ Structured(document)
          BY <1>2, <4>2, Zenon DEF SourceOK
        <5>3. \A c \in walk.bases : ~ There(c.stored)
          BY <1>2, <1>4, <4>2, Zenon DEF CvInv, WalkStored, StillStored
        <5> QED BY <5>1, <5>2, <5>3, Zenon DEF StoredAlong, Gone
      <4> QED BY <4>1, <4>2, Zenon
    <3>4. document \in Contents
      BY <1>2, Zenon DEF SourceOK
    <3>5. WalkFits(Showing(walk, page, basis))
      BY <1>2, <1>4, <3>1, <3>2, <3>3, <3>4, <3>0, PageKeepsFit, Zenon
    <3>6. basis \in Basis
      <4>1. \A s \in BOOLEAN : [content |-> document, stored |-> s] \in Basis
        BY <3>4 DEF Basis
      <4> QED BY <3>0, <3>3, <4>1, Zenon
    <3>7. basis.stored = Stored
      BY <3>0
    <3>8. call' = [call EXCEPT !.at = "read", !.page = page, !.basis = basis]
      BY <2>3, <3>0, Zenon
    <3>9. walk' = walk
      BY <2>3
    <3>10. /\ call'.at = "read" /\ call'.page = page /\ call'.basis = basis
           /\ call'.expected = call.expected /\ IsCall(call')
      BY <1>2, <3>8 DEF IsCall
    <3>11. StillStored(basis)
      BY <3>7, Zenon DEF StillStored, There
    <3>12. SourceOK' /\ WalkStored' /\ StillStored(basis)'
      BY <1>1, <3>9, <3>11, SourceKept, Zenon DEF CvInv, WalkStored
    <3>13. ToolOK'
      BY <3>9, <3>10, Zenon DEF CvInv, ToolOK
    <3>14. WalkFits(walk')
      BY <1>2, <3>9, Zenon
    <3>15. CallFits'
      <4>1. walk'.at = "walking" /\ WalkFits(Showing(walk', call'.page, call'.basis))
        BY <1>2, <3>5, <3>9, <3>10, Zenon
      <4>2. call'.basis \in Basis /\ StillStored(call.basis)'
        BY <3>6, <3>10, <3>12, Zenon DEF StillStored
      <4> QED BY <4>1, <4>2, Zenon DEF CallFits
    <3> QED BY <3>12, <3>13, <3>14, <3>15, Zenon DEF CvInv
  <2> QED BY <1>4, <2>2, <2>3, Zenon
<1>5. \/ EndInError("NO_ACTIVE_CV")
      \/ owned /\ \E ask \in AskedNow, results \in ResultCaps, chars \in CharCaps :
         \E page :
           /\ page = ReadPage(call.expected, document, Stored, ask, walk.next,
                              results, chars)
           /\ \/ EndInError(page.code)
              \/ /\ NoError(page)
                 /\ call' = [call EXCEPT
                      !.at = "read", !.page = page,
                      !.basis = [content |-> document, stored |-> Stored]]
                 /\ UNCHANGED walk
  BY Zenon DEF Read, NoError
<1> QED BY <1>3, <1>4, <1>5, Zenon

-----------------------------------------------------------------------------
(* The specification *)

IsView(v) ==
    v = [at |-> v.at, kind |-> v.kind, scope |-> v.scope, next |-> v.next,
         shown |-> v.shown, began |-> v.began, editions |-> v.editions]

\* What holds between any two steps of a reader and the writers.
ReadingInv == CvInv /\ RowsInv /\ ChunkWalk /\ reader \in Readers

\* The invariant holds when nothing has been read yet.
LEMMA ReadingStarts ==
    ASSUME ReadingInit
    PROVE  ReadingInv
<1>1. CvInit /\ HistoryInit /\ reader \in Readers
  BY Zenon DEF ReadingInit
<1>2. SourceOK
  <2>1. /\ document \in Contents /\ draft = NoDocument /\ owned = TRUE
        /\ extracted = 1 /\ published \in {0, 1}
        /\ Structured(document) => published = 1
    BY <1>1, Zenon DEF CvInit
  <2>2. extracted \in 1..MaxExtractions + 1 /\ published \in 0..extracted
    BY <2>1, ReadingAssumption
  <2>3. Structured(document) => Stored
    BY <2>1 DEF Stored
  <2>4. draft \in Contents /\ owned \in BOOLEAN
    BY <2>1 DEF Contents
  <2> QED BY <2>1, <2>2, <2>3, <2>4, Zenon DEF SourceOK
<1>3. ToolOK
  <2>1. call = NoCall /\ walk = NoWalk
    BY <1>1, Zenon DEF CvInit
  <2>2. NoCall.at = "idle" /\ NoCall.expected = "" /\ IsCall(NoCall)
    BY Zenon DEF NoCall, IsCall
  <2>3. NoWalk.at = "none" /\ NoWalk.code = "" /\ NoWalk.bases = {} /\ IsWalk(NoWalk)
    BY Zenon DEF NoWalk, IsWalk
  <2>4. "" \in Codes
    BY Zenon DEF Codes
  <2> QED BY <2>1, <2>2, <2>3, <2>4, Zenon DEF ToolOK
<1>4. walk.at = "none" /\ call.at = "idle"
  BY <1>1, Zenon DEF CvInit, NoWalk, NoCall
<1>5. WalkFits(walk) /\ WalkStored /\ CallFits
  BY <1>4 DEF WalkFits, WalkStored, CallFits
<1>6. RowsInv
  <2>1. /\ selected \in Profiles \cup {NoProfile} /\ live = Profiles
        /\ rows = {} /\ used = {} /\ view = NoView
    BY <1>1, Zenon DEF HistoryInit
  <2>2. /\ NoView.at = "none" /\ NoView.kind = "" /\ NoView.began = {}
        /\ NoView.scope = NoProfile
    BY Zenon DEF NoView
  <2>3. IsView(NoView)
    BY Zenon DEF NoView, IsView
  <2>4. view.kind # "workspace" /\ view.at = "none" /\ view.began = {} /\ IsView(view)
    BY <2>1, <2>2, <2>3, Zenon
  <2>5. IsFiniteSet(rows) /\ DistinctIds(rows)
    BY <2>1, FS_EmptySet DEF DistinctIds
  <2>6. HistoryTypeOK
    BY <2>1, <2>4 DEF HistoryTypeOK
  <2>7. RowWalk
    BY <2>4 DEF RowWalk
  <2> QED BY <2>4, <2>5, <2>6, <2>7 DEF RowsInv, IsView
<1>7. ChunkWalk
  <2>1. extracted = 1 /\ published \in {0, 1} /\ view.at = "none"
    BY <1>1, Zenon DEF CvInit, HistoryInit, NoView
  <2> QED BY <2>1 DEF ChunkWalk
<1> QED BY <1>1, <1>2, <1>3, <1>5, <1>6, <1>7, Zenon DEF ReadingInv, CvInv

\* What concerns another reader leaves the walk over the CV alone.
LEMMA CvKept ==
    ASSUME CvInv, UNCHANGED cvVars
    PROVE  CvInv'
<1>1. /\ document' = document /\ draft' = draft /\ extracted' = extracted
      /\ published' = published /\ owned' = owned /\ call' = call /\ walk' = walk
  BY Zenon DEF cvVars
<1>2. SourceOK'
  BY <1>1, Zenon DEF CvInv, SourceOK, Stored
<1>3. \A basis : StillStored(basis) => StillStored(basis)'
  BY <1>1, Zenon DEF StillStored, Stored
<1>4. ToolOK' /\ WalkFits(walk)'
  BY <1>1, Zenon DEF CvInv, ToolOK
<1>5. WalkStored' /\ CallFits'
  BY <1>1, <1>3, Zenon DEF CvInv, WalkStored, CallFits
<1> QED BY <1>2, <1>4, <1>5, Zenon DEF CvInv

\* Every step of a reader or a writer keeps the invariant.
LEMMA ReadingSteps ==
    ASSUME ReadingInv, [ReadingNext]_readingVars
    PROVE  ReadingInv'
<1> USE DEF ReadingInv
<1>1. CASE Writes /\ UNCHANGED historyVars /\ reader' = reader
  BY <1>1, WriteKeepsCv, RowsUntouched, ChunksWritten, Zenon
<1>2. CASE Reads /\ UNCHANGED historyVars /\ reader' = reader
  <2>1. CvInv'
    BY <1>2, StartKeepsCv, IdentifyKeepsCv, ReadKeepsCv, RaisedKeepsCv,
       ConfirmKeepsCv, Zenon DEF Reads
  <2>2. UNCHANGED <<extracted, published, owned>>
    <3>1. UNCHANGED sourceVars
      BY <1>2, Zenon DEF Reads, StartWalk, Identify, Read, ReadRaises, Confirm, sourceVars
    <3> QED BY <3>1, Zenon DEF sourceVars
  <2> QED BY <1>2, <2>1, <2>2, RowsUntouched, ChunksUntouched, Zenon
<1>3. CASE /\ RowWrites \/ SelectionWrites \/ \E kinds : HistoryReads(kinds)
           /\ reader' = reader
  <2>1. UNCHANGED cvVars
    BY <1>3, Zenon DEF RowWrites, SelectionWrites, HistoryReads, AddRow, RemoveRow,
       Activate, Completes, OpenView, Refuse, NextRows, NextChunks, cvVars
  <2>2. RowsInv' /\ ChunkWalk'
    BY <1>3, RowsKept, ChunksKept, Zenon
  <2> QED BY <1>3, <2>1, <2>2, CvKept, Zenon
<1>4. CASE UNCHANGED readingVars
  <2>1. UNCHANGED cvVars /\ UNCHANGED historyVars /\ reader' = reader
    BY <1>4, Zenon DEF readingVars
  <2>2. UNCHANGED <<extracted, published, owned>>
    BY <2>1, Zenon DEF cvVars
  <2> QED BY <2>1, <2>2, CvKept, RowsUntouched, ChunksUntouched, Zenon
<1> QED BY <1>1, <1>2, <1>3, <1>4, Zenon DEF ReadingNext

\* The invariant holds in every reachable state.
LEMMA ReadingInvariant == ReadingSpec => []ReadingInv
BY ReadingStarts, ReadingSteps, PTL DEF ReadingSpec

\* The invariant contains type correctness.
LEMMA ReadingTypes ==
    ASSUME ReadingInv
    PROVE  ReadingTypeOK
<1>1. SourceOK /\ ToolOK /\ RowsInv /\ reader \in Readers
  BY Zenon DEF ReadingInv, CvInv
<1>2. CvTypeOK
  BY <1>1, Zenon DEF CvTypeOK, SourceOK, ToolOK
<1>3. HistoryTypeOK
  BY <1>1, Zenon DEF RowsInv
<1> QED BY <1>1, <1>2, <1>3, Zenon DEF ReadingTypeOK

\* A finite set that is neither empty nor a singleton has more than one element.
LEMMA SeveralElements ==
    ASSUME NEW S, IsFiniteSet(S), S # {}, \A x \in S : S # {x}
    PROVE  Cardinality(S) > 1
<1>1. Cardinality(S) \in Nat /\ Cardinality(S) # 0
  BY FS_EmptySet, FS_CardinalityType
<1>2. Cardinality(S) # 1
  BY FS_Singleton
<1> QED BY <1>1, <1>2

\* The invariant gives the exactness of a walk over the CV that is complete.
LEMMA CvWalkIsExact ==
    ASSUME ReadingInv
    PROVE  CvWalkExact
<1> SUFFICES ASSUME walk.at = "complete"
             PROVE  \/ \E basis \in walk.bases :
                         /\ walk.shown = Identities(basis)
                         /\ Structured(basis.content) \/ walk.bases = {basis}
                    \/ /\ walk.ask.mode # "chunk"
                       /\ \A basis \in walk.bases : Structured(basis.content)
                       /\ Cardinality(walk.bases) > 1
  BY Zenon DEF CvWalkExact
<1>1. /\ walk.ask \in Asks /\ IsFiniteSet(walk.bases) /\ walk.bases # {}
      /\ \A basis \in walk.bases : BasisFits(walk, basis)
  <2>1. WalkFits(walk) /\ walk.at # "walking"
    BY DEF ReadingInv, CvInv
  <2> QED BY <2>1, Zenon DEF WalkFits
<1>2. ASSUME NEW basis \in walk.bases,
             walk.bases = {basis} \/ walk.ask.mode = "chunk"
      PROVE  /\ walk.shown = Identities(basis)
             /\ Structured(basis.content) \/ walk.bases = {basis}
  <2> DEFINE list == Candidates(basis.content, basis.stored, walk.ask)
  <2>1. BasisFits(walk, basis)
    BY <1>1, Zenon
  <2>2. /\ basis \in Basis /\ Granted(basis.content, basis.stored, walk.ask)
        /\ ~ Structured(basis.content) => walk.bases = {basis}
    BY <2>1, Zenon DEF BasisFits
  <2>3. ShownOf(walk, list)
    BY <1>2, <2>1, Zenon DEF BasisFits
  <2>4. basis.content \in Contents /\ (There(basis.stored) \/ Gone(basis.stored))
    BY <2>2, BasisRecords, Zenon DEF There, Gone
  <2>5. walk.ask.mode \in {"section", "search", "chunk"}
    BY <1>1, ReadingAssumption, Zenon
  <2>6. IsList(list)
    <3>1. Identified(list)
      BY <2>2, <2>4, <2>5, CandidatesIdentified
    <3> QED BY <3>1, Zenon DEF Identified
  <2>7. Identities(basis) = FirstOf(list, Len(list))
    <3>1. Identities(basis) = [i \in DOMAIN list |-> list[i].identity]
      BY Zenon DEF Identities, Each
    <3> QED BY <2>6, <3>1, Zenon DEF FirstOf, IsList
  <2> HIDE DEF list
  <2>8. walk.shown = FirstOf(list, Len(list))
    BY <2>3 DEF ShownOf
  <2> QED BY <2>2, <2>7, <2>8, Zenon
<1>3. CASE \E basis \in walk.bases : walk.bases = {basis} \/ walk.ask.mode = "chunk"
  BY <1>2, <1>3, Zenon
<1>4. CASE ~ \E basis \in walk.bases : walk.bases = {basis} \/ walk.ask.mode = "chunk"
  <2>1. \A basis \in walk.bases : walk.bases # {basis}
    BY <1>4, Zenon
  <2>2. walk.ask.mode # "chunk"
    BY <1>1, <1>4, Zenon
  <2>3. \A basis \in walk.bases : Structured(basis.content)
    BY <1>1, <2>1, Zenon DEF BasisFits
  <2>4. Cardinality(walk.bases) > 1
    BY <1>1, <2>1, SeveralElements, Zenon
  <2> QED BY <2>2, <2>3, <2>4, Zenon
<1> QED BY <1>3, <1>4, Zenon

\* The invariant gives the exactness of a walk over a list that is complete.
LEMMA ListWalkIsExact ==
    ASSUME ReadingInv
    PROVE  ListWalkExact
<1>1. ASSUME view.at = "complete" /\ view.kind # "chunks",
             view.kind = "workspace" \/ view.scope # NoProfile
      PROVE  /\ view.began \cap rows \subseteq ToSet(view.shown)
             /\ Sorted(view.shown)
             /\ \A row \in ToSet(view.shown) : Owns(row)
             /\ DOMAIN view.shown = 1..Len(view.shown)
  <2>1. /\ view.shown \in Seq(Row) /\ Sorted(view.shown)
        /\ \A i \in 1..Len(view.shown) : Owns(view.shown[i])
        /\ \A row \in view.began \cap rows : Occurs(row, view.shown)
    BY <1>1 DEF ReadingInv, RowsInv, RowWalk, Named, Pending
  <2>2. DOMAIN view.shown = 1..Len(view.shown)
    BY <2>1
  <2> QED BY <2>1, <2>2, Zenon DEF ToSet, Occurs
<1>2. RowWalkExact
  BY <1>1 DEF RowWalkExact, Sorted, Owns
<1>3. ASSUME view.at = "complete" /\ view.kind = "chunks"
      PROVE  /\ \A i \in DOMAIN Chunks : i - 1 \in ToSet(view.shown)
             /\ Cardinality(view.editions) = 1 =>
                  view.shown = [i \in DOMAIN Chunks |-> i - 1]
  <2>1. ChunksShown /\ view.next = <<>>
    BY <1>3, Zenon DEF ReadingInv, ChunkWalk
  <2>2. /\ view.shown \in Seq(0..Len(Chunks) - 1)
        /\ view.editions \subseteq 0..extracted /\ IsFiniteSet(view.editions)
        /\ \A n \in 0..Len(Chunks) - 1 : Occurs(n, view.shown)
        /\ \A e \in 0..extracted : view.editions = {e} =>
             view.shown = [i \in 1..Len(Chunks) |-> i - 1]
    BY <1>3, <2>1 DEF ChunksShown
  <2>3. DOMAIN Chunks = 1..Len(Chunks) /\ Len(Chunks) \in Nat
    BY ReadingAssumption
  <2>4. DOMAIN view.shown = 1..Len(view.shown)
    BY <2>2
  <2>5. ASSUME NEW i \in DOMAIN Chunks
        PROVE  i - 1 \in ToSet(view.shown)
    <3>1. i - 1 \in 0..Len(Chunks) - 1
      BY <2>3
    <3> QED BY <2>2, <2>4, <3>1, Zenon DEF Occurs, ToSet
  <2>6. ASSUME Cardinality(view.editions) = 1
        PROVE  view.shown = [i \in DOMAIN Chunks |-> i - 1]
    <3>1. \E e : view.editions = {e}
      BY <2>2, <2>6, FS_Singleton
    <3> QED BY <2>2, <2>3, <3>1, Zenon
  <2> QED BY <2>5, <2>6
<1>4. ChunkWalkComplete
  BY <1>3, Zenon DEF ChunkWalkComplete
<1> QED BY <1>2, <1>4, Zenon DEF ListWalkExact

\* Type correctness of the readers and of what they read, for every PDF, every
\* set of questions and every set of rows, stamps and limits.
THEOREM ReadingIsTypeCorrect == ReadingSpec => []ReadingTypeOK
<1>1. ReadingInv => ReadingTypeOK
  BY ReadingTypes
<1> QED BY <1>1, ReadingInvariant, PTL

\* An agent that follows next_cursor to the end has been shown the candidates of
\* its question exactly once and in source order, whatever the caps cut and
\* whatever is published, approved or discarded meanwhile (CvWalkExact states the
\* one exception).
THEOREM AgentReadsTheCvExactly == ReadingSpec => []CvWalkExact
<1>1. ReadingInv => CvWalkExact
  BY CvWalkIsExact
<1> QED BY <1>1, ReadingInvariant, PTL

\* Paging by key neither loses nor repeats a row or a chunk, whatever is added,
\* removed or republished between the pages.
THEOREM ListsAreReadExactly == ReadingSpec => []ListWalkExact
<1>1. ReadingInv => ListWalkExact
  BY ListWalkIsExact
<1> QED BY <1>1, ReadingInvariant, PTL
==============================================================================
