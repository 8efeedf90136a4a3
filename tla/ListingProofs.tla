----------------------------- MODULE ListingProofs -----------------------------
(***************************************************************************)
(* What a walk through the pages of a list shows, for any table, page size   *)
(* and kind of order: the head of the sorted list of matches, page by page,   *)
(* until all of it has been shown.                                            *)
(***************************************************************************)
EXTENDS Listing, ArrangeProofs, SequenceTheorems

Requests == [search : Searches, field : Fields, desc : BOOLEAN, size : Nat \ {0}]

\* The list the pages are cut from.
Sorted == StableSort(Matching)

\* How much of a list of n rows the pages before p cover.
Covered(p, n) == IF (p - 1) * req.size > n THEN n ELSE (p - 1) * req.size

Setting ==
  /\ kind \in Kinds
  /\ rows \in Seq(Rows)
  /\ req \in Requests
  /\ page \in Nat \ {0}
  /\ walking \in BOOLEAN

\* What has been shown is the head of the sorted list.
ShownIsCovered ==
  kind = "products" \/ page =< 2 =>
    shown = SubSeq(Sorted, 1, Covered(page, Len(Matching)))

\* The walk goes on until the pages cover the list.
WalkFollowsTotal ==
  /\ total = -1 \/ total = Len(Matching)
  /\ ~walking => total = Len(Matching) /\ (page - 1) * req.size >= total

IInv ==
  /\ Setting
  /\ shown \in Seq(Rows)
  /\ \A k \in 1 .. Len(shown) : \E i \in 1 .. Len(rows) : shown[k] = rows[i]
  /\ ShownIsCovered
  /\ WalkFollowsTotal

--------------------------------------------------------------------------------
(* The order of the rows *)

(* Sorting by column or date, and by id within equal names, is an order: no     *)
(* row is less than itself, and rows that are not less than one another form    *)
(* classes.                                                                     *)
LEMMA LessIsWeakOrder ==
  ASSUME Setting, NEW a \in Rows, NEW b \in Rows, NEW c \in Rows
  PROVE  /\ ~Less(a, a)
         /\ Less(a, b) => ~Less(b, a)
         /\ Less(a, b) /\ Less(b, c) => Less(a, c)
         /\ ~Less(a, b) /\ ~Less(b, c) => ~Less(a, c)
<1>1. /\ a.id \in Int /\ b.id \in Int /\ c.id \in Int
      /\ a.column \in Int /\ b.column \in Int /\ c.column \in Int
      /\ a.arrived \in Nat \cup {-1} /\ b.arrived \in Nat \cup {-1}
      /\ c.arrived \in Nat \cup {-1}
      /\ req.desc \in BOOLEAN
  BY DEF Rows, Setting, Requests, Null
<1>2. CASE kind = "products"
  BY <1>1, <1>2 DEF Less, LessProduct, LessByColumn
<1>3. CASE kind # "products" /\ req.field = "arrived_at"
  BY <1>1, <1>3 DEF Less, LessOrder, LessByArrival, LessByColumn, Null
<1>4. CASE kind # "products" /\ req.field # "arrived_at"
  BY <1>1, <1>4 DEF Less, LessOrder, LessByColumn
<1> QED BY <1>2, <1>3, <1>4

\* The order in which a stable sort puts the places of s.
SortOrder(s) ==
  {p \in (1 .. Len(s)) \X (1 .. Len(s)) :
     Less(s[p[1]], s[p[2]]) \/ (~Less(s[p[2]], s[p[1]]) /\ p[1] < p[2])}

(* A stable sort leaves no two places of equal rank. *)
LEMMA SortOrderIsTotal ==
  ASSUME Setting, NEW s \in Seq(Rows)
  PROVE  StrictTotalOrder(1 .. Len(s), SortOrder(s))
<1> DEFINE P == 1 .. Len(s)
           B(i, j) == Less(s[i], s[j]) \/ (~Less(s[j], s[i]) /\ i < j)
<1>1. \A i, j \in P : <<i, j>> \in SortOrder(s) <=> B(i, j)
  BY DEF SortOrder
<1>2. \A i \in P : s[i] \in Rows /\ i \in Int
  OBVIOUS
<1>3. \A i \in P : ~B(i, i)
  BY <1>2, LessIsWeakOrder
<1>4. \A i, j, k \in P : B(i, j) /\ B(j, k) => B(i, k)
  <2> TAKE i, j, k \in P
  <2>1. /\ s[i] \in Rows /\ s[j] \in Rows /\ s[k] \in Rows
        /\ i \in Int /\ j \in Int /\ k \in Int
    BY <1>2
  <2> DEFINE L(x, y) == Less(s[x], s[y])
  <2>2. /\ L(i, j) => ~L(j, i)
        /\ L(j, k) => ~L(k, j)
        /\ L(i, k) => ~L(k, i)
        /\ L(i, j) /\ L(j, k) => L(i, k)
        /\ ~L(k, j) /\ ~L(j, i) => ~L(k, i)
        /\ ~L(i, k) /\ ~L(k, j) => ~L(i, j)
        /\ ~L(j, i) /\ ~L(i, k) => ~L(j, k)
    BY <2>1, LessIsWeakOrder
  <2> HIDE DEF L
  <2>3. (L(i, j) \/ (~L(j, i) /\ i < j)) /\ (L(j, k) \/ (~L(k, j) /\ j < k))
          => (L(i, k) \/ (~L(k, i) /\ i < k))
    BY <2>1, <2>2
  <2> QED BY <2>3 DEF L
<1>5. \A i, j \in P : i # j => B(i, j) \/ B(j, i)
  BY <1>2
<1> HIDE DEF B
<1> QED BY <1>1, <1>3, <1>4, <1>5 DEF StrictTotalOrder

--------------------------------------------------------------------------------
(* The sorted list *)

(* The filter keeps the rows that match, and only those. *)
LEMMA MatchingRows ==
  ASSUME Setting
  PROVE  /\ Matching \in Seq(Rows) /\ Len(Matching) \in 0 .. Len(rows)
         /\ \A k \in 1 .. Len(Matching) : \E i \in 1 .. Len(rows) : Matching[k] = rows[i]
         /\ \A i \in 1 .. Len(rows) : Matches(rows[i]) =>
              \E k \in 1 .. Len(Matching) : Matching[k] = rows[i]
<1> DEFINE P == {i \in 1 .. Len(rows) : Matches(rows[i])}
           R == LeftToRight(P)
<1>1. P \in SUBSET (1 .. Len(rows)) /\ P \in SUBSET Int /\ rows \in Seq(Rows)
  BY DEF Setting
<1>2. \A i \in 1 .. Len(rows) : Matches(rows[i]) => i \in P
  OBVIOUS
<1>3. Matching = Arranged(rows, P, R)
  BY DEF Matching
<1> HIDE DEF P
<1>4. StrictTotalOrder(P, R)
  BY <1>1, LeftToRightIsTotal
<1> HIDE DEF R
<1>5. /\ Cardinality(P) \in 0 .. Len(rows)
      /\ Matching \in Seq(Rows) /\ Len(Matching) = Cardinality(P)
      /\ \A k \in 1 .. Cardinality(P) : Place(P, R, k) \in P /\ Matching[k] = rows[Place(P, R, k)]
      /\ \A i \in P : \E k \in 1 .. Cardinality(P) : Matching[k] = rows[i]
  BY <1>1, <1>3, <1>4, ArrangedIsSeq
<1> QED BY <1>1, <1>2, <1>5

(* The sorted list holds the rows that match, and none comes before one it is   *)
(* less than.                                                                  *)
LEMMA SortedRows ==
  ASSUME Setting
  PROVE  /\ Sorted \in Seq(Rows) /\ Len(Sorted) = Len(Matching)
         /\ \A k \in 1 .. Len(Sorted) : \E i \in 1 .. Len(rows) : Sorted[k] = rows[i]
         /\ \A i \in 1 .. Len(rows) : Matches(rows[i]) =>
              \E k \in 1 .. Len(Sorted) : Sorted[k] = rows[i]
         /\ \A j, k \in 1 .. Len(Sorted) : j < k => ~Less(Sorted[k], Sorted[j])
<1> DEFINE s == Matching
           P == 1 .. Len(s)
           R == SortOrder(s)
<1>1. s \in Seq(Rows) /\ Len(s) \in Nat
  BY MatchingRows
<1>2. Sorted = Arranged(s, P, R)
  BY DEF Sorted, StableSort, SortOrder
<1> HIDE DEF s
<1>3. StrictTotalOrder(P, R)
  BY <1>1, SortOrderIsTotal
<1>4. IsFiniteSet(P) /\ Cardinality(P) = Len(s)
  <2> DEFINE n == Len(s)
  <2>1. n \in Nat
    BY <1>1
  <2> HIDE DEF n
  <2>2. IsFiniteSet(1 .. n) /\ Cardinality(1 .. n) = n
    BY <2>1, FS_Interval
  <2> QED BY <2>2 DEF n
<1> HIDE DEF R
<1> DEFINE t == Arranged(s, P, R)
<1>5. /\ t \in Seq(Rows) /\ Len(t) = Len(s)
      /\ \A k \in P : Place(P, R, k) \in P /\ t[k] = s[Place(P, R, k)]
      /\ \A i \in P : \E k \in P : t[k] = s[i]
  <2>1. P \in SUBSET (1 .. Len(s)) /\ P \in SUBSET Int
    OBVIOUS
  <2>2. /\ t \in Seq(Rows) /\ Len(t) = Cardinality(P)
        /\ \A k \in 1 .. Cardinality(P) : Place(P, R, k) \in P /\ t[k] = s[Place(P, R, k)]
        /\ \A i \in P : \E k \in 1 .. Cardinality(P) : t[k] = s[i]
    <3> HIDE DEF P
    <3> QED BY <1>1, <1>3, <2>1, ArrangedIsSeq
  <2> QED BY <1>4, <2>2
<1> HIDE DEF t
<1>6. /\ \A k \in P : \E i \in 1 .. Len(rows) : s[k] = rows[i]
      /\ \A i \in 1 .. Len(rows) : Matches(rows[i]) => \E k \in P : s[k] = rows[i]
  BY MatchingRows DEF s
<1>7. \A j, k \in P : j < k => ~Less(t[k], t[j])
  <2> SUFFICES ASSUME NEW j \in P, NEW k \in P, j < k PROVE ~Less(t[k], t[j])
    OBVIOUS
  <2> DEFINE a == Place(P, R, j)
             b == Place(P, R, k)
  <2>1. a \in P /\ b \in P /\ t[j] = s[a] /\ t[k] = s[b]
    BY <1>5
  <2>2. <<a, b>> \in R
    BY <1>3, <1>4, PlacesInOrder
  <2> HIDE DEF a, b
  <2>3. Less(s[a], s[b]) \/ ~Less(s[b], s[a])
    BY <2>1, <2>2 DEF R, SortOrder
  <2>4. s[a] \in Rows /\ s[b] \in Rows
    BY <1>1, <2>1
  <2>5. ~Less(s[b], s[a])
    BY <2>3, <2>4, LessIsWeakOrder
  <2> QED BY <2>1, <2>5
<1>8. \A k \in P : \E i \in 1 .. Len(rows) : t[k] = rows[i]
  <2> SUFFICES ASSUME NEW k \in P PROVE \E i \in 1 .. Len(rows) : t[k] = rows[i]
    OBVIOUS
  <2> DEFINE m == Place(P, R, k)
  <2>1. m \in P /\ t[k] = s[m]
    BY <1>5
  <2> HIDE DEF m, P
  <2>2. \E i \in 1 .. Len(rows) : s[m] = rows[i]
    BY <1>6, <2>1
  <2> QED BY <2>1, <2>2
<1>9. \A i \in 1 .. Len(rows) : Matches(rows[i]) => \E k \in P : t[k] = rows[i]
  <2> SUFFICES ASSUME NEW i \in 1 .. Len(rows), Matches(rows[i])
               PROVE  \E k \in P : t[k] = rows[i]
    OBVIOUS
  <2>1. PICK m \in P : s[m] = rows[i]
    BY <1>6
  <2> QED BY <1>5, <2>1
<1>10. Sorted = t /\ 1 .. Len(t) = P
  BY <1>2, <1>5 DEF t
<1> QED BY <1>5, <1>7, <1>8, <1>9, <1>10 DEF s

--------------------------------------------------------------------------------
(* The pages *)

(* One page more covers size rows more, or the rest. *)
LEMMA CoveredGrows ==
  ASSUME Setting, NEW n \in Nat
  PROVE  /\ (page - 1) * req.size \in Nat /\ page * req.size \in Nat
         /\ (page - 1) * req.size + req.size = page * req.size
         /\ Covered(page, n) \in 0 .. n /\ Covered(page + 1, n) \in 0 .. n
         /\ Covered(page, n) =< Covered(page + 1, n)
         /\ Covered(1, n) = 0
<1>1. page \in Nat \ {0} /\ req.size \in Nat \ {0}
  BY DEF Setting, Requests
<1> DEFINE z == req.size
<1>2. z \in Nat \ {0}
  BY <1>1
<1> HIDE DEF z
<1>3. /\ (page - 1) * z \in Nat /\ page * z \in Nat /\ (page - 1) * z + z = page * z
      /\ (page + 1 - 1) * z = page * z /\ (1 - 1) * z = 0
  BY <1>1, <1>2
<1>4. Covered(page, n) = IF (page - 1) * z > n THEN n ELSE (page - 1) * z
  BY DEF Covered, z
<1>5. Covered(page + 1, n) = IF page * z > n THEN n ELSE page * z
  <2> DEFINE next == page + 1
  <2>1. next - 1 = page
    BY <1>1
  <2> HIDE DEF next
  <2>2. Covered(next, n) = IF (next - 1) * z > n THEN n ELSE (next - 1) * z
    BY DEF Covered, z
  <2>3. Covered(next, n) = IF page * z > n THEN n ELSE page * z
    BY <2>1, <2>2
  <2> QED BY <2>3 DEF next
<1>6. Covered(1, n) = 0
  BY <1>3 DEF Covered, z
<1>7. (page - 1) * z =< page * z
  BY <1>2, <1>3
<1> DEFINE x == (page - 1) * z
           y == page * z
<1>8. x \in Nat /\ y \in Nat /\ x =< y
  BY <1>3, <1>7
<1> HIDE DEF x, y
<1>9. /\ (IF x > n THEN n ELSE x) \in 0 .. n /\ (IF y > n THEN n ELSE y) \in 0 .. n
      /\ (IF x > n THEN n ELSE x) =< (IF y > n THEN n ELSE y)
  BY <1>8
<1> QED BY <1>3, <1>4, <1>5, <1>6, <1>9 DEF x, y, z

(* A page of the sorted list starts where the pages before it end, as long as    *)
(* the offset is that of the page.                                             *)
LEMMA SliceOfPage ==
  ASSUME Setting, kind = "products" \/ page = 1
  PROVE  Slice(Sorted, Offset(page), req.size) =
           SubSeq(Sorted, Covered(page, Len(Matching)) + 1, Covered(page + 1, Len(Matching)))
<1> DEFINE n == Len(Matching)
           from == (page - 1) * req.size
           upto == page * req.size
<1>1. Len(Sorted) = n /\ n \in Nat
  BY SortedRows, MatchingRows
<1>2. from \in Nat /\ upto \in Nat /\ from + req.size = upto /\ page \in Nat
  BY <1>1, CoveredGrows DEF Setting
<1>3. Offset(page) = from
  <2>1. CASE kind = "products"
    BY <2>1 DEF Offset
  <2>2. CASE kind # "products"
    <3>1. page = 1 /\ req.size \in Nat
      BY <2>2 DEF Setting, Requests
    <3> QED BY <2>2, <3>1 DEF Offset
  <2> QED BY <2>1, <2>2
<1>4. Covered(page, n) = IF from > n THEN n ELSE from
  BY DEF Covered
<1>5. Covered(page + 1, n) = IF upto > n THEN n ELSE upto
  BY <1>2 DEF Covered
<1> HIDE DEF from, upto, n
<1> QED BY <1>1, <1>2, <1>3, <1>4, <1>5 DEF Slice, n

(* Every page shows rows of the table. *)
LEMMA SliceOfRows ==
  ASSUME Setting
  PROVE  /\ Slice(Sorted, Offset(page), req.size) \in Seq(Rows)
         /\ \A k \in 1 .. Len(Slice(Sorted, Offset(page), req.size)) :
              \E i \in 1 .. Len(rows) : Slice(Sorted, Offset(page), req.size)[k] = rows[i]
<1> DEFINE n == Len(Sorted)
           cut(x) == IF x > n THEN n ELSE x
           from == cut(Offset(page)) + 1
           upto == cut(Offset(page) + req.size)
<1>1. n \in Nat /\ Sorted \in Seq(Rows)
      /\ \A k \in 1 .. n : \E i \in 1 .. Len(rows) : Sorted[k] = rows[i]
  BY SortedRows
<1>2. Offset(page) \in Nat /\ req.size \in Nat
  BY <1>1, CoveredGrows DEF Offset, Setting, Requests
<1>3. from \in Nat /\ 1 =< from /\ upto \in Nat /\ upto =< n
  BY <1>1, <1>2
<1>4. Slice(Sorted, Offset(page), req.size) = SubSeq(Sorted, from, upto)
  BY DEF Slice
<1> HIDE DEF from, upto, n
<1> DEFINE t == SubSeq(Sorted, from, upto)
<1>5. /\ t \in Seq(Rows) /\ Len(t) = IF from =< upto THEN upto - from + 1 ELSE 0
      /\ \A k \in 1 .. upto - from + 1 : t[k] = Sorted[from + k - 1]
  <2>1. \A k \in from .. upto : Sorted[k] \in Rows
    BY <1>1, <1>3 DEF n
  <2> QED BY <1>3, <2>1, SubSeqProperties
<1>6. \A k \in 1 .. Len(t) : \E i \in 1 .. Len(rows) : t[k] = rows[i]
  <2> TAKE k \in 1 .. Len(t)
  <2>1. k \in 1 .. upto - from + 1 /\ from + k - 1 \in 1 .. n
    BY <1>1, <1>3, <1>5
  <2> QED BY <1>1, <1>5, <2>1
<1> QED BY <1>4, <1>5, <1>6

--------------------------------------------------------------------------------
(* The walk *)

(* It starts before the first page. *)
LEMMA InitIInv == Init => IInv
<1> SUFFICES ASSUME Init PROVE IInv
  OBVIOUS
<1>1. Setting
  <2>1. PICK size \in PageSizes :
          req \in [search : Searches,
                   field : IF kind = "products" THEN Fields \ {"arrived_at"} ELSE Fields,
                   desc : BOOLEAN, size : {PageSize(size)}]
    BY DEF Init
  <2>2. PageSize(size) \in Nat \ {0}
    BY ListingAssumption DEF PageSize
  <2> HIDE DEF PageSize
  <2>3. req \in Requests
    BY <2>1, <2>2 DEF Requests
  <2> QED BY <2>3, ListingAssumption DEF Init, Setting
<1>2. Len(Matching) \in Nat /\ Sorted \in Seq(Rows)
  BY <1>1, MatchingRows, SortedRows
<1>3. Covered(1, Len(Matching)) = 0
  BY <1>1, <1>2, CoveredGrows
<1>4. SubSeq(Sorted, 1, 0) = <<>>
  BY SubSeqEmpty
<1> QED BY <1>1, <1>3, <1>4 DEF Init, IInv, ShownIsCovered, WalkFollowsTotal

(* Every page continues it. *)
LEMMA StepIInv == IInv /\ [Next]_vars => IInv'
<1> SUFFICES ASSUME IInv, [Next]_vars PROVE IInv'
  OBVIOUS
<1>1. CASE FetchPage
  <2> DEFINE n == Len(Matching)
             slice == Slice(Sorted, Offset(page), req.size)
  <2>1. /\ UNCHANGED <<kind, rows, req>> /\ page' = page + 1
        /\ shown' = shown \o slice /\ total' = n
        /\ walking' = (page * req.size < total')
    BY <1>1 DEF FetchPage, Sorted
  <2>2. Setting /\ n \in Nat
    BY MatchingRows DEF IInv
  <2>3. Sorted \in Seq(Rows) /\ Len(Sorted) = n
    BY <2>2, SortedRows
  <2>4. /\ slice \in Seq(Rows)
        /\ \A k \in 1 .. Len(slice) : \E i \in 1 .. Len(rows) : slice[k] = rows[i]
    BY <2>2, SliceOfRows
  <2>5. Matching' = Matching /\ Sorted' = Sorted
    <3>1. UNCHANGED <<kind, rows, req>>
      BY <2>1
    <3> QED BY <3>1
    DEF Matching, Sorted, StableSort, Matches, Less, LessProduct, LessOrder, LessByColumn,
        LessByArrival
  <2>6. Setting'
    BY <2>1, <2>2 DEF Setting, Requests
  <2> HIDE DEF slice
  <2>7. shown' \in Seq(Rows) /\ \A k \in 1 .. Len(shown') : \E i \in 1 .. Len(rows) : shown'[k] = rows[i]
    <3>1. /\ shown' \in Seq(Rows) /\ Len(shown') = Len(shown) + Len(slice)
          /\ \A k \in 1 .. Len(shown) + Len(slice) :
               shown'[k] = IF k =< Len(shown) THEN shown[k] ELSE slice[k - Len(shown)]
      BY <2>1, <2>4, ConcatProperties DEF IInv
    <3>2. Len(shown) \in Nat /\ Len(slice) \in Nat
      BY <2>4 DEF IInv
    <3>3. \A k \in 1 .. Len(shown') : \E i \in 1 .. Len(rows) : shown'[k] = rows[i]
      <4> TAKE k \in 1 .. Len(shown')
      <4>1. CASE k =< Len(shown)
        BY <3>1, <3>2, <4>1 DEF IInv
      <4>2. CASE k > Len(shown)
        <5>1. k - Len(shown) \in 1 .. Len(slice) /\ shown'[k] = slice[k - Len(shown)]
          BY <3>1, <3>2, <4>2
        <5> QED BY <2>4, <5>1
      <4> QED BY <3>2, <4>1, <4>2
    <3> QED BY <3>1, <3>3
  <2>8. ShownIsCovered'
    <3> SUFFICES ASSUME kind = "products" \/ page + 1 =< 2
                 PROVE  shown' = SubSeq(Sorted, 1, Covered(page + 1, n))
      BY <2>1, <2>5 DEF ShownIsCovered, Covered
    <3>1. kind = "products" \/ page = 1
      BY <2>2 DEF Setting
    <3> DEFINE a == Covered(page, n)
               b == Covered(page + 1, n)
    <3>2. slice = SubSeq(Sorted, a + 1, b)
      BY <2>2, <3>1, SliceOfPage DEF slice
    <3>3. shown = SubSeq(Sorted, 1, a)
      BY <2>2, <3>1 DEF IInv, ShownIsCovered
    <3>4. a \in 0 .. n /\ b \in 0 .. n /\ a =< b
      BY <2>2, CoveredGrows
    <3> HIDE DEF a, b
    <3>5. SubSeq(Sorted, 1, a) \o SubSeq(Sorted, a + 1, b) = SubSeq(Sorted, 1, b)
      BY <2>2, <2>3, <3>4, ConcatAdjacentSubSeq
    <3> QED BY <2>1, <3>2, <3>3, <3>5 DEF b
  <2>9. WalkFollowsTotal'
    <3> DEFINE upto == page * req.size
    <3>1. page' - 1 = page /\ upto \in Nat
      <4>1. upto \in Nat
        BY <2>2, CoveredGrows
      <4> QED BY <2>1, <2>2, <4>1 DEF Setting
    <3>2. (page' - 1) * req'.size = upto
      BY <2>1, <3>1
    <3>3. walking' <=> upto < n
      BY <2>1
    <3>4. total' = n /\ Len(Matching)' = n
      BY <2>1, <2>5
    <3> HIDE DEF upto, n
    <3>5. ~walking' => upto >= n
      BY <2>2, <3>1, <3>3
    <3> QED BY <3>2, <3>4, <3>5 DEF WalkFollowsTotal
  <2> QED BY <2>1, <2>6, <2>7, <2>8, <2>9 DEF IInv
<1>2. CASE UNCHANGED vars
  <2>1. Matching' = Matching /\ Sorted' = Sorted
    BY <1>2
    DEF vars, Matching, Sorted, StableSort, Matches, Less, LessProduct, LessOrder, LessByColumn,
        LessByArrival
  <2> QED BY <1>2, <2>1 DEF vars, IInv, Setting, Requests, ShownIsCovered, Covered, WalkFollowsTotal
<1> QED BY <1>1, <1>2 DEF Next, FetchProducts, FetchOrders

THEOREM Invariance == Spec => []IInv
<1> QED BY InitIInv, StepIInv, PTL DEF Spec

(* The walk shows rows of the table, and a total it may have. *)
THEOREM TypeCorrect == Spec => []TypeOK
<1>1. IInv => TypeOK
  <2> SUFFICES ASSUME IInv PROVE TypeOK
    OBVIOUS
  <2>1. rows \in Seq(Rows) /\ shown \in Seq(Rows) /\ Len(rows) \in Nat
    BY DEF IInv, Setting
  <2>2. kind \in Kinds
    BY DEF IInv, Setting
  <2>3. total \in -1 .. Len(rows)
    BY <2>1, MatchingRows DEF IInv, WalkFollowsTotal
  <2> QED BY <2>1, <2>2, <2>3 DEF TypeOK, IInv, Setting, Requests
<1> QED BY <1>1, Invariance, PTL

(* A finished walk through the products has shown every match once. *)
THEOREM PagesCover == Spec => []ProductPagesCoverTheList
<1>1. IInv => ProductPagesCoverTheList
  <2> SUFFICES ASSUME IInv, kind = "products", ~walking PROVE WalkIsComplete
    BY DEF ProductPagesCoverTheList, WalkIsComplete
  <2> DEFINE n == Len(Matching)
  <2>1. Setting /\ n \in Nat /\ total = n /\ (page - 1) * req.size >= n
    BY MatchingRows DEF IInv, WalkFollowsTotal
  <2>2. Sorted \in Seq(Rows) /\ Len(Sorted) = n
    BY <2>1, SortedRows
  <2>3. (page - 1) * req.size \in Nat
    BY <2>1, CoveredGrows
  <2>4. Covered(page, n) = n
    BY <2>1, <2>3 DEF Covered
  <2>5. shown = SubSeq(Sorted, 1, n)
    BY <2>4 DEF IInv, ShownIsCovered
  <2>6. shown = Sorted
    BY <2>2, <2>5, SubSeqFull
  <2>7. Len(shown) = total
    BY <2>1, <2>2, <2>6
  <2>8. \A i \in DOMAIN rows : Matches(rows[i]) => \E k \in DOMAIN shown : shown[k] = rows[i]
    <3>1. DOMAIN shown = 1 .. Len(Sorted) /\ DOMAIN rows = 1 .. Len(rows)
      BY <2>1, <2>2, <2>6 DEF Setting
    <3> QED BY <2>1, <2>6, <3>1, SortedRows
  <2> QED BY <2>7, <2>8 DEF WalkIsComplete
<1> QED BY <1>1, Invariance, PTL

(* What has been shown is sorted, and no match that is missing belongs before    *)
(* it: of the products on any page, of the orders on the first.                  *)
THEOREM HeadIsShown == Spec => []ShownIsTheHead
<1>1. IInv => ShownIsTheHead
  <2> SUFFICES ASSUME IInv, kind = "products" \/ page =< 2
               PROVE  /\ \A j, k \in DOMAIN shown : j < k => ~Less(shown[k], shown[j])
                      /\ \A i \in DOMAIN rows : \A k \in DOMAIN shown :
                           Matches(rows[i]) /\ (\A j \in DOMAIN shown : shown[j] # rows[i])
                             => ~Less(rows[i], shown[k])
    BY DEF ShownIsTheHead
  <2> DEFINE n == Len(Matching)
             c == Covered(page, n)
  <2>1. Setting /\ n \in Nat
    BY MatchingRows DEF IInv
  <2>2. Sorted \in Seq(Rows) /\ Len(Sorted) = n
        /\ \A j, k \in 1 .. n : j < k => ~Less(Sorted[k], Sorted[j])
    BY <2>1, SortedRows
  <2>8. \A i \in 1 .. Len(rows) : Matches(rows[i]) => \E k \in 1 .. n : Sorted[k] = rows[i]
    <3>1. Len(Sorted) = n
      BY <2>2
    <3> QED BY <2>1, <3>1, SortedRows
  <2>3. c \in 0 .. n
    BY <2>1, CoveredGrows
  <2>4. shown = SubSeq(Sorted, 1, c)
    BY DEF IInv, ShownIsCovered
  <2> HIDE DEF c, n
  <2>5. DOMAIN shown = 1 .. c /\ \A k \in 1 .. c : shown[k] = Sorted[k]
    BY <2>1, <2>2, <2>3, <2>4
  <2>6. \A j, k \in DOMAIN shown : j < k => ~Less(shown[k], shown[j])
    BY <2>1, <2>2, <2>3, <2>5
  <2>7. ASSUME NEW i \in DOMAIN rows, NEW k \in DOMAIN shown, Matches(rows[i]),
               \A j \in DOMAIN shown : shown[j] # rows[i]
        PROVE  ~Less(rows[i], shown[k])
    <3>1. i \in 1 .. Len(rows)
      BY <2>1 DEF Setting
    <3>2. PICK m \in 1 .. n : Sorted[m] = rows[i]
      <4>1. Matches(rows[i])
        BY <2>7
      <4> QED BY <2>8, <3>1, <4>1
    <3>3. m \notin 1 .. c
      BY <2>5, <2>7, <3>2
    <3>4. k \in 1 .. n /\ k < m /\ shown[k] = Sorted[k]
      BY <2>1, <2>3, <2>5, <3>2, <3>3
    <3> QED BY <2>2, <3>2, <3>4
  <2> QED BY <2>6, <2>7
<1> QED BY <1>1, Invariance, PTL

(* The two directions of a sort of the orders are each other's mirror images,     *)
(* whichever dates are missing.                                                 *)
THEOREM TurningRound == Spec => []DirectionsMirror
<1>1. IInv => DirectionsMirror
  <2> SUFFICES ASSUME IInv, NEW i \in DOMAIN rows, NEW j \in DOMAIN rows
               PROVE  LessOrder(rows[i], rows[j], TRUE) <=> LessOrder(rows[j], rows[i], FALSE)
    BY DEF DirectionsMirror
  <2>1. rows[i] \in Rows /\ rows[j] \in Rows
    BY DEF IInv, Setting
  <2>2. /\ rows[i].id \in Int /\ rows[j].id \in Int
        /\ rows[i].column \in Int /\ rows[j].column \in Int
        /\ rows[i].arrived \in Int /\ rows[j].arrived \in Int
    BY <2>1 DEF Rows, Null
  <2> QED BY <2>2 DEF LessOrder, LessByArrival, LessByColumn
<1> QED BY <1>1, Invariance, PTL
================================================================================
