----------------------------- MODULE ArrangeProofs -----------------------------
(***************************************************************************)
(* What a filter and a sort return, for any finite set of places and any     *)
(* strict total order on it: every place once, in that order.                *)
(***************************************************************************)
EXTENDS Arrange, FiniteSetTheorems, TLAPS

(* What comes before an earlier place is less than what comes before a later  *)
(* one.                                                                       *)
LEMMA BeforeGrows ==
  ASSUME NEW P, IsFiniteSet(P), NEW R, StrictTotalOrder(P, R),
         NEW i \in P, NEW j \in P, <<i, j>> \in R
  PROVE  Cardinality(Before(P, R, i)) < Cardinality(Before(P, R, j))
<1> DEFINE B(x) == Before(P, R, x)
<1>1. /\ IsFiniteSet(B(j)) /\ Cardinality(B(j)) \in Nat
      /\ IsFiniteSet(B(i)) /\ Cardinality(B(i)) \in Nat
  BY FS_Subset, FS_CardinalityType DEF Before
<1>2. B(i) \subseteq B(j) /\ i \in B(j) /\ i \notin B(i)
  BY DEF Before, StrictTotalOrder
<1> QED BY <1>1, <1>2, FS_Subset

(* The rank of a place lies between the first and the last. *)
LEMMA RankInRange ==
  ASSUME NEW P, IsFiniteSet(P), NEW R, StrictTotalOrder(P, R), NEW i \in P
  PROVE  /\ Cardinality(P) \in Nat /\ Cardinality(Before(P, R, i)) \in Nat
         /\ Cardinality(Before(P, R, i)) + 1 \in 1 .. Cardinality(P)
<1>1. Before(P, R, i) \subseteq P \ {i}
  BY DEF Before, StrictTotalOrder
<1>2. IsFiniteSet(P \ {i}) /\ Cardinality(P \ {i}) = Cardinality(P) - 1
  BY FS_RemoveElement
<1>3. IsFiniteSet(Before(P, R, i)) /\ Cardinality(Before(P, R, i)) =< Cardinality(P) - 1
  BY <1>1, <1>2, FS_Subset
<1>4. Cardinality(P) \in Nat /\ Cardinality(Before(P, R, i)) \in Nat
  BY <1>3, FS_CardinalityType
<1> QED BY <1>3, <1>4

(* Every rank is taken: the k-th place is a place, and k - 1 are before it.   *)
LEMMA PlaceOfRank ==
  ASSUME NEW P, IsFiniteSet(P), NEW R, StrictTotalOrder(P, R), NEW k \in 1 .. Cardinality(P)
  PROVE  Place(P, R, k) \in P /\ Cardinality(Before(P, R, Place(P, R, k))) = k - 1
<1> DEFINE n == Cardinality(P)
           rank == [i \in P |-> Cardinality(Before(P, R, i)) + 1]
<1>1. n \in Nat
  BY FS_CardinalityType
<1>2. rank \in [P -> 1 .. n]
  BY RankInRange
<1>3. \A i, j \in P : i # j => rank[i] # rank[j]
  <2> SUFFICES ASSUME NEW i \in P, NEW j \in P, i # j
               PROVE  Cardinality(Before(P, R, i)) + 1 # Cardinality(Before(P, R, j)) + 1
    OBVIOUS
  <2>1. <<i, j>> \in R \/ <<j, i>> \in R
    BY DEF StrictTotalOrder
  <2>2. Cardinality(Before(P, R, i)) \in Nat /\ Cardinality(Before(P, R, j)) \in Nat
    BY RankInRange
  <2>3. CASE <<i, j>> \in R
    <3>1. Cardinality(Before(P, R, i)) < Cardinality(Before(P, R, j))
      BY <2>3, BeforeGrows
    <3> QED BY <2>2, <3>1
  <2>4. CASE <<j, i>> \in R
    <3>1. Cardinality(Before(P, R, j)) < Cardinality(Before(P, R, i))
      BY <2>4, BeforeGrows
    <3> QED BY <2>2, <3>1
  <2> QED BY <2>1, <2>3, <2>4
<1>4. rank \in Injection(P, 1 .. n)
  BY <1>2, <1>3 DEF Injection, IsInjective
<1>5. IsFiniteSet(1 .. n) /\ Cardinality(1 .. n) = n
  BY <1>1, FS_Interval
<1>6. rank \in Surjection(P, 1 .. n)
  BY <1>4, <1>5, FS_Injection
<1>7. \E i \in P : rank[i] = k
  BY <1>6 DEF Surjection
<1>8. \E i \in P : Cardinality(Before(P, R, i)) = k - 1
  <2>1. PICK i \in P : Cardinality(Before(P, R, i)) + 1 = k
    BY <1>7
  <2>2. Cardinality(Before(P, R, i)) \in Nat
    BY RankInRange
  <2> QED BY <2>1, <2>2
<1> QED BY <1>8 DEF Place

(* Every place has a rank, at which it is found. *)
LEMMA PlaceIsRanked ==
  ASSUME NEW P, IsFiniteSet(P), NEW R, StrictTotalOrder(P, R), NEW i \in P
  PROVE  \E k \in 1 .. Cardinality(P) : Place(P, R, k) = i
<1> DEFINE k == Cardinality(Before(P, R, i)) + 1
<1>1. k \in 1 .. Cardinality(P) /\ Cardinality(P) \in Nat
  BY RankInRange
<1>2. Cardinality(Before(P, R, i)) \in Nat
  BY RankInRange
<1>3. Place(P, R, k) \in P /\ Cardinality(Before(P, R, Place(P, R, k))) = k - 1
  BY <1>1, PlaceOfRank
<1>4. Cardinality(Before(P, R, Place(P, R, k))) = Cardinality(Before(P, R, i))
  BY <1>2, <1>3
<1>5. ~ (<<Place(P, R, k), i>> \in R) /\ ~ (<<i, Place(P, R, k)>> \in R)
  BY <1>2, <1>3, <1>4, BeforeGrows
<1>6. Place(P, R, k) = i
  BY <1>3, <1>5 DEF StrictTotalOrder
<1> QED BY <1>1, <1>6

(* Places of a lower rank come before those of a higher one. *)
LEMMA PlacesInOrder ==
  ASSUME NEW P, IsFiniteSet(P), NEW R, StrictTotalOrder(P, R),
         NEW j \in 1 .. Cardinality(P), NEW k \in 1 .. Cardinality(P), j < k
  PROVE  <<Place(P, R, j), Place(P, R, k)>> \in R
<1> DEFINE a == Place(P, R, j)
           b == Place(P, R, k)
<1>1. a \in P /\ Cardinality(Before(P, R, a)) = j - 1
  BY PlaceOfRank
<1>2. b \in P /\ Cardinality(Before(P, R, b)) = k - 1
  BY PlaceOfRank
<1>3. Cardinality(P) \in Nat /\ j \in Nat /\ k \in Nat
  BY FS_CardinalityType
<1> HIDE DEF a, b
<1>4. a # b
  BY <1>1, <1>2, <1>3
<1>5. ~ (<<b, a>> \in R)
  <2> SUFFICES ASSUME <<b, a>> \in R PROVE FALSE
    OBVIOUS
  <2>1. Cardinality(Before(P, R, b)) < Cardinality(Before(P, R, a))
    BY <1>1, <1>2, BeforeGrows
  <2> QED BY <1>1, <1>2, <1>3, <2>1
<1>6. <<a, b>> \in R
  BY <1>1, <1>2, <1>4, <1>5 DEF StrictTotalOrder
<1> QED BY <1>6 DEF a, b

(* A filter keeps the order of the places. *)
LEMMA LeftToRightIsTotal ==
  ASSUME NEW P \in SUBSET Int
  PROVE  StrictTotalOrder(P, LeftToRight(P))
BY DEF StrictTotalOrder, LeftToRight

(* What is arranged is a sequence of the elements at the places, all of them. *)
LEMMA ArrangedIsSeq ==
  ASSUME NEW S, NEW s \in Seq(S), NEW P \in SUBSET (1 .. Len(s)),
         NEW R, StrictTotalOrder(P, R)
  PROVE  /\ IsFiniteSet(P) /\ Cardinality(P) \in 0 .. Len(s)
         /\ Arranged(s, P, R) \in Seq(S) /\ Len(Arranged(s, P, R)) = Cardinality(P)
         /\ \A k \in 1 .. Cardinality(P) :
              Place(P, R, k) \in P /\ Arranged(s, P, R)[k] = s[Place(P, R, k)]
         /\ \A i \in P : \E k \in 1 .. Cardinality(P) : Arranged(s, P, R)[k] = s[i]
<1> DEFINE n == Len(s)
<1>n. n \in Nat
  OBVIOUS
<1>1. IsFiniteSet(1 .. n) /\ Cardinality(1 .. n) = n
  <2> HIDE DEF n
  <2> QED BY <1>n, FS_Interval
<1>2. IsFiniteSet(P) /\ Cardinality(P) \in 0 .. Len(s)
  <2>1. IsFiniteSet(P) /\ Cardinality(P) =< n
    BY <1>1, FS_Subset
  <2>2. Cardinality(P) \in Nat
    BY <2>1, FS_CardinalityType
  <2> QED BY <1>n, <2>1, <2>2
<1>3. \A k \in 1 .. Cardinality(P) : Place(P, R, k) \in P
  BY <1>2, PlaceOfRank
<1> DEFINE a == Arranged(s, P, R)
<1>4. \A k \in 1 .. Cardinality(P) : a[k] = s[Place(P, R, k)] /\ a[k] \in S
  <2> TAKE k \in 1 .. Cardinality(P)
  <2>1. a[k] = s[Place(P, R, k)]
    BY DEF Arranged
  <2>2. Place(P, R, k) \in 1 .. Len(s)
    BY <1>3
  <2>3. s[Place(P, R, k)] \in S
    <3> DEFINE i == Place(P, R, k)
    <3>1. i \in 1 .. Len(s)
      BY <2>2
    <3> HIDE DEF i
    <3>2. s[i] \in S
      BY <3>1
    <3> QED BY <3>2 DEF i
  <2> QED BY <2>1, <2>3
<1>5. a \in Seq(S) /\ Len(a) = Cardinality(P)
  BY <1>2, <1>4 DEF Arranged
<1>6. \A i \in P : \E k \in 1 .. Cardinality(P) : a[k] = s[i]
  BY <1>2, <1>4, PlaceIsRanked
<1> QED BY <1>2, <1>3, <1>4, <1>5, <1>6

(* A slice is a page of its sequence: no longer than asked for, it starts      *)
(* after the offset, and is short only at the end of the sequence.            *)
LEMMA SliceIsPage ==
  ASSUME NEW S, NEW s \in Seq(S), NEW offset \in Nat, NEW size \in Nat
  PROVE  LET t == Slice(s, offset, size) IN
         /\ t \in Seq(S) /\ Len(t) =< Len(s) /\ Len(t) =< size
         /\ \A i \in 1 .. Len(t) : offset + i =< Len(s) /\ t[i] = s[offset + i]
         /\ Len(t) < size => offset + Len(t) >= Len(s)
<1> DEFINE n == Len(s)
           cut(m) == IF m > n THEN n ELSE m
           a == cut(offset)
           b == cut(offset + size)
           t == SubSeq(s, a + 1, b)
<1>1. n \in Nat /\ s \in Seq(S)
  OBVIOUS
<1>2. Slice(s, offset, size) = t
  BY DEF Slice
<1>3. /\ a \in Nat /\ b \in Nat /\ a =< b /\ b =< n /\ b - a =< size
      /\ a < b => a = offset
      /\ b - a < size => b = n
      /\ a = offset \/ (a = n /\ offset >= n)
  <2> HIDE DEF n
  <2>1. offset + size \in Nat
    OBVIOUS
  <2>2. CASE offset + size > n
    BY <1>1, <2>1, <2>2
  <2>3. CASE offset + size =< n
    BY <1>1, <2>1, <2>3
  <2> QED BY <1>1, <2>1, <2>2, <2>3
<1> HIDE DEF a, b, n
<1>4. /\ t \in Seq(S) /\ Len(t) = b - a
      /\ \A i \in 1 .. b - a : t[i] = s[a + i]
  BY <1>1, <1>3 DEF n
<1> HIDE DEF t
<1>5. \A i \in 1 .. Len(t) : offset + i =< n /\ t[i] = s[offset + i]
  <2> TAKE i \in 1 .. Len(t)
  <2>1. i \in 1 .. b - a /\ a < b
    BY <1>3, <1>4
  <2>2. a = offset
    BY <1>3, <2>1
  <2>3. a + i =< n
    BY <1>1, <1>3, <2>1
  <2> QED BY <1>4, <2>1, <2>2, <2>3
<1>6. Len(t) < size => offset + Len(t) >= n
  BY <1>3, <1>4
<1> QED BY <1>1, <1>2, <1>3, <1>4, <1>5, <1>6 DEF n
================================================================================
