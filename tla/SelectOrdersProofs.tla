--------------------------- MODULE SelectOrdersProofs --------------------------
(***************************************************************************)
(* Theorems about the search, for any orders, capacity and distance of the  *)
(* looks at the context: slices stay within their arrays, the best set is   *)
(* never written to through another slice, and a search nobody waits for    *)
(* stops.                                                                   *)
(***************************************************************************)
EXTENDS SelectOrders, SequenceTheorems, FiniteSetTheorems, WellFoundedInduction, TLAPS

Slices == [array : Nat, len : Nat]
Calls  == [i : Nat, weight : Nat, value : Nat, set : Slices]

\* A slice lies within its array.
Fits(h, slice) ==
  /\ slice.array =< Len(h)
  /\ IF slice.array = 0 THEN slice.len = 0 ELSE slice.len =< Len(h[slice.array])

\* A call has decided on c.i orders, and appends to an array that is not the
\* one of b.
Sound(h, b, c) ==
  /\ Fits(h, c.set)
  /\ c.i =< Len(orders)
  /\ c.set.len =< c.i
  /\ c.set.array = 0 \/ c.set.array # b.array

\* The calls under way are sound for the arrays h and the best set b.
CallsFit(h, b) ==
  /\ call \in Calls
  /\ Sound(h, b, call)
  /\ stack \in Seq(Calls)
  /\ \A k \in 1 .. Len(stack) : Sound(h, b, stack[k]) /\ stack[k].i < Len(orders)

HeapHoldsBest ==
  /\ orders \in Seq([weight : Nat, value : Nat])
  /\ heap \in Seq(Seq(Nat))
  /\ best \in Slices
  /\ Fits(heap, best)
  /\ best.len =< Len(orders)

\* No step since the context ended was one at which it is looked at.
LateSteps ==
  /\ steps \in Nat /\ late \in Nat
  /\ ctx = "live" => late = 0
  /\ late =< CheckEvery
  /\ outcome = "searching" => late =< steps % CheckEvery

IInv ==
  /\ HeapHoldsBest
  /\ CallsFit(heap, best)
  /\ LateSteps
  /\ bestValue \in Nat
  /\ ctx \in {"live", "ended"}
  /\ outcome \in {"searching", "planned", "canceled"}

(* What is recorded stays as it was recorded: only a better load changes the  *)
(* contents of the best set, whatever is appended to other slices.            *)
BestIsNotWritten ==
  [][bestValue' = bestValue =>
       best' = best /\ (best.array # 0 => heap'[best.array] = heap[best.array])]_vars

--------------------------------------------------------------------------------
(* Induction over numbers and finite sets *)

(* A set of numbers has a least one. *)
LEMMA Least ==
  ASSUME NEW S \in SUBSET Nat, S # {}
  PROVE  \E n \in S : \A m \in S : n =< m
<1> DEFINE R == {p \in Nat \X Nat : p[1] < p[2]}
<1>1. IsWellFoundedOn(R, Nat)
  BY NatLessThanWellFounded DEF OpToRel
<1> HIDE DEF R
<1>2. PICK n \in S : \A m \in S : ~ (<<m, n>> \in R)
  BY <1>1, WFMin
<1>3. \A m \in S : n =< m
  <2> TAKE m \in S
  <2>1. m \in Nat /\ n \in Nat
    OBVIOUS
  <2>2. ~ (m < n)
    BY <1>2, <2>1 DEF R
  <2> QED BY <2>1, <2>2
<1> QED BY <1>3

(* If a claim of finite sets fails, it fails of a set whose smaller sets it       *)
(* holds of: Good is the family it holds of.                                     *)
LEMMA SmallestFailure ==
  ASSUME NEW U, IsFiniteSet(U), NEW Good, NEW A \in SUBSET U, A \notin Good
  PROVE  \E S \in SUBSET U :
           /\ S \notin Good
           /\ \A T \in SUBSET U : Cardinality(T) < Cardinality(S) => T \in Good
<1>1. \A S \in SUBSET U : Cardinality(S) \in Nat
  BY FS_Subset, FS_CardinalityType
<1> DEFINE sizes == {n \in Nat : \E S \in SUBSET U : S \notin Good /\ Cardinality(S) = n}
<1>2. sizes \in SUBSET Nat /\ Cardinality(A) \in sizes
  BY <1>1
<1>3. PICK n \in sizes : \A m \in sizes : n =< m
  BY <1>2, Least
<1>4. PICK S \in SUBSET U : S \notin Good /\ Cardinality(S) = n
  BY <1>3
<1>5. \A T \in SUBSET U : Cardinality(T) < Cardinality(S) => T \in Good
  <2> TAKE T \in SUBSET U
  <2>1. Cardinality(T) \in Nat /\ n \in Nat
    BY <1>1
  <2>2. T \notin Good => n =< Cardinality(T)
    BY <1>3, <2>1
  <2> QED BY <1>4, <2>1, <2>2
<1> QED BY <1>4, <1>5

--------------------------------------------------------------------------------
(* Sums *)

First(S) == CHOOSE x \in S : TRUE

\* g sums f over the subsets of S.
Sums(f, S, g) ==
  g = [s \in SUBSET S |-> IF s = {} THEN 0 ELSE f[First(s)] + g[s \ {First(s)}]]

LEMMA TotalIsSum ==
  ASSUME NEW f, NEW S
  PROVE  Total(f, S) = (CHOOSE g : Sums(f, S, g))[S]
BY DEF Total, MapThenSumSet, MapThenFoldSet, Sums, First

LEMMA Smaller ==
  ASSUME NEW S, IsFiniteSet(S), NEW x \in S
  PROVE  /\ IsFiniteSet(S \ {x})
         /\ Cardinality(S) \in Nat /\ Cardinality(S \ {x}) \in Nat
         /\ Cardinality(S \ {x}) < Cardinality(S)
<1>1. IsFiniteSet(S \ {x}) /\ Cardinality(S \ {x}) = Cardinality(S) - 1
  BY FS_RemoveElement
<1>2. Cardinality(S) \in Nat /\ Cardinality(S \ {x}) \in Nat
  BY <1>1, FS_CardinalityType
<1> QED BY <1>1, <1>2

(* The subsets of a set are summed in one way only. *)
LEMMA SumsAgree ==
  ASSUME NEW f, NEW S, NEW T, IsFiniteSet(S), NEW g, NEW h, Sums(f, S, g), Sums(f, T, h),
         NEW R, R \subseteq S, R \subseteq T
  PROVE  g[R] = h[R]
<1> DEFINE U == S \cap T
           Good == {Q \in SUBSET U : g[Q] = h[Q]}
<1>1. IsFiniteSet(U)
  BY FS_Subset
<1> SUFFICES ASSUME R \notin Good PROVE FALSE
  OBVIOUS
<1>2. R \in SUBSET U
  OBVIOUS
<1>3. PICK Q \in SUBSET U :
        Q \notin Good /\ \A P \in SUBSET U : Cardinality(P) < Cardinality(Q) => P \in Good
  <2> HIDE DEF Good, U
  <2> QED BY <1>1, <1>2, SmallestFailure
<1>4. /\ g[Q] = IF Q = {} THEN 0 ELSE f[First(Q)] + g[Q \ {First(Q)}]
      /\ h[Q] = IF Q = {} THEN 0 ELSE f[First(Q)] + h[Q \ {First(Q)}]
  <2>1. Q \in SUBSET S /\ Q \in SUBSET T
    OBVIOUS
  <2> QED BY <2>1 DEF Sums
<1>5. CASE Q = {}
  BY <1>3, <1>4, <1>5
<1>6. CASE Q # {}
  <2>1. First(Q) \in Q
    BY <1>6 DEF First
  <2>2. IsFiniteSet(Q)
    BY <1>1, FS_Subset
  <2>3. Q \ {First(Q)} \in Good
    BY <1>3, <2>1, <2>2, Smaller
  <2> QED BY <1>3, <1>4, <1>6, <2>3
<1> QED BY <1>5, <1>6

(* The subsets of a finite set can be summed. *)
LEMMA SumsExist ==
  ASSUME NEW f, NEW S, IsFiniteSet(S)
  PROVE  \E g : Sums(f, S, g)
<1> DEFINE Good == {Q \in SUBSET S : \E g : Sums(f, Q, g)}
<1> SUFFICES ASSUME S \notin Good PROVE FALSE
  OBVIOUS
<1>1. PICK Q \in SUBSET S :
        Q \notin Good /\ \A P \in SUBSET S : Cardinality(P) < Cardinality(Q) => P \in Good
  <2> HIDE DEF Good
  <2> QED BY SmallestFailure
<1>2. IsFiniteSet(Q)
  BY FS_Subset
<1>3. \A P \in SUBSET Q : P # Q => \E g : Sums(f, P, g)
  <2> SUFFICES ASSUME NEW P \in SUBSET Q, P # Q PROVE P \in Good
    OBVIOUS
  <2>1. Cardinality(P) < Cardinality(Q)
    <3>1. Cardinality(P) =< Cardinality(Q) /\ (Cardinality(P) = Cardinality(Q) => P = Q)
      BY <1>2, FS_Subset
    <3>2. Cardinality(P) \in Nat /\ Cardinality(Q) \in Nat
      BY <1>2, FS_Subset, FS_CardinalityType
    <3> QED BY <3>1, <3>2
  <2> QED BY <1>1, <2>1
<1> DEFINE sum(P) == (CHOOSE g : Sums(f, P, g))[P]
           step(P) == IF P = {} THEN 0 ELSE f[First(P)] + sum(P \ {First(P)})
           g == [P \in SUBSET Q |-> step(P)]
<1>4. \A P \in SUBSET Q : P # Q => sum(P) = step(P)
  <2> SUFFICES ASSUME NEW P \in SUBSET Q, P # Q PROVE sum(P) = step(P)
    OBVIOUS
  <2> DEFINE h == CHOOSE gg : Sums(f, P, gg)
  <2>1. Sums(f, P, h)
    BY <1>3
  <2>2. h[P] = IF P = {} THEN 0 ELSE f[First(P)] + h[P \ {First(P)}]
    <3> HIDE DEF h
    <3> QED BY <2>1 DEF Sums
  <2>3. CASE P = {}
    BY <2>2, <2>3
  <2>4. CASE P # {}
    <3> DEFINE O == P \ {First(P)}
               k == CHOOSE gg : Sums(f, O, gg)
    <3>1. First(P) \in P /\ O \in SUBSET Q /\ O # Q /\ O \subseteq P
      BY <2>4 DEF First
    <3>2. Sums(f, O, k)
      <4>1. \E gg : Sums(f, O, gg)
        <5> HIDE DEF O
        <5> QED BY <1>3, <3>1
      <4> HIDE DEF O
      <4> QED BY <4>1
    <3>3. IsFiniteSet(P)
      BY <1>2, FS_Subset
    <3>4. h[O] = k[O]
      <4> HIDE DEF h, k, O
      <4> QED BY <2>1, <3>1, <3>2, <3>3, SumsAgree
    <3>5. sum(O) = k[O] /\ sum(P) = h[P]
      OBVIOUS
    <3> HIDE DEF h, k, sum
    <3> QED BY <2>2, <2>4, <3>4, <3>5
  <2> QED BY <2>3, <2>4
<1> HIDE DEF sum
<1>5. Sums(f, Q, g)
  <2>1. \A P \in SUBSET Q : step(P) = IF P = {} THEN 0 ELSE f[First(P)] + g[P \ {First(P)}]
    <3> TAKE P \in SUBSET Q
    <3>1. CASE P = {}
      BY <3>1
    <3>2. CASE P # {}
      <4> DEFINE O == P \ {First(P)}
      <4>1. First(P) \in P /\ O \in SUBSET Q /\ O # Q
        BY <3>2 DEF First
      <4>2. sum(O) = step(O)
        <5> HIDE DEF O, step
        <5> QED BY <1>4, <4>1
      <4>3. g[O] = step(O)
        <5> HIDE DEF O, step
        <5> QED BY <4>1
      <4> QED BY <3>2, <4>2, <4>3
    <3> QED BY <3>1, <3>2
  <2> HIDE DEF step
  <2>2. g = [P \in SUBSET Q |-> IF P = {} THEN 0 ELSE f[First(P)] + g[P \ {First(P)}]]
    BY <2>1
  <2> QED BY <2>2 DEF Sums
<1>6. Q \in Good
  <2> HIDE DEF g
  <2> QED BY <1>5
<1> QED BY <1>1, <1>6

(* The total of a finite set is that of all its members but one, and that one. *)
LEMMA TotalUnfolds ==
  ASSUME NEW f, NEW S, IsFiniteSet(S)
  PROVE  Total(f, S) = IF S = {} THEN 0 ELSE f[First(S)] + Total(f, S \ {First(S)})
<1> DEFINE g == CHOOSE gg : Sums(f, S, gg)
<1>1. Sums(f, S, g)
  BY SumsExist
<1>2. Total(f, S) = g[S]
  BY TotalIsSum
<1> HIDE DEF g
<1>3. g[S] = IF S = {} THEN 0 ELSE f[First(S)] + g[S \ {First(S)}]
  BY <1>1 DEF Sums
<1>4. CASE S = {}
  BY <1>2, <1>3, <1>4
<1>5. CASE S # {}
  <2> DEFINE O == S \ {First(S)}
             k == CHOOSE gg : Sums(f, O, gg)
  <2>1. First(S) \in S /\ O \subseteq S
    BY <1>5 DEF First
  <2>2. IsFiniteSet(O)
    BY <2>1, FS_Subset
  <2> HIDE DEF O
  <2>3. Sums(f, O, k)
    BY <2>2, SumsExist
  <2>4. Total(f, O) = k[O]
    BY TotalIsSum
  <2> HIDE DEF k
  <2>5. g[O] = k[O]
    BY <1>1, <2>1, <2>3, SumsAgree
  <2> QED BY <1>2, <1>3, <1>5, <2>4, <2>5 DEF O
<1> QED BY <1>4, <1>5

(* A total of natural numbers is one. *)
LEMMA TotalIsNatural ==
  ASSUME NEW S, IsFiniteSet(S), NEW f, \A x \in S : f[x] \in Nat
  PROVE  Total(f, S) \in Nat
<1> DEFINE Good == {Q \in SUBSET S : Total(f, Q) \in Nat}
<1> SUFFICES ASSUME S \notin Good PROVE FALSE
  OBVIOUS
<1>1. PICK Q \in SUBSET S :
        Q \notin Good /\ \A P \in SUBSET S : Cardinality(P) < Cardinality(Q) => P \in Good
  <2> HIDE DEF Good
  <2> QED BY SmallestFailure
<1>2. IsFiniteSet(Q)
  BY FS_Subset
<1>3. Total(f, Q) = IF Q = {} THEN 0 ELSE f[First(Q)] + Total(f, Q \ {First(Q)})
  BY <1>2, TotalUnfolds
<1>4. CASE Q = {}
  BY <1>1, <1>3, <1>4
<1>5. CASE Q # {}
  <2>1. First(Q) \in Q
    BY <1>5 DEF First
  <2>2. Q \ {First(Q)} \in Good
    BY <1>1, <1>2, <2>1, Smaller
  <2>3. f[First(Q)] \in Nat
    BY <2>1
  <2> QED BY <1>1, <1>3, <1>5, <2>2, <2>3
<1> QED BY <1>4, <1>5

(* Any member may be the one that is taken out. *)
LEMMA TotalWithout ==
  ASSUME NEW S, IsFiniteSet(S), NEW f, \A x \in S : f[x] \in Nat, NEW y \in S
  PROVE  Total(f, S) = f[y] + Total(f, S \ {y})
<1> DEFINE Good == {Q \in SUBSET S : \A x \in Q : Total(f, Q) = f[x] + Total(f, Q \ {x})}
<1> SUFFICES ASSUME S \notin Good PROVE FALSE
  OBVIOUS
<1>1. PICK Q \in SUBSET S :
        Q \notin Good /\ \A P \in SUBSET S : Cardinality(P) < Cardinality(Q) => P \in Good
  <2> HIDE DEF Good
  <2> QED BY SmallestFailure
<1>2. IsFiniteSet(Q) /\ \A P \in SUBSET Q : IsFiniteSet(P) /\ Total(f, P) \in Nat
  <2>1. \A P \in SUBSET Q : IsFiniteSet(P) /\ \A x \in P : f[x] \in Nat
    BY FS_Subset
  <2> QED BY <2>1, TotalIsNatural
<1>3. PICK x \in Q : Total(f, Q) # f[x] + Total(f, Q \ {x})
  BY <1>1
<1> DEFINE z == First(Q)
<1>4. z \in Q /\ Total(f, Q) = f[z] + Total(f, Q \ {z})
  BY <1>2, <1>3, TotalUnfolds DEF First
<1> HIDE DEF z
<1>5. x # z
  BY <1>3, <1>4
<1>6. Q \ {z} \in Good /\ Q \ {x} \in Good
  BY <1>1, <1>2, <1>3, <1>4, Smaller
<1> DEFINE rest == (Q \ {z}) \ {x}
<1>7. Total(f, Q \ {z}) = f[x] + Total(f, rest)
  BY <1>3, <1>5, <1>6
<1>8. Total(f, Q \ {x}) = f[z] + Total(f, rest)
  <2>1. (Q \ {x}) \ {z} = rest
    OBVIOUS
  <2> QED BY <1>4, <1>5, <1>6, <2>1
<1>9. Total(f, rest) \in Nat /\ f[x] \in Nat /\ f[z] \in Nat
  BY <1>2, <1>4
<1> QED BY <1>3, <1>4, <1>7, <1>8, <1>9

(* One member more adds its number. *)
LEMMA TotalWith ==
  ASSUME NEW S, IsFiniteSet(S), NEW y, y \notin S, NEW f, \A x \in S \cup {y} : f[x] \in Nat
  PROVE  Total(f, S \cup {y}) = f[y] + Total(f, S)
<1> DEFINE T == S \cup {y}
<1>1. IsFiniteSet(T) /\ T \ {y} = S
  BY FS_AddElement
<1>2. Total(f, T) = f[y] + Total(f, T \ {y})
  BY <1>1, TotalWithout
<1> QED BY <1>1, <1>2

(* A subset totals no more. *)
LEMMA TotalGrows ==
  ASSUME NEW S, IsFiniteSet(S), NEW f, \A x \in S : f[x] \in Nat, NEW T \in SUBSET S
  PROVE  Total(f, T) =< Total(f, S)
<1> DEFINE Good == {Q \in SUBSET S : \A P \in SUBSET Q : Total(f, P) =< Total(f, Q)}
<1> SUFFICES ASSUME S \notin Good PROVE FALSE
  OBVIOUS
<1>1. PICK Q \in SUBSET S :
        Q \notin Good /\ \A P \in SUBSET S : Cardinality(P) < Cardinality(Q) => P \in Good
  <2> HIDE DEF Good
  <2> QED BY SmallestFailure
<1>2. IsFiniteSet(Q) /\ \A P \in SUBSET Q : IsFiniteSet(P) /\ Total(f, P) \in Nat
  <2>1. \A P \in SUBSET Q : IsFiniteSet(P) /\ \A x \in P : f[x] \in Nat
    BY FS_Subset
  <2> QED BY <2>1, TotalIsNatural
<1>3. PICK P \in SUBSET Q : ~(Total(f, P) =< Total(f, Q))
  BY <1>1
<1>4. P # Q
  BY <1>2, <1>3
<1>5. PICK x \in Q : x \notin P
  BY <1>4
<1>6. Q \ {x} \in Good
  BY <1>1, <1>2, Smaller
<1>7. Total(f, P) =< Total(f, Q \ {x})
  BY <1>5, <1>6
<1>8. Total(f, Q) = f[x] + Total(f, Q \ {x})
  BY <1>2, TotalWithout
<1>9. Total(f, P) \in Nat /\ Total(f, Q \ {x}) \in Nat /\ f[x] \in Nat
  BY <1>2
<1> QED BY <1>3, <1>7, <1>8, <1>9

(* No members, no total. *)
LEMMA TotalOfNone == ASSUME NEW f PROVE Total(f, {}) = 0
BY FS_EmptySet, TotalUnfolds

--------------------------------------------------------------------------------
(* Slices *)

\* g is h with more arrays, and other contents perhaps.
Extends(g, h) ==
  /\ g \in Seq(Seq(Nat))
  /\ Len(h) =< Len(g)
  /\ \A a \in 1 .. Len(h) : Len(g[a]) = Len(h[a])

(* A slice that fits goes on to fit when arrays are added. *)
LEMMA FitsStays ==
  ASSUME NEW h \in Seq(Seq(Nat)), NEW g, Extends(g, h), NEW slice \in Slices, Fits(h, slice)
  PROVE  Fits(g, slice)
BY DEF Extends, Fits, Slices

(* append makes the slice longer by one, in its array or in a new one, and    *)
(* leaves every other array as it is.                                         *)
LEMMA AppendedFits ==
  ASSUME NEW h \in Seq(Seq(Nat)), NEW slice \in Slices, Fits(h, slice), NEW order \in Nat
  PROVE  LET e == Appended(h, slice, order) IN
         /\ Extends(e.heap, h)
         /\ e.set \in Slices /\ Fits(e.heap, e.set)
         /\ e.set.len = slice.len + 1
         /\ e.set.array = slice.array \/ e.set.array = Len(h) + 1
         /\ \A a \in 1 .. Len(h) : a # slice.array => e.heap[a] = h[a]
<1> DEFINE n == slice.len
<1>0. /\ n \in Nat /\ slice.array \in 0 .. Len(h)
      /\ slice.array # 0 => h[slice.array] \in Seq(Nat) /\ n =< Len(h[slice.array])
      /\ slice.array = 0 => n = 0
  BY DEF Slices, Fits
<1>1. CASE n < Room(h, slice)
  <2> DEFINE g == [h EXCEPT ![slice.array][n + 1] = order]
             set == [slice EXCEPT !.len = @ + 1]
  <2>1. slice.array \in 1 .. Len(h) /\ n + 1 \in 1 .. Len(h[slice.array])
    BY <1>0, <1>1 DEF Room
  <2>2. Appended(h, slice, order) = [heap |-> g, set |-> set]
    BY <1>1 DEF Appended
  <2>3. [h[slice.array] EXCEPT ![n + 1] = order] \in Seq(Nat)
        /\ Len([h[slice.array] EXCEPT ![n + 1] = order]) = Len(h[slice.array])
    BY <1>0, <2>1
  <2>4. /\ g \in Seq(Seq(Nat)) /\ Len(g) = Len(h)
        /\ \A a \in 1 .. Len(h) : a # slice.array => g[a] = h[a]
        /\ Len(g[slice.array]) = Len(h[slice.array])
    BY <2>1, <2>3
  <2> HIDE DEF g
  <2>5. set \in Slices /\ set.array = slice.array /\ set.len = n + 1
    <3>1. slice = [array |-> slice.array, len |-> slice.len] /\ slice.array \in Nat /\ n \in Nat
      BY DEF Slices
    <3>2. set = [array |-> slice.array, len |-> n + 1]
      BY <3>1
    <3> HIDE DEF set
    <3> QED BY <3>1, <3>2 DEF Slices
  <2> HIDE DEF set
  <2>6. Extends(g, h)
    <3>1. \A a \in 1 .. Len(h) : Len(g[a]) = Len(h[a])
      <4> TAKE a \in 1 .. Len(h)
      <4>1. CASE a = slice.array
        BY <2>4, <4>1
      <4>2. CASE a # slice.array
        BY <2>4, <4>2
      <4> QED BY <4>1, <4>2
    <3> QED BY <2>4, <3>1 DEF Extends
  <2>7. Fits(g, set)
    BY <2>1, <2>4, <2>5 DEF Fits
  <2> QED BY <2>2, <2>4, <2>5, <2>6, <2>7
<1>2. CASE ~(n < Room(h, slice))
  <2> DEFINE size == IF n = 0 THEN 1 ELSE 2 * n
             array == [k \in 1 .. size |-> CASE k =< n -> h[slice.array][k]
                                             [] k = n + 1 -> order
                                             [] OTHER -> 0]
             set == [array |-> Len(h) + 1, len |-> n + 1]
  <2>1. size \in Nat /\ n + 1 =< size
    BY <1>0
  <2>2. Appended(h, slice, order) = [heap |-> Append(h, array), set |-> set]
    BY <1>2 DEF Appended
  <2>3. \A k \in 1 .. size : array[k] \in Nat
    <3> SUFFICES ASSUME NEW k \in 1 .. size PROVE array[k] \in Nat
      OBVIOUS
    <3> HIDE DEF size
    <3>1. CASE k =< n
      <4>1. slice.array # 0 /\ k \in 1 .. Len(h[slice.array])
        BY <1>0, <2>1, <3>1
      <4>2. h[slice.array][k] \in Nat
        BY <1>0, <4>1
      <4> QED BY <3>1, <4>2
    <3>2. CASE ~(k =< n)
      BY <1>0, <2>1, <3>2
    <3> QED BY <3>1, <3>2
  <2> HIDE DEF size
  <2>4. array \in Seq(Nat) /\ Len(array) = size
    <3>1. array \in [1 .. size -> Nat]
      BY <2>3
    <3>2. DOMAIN array = 1 .. size
      OBVIOUS
    <3> HIDE DEF array
    <3> QED BY <2>1, <3>1, <3>2
  <2> HIDE DEF array
  <2>5. /\ Append(h, array) \in Seq(Seq(Nat)) /\ Len(Append(h, array)) = Len(h) + 1
        /\ \A a \in 1 .. Len(h) : Append(h, array)[a] = h[a]
        /\ Append(h, array)[Len(h) + 1] = array
    BY <2>4
  <2>6. Extends(Append(h, array), h)
    BY <2>5 DEF Extends
  <2>7. set \in Slices /\ Fits(Append(h, array), set)
    BY <1>0, <2>1, <2>4, <2>5 DEF Slices, Fits
  <2> QED BY <2>2, <2>5, <2>6, <2>7
<1> QED BY <1>1, <1>2

(* The copy of the best set gets the next array, and no other changes. *)
LEMMA SavedFits ==
  ASSUME heap \in Seq(Seq(Nat)), NEW slice \in Slices, Fits(heap, slice)
  PROVE  LET s == Saved(heap, slice) IN
         /\ Extends(s.heap, heap)
         /\ s.set \in Slices /\ Fits(s.heap, s.set)
         /\ s.set.len = slice.len /\ s.set.array = Len(heap) + 1
<1> DEFINE c == Contents(slice)  n == slice.len
<1>1. slice.len \in Nat /\ \A k \in 1 .. slice.len : heap[slice.array][k] \in Nat
  BY DEF Slices, Fits
<1>2. c \in Seq(Nat) /\ Len(c) = slice.len
  <2>1. c \in [1 .. n -> Nat]
    BY <1>1 DEF Contents
  <2>2. DOMAIN c = 1 .. n
    BY DEF Contents
  <2>3. n \in Nat
    BY <1>1
  <2> HIDE DEF c, n
  <2>4. c \in Seq(Nat) /\ Len(c) = n
    BY <2>1, <2>2, <2>3
  <2> QED BY <2>4 DEF n
<1>3. Saved(heap, slice) = [heap |-> Append(heap, c), set |-> [array |-> Len(heap) + 1, len |-> slice.len]]
  BY DEF Saved
<1> HIDE DEF c
<1>4. /\ Append(heap, c) \in Seq(Seq(Nat)) /\ Len(Append(heap, c)) = Len(heap) + 1
      /\ \A a \in 1 .. Len(heap) : Append(heap, c)[a] = heap[a]
      /\ Append(heap, c)[Len(heap) + 1] = c
  BY <1>2
<1> QED BY <1>1, <1>2, <1>3, <1>4 DEF Extends, Slices, Fits

--------------------------------------------------------------------------------
(* The steps of the search *)

(* A caller that goes on after its first branch appends to its own array or    *)
(* to a new one, and not to the one of b.                                      *)
LEMMA ReturnIsSound ==
  ASSUME NEW h \in Seq(Seq(Nat)), NEW b \in Slices, Fits(h, b), CallsFit(h, b),
         orders \in Seq([weight : Nat, value : Nat]), UNCHANGED orders,
         outcome = "searching", Return(h)
  PROVE  /\ heap' \in Seq(Seq(Nat))
         /\ Fits(heap', b)
         /\ b.array # 0 => heap'[b.array] = h[b.array]
         /\ call' \in Calls /\ Sound(heap', b, call')
         /\ stack' \in Seq(Calls)
         /\ \A k \in 1 .. Len(stack') : Sound(heap', b, stack'[k]) /\ stack'[k].i < Len(orders)
         /\ outcome' \in {"searching", "planned"}
<1>1. CASE stack = <<>>
  BY <1>1 DEF Return, CallsFit, Sound
<1>2. CASE stack # <<>>
  <2> DEFINE caller == stack[Len(stack)]
             order == caller.i + 1
             e == Appended(h, caller.set, order)
  <2>1. /\ Len(stack) \in 1 .. Len(stack)
        /\ caller \in Calls /\ Sound(h, b, caller) /\ caller.i < Len(orders)
    BY <1>2 DEF CallsFit
  <2>2. /\ caller.i \in Nat /\ caller.weight \in Nat /\ caller.value \in Nat
        /\ caller.set \in Slices /\ Fits(h, caller.set) /\ caller.set.len =< caller.i
        /\ caller.set.array = 0 \/ caller.set.array # b.array
    BY <2>1 DEF Calls, Sound
  <2>3. order \in 1 .. Len(orders) /\ order \in Nat
        /\ orders[order].weight \in Nat /\ orders[order].value \in Nat
    <3> HIDE DEF caller, e
    <3>1. Len(orders) \in Nat /\ \A o \in 1 .. Len(orders) : orders[o] \in [weight : Nat, value : Nat]
      BY ElementOfSeq, LenProperties
    <3>2. order \in 1 .. Len(orders) /\ order \in Nat
      BY <2>1, <2>2, <3>1
    <3> HIDE DEF order
    <3>3. orders[order] \in [weight : Nat, value : Nat]
      BY <3>1, <3>2
    <3> QED BY <3>2, <3>3
  <2>4. /\ heap' = e.heap
        /\ call' = [i |-> caller.i + 1,
                    weight |-> caller.weight + orders[order].weight,
                    value |-> caller.value + orders[order].value,
                    set |-> e.set]
        /\ stack' = SubSeq(stack, 1, Len(stack) - 1)
        /\ outcome' = outcome
    BY <1>2 DEF Return
  <2>5. /\ Extends(e.heap, h)
        /\ e.set \in Slices /\ Fits(e.heap, e.set)
        /\ e.set.len = caller.set.len + 1
        /\ e.set.array = caller.set.array \/ e.set.array = Len(h) + 1
        /\ \A a \in 1 .. Len(h) : a # caller.set.array => e.heap[a] = h[a]
    BY <2>2, <2>3, AppendedFits
  <2> HIDE DEF e
  <2>6. b.array \in 0 .. Len(h)
    BY DEF Fits, Slices
  <2>7. Fits(e.heap, b) /\ (b.array # 0 => e.heap[b.array] = h[b.array])
    <3> HIDE DEF caller, order
    <3>1. Fits(e.heap, b)
      BY <2>5, FitsStays
    <3>2. ASSUME b.array # 0 PROVE e.heap[b.array] = h[b.array]
      <4>1. b.array \in 1 .. Len(h)
        BY <2>6, <3>2
      <4>2. b.array # caller.set.array
        BY <2>2, <3>2
      <4> QED BY <2>5, <4>1, <4>2
    <3> QED BY <3>1, <3>2
  <2>8. call' \in Calls /\ Sound(heap', b, call')
    <3> HIDE DEF caller, order
    <3>1. call'.set = e.set /\ call'.i = caller.i + 1
      BY <2>4
    <3>2. call' \in Calls
      <4> DEFINE w == orders[order].weight  v == orders[order].value
      <4>1. w \in Nat /\ v \in Nat
        BY <2>3
      <4>2. call' = [i |-> caller.i + 1, weight |-> caller.weight + w,
                     value |-> caller.value + v, set |-> e.set]
        BY <2>4
      <4> HIDE DEF w, v
      <4>3. caller.i + 1 \in Nat /\ caller.weight + w \in Nat /\ caller.value + v \in Nat
        BY <2>2, <4>1
      <4> QED BY <2>5, <4>2, <4>3 DEF Calls
    <3>3. e.set.len =< caller.i + 1 /\ caller.i + 1 =< Len(orders)
      <4> DEFINE i == caller.i  length == caller.set.len  n == Len(orders)
      <4>1. length \in Nat /\ n \in Nat
        BY <2>2, LenProperties DEF Slices
      <4>2. e.set.len = length + 1
        BY <2>5
      <4>3. i \in Nat /\ length =< i /\ i < n
        BY <2>1, <2>2
      <4> HIDE DEF i, length, n
      <4>4. length + 1 =< i + 1 /\ i + 1 =< n
        BY <4>1, <4>3
      <4> QED BY <4>2, <4>4 DEF i, n
    <3>4. e.set.array = 0 \/ e.set.array # b.array
      BY <2>2, <2>5, <2>6
    <3> QED BY <2>4, <2>5, <3>1, <3>2, <3>3, <3>4 DEF Sound
  <2>9. /\ stack' \in Seq(Calls)
        /\ \A k \in 1 .. Len(stack') : k \in 1 .. Len(stack) /\ stack'[k] = stack[k]
    <3>1. stack \in Seq(Calls) /\ Len(stack) \in Nat \ {0}
      BY <1>2 DEF CallsFit
    <3> HIDE DEF caller, order
    <3> QED BY <2>4, <3>1
  <2>10. \A k \in 1 .. Len(stack') : Sound(heap', b, stack'[k]) /\ stack'[k].i < Len(orders)
    <3> SUFFICES ASSUME NEW k \in 1 .. Len(stack') PROVE Sound(heap', b, stack'[k]) /\ stack'[k].i < Len(orders)
      OBVIOUS
    <3>1. Sound(h, b, stack[k]) /\ stack[k].i < Len(orders) /\ stack[k] \in Calls /\ stack'[k] = stack[k]
      BY <2>9 DEF CallsFit
    <3>2. stack[k].set \in Slices
      BY <3>1 DEF Calls
    <3>3. Fits(e.heap, stack[k].set)
      BY <2>5, <3>1, <3>2, FitsStays DEF Sound
    <3> QED BY <2>4, <3>1, <3>3 DEF Sound
  <2>11. heap' \in Seq(Seq(Nat)) /\ outcome' \in {"searching", "planned"}
    BY <2>4, <2>5 DEF Extends
  <2> QED BY <2>4, <2>7, <2>8, <2>9, <2>10, <2>11
<1> QED BY <1>1, <1>2

(* The remainder grows by one, up to the next multiple. *)
LEMMA ModStep ==
  ASSUME NEW a \in Nat, NEW d \in Nat \ {0}, (a + 1) % d # 0
  PROVE  (a + 1) % d = (a % d) + 1
<1> DEFINE q == a \div d        r == a % d
           p == (a + 1) \div d  s == (a + 1) % d
<1>1. q \in Int /\ r \in 0 .. d - 1 /\ a = d * q + r
  OBVIOUS
<1>2. p \in Int /\ s \in 0 .. d - 1 /\ a + 1 = d * p + s
  OBVIOUS
<1>3. s # 0
  OBVIOUS
<1> HIDE DEF q, r, p, s
<1>4. d * p + s = d * q + r + 1
  BY <1>1, <1>2
<1>5. ASSUME q + 1 =< p PROVE FALSE
  <2>1. d * q + d =< d * p
    <3>1. d * (q + 1) =< d * p /\ d * (q + 1) = d * q + d
      BY <1>1, <1>2, <1>5
    <3> QED BY <3>1
  <2>2. d * q \in Int /\ d * p \in Int
    BY <1>1, <1>2
  <2> QED BY <1>1, <1>2, <1>3, <1>4, <2>1, <2>2
<1>6. ASSUME p + 1 =< q PROVE FALSE
  <2>1. d * p + d =< d * q
    <3>1. d * (p + 1) =< d * q /\ d * (p + 1) = d * p + d
      BY <1>1, <1>2, <1>6
    <3> QED BY <3>1
  <2>2. d * q \in Int /\ d * p \in Int
    BY <1>1, <1>2
  <2> QED BY <1>1, <1>2, <1>4, <2>1, <2>2
<1>7. p = q
  BY <1>1, <1>2, <1>5, <1>6
<1>8. d * q \in Int
  BY <1>1
<1>9. s = r + 1
  BY <1>1, <1>2, <1>4, <1>7, <1>8
<1> QED BY <1>9 DEF s, r

(* A step that is counted is not one at which an ended context is seen, or    *)
(* ends the search.                                                          *)
LEMMA CountIsSound ==
  ASSUME LateSteps, ctx \in {"live", "ended"}, Count, outcome = "searching",
         SeesCancel => outcome' # "searching"
  PROVE  LateSteps'
<1>1. late \in Nat /\ steps \in Nat /\ late =< steps % CheckEvery /\ CheckEvery \in Nat \ {0}
  BY CheckAssumption DEF LateSteps
<1>2. steps % CheckEvery \in 0 .. CheckEvery - 1
  BY <1>1
<1>3. (steps + 1) % CheckEvery # 0 => (steps + 1) % CheckEvery = (steps % CheckEvery) + 1
  BY <1>1, ModStep
<1> QED BY <1>1, <1>2, <1>3 DEF LateSteps, Count, SeesCancel

(* The search begins with nothing. *)
LEMMA InitIInv == Init => IInv
<1> SUFFICES ASSUME Init PROVE IInv
  OBVIOUS
<1> USE DEF Init
<1>1. orders \in Seq([weight : Nat, value : Nat])
  BY OrderAssumption
<1>2. Len(orders) \in Nat
  BY <1>1, LenProperties
<1>3. NilSlice \in Slices /\ Fits(heap, NilSlice)
  BY DEF NilSlice, Slices, Fits
<1>4. HeapHoldsBest
  BY <1>1, <1>2, <1>3 DEF HeapHoldsBest, NilSlice
<1>5. CallsFit(heap, best)
  BY <1>2, <1>3 DEF CallsFit, Sound, Calls, NilSlice
<1>6. LateSteps
  BY CheckAssumption DEF LateSteps
<1> QED BY <1>4, <1>5, <1>6 DEF IInv

(* What a step of the search preserves, and that it leaves the best set alone  *)
(* unless it finds a better one.                                              *)
BestStays ==
  bestValue' = bestValue =>
    best' = best /\ (best.array # 0 => heap'[best.array] = heap[best.array])

(* A call that is pruned returns. *)
LEMMA PruneKeeps ==
  ASSUME IInv, Prune
  PROVE  IInv' /\ BestStays
<1> USE DEF IInv, Prune, HeapHoldsBest
<1>1. /\ heap' \in Seq(Seq(Nat)) /\ Fits(heap', best)
      /\ best.array # 0 => heap'[best.array] = heap[best.array]
      /\ call' \in Calls /\ Sound(heap', best, call')
      /\ stack' \in Seq(Calls)
      /\ \A k \in 1 .. Len(stack') : Sound(heap', best, stack'[k]) /\ stack'[k].i < Len(orders)
      /\ outcome' \in {"searching", "planned"}
  BY ReturnIsSound
<1>2. HeapHoldsBest'
  BY <1>1 DEF Fits
<1>3. CallsFit(heap, best)'
  BY <1>1 DEF CallsFit, Sound, Fits
<1>4. LateSteps'
  BY DEF LateSteps
<1> QED BY <1>1, <1>2, <1>3, <1>4 DEF BestStays

(* The best set gets an array no call appends to. *)
LEMMA SavedKeepsCalls ==
  ASSUME heap \in Seq(Seq(Nat)), CallsFit(heap, best)
  PROVE  LET saved == Saved(heap, call.set) IN
         /\ saved.heap \in Seq(Seq(Nat))
         /\ saved.set \in Slices /\ Fits(saved.heap, saved.set)
         /\ saved.set.len = call.set.len
         /\ CallsFit(saved.heap, saved.set)
<1> DEFINE saved == Saved(heap, call.set)
<1>1. call \in Calls /\ Sound(heap, best, call)
  BY DEF CallsFit
<1>2. call.set \in Slices /\ Fits(heap, call.set)
  BY <1>1 DEF Calls, Sound
<1>3. /\ Extends(saved.heap, heap)
      /\ saved.set \in Slices /\ Fits(saved.heap, saved.set)
      /\ saved.set.len = call.set.len /\ saved.set.array = Len(heap) + 1
  BY <1>2, SavedFits
<1> HIDE DEF saved
<1>4. ASSUME NEW c \in Calls, Sound(heap, best, c) PROVE Sound(saved.heap, saved.set, c)
  <2>1. c.set \in Slices /\ Fits(heap, c.set) /\ Len(heap) \in Nat
    BY <1>4, LenProperties DEF Calls, Sound
  <2>2. Fits(saved.heap, c.set)
    BY <1>3, <2>1, FitsStays
  <2>3. c.set.array \in Nat /\ c.set.array =< Len(heap)
    BY <2>1 DEF Slices, Fits
  <2> QED BY <1>3, <1>4, <2>1, <2>2, <2>3 DEF Sound
<1>5. CallsFit(saved.heap, saved.set)
  BY <1>4 DEF CallsFit
<1> QED BY <1>3, <1>5 DEF Extends, saved

(* A leaf records its load in an array of its own if it is a better one. *)
LEMMA LeafKeeps ==
  ASSUME IInv, Leaf
  PROVE  IInv' /\ BestStays
<1> USE DEF HeapHoldsBest
<1>a. /\ orders \in Seq([weight : Nat, value : Nat]) /\ heap \in Seq(Seq(Nat))
      /\ best \in Slices /\ Fits(heap, best) /\ best.len =< Len(orders) /\ bestValue \in Nat
      /\ CallsFit(heap, best) /\ LateSteps
      /\ outcome = "searching" /\ ~SeesCancel /\ Count /\ UNCHANGED <<orders, capacity, ctx>>
      /\ call.value \in Nat /\ Len(orders) \in Nat /\ ctx \in {"live", "ended"}
  BY LenProperties DEF IInv, Leaf, Count, CallsFit, Calls
<1>1. LateSteps'
  BY <1>a, CountIsSound
<1>2. CASE call.value > bestValue
  <2> DEFINE saved == Saved(heap, call.set)
  <2>1. /\ best' = saved.set /\ bestValue' = call.value /\ Return(saved.heap)
    BY <1>2 DEF Leaf
  <2>2. call \in Calls /\ Sound(heap, best, call)
    BY <1>a DEF CallsFit
  <2>3. call.set.len =< Len(orders)
    BY <1>a, <2>2 DEF Calls, Sound, Slices
  <2>4. /\ saved.heap \in Seq(Seq(Nat))
        /\ saved.set \in Slices /\ Fits(saved.heap, saved.set)
        /\ saved.set.len = call.set.len
        /\ CallsFit(saved.heap, saved.set)
    BY <1>a, SavedKeepsCalls
  <2> HIDE DEF saved
  <2>7. /\ heap' \in Seq(Seq(Nat)) /\ Fits(heap', saved.set)
        /\ call' \in Calls /\ Sound(heap', saved.set, call')
        /\ stack' \in Seq(Calls)
        /\ \A k \in 1 .. Len(stack') :
             Sound(heap', saved.set, stack'[k]) /\ stack'[k].i < Len(orders)
        /\ outcome' \in {"searching", "planned"}
    BY <1>a, <2>1, <2>4, ReturnIsSound
  <2>8. HeapHoldsBest'
    BY <1>a, <2>1, <2>3, <2>4, <2>7 DEF Fits
  <2>9. CallsFit(heap, best)'
    BY <1>a, <2>1, <2>7 DEF CallsFit, Sound, Fits
  <2>10. bestValue' \in Nat /\ bestValue' # bestValue
    BY <1>2, <1>a, <2>1
  <2> QED BY <1>1, <1>a, <2>7, <2>8, <2>9, <2>10 DEF IInv, BestStays
<1>3. CASE ~(call.value > bestValue)
  <2>1. Return(heap) /\ UNCHANGED <<best, bestValue>>
    BY <1>3 DEF Leaf
  <2>2. /\ heap' \in Seq(Seq(Nat)) /\ Fits(heap', best)
        /\ best.array # 0 => heap'[best.array] = heap[best.array]
        /\ call' \in Calls /\ Sound(heap', best, call')
        /\ stack' \in Seq(Calls)
        /\ \A k \in 1 .. Len(stack') : Sound(heap', best, stack'[k]) /\ stack'[k].i < Len(orders)
        /\ outcome' \in {"searching", "planned"}
    BY <1>a, <2>1, ReturnIsSound
  <2>3. HeapHoldsBest'
    BY <1>a, <2>1, <2>2 DEF Fits
  <2>4. CallsFit(heap, best)'
    BY <1>a, <2>1, <2>2 DEF CallsFit, Sound, Fits
  <2> QED BY <1>1, <1>a, <2>1, <2>2, <2>3, <2>4 DEF IInv, BestStays
<1> QED BY <1>2, <1>3

(* The first branch of a call goes on with the same slice. *)
LEMMA DescendKeeps ==
  ASSUME IInv, Descend
  PROVE  IInv' /\ BestStays
<1> USE DEF IInv, Descend, Count
<1>1. call \in Calls /\ Sound(heap, best, call) /\ Len(orders) \in Nat
  BY LenProperties DEF CallsFit, HeapHoldsBest
<1>2. call' \in Calls /\ call'.i = call.i + 1 /\ call'.set = call.set
  BY <1>1 DEF Calls
<1>3. /\ stack' \in Seq(Calls)
      /\ \A k \in 1 .. Len(stack') : Sound(heap, best, stack'[k]) /\ stack'[k].i < Len(orders)
  <2>1. stack \in Seq(Calls) /\ \A k \in 1 .. Len(stack) : Sound(heap, best, stack[k]) /\ stack[k].i < Len(orders)
    BY DEF CallsFit
  <2>2. stack' = Append(stack, call) /\ call.i < Len(orders)
    OBVIOUS
  <2> QED BY <1>1, <2>1, <2>2
<1>4. CallsFit(heap, best)'
  <2>1. call.i \in Nat /\ call.set.len \in Nat
    BY <1>1 DEF Calls, Slices
  <2> QED BY <1>1, <1>2, <1>3, <2>1 DEF CallsFit, Sound, Fits
<1>5. HeapHoldsBest'
  BY DEF HeapHoldsBest, Fits
<1>6. LateSteps'
  BY CountIsSound
<1> QED BY <1>4, <1>5, <1>6 DEF BestStays

(* A search that is canceled, a context that ends, and a stutter change no set. *)
LEMMA OthersKeep ==
  ASSUME IInv, Cancel \/ ContextEnds \/ UNCHANGED vars
  PROVE  IInv' /\ BestStays
<1> USE DEF IInv, Cancel, ContextEnds, vars, Count
<1>1. UNCHANGED <<orders, call, stack, heap, best, bestValue>>
  OBVIOUS
<1>2. HeapHoldsBest' /\ CallsFit(heap, best)'
  BY <1>1 DEF HeapHoldsBest, CallsFit, Sound, Fits
<1>3. LateSteps'
  <2>1. CASE Cancel
    BY <2>1, CountIsSound
  <2>2. CASE ContextEnds
    <3>1. steps % CheckEvery \in Nat
      BY CheckAssumption DEF LateSteps
    <3> QED BY <2>2, <3>1, CheckAssumption DEF LateSteps
  <2>3. CASE UNCHANGED vars
    BY <2>3 DEF LateSteps
  <2> QED BY <2>1, <2>2, <2>3
<1>4. bestValue' \in Nat /\ ctx' \in {"live", "ended"} /\ outcome' \in {"searching", "planned", "canceled"}
  OBVIOUS
<1> QED BY <1>1, <1>2, <1>3, <1>4 DEF BestStays

(* IInv is inductive. *)
LEMMA StepIInv == IInv /\ [Next]_vars => IInv' /\ BestStays
BY PruneKeeps, LeafKeeps, DescendKeeps, OthersKeep DEF Next, Search

(* IInv holds in every reachable state. *)
THEOREM Invariance == Spec => []IInv
<1>1. IInv /\ [Next]_vars => IInv'
  BY StepIInv
<1> QED BY <1>1, InitIInv, PTL DEF Spec

(* Every variable keeps its type: no slice names an array that does not exist,  *)
(* or is longer than the list of orders.                                       *)
THEOREM TypeCorrect == Spec => []TypeOK
<1>1. IInv => TypeOK
  <2> SUFFICES ASSUME IInv PROVE TypeOK
    OBVIOUS
  <2>1. Len(orders) \in Nat /\ Len(heap) \in Nat
    BY LenProperties DEF IInv, HeapHoldsBest
  <2>2. best \in [array : 0 .. Len(heap), len : 0 .. Len(orders)]
    BY <2>1 DEF IInv, HeapHoldsBest, Fits, Slices
  <2>3. call.set \in [array : 0 .. Len(heap), len : 0 .. Len(orders)] /\ call.i \in 0 .. Len(orders)
    BY <2>1 DEF IInv, CallsFit, Sound, Fits, Slices, Calls
  <2>4. call \in Calls
    BY DEF IInv, CallsFit
  <2> QED BY <2>2, <2>3, <2>4 DEF TypeOK, IInv, LateSteps, Calls
<1> QED BY <1>1, Invariance, PTL

(* A search whose request is gone makes at most CheckEvery more steps, for any  *)
(* list of orders and any distance of the looks at the context.                *)
THEOREM CancelSeen == Spec => []CancelIsSeen
<1>1. IInv => CancelIsSeen
  BY DEF IInv, LateSteps, CancelIsSeen
<1> QED BY <1>1, Invariance, PTL

(* The copy in bestSet = append([]model.Order{}, curSet...) is never written    *)
(* through another slice, for a list of any length: the load that is returned   *)
(* is the load that was recorded.                                              *)
THEOREM BestIsOwn == Spec => BestIsNotWritten
<1>1. IInv /\ [Next]_vars => [bestValue' = bestValue =>
        best' = best /\ (best.array # 0 => heap'[best.array] = heap[best.array])]_vars
  BY StepIInv DEF BestStays
<1> QED BY <1>1, Invariance, PTL DEF Spec, BestIsNotWritten

--------------------------------------------------------------------------------
(* What the calls hold *)

\* The orders of a slice.
Held(h, slice) == {h[slice.array][k] : k \in 1 .. slice.len}

\* A call holds orders it has decided on, and their weight and value.
Weighed(h, c) ==
  /\ Held(h, c.set) \subseteq 1 .. c.i
  /\ c.weight = Total(WeightOf, Held(h, c.set))
  /\ c.value = Total(ValueOf, Held(h, c.set))

\* d is made in the first branch of c, the one without order c.i + 1, and what it
\* appends to an array they share comes after what c holds.
Under(h, c, d) ==
  /\ c.i < d.i
  /\ c.i + 1 \notin Held(h, d.set)
  /\ c.set.array = d.set.array => c.set.len =< d.set.len

\* A call and its callers, one under the other.
Nested(h, c, callers) ==
  /\ Weighed(h, c)
  /\ \A k \in 1 .. Len(callers) :
       Weighed(h, callers[k]) /\ callers[k].weight =< capacity /\ Under(h, callers[k], c)
  /\ \A k, l \in 1 .. Len(callers) : k < l => Under(h, callers[k], callers[l])

\* The load T is one of those that start like what c holds, or of those that the
\* second branch of a caller will look at.
Agrees(h, c, T) == T \cap (1 .. c.i) = Held(h, c.set)
Waiting(h, callers, T) ==
  \E k \in 1 .. Len(callers) :
    T \cap (1 .. callers[k].i + 1) = Held(h, callers[k].set) \cup {callers[k].i + 1}

Carried == Loads(1 .. Len(orders), WeightOf, capacity)

\* No load of a higher value is forgotten.
NoneForgotten ==
  \A T \in Carried :
    \/ Total(ValueOf, T) =< bestValue
    \/ outcome # "planned" /\ (Agrees(heap, call, T) \/ Waiting(heap, stack, T))

\* The best set is a load without padding, and worth what was recorded.
BestIsLoad ==
  /\ Held(heap, best) \in Carried \cup {{}}
  /\ Total(ValueOf, Held(heap, best)) = bestValue
  /\ \A o \in Held(heap, best) : ValueOf[o] > 0

LoadInv ==
  /\ IInv
  /\ capacity \in Int
  /\ Nested(heap, call, stack)
  /\ outcome # "canceled" => NoneForgotten
  /\ BestIsLoad

(* append adds an order to the slice; a slice that is no longer than it in the    *)
(* same array, or in another one, holds what it held.                            *)
LEMMA AppendedHolds ==
  ASSUME NEW h \in Seq(Seq(Nat)), NEW slice \in Slices, Fits(h, slice), NEW order \in Nat
  PROVE  LET e == Appended(h, slice, order) IN
         /\ Held(e.heap, e.set) = Held(h, slice) \cup {order}
         /\ \A s \in Slices :
              Fits(h, s) /\ (s.array = slice.array => s.len =< slice.len)
                => Held(e.heap, s) = Held(h, s)
<1> DEFINE n == slice.len
           e == Appended(h, slice, order)
<1>0. /\ n \in Nat /\ slice.array \in 0 .. Len(h)
      /\ slice.array # 0 => h[slice.array] \in Seq(Nat) /\ n =< Len(h[slice.array])
      /\ slice.array = 0 => n = 0
  BY DEF Slices, Fits
<1>1. /\ e.set.len = n + 1
      /\ e.set.array = slice.array \/ e.set.array = Len(h) + 1
      /\ \A a \in 1 .. Len(h) : a # slice.array => e.heap[a] = h[a]
  BY AppendedFits
<1>2. /\ e.heap[e.set.array][n + 1] = order
      /\ \A k \in 1 .. n : e.heap[e.set.array][k] = h[slice.array][k]
      /\ \A k \in 1 .. n : e.heap[slice.array][k] = h[slice.array][k]
  <2>1. CASE n < Room(h, slice)
    <3> DEFINE g == [h EXCEPT ![slice.array][n + 1] = order]
               set == [slice EXCEPT !.len = @ + 1]
    <3>1. slice.array \in 1 .. Len(h) /\ n + 1 \in 1 .. Len(h[slice.array])
      BY <1>0, <2>1 DEF Room
    <3>2. e.heap = g /\ e.set = set
      BY <2>1 DEF Appended
    <3>3. set.array = slice.array
      <4>1. slice = [array |-> slice.array, len |-> slice.len]
        BY DEF Slices
      <4> QED BY <4>1
    <3>4. g[slice.array] = [h[slice.array] EXCEPT ![n + 1] = order]
      <4> DEFINE a == slice.array  m == n + 1
      <4>1. a \in DOMAIN h
        BY <3>1
      <4> HIDE DEF a, m
      <4>2. [h EXCEPT ![a][m] = order][a] = [h[a] EXCEPT ![m] = order]
        BY <4>1
      <4> QED BY <4>2 DEF a, m
    <3>5. g[slice.array][n + 1] = order /\ \A k \in 1 .. n : g[slice.array][k] = h[slice.array][k]
      <4> DEFINE old == h[slice.array]
      <4>1. old \in Seq(Nat) /\ n \in Nat /\ n + 1 \in 1 .. Len(old)
        BY <1>0, <3>1
      <4>2. g[slice.array] = [old EXCEPT ![n + 1] = order]
        BY <3>4
      <4> HIDE DEF old, g, n
      <4>3. n + 1 \in DOMAIN old /\ \A k \in 1 .. n : k \in DOMAIN old /\ k # n + 1
        BY <4>1
      <4>4. /\ [old EXCEPT ![n + 1] = order][n + 1] = order
            /\ \A k \in 1 .. n : [old EXCEPT ![n + 1] = order][k] = old[k]
        BY <4>3
      <4> QED BY <4>2, <4>4 DEF old
    <3> HIDE DEF g, set, e
    <3> QED BY <3>2, <3>3, <3>5
  <2>2. CASE ~(n < Room(h, slice))
    <3> DEFINE size == IF n = 0 THEN 1 ELSE 2 * n
               array == [k \in 1 .. size |-> CASE k =< n -> h[slice.array][k]
                                               [] k = n + 1 -> order
                                               [] OTHER -> 0]
    <3>1. e.heap = Append(h, array) /\ e.set.array = Len(h) + 1
      BY <2>2 DEF Appended
    <3>2. size \in Nat /\ n + 1 =< size
      BY <1>0
    <3>3. array[n + 1] = order /\ \A k \in 1 .. n : array[k] = h[slice.array][k]
      <4> HIDE DEF size
      <4> QED BY <1>0, <3>2
    <3> HIDE DEF array, e
    <3>4. /\ Append(h, array)[Len(h) + 1] = array
          /\ slice.array # 0 => Append(h, array)[slice.array] = h[slice.array]
      BY <1>0
    <3> QED BY <1>0, <3>1, <3>3, <3>4
  <2> QED BY <2>1, <2>2
<1> HIDE DEF e
<1>3. Held(e.heap, e.set) = Held(h, slice) \cup {order}
  <2>1. 1 .. n + 1 = (1 .. n) \cup {n + 1}
    BY <1>0
  <2>2. Held(e.heap, e.set) = {e.heap[e.set.array][k] : k \in (1 .. n) \cup {n + 1}}
    BY <1>1, <2>1 DEF Held
  <2> QED BY <1>2, <2>2 DEF Held
<1>4. ASSUME NEW s \in Slices, Fits(h, s), s.array = slice.array => s.len =< n
      PROVE  Held(e.heap, s) = Held(h, s)
  <2>1. s.len \in Nat /\ s.array \in 0 .. Len(h) /\ (s.array = 0 => s.len = 0)
    BY <1>4 DEF Slices, Fits
  <2>2. \A k \in 1 .. s.len : e.heap[s.array][k] = h[s.array][k]
    <3>1. CASE s.array = slice.array
      <4>1. \A k \in 1 .. s.len : k \in 1 .. n
        BY <1>0, <1>4, <2>1, <3>1
      <4> QED BY <1>2, <3>1, <4>1
    <3>2. CASE s.array # slice.array /\ s.array # 0
      BY <1>1, <2>1, <3>2
    <3>3. CASE s.array = 0
      BY <2>1, <3>3
    <3> QED BY <3>1, <3>2, <3>3
  <2> QED BY <2>2 DEF Held
<1> QED BY <1>3, <1>4 DEF e

(* The copy of the best set holds what was copied, and no slice loses anything. *)
LEMMA SavedHolds ==
  ASSUME heap \in Seq(Seq(Nat)), NEW slice \in Slices, Fits(heap, slice)
  PROVE  LET saved == Saved(heap, slice) IN
         /\ Held(saved.heap, saved.set) = Held(heap, slice)
         /\ \A s \in Slices : Fits(heap, s) => Held(saved.heap, s) = Held(heap, s)
<1> DEFINE c == Contents(slice)
           saved == Saved(heap, slice)
<1>1. saved.heap = Append(heap, c) /\ saved.set.array = Len(heap) + 1 /\ saved.set.len = slice.len
  BY DEF Saved
<1>2. \A k \in 1 .. slice.len : c[k] = heap[slice.array][k]
  BY DEF Contents
<1> HIDE DEF c, saved
<1>3. saved.heap[Len(heap) + 1] = c /\ \A a \in 1 .. Len(heap) : saved.heap[a] = heap[a]
  BY <1>1
<1>4. Held(saved.heap, saved.set) = Held(heap, slice)
  <2>1. \A k \in 1 .. slice.len : saved.heap[saved.set.array][k] = heap[slice.array][k]
    BY <1>1, <1>2, <1>3
  <2> QED BY <1>1, <2>1 DEF Held
<1>5. ASSUME NEW s \in Slices, Fits(heap, s) PROVE Held(saved.heap, s) = Held(heap, s)
  <2>1. s.len \in Nat /\ s.array \in 0 .. Len(heap) /\ (s.array = 0 => s.len = 0)
    BY <1>5 DEF Slices, Fits
  <2>2. \A k \in 1 .. s.len : saved.heap[s.array][k] = heap[s.array][k]
    BY <1>3, <2>1
  <2> QED BY <2>2 DEF Held
<1> QED BY <1>4, <1>5 DEF saved

(* Sets of orders have a weight and a value, and subsets no more of either. *)
LEMMA OrdersTotal ==
  ASSUME orders \in Seq([weight : Nat, value : Nat]), NEW S \in SUBSET (1 .. Len(orders))
  PROVE  /\ IsFiniteSet(S)
         /\ \A o \in S : WeightOf[o] \in Nat /\ ValueOf[o] \in Nat
         /\ Total(WeightOf, S) \in Nat /\ Total(ValueOf, S) \in Nat
         /\ \A T \in SUBSET S : Total(WeightOf, T) =< Total(WeightOf, S)
<1>1. IsFiniteSet(1 .. Len(orders))
  <2>1. Len(orders) \in Nat
    BY LenProperties
  <2> QED BY <2>1, FS_Interval
<1>2. IsFiniteSet(S)
  BY <1>1, FS_Subset
<1>3. \A o \in S : WeightOf[o] \in Nat /\ ValueOf[o] \in Nat
  <2> TAKE o \in S
  <2>1. o \in 1 .. Len(orders) /\ orders[o] \in [weight : Nat, value : Nat]
    BY ElementOfSeq
  <2>2. WeightOf[o] = orders[o].weight /\ ValueOf[o] = orders[o].value
    BY <2>1 DEF WeightOf, ValueOf
  <2> QED BY <2>1, <2>2
<1> QED BY <1>2, <1>3, TotalIsNatural, TotalGrows

--------------------------------------------------------------------------------
(* No load is forgotten *)

(* The order a caller goes on with is added to what it holds: a call that returns  *)
(* leaves every other caller as it was, and each load it was not the last to look  *)
(* at to the new call or to the callers that remain.                              *)
LEMMA ReturnKeepsLoads ==
  ASSUME NEW h \in Seq(Seq(Nat)), NEW b \in Slices, Fits(h, b), CallsFit(h, b),
         orders \in Seq([weight : Nat, value : Nat]), UNCHANGED orders,
         outcome = "searching", Return(h), Nested(h, call, stack)
  PROVE  /\ Nested(heap', call', stack')
         /\ Held(heap', b) = Held(h, b)
         /\ \A T \in Carried : Waiting(h, stack, T) =>
              outcome' # "planned" /\ (Agrees(heap', call', T) \/ Waiting(heap', stack', T))
         /\ \A T : outcome' = "searching" /\ (Agrees(heap', call', T) \/ Waiting(heap', stack', T))
              => Waiting(h, stack, T)
<1>1. CASE stack = <<>>
  <2>1. heap' = h /\ call' = call /\ stack' = stack /\ outcome' # "searching"
    BY <1>1 DEF Return
  <2>2. \A T : ~Waiting(h, stack, T)
    BY <1>1 DEF Waiting
  <2> QED BY <2>1, <2>2
<1>2. CASE stack # <<>>
  <2> DEFINE L == Len(stack)
             caller == stack[L]
             order == caller.i + 1
             e == Appended(h, caller.set, order)
  <2>1. /\ L \in Nat \ {0} /\ L \in 1 .. L
        /\ caller \in Calls /\ Sound(h, b, caller) /\ caller.i < Len(orders)
    BY <1>2 DEF CallsFit
  <2>2. /\ heap' = e.heap
        /\ call' = [i |-> caller.i + 1,
                    weight |-> caller.weight + orders[order].weight,
                    value |-> caller.value + orders[order].value,
                    set |-> e.set]
        /\ stack' = SubSeq(stack, 1, L - 1)
        /\ outcome' = "searching"
    BY <1>2 DEF Return
  <2>3. /\ L - 1 \in Nat /\ Len(stack') = L - 1
        /\ \A k \in 1 .. L - 1 : stack'[k] = stack[k] /\ k \in 1 .. L /\ k < L
    <3>1. stack \in Seq(Calls)
      BY DEF CallsFit
    <3> HIDE DEF caller, order, e
    <3>2. stack' = SubSeq(stack, 1, L - 1) /\ L \in Nat /\ L # 0 /\ L = Len(stack)
      BY <2>1, <2>2
    <3> HIDE DEF L
    <3>3. L - 1 \in Nat /\ \A k \in 1 .. L - 1 : k \in 1 .. L /\ k < L
      BY <3>2
    <3>4. Len(stack') = L - 1 /\ \A k \in 1 .. L - 1 : stack'[k] = stack[k]
      BY <3>1, <3>2, <3>3
    <3> QED BY <3>3, <3>4
  <2>a. order = caller.i + 1
    OBVIOUS
  <2>4. /\ caller.i \in Nat /\ caller.weight \in Nat /\ caller.value \in Nat
        /\ caller.set \in Slices /\ Fits(h, caller.set)
        /\ order \in Nat /\ order \in 1 .. Len(orders)
    <3>1. Len(orders) \in Nat
      BY LenProperties
    <3> QED BY <2>1, <3>1 DEF Calls, Sound
  <2>5. /\ call'.i = order /\ call'.set = e.set
        /\ call'.weight = caller.weight + WeightOf[order]
        /\ call'.value = caller.value + ValueOf[order]
    <3>1. WeightOf[order] = orders[order].weight /\ ValueOf[order] = orders[order].value
      BY <2>4 DEF WeightOf, ValueOf
    <3> HIDE DEF e
    <3> QED BY <2>2, <3>1
  <2> DEFINE held == Held(h, caller.set)
  <2>6. /\ Held(e.heap, e.set) = held \cup {order}
        /\ \A s \in Slices :
             Fits(h, s) /\ (s.array = caller.set.array => s.len =< caller.set.len)
               => Held(e.heap, s) = Held(h, s)
    BY <2>4, AppendedHolds
  <2>7. /\ e.set.len = caller.set.len + 1
        /\ e.set.array = caller.set.array \/ e.set.array = Len(h) + 1
    BY <2>4, AppendedFits
  <2>8. /\ Weighed(h, caller)
        /\ \A k \in 1 .. L - 1 : Under(h, stack[k], caller)
    BY <2>1, <2>3 DEF Nested
  <2>9. \A k \in 1 .. L - 1 :
          /\ stack[k] \in Calls /\ stack[k].set \in Slices /\ Fits(h, stack[k].set)
          /\ Weighed(h, stack[k]) /\ stack[k].weight =< capacity
          /\ Under(h, stack[k], caller)
          /\ Held(e.heap, stack[k].set) = Held(h, stack[k].set)
    <3> SUFFICES ASSUME NEW k \in 1 .. L - 1
                 PROVE  /\ stack[k] \in Calls /\ stack[k].set \in Slices /\ Fits(h, stack[k].set)
                        /\ Weighed(h, stack[k]) /\ stack[k].weight =< capacity
                        /\ Under(h, stack[k], caller)
                        /\ Held(e.heap, stack[k].set) = Held(h, stack[k].set)
      OBVIOUS
    <3> HIDE DEF caller, order, e, held
    <3>1. k \in 1 .. L
      BY <2>3
    <3>2. stack[k] \in Calls /\ Sound(h, b, stack[k])
      BY <3>1 DEF CallsFit
    <3>3. stack[k].set \in Slices /\ Fits(h, stack[k].set)
      BY <3>2 DEF Calls, Sound
    <3>4. Weighed(h, stack[k]) /\ stack[k].weight =< capacity
      BY <3>1 DEF Nested
    <3>5. Under(h, stack[k], caller)
      BY <2>8
    <3>6. Held(e.heap, stack[k].set) = Held(h, stack[k].set)
      BY <2>6, <3>3, <3>5 DEF Under
    <3> QED BY <3>2, <3>3, <3>4, <3>5, <3>6
  <2>10. Weighed(heap', call')
    <3> HIDE DEF caller, order, e, held
    <3>1. /\ held \subseteq 1 .. caller.i
          /\ caller.weight = Total(WeightOf, held) /\ caller.value = Total(ValueOf, held)
      BY <2>8 DEF Weighed, held
    <3>2. /\ order \notin held /\ held \cup {order} \subseteq 1 .. order
          /\ held \cup {order} \subseteq 1 .. Len(orders)
      <4>1. Len(orders) \in Nat
        BY LenProperties
      <4>2. order \notin 1 .. caller.i /\ (1 .. caller.i) \cup {order} \subseteq 1 .. order
        BY <2>a, <2>4
      <4>3. 1 .. order \subseteq 1 .. Len(orders)
        BY <2>4, <4>1
      <4> QED BY <3>1, <4>2, <4>3
    <3>3. /\ IsFiniteSet(held)
          /\ \A o \in held \cup {order} : WeightOf[o] \in Nat /\ ValueOf[o] \in Nat
      <4>1. held \in SUBSET (1 .. Len(orders)) /\ held \cup {order} \in SUBSET (1 .. Len(orders))
        BY <3>2
      <4> QED BY <4>1, OrdersTotal
    <3>4. /\ Total(WeightOf, held \cup {order}) = WeightOf[order] + Total(WeightOf, held)
          /\ Total(ValueOf, held \cup {order}) = ValueOf[order] + Total(ValueOf, held)
      BY <3>2, <3>3, TotalWith
    <3>5. /\ WeightOf[order] \in Nat /\ ValueOf[order] \in Nat
          /\ caller.weight \in Nat /\ caller.value \in Nat
      BY <2>4, <3>3
    <3>6. Held(heap', call'.set) = held \cup {order} /\ call'.i = order
      BY <2>2, <2>5, <2>6
    <3>7. /\ call'.weight = Total(WeightOf, held \cup {order})
          /\ call'.value = Total(ValueOf, held \cup {order})
      BY <2>5, <3>1, <3>4, <3>5
    <3> QED BY <3>2, <3>6, <3>7 DEF Weighed
  <2>11. \A k \in 1 .. L - 1 : Weighed(heap', stack[k]) /\ Under(heap', stack[k], call')
    <3> HIDE DEF caller, order, e, held
    <3> SUFFICES ASSUME NEW k \in 1 .. L - 1
                 PROVE  Weighed(heap', stack[k]) /\ Under(heap', stack[k], call')
      OBVIOUS
    <3>1. Weighed(heap', stack[k])
      BY <2>2, <2>9 DEF Weighed
    <3>2. stack[k].i \in Nat /\ stack[k].i < caller.i /\ stack[k].i + 1 \notin held
      BY <2>9 DEF Under, held, Calls
    <3>3. stack[k].i < call'.i /\ stack[k].i + 1 \notin Held(heap', call'.set)
      <4>1. stack[k].i + 1 # order /\ stack[k].i < order
        <5> DEFINE i == stack[k].i  j == caller.i
        <5>1. i \in Nat /\ j \in Nat /\ i < j /\ order = j + 1
          BY <2>a, <2>4, <3>2
        <5> HIDE DEF i, j
        <5>2. i + 1 # order /\ i < order
          BY <5>1
        <5> QED BY <5>2 DEF i
      <4> QED BY <2>2, <2>5, <2>6, <3>2, <4>1
    <3>4. stack[k].set.array = e.set.array => stack[k].set.len =< e.set.len
      <4>1. /\ stack[k].set.array \in Nat /\ stack[k].set.array =< Len(h)
            /\ stack[k].set.len \in Nat /\ caller.set.len \in Nat /\ Len(h) \in Nat
        <5>1. stack[k].set \in Slices /\ Fits(h, stack[k].set)
          BY <2>9
        <5>2. stack[k].set.array =< Len(h)
          BY <5>1 DEF Fits
        <5> QED BY <2>4, <5>1, <5>2, LenProperties DEF Slices
      <4>2. stack[k].set.array = caller.set.array => stack[k].set.len =< caller.set.len
        BY <2>9 DEF Under
      <4> QED BY <2>7, <4>1, <4>2
    <3> QED BY <2>5, <3>1, <3>3, <3>4 DEF Under
  <2>12. Nested(heap', call', stack')
    <3>1. \A k, l \in 1 .. L - 1 : k < l => Under(heap', stack[k], stack[l])
      <4> SUFFICES ASSUME NEW k \in 1 .. L - 1, NEW l \in 1 .. L - 1, k < l
                   PROVE  Under(heap', stack[k], stack[l])
        OBVIOUS
      <4>1. Under(h, stack[k], stack[l])
        BY <2>3 DEF Nested
      <4> HIDE DEF caller, order, e, held
      <4> QED BY <2>2, <2>9, <4>1 DEF Under
    <3> HIDE DEF caller, order, e, held
    <3>2. \A k \in 1 .. L - 1 :
            stack'[k] = stack[k] /\ Weighed(heap', stack[k]) /\ stack[k].weight =< capacity
            /\ Under(heap', stack[k], call')
      BY <2>3, <2>9, <2>11
    <3>3. \A k, l \in 1 .. L - 1 : k < l => Under(heap', stack'[k], stack'[l])
      BY <3>1, <3>2
    <3>4. Len(stack') = L - 1
      BY <2>3
    <3> HIDE DEF L
    <3> QED BY <2>10, <3>2, <3>3, <3>4 DEF Nested
  <2>13. Held(heap', b) = Held(h, b)
    <3>1. b.array = caller.set.array => b.len =< caller.set.len
      <4>1. caller.set.array = 0 \/ caller.set.array # b.array
        BY <2>1 DEF Sound
      <4>2. caller.set.len \in Nat
        BY <2>4 DEF Slices
      <4> QED BY <4>1, <4>2 DEF Fits
    <3> QED BY <2>2, <2>6, <3>1
  <2>14. ASSUME NEW T \in Carried, Waiting(h, stack, T)
         PROVE  Agrees(heap', call', T) \/ Waiting(heap', stack', T)
    <3>1. PICK k \in 1 .. L :
            T \cap (1 .. stack[k].i + 1) = Held(h, stack[k].set) \cup {stack[k].i + 1}
      BY <2>14 DEF Waiting
    <3>2. CASE k = L
      <4>1. T \cap (1 .. order) = held \cup {order}
        BY <3>1, <3>2
      <4> HIDE DEF caller, order, e, held
      <4> QED BY <2>2, <2>5, <2>6, <4>1 DEF Agrees
    <3>3. CASE k # L
      <4>1. k \in 1 .. L - 1
        BY <2>1, <3>3
      <4> HIDE DEF caller, order, e, held
      <4> QED BY <2>2, <2>3, <2>9, <3>1, <4>1 DEF Waiting
    <3> QED BY <3>2, <3>3
  <2>15. ASSUME NEW T, Agrees(heap', call', T) \/ Waiting(heap', stack', T)
         PROVE  Waiting(h, stack, T)
    <3>1. CASE Agrees(heap', call', T)
      <4>1. T \cap (1 .. order) = held \cup {order}
        <5> HIDE DEF caller, order, e, held
        <5> QED BY <2>2, <2>5, <2>6, <3>1 DEF Agrees
      <4>2. T \cap (1 .. stack[L].i + 1) = Held(h, stack[L].set) \cup {stack[L].i + 1}
        BY <4>1
      <4> HIDE DEF caller, order, e, held
      <4> QED BY <2>1, <4>2 DEF Waiting
    <3>2. CASE Waiting(heap', stack', T)
      <4> HIDE DEF caller, order, e, held
      <4>1. PICK k \in 1 .. L - 1 :
              T \cap (1 .. stack[k].i + 1) = Held(heap', stack[k].set) \cup {stack[k].i + 1}
        BY <2>3, <3>2 DEF Waiting
      <4> QED BY <2>2, <2>3, <2>9, <4>1 DEF Waiting
    <3> QED BY <2>15, <3>1, <3>2
  <2> QED BY <2>2, <2>12, <2>13, <2>14, <2>15
<1> QED BY <1>1, <1>2

(* Nothing has been looked at before the first call. *)
LEMMA InitLoads == Init => LoadInv
<1> SUFFICES ASSUME Init PROVE LoadInv
  OBVIOUS
<1>1. IInv
  BY InitIInv
<1>2. \A h : Held(h, NilSlice) = {}
  BY DEF Held, NilSlice
<1>3. Total(WeightOf, {}) = 0 /\ Total(ValueOf, {}) = 0
  BY TotalOfNone
<1>4. Nested(heap, call, stack)
  BY <1>2, <1>3 DEF Init, Nested, Weighed
<1>5. NoneForgotten
  BY <1>2 DEF Init, NoneForgotten, Agrees
<1>6. BestIsLoad
  BY <1>2, <1>3 DEF Init, BestIsLoad
<1> QED BY <1>1, <1>4, <1>5, <1>6, CapacityAssumption DEF Init, LoadInv

(* No load is as heavy as what a call that is pruned holds. *)
LEMMA PruneLoads ==
  ASSUME LoadInv, Prune
  PROVE  LoadInv'
<1>1. /\ IInv /\ capacity \in Int /\ Nested(heap, call, stack) /\ NoneForgotten /\ BestIsLoad
      /\ outcome = "searching" /\ call.weight > capacity /\ Return(heap)
      /\ UNCHANGED <<orders, capacity, best, bestValue>>
  BY DEF LoadInv, Prune, TooHeavy
<1>2. /\ orders \in Seq([weight : Nat, value : Nat]) /\ heap \in Seq(Seq(Nat))
      /\ best \in Slices /\ Fits(heap, best) /\ CallsFit(heap, best)
  BY <1>1 DEF IInv, HeapHoldsBest
<1>3. /\ Nested(heap', call', stack')
      /\ Held(heap', best) = Held(heap, best)
      /\ \A T \in Carried : Waiting(heap, stack, T) =>
           outcome' # "planned" /\ (Agrees(heap', call', T) \/ Waiting(heap', stack', T))
  BY <1>1, <1>2, ReturnKeepsLoads
<1>4. \A T \in Carried : ~Agrees(heap, call, T)
  <2> SUFFICES ASSUME NEW T \in Carried, Agrees(heap, call, T) PROVE FALSE
    OBVIOUS
  <2>1. T \in SUBSET (1 .. Len(orders)) /\ Total(WeightOf, T) =< capacity
    BY DEF Carried, Loads
  <2>2. Held(heap, call.set) \in SUBSET T
    BY DEF Agrees
  <2>3. call.weight = Total(WeightOf, Held(heap, call.set))
    BY <1>1 DEF Nested, Weighed
  <2>4. call.weight =< Total(WeightOf, T) /\ Total(WeightOf, T) \in Nat /\ call.weight \in Nat
    <3>1. call.weight \in Nat
      BY <1>2 DEF CallsFit, Calls
    <3> QED BY <1>2, <2>1, <2>2, <2>3, <3>1, OrdersTotal
  <2> QED BY <1>1, <2>1, <2>4
<1>5. Carried' = Carried /\ \A S : Total(ValueOf, S)' = Total(ValueOf, S)
  BY <1>1 DEF Carried, WeightOf, ValueOf
<1>6. NoneForgotten'
  BY <1>1, <1>3, <1>4, <1>5 DEF NoneForgotten, Agrees, Waiting
<1>7. Nested(heap, call, stack)'
  BY <1>1, <1>3 DEF Nested, Weighed, Under, WeightOf, ValueOf
<1>8. BestIsLoad'
  BY <1>1, <1>3, <1>5 DEF BestIsLoad, ValueOf
<1>9. IInv' /\ capacity' \in Int
  BY <1>1, PruneKeeps
<1> QED BY <1>6, <1>7, <1>8, <1>9 DEF LoadInv

(* Saving the best set changes nothing for the calls under way. *)
SavedKeepsHeld(h) ==
  /\ Nested(h, call, stack)
  /\ \A T : Waiting(h, stack, T) <=> Waiting(heap, stack, T)

LEMMA SavedKeepsLoads ==
  ASSUME heap \in Seq(Seq(Nat)), CallsFit(heap, best), Nested(heap, call, stack)
  PROVE  LET saved == Saved(heap, call.set) IN
         /\ Held(saved.heap, saved.set) = Held(heap, call.set)
         /\ SavedKeepsHeld(saved.heap)
<1> DEFINE saved == Saved(heap, call.set)
<1>1. /\ call.set \in Slices /\ Fits(heap, call.set)
      /\ \A k \in 1 .. Len(stack) : stack[k].set \in Slices /\ Fits(heap, stack[k].set)
  <2>1. Sound(heap, best, call) /\ \A k \in 1 .. Len(stack) : Sound(heap, best, stack[k])
    BY DEF CallsFit
  <2>2. call \in Calls /\ \A k \in 1 .. Len(stack) : stack[k] \in Calls
    BY ElementOfSeq DEF CallsFit
  <2> QED BY <2>1, <2>2 DEF Sound, Calls
<1>2. /\ Held(saved.heap, saved.set) = Held(heap, call.set)
      /\ Held(saved.heap, call.set) = Held(heap, call.set)
      /\ \A k \in 1 .. Len(stack) : Held(saved.heap, stack[k].set) = Held(heap, stack[k].set)
  BY <1>1, SavedHolds
<1> HIDE DEF saved
<1>3. Nested(saved.heap, call, stack)
  BY <1>2 DEF Nested, Weighed, Under
<1>4. \A T : Waiting(saved.heap, stack, T) <=> Waiting(heap, stack, T)
  BY <1>2 DEF Waiting
<1> QED BY <1>2, <1>3, <1>4 DEF SavedKeepsHeld, saved

(* In a leaf the load at hand is what the call holds. *)
LEMMA LeafLooks ==
  ASSUME LoadInv, Leaf, NEW T \in Carried
  PROVE  Total(ValueOf, T) =< bestValue \/ T = Held(heap, call.set) \/ Waiting(heap, stack, T)
<1>1. T \cap (1 .. call.i) = T
  BY DEF Leaf, Carried, Loads
<1> QED BY <1>1 DEF LoadInv, NoneForgotten, Agrees, Leaf

(* What a leaf holds is a load; if it is worth more than any before, no order in    *)
(* it is worth nothing, since the load without it has been handled.                *)
LEMMA LeafHolds ==
  ASSUME LoadInv, Leaf
  PROVE  /\ Held(heap, call.set) \in Carried
         /\ call.value = Total(ValueOf, Held(heap, call.set))
         /\ call.value > bestValue => \A o \in Held(heap, call.set) : ValueOf[o] > 0
<1> DEFINE H == Held(heap, call.set)
           N == Len(orders)
<1>1. /\ IInv /\ capacity \in Int /\ Nested(heap, call, stack) /\ NoneForgotten
      /\ outcome = "searching" /\ ~TooHeavy /\ call.i = N
  BY DEF LoadInv, Leaf
<1>2. orders \in Seq([weight : Nat, value : Nat]) /\ call \in Calls /\ bestValue \in Nat
  BY <1>1 DEF IInv, HeapHoldsBest, CallsFit
<1>3. H \in SUBSET (1 .. N) /\ call.weight = Total(WeightOf, H) /\ call.value = Total(ValueOf, H)
  BY <1>1 DEF Nested, Weighed
<1>4. call.weight \in Nat /\ call.weight =< capacity
  BY <1>1, <1>2 DEF Calls, TooHeavy
<1>5. H \in Carried
  BY <1>3, <1>4 DEF Carried, Loads
<1>6. ASSUME call.value > bestValue, NEW o \in H PROVE ValueOf[o] > 0
  <2> SUFFICES ASSUME ~(ValueOf[o] > 0) PROVE FALSE
    OBVIOUS
  <2> DEFINE T == H \ {o}
  <2>1. /\ IsFiniteSet(H) /\ \A x \in H : ValueOf[x] \in Nat
        /\ Total(WeightOf, T) =< Total(WeightOf, H)
        /\ T \in SUBSET H /\ T \in SUBSET (1 .. N)
    <3> HIDE DEF H
    <3> QED BY <1>2, <1>3, OrdersTotal
  <2>2. Total(WeightOf, T) \in Nat /\ Total(ValueOf, T) \in Nat
    <3> HIDE DEF T
    <3> QED BY <1>2, <2>1, OrdersTotal
  <2>3. T \in Carried
    <3> HIDE DEF H, T
    <3> QED BY <1>3, <1>4, <1>1, <2>1, <2>2 DEF Carried, Loads
  <2>4. Total(ValueOf, H) = ValueOf[o] + Total(ValueOf, T)
    <3> HIDE DEF H
    <3> QED BY <1>6, <2>1, TotalWithout
  <2>5. ~(Total(ValueOf, T) =< bestValue)
    <3>1. ValueOf[o] = 0
      BY <2>1
    <3> HIDE DEF H, T
    <3> QED BY <1>2, <1>3, <1>6, <2>2, <2>4, <3>1
  <2>6. T # H
    BY <1>6
  <2>7. PICK k \in 1 .. Len(stack) :
          T \cap (1 .. stack[k].i + 1) = Held(heap, stack[k].set) \cup {stack[k].i + 1}
    <3> HIDE DEF T
    <3> QED BY <2>3, <2>5, <2>6, LeafLooks DEF Waiting
  <2>8. stack[k].i + 1 \notin H
    BY <1>1 DEF Nested, Under
  <2> QED BY <2>7, <2>8
<1> QED BY <1>3, <1>5, <1>6

(* A leaf handles the load at hand. *)
LEMMA LeafLoads ==
  ASSUME LoadInv, Leaf
  PROVE  LoadInv'
<1> DEFINE H == Held(heap, call.set)
<1>1. /\ IInv /\ capacity \in Int /\ Nested(heap, call, stack) /\ BestIsLoad
      /\ outcome = "searching" /\ UNCHANGED <<orders, capacity>>
  BY DEF LoadInv, Leaf, Count
<1>2. /\ orders \in Seq([weight : Nat, value : Nat]) /\ heap \in Seq(Seq(Nat))
      /\ best \in Slices /\ Fits(heap, best) /\ CallsFit(heap, best) /\ bestValue \in Nat
      /\ call \in Calls /\ call.value \in Nat
  BY <1>1 DEF IInv, HeapHoldsBest, CallsFit, Calls
<1>3. /\ H \in Carried /\ call.value = Total(ValueOf, H)
      /\ call.value > bestValue => \A o \in H : ValueOf[o] > 0
  BY LeafHolds
<1>4. \A T \in Carried : Total(ValueOf, T) =< bestValue \/ T = H \/ Waiting(heap, stack, T)
  BY LeafLooks
<1>5. \A T \in Carried : Total(ValueOf, T) \in Nat
  BY <1>2, OrdersTotal DEF Carried, Loads
<1>6. IInv' /\ capacity' \in Int
  BY <1>1, LeafKeeps
<1>7. Carried' = Carried /\ ValueOf' = ValueOf /\ WeightOf' = WeightOf
  BY <1>1 DEF Carried, WeightOf, ValueOf
<1> HIDE DEF H
<1>8. CASE call.value > bestValue
  <2> DEFINE saved == Saved(heap, call.set)
  <2>1. best' = saved.set /\ bestValue' = call.value /\ Return(saved.heap)
    BY <1>8 DEF Leaf
  <2>2. /\ saved.heap \in Seq(Seq(Nat))
        /\ saved.set \in Slices /\ Fits(saved.heap, saved.set)
        /\ CallsFit(saved.heap, saved.set)
    BY <1>2, SavedKeepsCalls
  <2>3. /\ Held(saved.heap, saved.set) = H
        /\ Nested(saved.heap, call, stack)
        /\ \A T : Waiting(saved.heap, stack, T) <=> Waiting(heap, stack, T)
    BY <1>1, <1>2, SavedKeepsLoads DEF H, SavedKeepsHeld
  <2> HIDE DEF saved
  <2>7. /\ Nested(heap', call', stack')
        /\ Held(heap', saved.set) = Held(saved.heap, saved.set)
        /\ \A T \in Carried : Waiting(saved.heap, stack, T) =>
             outcome' # "planned" /\ (Agrees(heap', call', T) \/ Waiting(heap', stack', T))
    BY <1>1, <1>2, <2>1, <2>2, <2>3, ReturnKeepsLoads
  <2>8. ASSUME NEW T \in Carried
        PROVE  \/ Total(ValueOf, T) =< call.value
               \/ outcome' # "planned" /\ (Agrees(heap', call', T) \/ Waiting(heap', stack', T))
    <3>1. CASE Total(ValueOf, T) =< bestValue
      BY <1>2, <1>5, <1>8, <3>1
    <3>2. CASE T = H
      BY <1>2, <1>3, <3>2
    <3>3. CASE Waiting(heap, stack, T)
      BY <2>3, <2>7, <3>3
    <3> QED BY <1>4, <3>1, <3>2, <3>3
  <2>9. NoneForgotten'
    BY <1>7, <2>1, <2>8 DEF NoneForgotten, Agrees, Waiting
  <2>10. Nested(heap, call, stack)'
    BY <1>1, <1>7, <2>7 DEF Nested, Weighed, Under
  <2>11. BestIsLoad'
    <3>1. Held(heap', best') = H
      BY <2>1, <2>3, <2>7
    <3> QED BY <1>3, <1>7, <1>8, <2>1, <3>1 DEF BestIsLoad
  <2> QED BY <1>6, <2>9, <2>10, <2>11 DEF LoadInv
<1>9. CASE ~(call.value > bestValue)
  <2>1. Return(heap) /\ UNCHANGED <<best, bestValue>>
    BY <1>9 DEF Leaf
  <2>2. /\ Nested(heap', call', stack')
        /\ Held(heap', best) = Held(heap, best)
        /\ \A T \in Carried : Waiting(heap, stack, T) =>
             outcome' # "planned" /\ (Agrees(heap', call', T) \/ Waiting(heap', stack', T))
    BY <1>1, <1>2, <2>1, ReturnKeepsLoads
  <2>3. Total(ValueOf, H) =< bestValue
    BY <1>2, <1>3, <1>9
  <2>4. NoneForgotten'
    BY <1>4, <1>7, <2>1, <2>2, <2>3 DEF NoneForgotten, Agrees, Waiting
  <2>5. Nested(heap, call, stack)'
    BY <1>1, <1>7, <2>2 DEF Nested, Weighed, Under
  <2>6. BestIsLoad'
    BY <1>1, <1>7, <2>1, <2>2 DEF BestIsLoad
  <2> QED BY <1>6, <2>4, <2>5, <2>6 DEF LoadInv
<1> QED BY <1>8, <1>9

(* The loads at hand are divided: those without the next order are looked at first,  *)
(* those with it wait for the caller.                                             *)
LEMMA DescendLoads ==
  ASSUME LoadInv, Descend
  PROVE  LoadInv'
<1> DEFINE L == Len(stack)
<1>1. /\ IInv /\ capacity \in Int /\ Nested(heap, call, stack) /\ NoneForgotten /\ BestIsLoad
      /\ outcome = "searching" /\ outcome' = "searching" /\ ~TooHeavy
      /\ UNCHANGED <<orders, capacity, heap, best, bestValue>>
      /\ stack' = Append(stack, call) /\ call' = [call EXCEPT !.i = @ + 1]
  BY DEF LoadInv, Descend, Count
<1>2. call \in Calls /\ stack \in Seq(Calls)
  BY <1>1 DEF IInv, CallsFit
<1>3. /\ call'.i = call.i + 1 /\ call'.set = call.set
      /\ call'.weight = call.weight /\ call'.value = call.value
      /\ call.i \in Nat /\ call.weight \in Nat /\ call.set.len \in Nat
  BY <1>1, <1>2 DEF Calls, Slices
<1>4. /\ L \in Nat /\ Len(stack') = L + 1 /\ stack'[L + 1] = call
      /\ \A k \in 1 .. L : stack'[k] = stack[k] /\ stack[k].i \in Nat
  <2>1. /\ L \in Nat /\ Len(stack') = L + 1 /\ stack'[L + 1] = call
        /\ \A k \in 1 .. L : stack'[k] = stack[k]
    BY <1>1, <1>2
  <2>2. \A k \in 1 .. L : stack[k] \in Calls
    BY <1>2, ElementOfSeq
  <2> QED BY <2>1, <2>2 DEF Calls
<1>5. Held(heap, call.set) \subseteq 1 .. call.i
  BY <1>1 DEF Nested, Weighed
<1>6. Nested(heap, call', stack')
  <2>1. Weighed(heap, call')
    <3>1. 1 .. call.i \subseteq 1 .. call.i + 1
      BY <1>3
    <3> QED BY <1>1, <1>3, <1>5, <3>1 DEF Nested, Weighed
  <2>2. Weighed(heap, call) /\ call.weight =< capacity /\ Under(heap, call, call')
    <3>1. call.i + 1 \notin Held(heap, call.set)
      BY <1>3, <1>5
    <3> QED BY <1>1, <1>3, <3>1 DEF Nested, TooHeavy, Under
  <2>3. ASSUME NEW k \in 1 .. L
        PROVE  /\ Weighed(heap, stack[k]) /\ stack[k].weight =< capacity
               /\ Under(heap, stack[k], call) /\ Under(heap, stack[k], call')
    <3>1. /\ Weighed(heap, stack[k]) /\ stack[k].weight =< capacity
          /\ Under(heap, stack[k], call)
      BY <1>1 DEF Nested
    <3>2. stack[k].i < call'.i
      BY <1>3, <1>4, <3>1 DEF Under
    <3> QED BY <1>3, <3>1, <3>2 DEF Under
  <2>4. \A k, l \in 1 .. L : k < l => Under(heap, stack[k], stack[l])
    BY <1>1 DEF Nested
  <2> HIDE DEF L
  <2>5. \A k \in 1 .. L + 1 : k = L + 1 \/ k \in 1 .. L
    BY <1>4
  <2>6. \A k \in 1 .. L + 1 :
          Weighed(heap, stack'[k]) /\ stack'[k].weight =< capacity /\ Under(heap, stack'[k], call')
    BY <1>4, <2>2, <2>3, <2>5
  <2>7. ASSUME NEW k \in 1 .. L + 1, NEW l \in 1 .. L + 1, k < l
        PROVE  Under(heap, stack'[k], stack'[l])
    <3>1. k \in 1 .. L
      BY <1>4, <2>7
    <3>2. CASE l = L + 1
      BY <1>4, <2>3, <3>1, <3>2
    <3>3. CASE l \in 1 .. L
      BY <1>4, <2>4, <2>7, <3>1, <3>3
    <3> QED BY <2>5, <3>2, <3>3
  <2> QED BY <1>4, <2>1, <2>6, <2>7 DEF Nested
<1>7. ASSUME NEW T \in Carried
      PROVE  Total(ValueOf, T) =< bestValue \/ Agrees(heap, call', T) \/ Waiting(heap, stack', T)
  <2>1. CASE Total(ValueOf, T) =< bestValue
    BY <2>1
  <2>2. CASE Agrees(heap, call, T)
    <3>1. 1 .. call.i + 1 = (1 .. call.i) \cup {call.i + 1}
      BY <1>3
    <3>2. CASE call.i + 1 \in T
      <4>1. T \cap (1 .. call.i + 1) = Held(heap, call.set) \cup {call.i + 1}
        BY <2>2, <3>1, <3>2 DEF Agrees
      <4>2. L + 1 \in 1 .. Len(stack')
        BY <1>4
      <4> QED BY <1>4, <4>1, <4>2 DEF Waiting
    <3>3. CASE call.i + 1 \notin T
      <4>1. T \cap (1 .. call.i + 1) = Held(heap, call.set)
        BY <2>2, <3>1, <3>3 DEF Agrees
      <4> QED BY <1>3, <4>1 DEF Agrees
    <3> QED BY <3>2, <3>3
  <2>3. CASE Waiting(heap, stack, T)
    <3>1. PICK k \in 1 .. L :
            T \cap (1 .. stack[k].i + 1) = Held(heap, stack[k].set) \cup {stack[k].i + 1}
      BY <2>3 DEF Waiting
    <3>2. k \in 1 .. Len(stack')
      BY <1>4
    <3> QED BY <1>4, <3>1, <3>2 DEF Waiting
  <2> QED BY <1>1, <2>1, <2>2, <2>3 DEF NoneForgotten
<1>8. Carried' = Carried /\ ValueOf' = ValueOf /\ WeightOf' = WeightOf
  BY <1>1 DEF Carried, WeightOf, ValueOf
<1> HIDE DEF L
<1>9. NoneForgotten'
  BY <1>1, <1>7, <1>8 DEF NoneForgotten, Agrees, Waiting
<1>10. Nested(heap, call, stack)'
  BY <1>1, <1>6, <1>8 DEF Nested, Weighed, Under
<1>11. BestIsLoad'
  BY <1>1, <1>8 DEF BestIsLoad, Held
<1>12. IInv' /\ capacity' \in Int
  BY <1>1, DescendKeeps
<1> QED BY <1>9, <1>10, <1>11, <1>12 DEF LoadInv

(* The other steps look at no load. *)
LEMMA OtherLoads ==
  ASSUME LoadInv, Cancel \/ ContextEnds \/ UNCHANGED vars
  PROVE  LoadInv'
<1>1. /\ UNCHANGED <<orders, capacity, call, stack, heap, best, bestValue>>
      /\ outcome' = "canceled" \/ outcome' = outcome
  BY DEF Cancel, ContextEnds, vars, Count
<1>2. Carried' = Carried /\ ValueOf' = ValueOf /\ WeightOf' = WeightOf
  BY <1>1 DEF Carried, WeightOf, ValueOf
<1>3. Nested(heap, call, stack)'
  <2>1. Nested(heap, call, stack)
    BY DEF LoadInv
  <2>2. Nested(heap', call', stack')
    BY <1>1, <2>1
  <2> QED BY <1>1, <1>2, <2>2 DEF Nested, Weighed, Under
<1>4. outcome' # "canceled" => NoneForgotten'
  BY <1>1, <1>2 DEF LoadInv, NoneForgotten, Agrees, Waiting, Held
<1>5. BestIsLoad'
  BY <1>1, <1>2 DEF LoadInv, BestIsLoad, Held
<1>6. IInv' /\ capacity' \in Int
  BY <1>1, OthersKeep DEF LoadInv
<1> QED BY <1>3, <1>4, <1>5, <1>6 DEF LoadInv

(* LoadInv holds in every reachable state. *)
THEOREM LoadInvariance == Spec => []LoadInv
<1>1. LoadInv /\ [Next]_vars => LoadInv'
  BY PruneLoads, LeafLoads, DescendLoads, OtherLoads DEF Next, Search
<1> QED BY <1>1, InitLoads, PTL DEF Spec

(* The plan is one of the best loads, whatever the orders and the capacity: the    *)
(* search prunes no branch a better one lies in, and the slices it shares between  *)
(* branches never make it add up, or hand over, another set than the one it means. *)
THEOREM PlanIsOptimal == Spec => []PlanIsBest
<1>1. LoadInv => PlanIsBest
  <2> SUFFICES ASSUME LoadInv, outcome = "planned"
               PROVE  /\ Chosen \in BestLoads(1 .. Len(orders), WeightOf, ValueOf, capacity)
                      /\ Total(ValueOf, Chosen) = bestValue
    BY DEF PlanIsBest
  <2>1. /\ \A T \in Carried : Total(ValueOf, T) =< bestValue
        /\ Held(heap, best) \in Carried \cup {{}}
        /\ Total(ValueOf, Held(heap, best)) = bestValue
        /\ \A o \in Held(heap, best) : ValueOf[o] > 0
        /\ bestValue \in Nat
    BY DEF LoadInv, IInv, NoneForgotten, BestIsLoad
  <2>2. Chosen = Held(heap, best)
    BY DEF Chosen, Contents, Held
  <2>3. Total(ValueOf, {}) =< bestValue
    BY <2>1, TotalOfNone
  <2> HIDE DEF Held
  <2> QED BY <2>1, <2>2, <2>3 DEF BestLoads, Carried
<1> QED BY <1>1, LoadInvariance, PTL

--------------------------------------------------------------------------------
(* The search moves on *)

\* The sets of orders not looked at yet.
Pending ==
  {T \in SUBSET (1 .. Len(orders)) : Agrees(heap, call, T) \/ Waiting(heap, stack, T)}

(* Every step of the search ends it, leaves fewer sets to look at, or decides on one *)
(* more order: there are finitely many of either, so that it ends.                 *)
SearchMovesOn ==
  [][Search =>
       \/ outcome' # "searching"
       \/ Pending' \subseteq Pending /\ Pending' # Pending
       \/ Pending' = Pending /\ call.i < call'.i /\ call'.i =< Len(orders)]_vars

(* What a call holds is no longer pending once it has returned. *)
LEMMA ReturnMovesOn ==
  ASSUME LoadInv, outcome = "searching", UNCHANGED orders, outcome' = "searching",
         NEW h \in Seq(Seq(Nat)), NEW b \in Slices, Fits(h, b), CallsFit(h, b),
         Nested(h, call, stack), Return(h),
         \A T : Waiting(h, stack, T) <=> Waiting(heap, stack, T)
  PROVE  Pending' \subseteq Pending /\ Pending' # Pending
<1> DEFINE H == Held(heap, call.set)
<1>1. orders \in Seq([weight : Nat, value : Nat]) /\ call \in Calls
      /\ Len(orders) \in Nat /\ call.i \in Nat /\ call.i =< Len(orders)
      /\ Nested(heap, call, stack)
  BY LenProperties DEF LoadInv, IInv, HeapHoldsBest, CallsFit, Calls, Sound
<1>2. \A T : Agrees(heap', call', T) \/ Waiting(heap', stack', T) => Waiting(heap, stack, T)
  BY <1>1, ReturnKeepsLoads
<1>3. Pending' = {T \in SUBSET (1 .. Len(orders)) :
                   Agrees(heap', call', T) \/ Waiting(heap', stack', T)}
  BY DEF Pending, Agrees, Waiting
<1>4. H \in Pending
  <2>1. H \subseteq 1 .. call.i
    BY <1>1 DEF Nested, Weighed
  <2>2. 1 .. call.i \subseteq 1 .. Len(orders)
    BY <1>1
  <2>3. Agrees(heap, call, H)
    BY <2>1 DEF Agrees
  <2> QED BY <2>1, <2>2, <2>3 DEF Pending
<1>5. ~Waiting(heap, stack, H)
  BY <1>1 DEF Waiting, Nested, Under
<1> HIDE DEF H
<1> QED BY <1>2, <1>3, <1>4, <1>5 DEF Pending

(* The search ends: a step never goes back, whatever the orders.  That a step comes  *)
(* is up to the goroutine.                                                        *)
THEOREM MovesOn == Spec => SearchMovesOn
<1> DEFINE fewer == Pending' \subseteq Pending /\ Pending' # Pending
           deeper == Pending' = Pending /\ call.i < call'.i /\ call'.i =< Len(orders)
<1>1. ASSUME LoadInv, Prune PROVE outcome' # "searching" \/ fewer
  <2>1. /\ heap \in Seq(Seq(Nat)) /\ best \in Slices /\ Fits(heap, best) /\ CallsFit(heap, best)
        /\ Nested(heap, call, stack)
    BY <1>1 DEF LoadInv, IInv, HeapHoldsBest
  <2>2. outcome = "searching" /\ UNCHANGED orders /\ Return(heap)
    BY <1>1 DEF Prune
  <2> QED BY <1>1, <2>1, <2>2, ReturnMovesOn
<1>2. ASSUME LoadInv, Leaf PROVE outcome' # "searching" \/ fewer
  <2>1. /\ heap \in Seq(Seq(Nat)) /\ best \in Slices /\ Fits(heap, best) /\ CallsFit(heap, best)
        /\ Nested(heap, call, stack)
    BY <1>2 DEF LoadInv, IInv, HeapHoldsBest
  <2>2. outcome = "searching" /\ UNCHANGED orders
    BY <1>2 DEF Leaf, Count
  <2>3. CASE call.value > bestValue
    <3> DEFINE saved == Saved(heap, call.set)
    <3>1. Return(saved.heap)
      BY <1>2, <2>3 DEF Leaf
    <3>2. /\ saved.heap \in Seq(Seq(Nat))
          /\ saved.set \in Slices /\ Fits(saved.heap, saved.set)
          /\ CallsFit(saved.heap, saved.set)
      BY <2>1, SavedKeepsCalls
    <3>3. SavedKeepsHeld(saved.heap)
      BY <2>1, SavedKeepsLoads
    <3> HIDE DEF saved
    <3> QED BY <1>2, <2>2, <3>1, <3>2, <3>3, ReturnMovesOn DEF SavedKeepsHeld
  <2>4. CASE ~(call.value > bestValue)
    <3>1. Return(heap)
      BY <1>2, <2>4 DEF Leaf
    <3> QED BY <1>2, <2>1, <2>2, <3>1, ReturnMovesOn
  <2> QED BY <2>3, <2>4
<1>3. ASSUME LoadInv, Descend PROVE deeper
  <2>1. /\ IInv /\ Nested(heap, call, stack) /\ call.i < Len(orders)
        /\ UNCHANGED <<orders, heap>>
        /\ stack' = Append(stack, call) /\ call' = [call EXCEPT !.i = @ + 1]
    BY <1>3 DEF LoadInv, Descend, Count
  <2>2. /\ call \in Calls /\ stack \in Seq(Calls) /\ Len(orders) \in Nat
    BY <2>1, LenProperties DEF IInv, CallsFit, HeapHoldsBest
  <2>3. call'.i = call.i + 1 /\ call'.set = call.set /\ call.i \in Nat
    BY <2>1, <2>2 DEF Calls
  <2>4. Held(heap, call.set) \subseteq 1 .. call.i
    BY <2>1 DEF Nested, Weighed
  <2>5. ASSUME NEW T
        PROVE  Agrees(heap, call', T) \/ Waiting(heap, stack', T)
                 <=> Agrees(heap, call, T) \/ Waiting(heap, stack, T)
    <3> DEFINE L == Len(stack)
               i == call.i
               H == Held(heap, call.set)
    <3>1. /\ L \in Nat /\ Len(stack') = L + 1 /\ stack'[L + 1] = call
          /\ \A k \in 1 .. L : stack'[k] = stack[k]
      BY <2>1, <2>2
    <3>2. Waiting(heap, stack', T) <=>
            Waiting(heap, stack, T) \/ T \cap (1 .. i + 1) = H \cup {i + 1}
      <4> HIDE DEF L, i, H
      <4>1. 1 .. L + 1 = (1 .. L) \cup {L + 1}
        BY <3>1
      <4> QED BY <3>1, <4>1 DEF Waiting, L, i, H
    <3>3. /\ 1 .. i + 1 = (1 .. i) \cup {i + 1} /\ i + 1 \notin 1 .. i
          /\ H \subseteq 1 .. i
      BY <2>3, <2>4
    <3>4. Agrees(heap, call, T) <=> T \cap (1 .. i) = H
      BY DEF Agrees
    <3>5. Agrees(heap, call', T) <=> T \cap (1 .. i + 1) = H
      BY <2>3 DEF Agrees
    <3> HIDE DEF i, H
    <3>6. T \cap (1 .. i) = H <=>
            T \cap (1 .. i + 1) = H \/ T \cap (1 .. i + 1) = H \cup {i + 1}
      BY <3>3
    <3> QED BY <3>2, <3>4, <3>5, <3>6
  <2>6. Pending' = Pending
    <3>1. Pending' = {T \in SUBSET (1 .. Len(orders)) :
                       Agrees(heap, call', T) \/ Waiting(heap, stack', T)}
      BY <2>1 DEF Pending, Agrees, Waiting, Held
    <3> QED BY <2>5, <3>1 DEF Pending
  <2> QED BY <2>1, <2>2, <2>3, <2>6
<1>4. ASSUME LoadInv, Cancel PROVE outcome' # "searching"
  BY <1>4 DEF Cancel
<1> HIDE DEF fewer, deeper
<1>5. LoadInv /\ [Next]_vars =>
        [Search => outcome' # "searching" \/ fewer \/ deeper]_vars
  BY <1>1, <1>2, <1>3, <1>4 DEF Search
<1> QED BY <1>5, LoadInvariance, PTL DEF Spec, SearchMovesOn, fewer, deeper

================================================================================
