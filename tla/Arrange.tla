-------------------------------- MODULE Arrange ---------------------------------
(***************************************************************************)
(* The elements of a sequence that a filter keeps, or that a sort puts in    *)
(* order: those at the places P, in the order R of their places.  R is a     *)
(* strict total order on P, a set of pairs.  And the page of them that a     *)
(* repository cuts out.                                                      *)
(***************************************************************************)
EXTENDS Integers, Sequences, FiniteSets

Before(P, R, i) == {j \in P : <<j, i>> \in R}

\* The k-th of the places.
Place(P, R, k) == CHOOSE i \in P : Cardinality(Before(P, R, i)) = k - 1

Arranged(s, P, R) == [k \in 1 .. Cardinality(P) |-> s[Place(P, R, k)]]

\* From left to right.
LeftToRight(P) == {p \in P \X P : p[1] < p[2]}

StrictTotalOrder(P, R) ==
  /\ \A i \in P : <<i, i>> \notin R
  /\ \A i, j, k \in P : <<i, j>> \in R /\ <<j, k>> \in R => <<i, k>> \in R
  /\ \A i, j \in P : i # j => <<i, j>> \in R \/ <<j, i>> \in R

\* s[offset : offset+size], after both ends are cut to the length.
Slice(s, offset, size) ==
  LET cut(n) == IF n > Len(s) THEN Len(s) ELSE n
  IN SubSeq(s, cut(offset) + 1, cut(offset + size))
================================================================================
