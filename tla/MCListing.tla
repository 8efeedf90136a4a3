------------------------------- MODULE MCListing -------------------------------
(* Listing for TLC: tables of up to three rows with every mix of equal and    *)
(* missing values, and pages shorter, equal to and longer than the list.      *)
EXTENDS Listing

Names == {[prefix |-> TRUE, contains |-> TRUE], [prefix |-> FALSE, contains |-> TRUE],
          [prefix |-> FALSE, contains |-> FALSE]}

Row(id, column, arrived, name) ==
  [id |-> id, column |-> column, arrived |-> arrived,
   prefix |-> name.prefix, contains |-> name.contains]

\* Ids in the order of insertion, as the primary key returns them.
SmallTables ==
  UNION {{[i \in 1 .. n |-> Row(i, c[i], a[i], m[i])]
            : c \in [1 .. n -> 0 .. 1], a \in [1 .. n -> {Null, 0, 1}], m \in [1 .. n -> Names]}
         : n \in 0 .. 2}
ThreeRows ==
  {[i \in 1 .. 3 |-> Row(i, c[i], a[i], [prefix |-> FALSE, contains |-> TRUE])]
     : c \in [1 .. 3 -> 0 .. 1], a \in [1 .. 3 -> {Null, 0, 1}]}
AllTables == SmallTables \cup ThreeRows

Both     == {"products", "orders"}
Orders   == {"orders"}
Sizes    == {0, 1, 2, 3}
================================================================================
