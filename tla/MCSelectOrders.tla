---------------------------- MODULE MCSelectOrders -----------------------------
(* SelectOrders for TLC.  Five orders are the fewest for which a slice with   *)
(* spare room is extended twice (lengths 1, 2, 4 are full, 3 is not).         *)
EXTENDS SelectOrders

Kinds == {[weight |-> 1, value |-> 1], [weight |-> 1, value |-> 2],
          [weight |-> 2, value |-> 2], [weight |-> 2, value |-> 0]}

FiveOrders == [1 .. 5 -> Kinds]
UpToThreeOrders == UNION {[1 .. n -> [weight : 1 .. 3, value : 0 .. 2]] : n \in 0 .. 3}
AllLists == FiveOrders \cup UpToThreeOrders

\* Nothing fits, one light order, or most of them.
SomeCapacities == {-1, 1, 4}
================================================================================
