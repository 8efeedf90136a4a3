------------------------------- MODULE Knapsack --------------------------------
(***************************************************************************)
(* What a delivery plan promises: among the sets of orders a robot can     *)
(* carry, one whose total value is the highest.  This is the reference     *)
(* definition; SelectOrders is the search the service runs, and Fulfilment *)
(* lets a plan be any set the search may return.                           *)
(***************************************************************************)
EXTENDS FiniteSetsExt

\* Sum of the weights, or of the values, of the orders in S.
Total(f, S) == MapThenSumSet(LAMBDA o : f[o], S)

\* The sets of orders that fit.
Loads(orders, weight, capacity) ==
  {S \in SUBSET orders : Total(weight, S) =< capacity}

\* The loads of the highest value.  The search keeps a load only for a higher
\* value than any before it, so it returns none that an order of value 0 pads,
\* and the empty one when nothing fits (a negative capacity included).
BestLoads(orders, weight, value, capacity) ==
  LET loads == Loads(orders, weight, capacity) \cup {{}}
  IN {S \in loads :
        /\ \A T \in loads : Total(value, T) =< Total(value, S)
        /\ \A o \in S : value[o] > 0}
================================================================================
