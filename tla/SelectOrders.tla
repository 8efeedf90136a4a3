----------------------------- MODULE SelectOrders ------------------------------
(***************************************************************************)
(* selectOrdersForDelivery: the depth-first search for the best load, one  *)
(* call of dfs per step.  Each call tries the rest without the order, then  *)
(* with it; the second is a tail call, so the stack holds the calls that    *)
(* wait for their first branch.                                             *)
(*                                                                          *)
(* The current set travels as a Go slice: append writes into the backing    *)
(* array while there is room, and the array is shared by every slice that   *)
(* was cut from it.  heap holds the arrays, a slice names one and a length. *)
(***************************************************************************)
EXTENDS Integers, Sequences, Knapsack

CONSTANTS
  OrderLists,  \* sequences of [weight, value]
  Capacities,
  CheckEvery   \* every so many steps the context is looked at

\* weight and value are INT UNSIGNED NOT NULL.
ASSUME OrderAssumption == OrderLists \subseteq Seq([weight : Nat, value : Nat])
ASSUME CapacityAssumption == Capacities \subseteq Int
ASSUME CheckAssumption == CheckEvery \in Nat \ {0}

VARIABLES
  orders, capacity,
  call,     \* the call of dfs to be made: [i, weight, value, set]
  stack,    \* the callers that wait for their first branch
  heap,     \* the backing arrays; 0 is a cell not written yet
  best,     \* bestSet, a slice
  bestValue,
  steps,
  late,     \* steps made since the context ended
  ctx,      \* "live", "ended"
  outcome   \* "searching", "planned", "canceled"

vars == <<orders, capacity, call, stack, heap, best, bestValue, steps, late, ctx, outcome>>

NilSlice == [array |-> 0, len |-> 0]
Contents(slice) == [k \in 1 .. slice.len |-> heap[slice.array][k]]
Room(h, slice) == IF slice.array = 0 THEN 0 ELSE Len(h[slice.array])

TypeOK ==
  /\ call \in [i : 0 .. Len(orders), weight : Nat, value : Nat,
               set : [array : 0 .. Len(heap), len : 0 .. Len(orders)]]
  /\ best \in [array : 0 .. Len(heap), len : 0 .. Len(orders)]
  /\ bestValue \in Nat /\ steps \in Nat /\ late \in Nat
  /\ ctx \in {"live", "ended"}
  /\ outcome \in {"searching", "planned", "canceled"}

Init ==
  /\ orders \in OrderLists
  /\ capacity \in Capacities
  /\ call = [i |-> 0, weight |-> 0, value |-> 0, set |-> NilSlice]
  /\ stack = <<>>
  /\ heap = <<>>
  /\ best = NilSlice
  /\ bestValue = 0
  /\ steps = 0
  /\ late = 0
  /\ ctx = "live"
  /\ outcome = "searching"

\* append(slice, order) with the arrays in h: in place when there is room, else
\* into a new array of twice the size.
Appended(h, slice, order) ==
  IF slice.len < Room(h, slice)
  THEN [heap |-> [h EXCEPT ![slice.array][slice.len + 1] = order],
        set  |-> [slice EXCEPT !.len = @ + 1]]
  ELSE LET size == IF slice.len = 0 THEN 1 ELSE 2 * slice.len
           array == [k \in 1 .. size |-> CASE k =< slice.len -> h[slice.array][k]
                                           [] k = slice.len + 1 -> order
                                           [] OTHER -> 0]
       IN [heap |-> Append(h, array),
           set  |-> [array |-> Len(h) + 1, len |-> slice.len + 1]]

\* Defect: bestSet = curSet, without a copy.
SavedAsIs(h, slice) == [heap |-> h, set |-> slice]

\* append([]model.Order{}, curSet...): the best set gets an array of its own.
Saved(h, slice) ==
  [heap |-> Append(h, Contents(slice)),
   set  |-> [array |-> Len(h) + 1, len |-> slice.len]]

\* dfs returns false: its caller goes on with the order in the set, or the
\* search is over.
Return(h) ==
  IF stack = <<>>
  THEN /\ outcome' = "planned"
       /\ heap' = h
       /\ UNCHANGED <<call, stack>>
  ELSE LET caller == stack[Len(stack)]
           order == caller.i + 1
           extended == Appended(h, caller.set, order)
       IN /\ heap' = extended.heap
          /\ call' = [i |-> caller.i + 1,
                      weight |-> caller.weight + orders[order].weight,
                      value |-> caller.value + orders[order].value,
                      set |-> extended.set]
          /\ stack' = SubSeq(stack, 1, Len(stack) - 1)
          /\ UNCHANGED outcome

TooHeavy == call.weight > capacity

\* Defect: a load that is too heavy is looked at again.
PruneAndStay ==
  /\ outcome = "searching"
  /\ TooHeavy
  /\ UNCHANGED vars

Prune ==
  /\ outcome = "searching"
  /\ TooHeavy
  /\ Return(heap)
  /\ UNCHANGED <<orders, capacity, best, bestValue, steps, late, ctx>>

\* A call that is not pruned counts as a step.
Count ==
  /\ steps' = steps + 1
  /\ late' = IF ctx = "ended" THEN late + 1 ELSE late
  /\ UNCHANGED <<orders, capacity, ctx>>

\* Defect: the context is looked at in the leaves only.
SeesCancelInLeaf ==
  call.i = Len(orders) /\ (steps + 1) % CheckEvery = 0 /\ ctx = "ended"

SeesCancel == (steps + 1) % CheckEvery = 0 /\ ctx = "ended"

Cancel ==
  /\ outcome = "searching"
  /\ ~TooHeavy
  /\ SeesCancel
  /\ Count
  /\ outcome' = "canceled"
  /\ UNCHANGED <<call, stack, heap, best, bestValue>>

\* All orders are decided: a higher value than any before is recorded.
Leaf ==
  /\ outcome = "searching"
  /\ ~TooHeavy /\ ~SeesCancel
  /\ call.i = Len(orders)
  /\ IF call.value > bestValue
     THEN LET saved == Saved(heap, call.set) IN
          /\ best' = saved.set
          /\ bestValue' = call.value
          /\ Return(saved.heap)
     ELSE Return(heap) /\ UNCHANGED <<best, bestValue>>
  /\ Count

\* Defect: the leaf is missed (i > n).
DescendTooFar ==
  /\ outcome = "searching"
  /\ ~TooHeavy /\ ~SeesCancel
  /\ call.i =< Len(orders)
  /\ stack' = Append(stack, call)
  /\ call' = [call EXCEPT !.i = @ + 1]
  /\ Count
  /\ UNCHANGED <<heap, best, bestValue, outcome>>

Descend ==
  /\ outcome = "searching"
  /\ ~TooHeavy /\ ~SeesCancel
  /\ call.i < Len(orders)
  /\ stack' = Append(stack, call)
  /\ call' = [call EXCEPT !.i = @ + 1]
  /\ Count
  /\ UNCHANGED <<heap, best, bestValue, outcome>>

ContextEnds ==
  /\ outcome = "searching"
  /\ ctx = "live"
  /\ ctx' = "ended"
  /\ UNCHANGED <<orders, capacity, call, stack, heap, best, bestValue, steps, late, outcome>>

Search == Prune \/ Cancel \/ Leaf \/ Descend

Next == Search \/ ContextEnds

Spec == Init /\ [][Next]_vars /\ WF_vars(Search)

--------------------------------------------------------------------------------

Chosen == {Contents(best)[k] : k \in 1 .. best.len}

WeightOf == [o \in 1 .. Len(orders) |-> orders[o].weight]
ValueOf  == [o \in 1 .. Len(orders) |-> orders[o].value]

(* The plan is a best load of the orders and still holds the orders it was   *)
(* recorded with, although every later branch of the search appends to       *)
(* slices that share their arrays.                                           *)
PlanIsBest ==
  outcome = "planned" =>
    /\ Chosen \in BestLoads(1 .. Len(orders), WeightOf, ValueOf, capacity)
    /\ Total(ValueOf, Chosen) = bestValue

(* A search whose request is gone stops within CheckEvery steps.             *)
CancelIsSeen == late =< CheckEvery

(* The search ends.                                                          *)
SearchEnds == <>(outcome # "searching")

================================================================================
