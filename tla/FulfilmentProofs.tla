--------------------------- MODULE FulfilmentProofs ----------------------------
(***************************************************************************)
(* What Fulfilment guarantees for any number of carts, robots, orders and  *)
(* plans.  The inductive invariant IInv adds to the properties what they   *)
(* rest on: AUTO_INCREMENT ids are handed out once, what a transaction's   *)
(* state says of its goroutine, and that a robot reports only orders of a  *)
(* committed plan.                                                         *)
(*                                                                         *)
(* The second part counts the pieces of a cart, the third is about a single *)
(* robot.                                                                   *)
(***************************************************************************)
EXTENDS Fulfilment, FiniteSetTheorems, WellFoundedInduction, TLAPS

\* Ids below the counter belong to one cart each; the others have no row.
IdsAreFresh ==
  /\ \A c \in Carts : \A o \in ids[c] : o < nextId
  /\ \A c, d \in Carts : c # d => ids[c] \cap ids[d] = {}
  /\ \A o \in OrderIds : o >= nextId => status[o] = "none"

\* CartsAreAtomic, said in the form the steps preserve.
RowsFollowCarts ==
  \A c \in Carts :
    /\ cart[c] \in {"idle", "inserting"} => \A o \in ids[c] : status[o] = "none"
    /\ cart[c] = "created" => \A o \in ids[c] : status[o] # "none"
    /\ \A o1, o2 \in ids[c] : status[o1] = "none" => status[o2] = "none"

\* A plan is chosen from rows that exist.
PlansHoldRows ==
  \A p \in PlanIds :
    /\ \A o \in snapshot[p] : status[o] # "none"
    /\ \A o \in chosen[p] : status[o] # "none"

\* The transaction of a goroutine that has not come to Commit is not committed.
TxFollowsPc ==
  \A p \in PlanIds : tx[p] \in {"committing", "committed"} => pc[p] = "committing"

\* A request that was not made has left no trace.
UnusedIsClean ==
  \A q \in Requests : fn[q] = "idle" =>
    /\ ctx[q] = "unused"
    /\ done[q] = "empty"
    /\ answer[q] = "none"
    /\ q \in Patches => stmt[q] = "none"

\* An "ok" on its way, or delivered, is backed by the database.
OkIsBacked ==
  /\ \A p \in PlanIds :
       done[PlanCall(p)] = "ok" \/ answer[PlanCall(p)] = "ok" => tx[p] = "committed"
  /\ \A q \in Patches : done[q] = "ok" \/ answer[q] = "ok" => stmt[q] = "landed"

\* What robots report was committed before they were told of it.
ReportsArePlanned ==
  /\ \A r \in Robots : todo[r] # {} =>
       job[r] \in PlanIds /\ tx[job[r]] = "committed" /\ todo[r] \subseteq chosen[job[r]]
  /\ \A p \in PlanIds : \A o \in OrderIds :
       stmt[<<p, o>>] # "none" => tx[p] = "committed" /\ o \in chosen[p]

\* A robot waits only for a request it has made.
WaitingWasMade ==
  \A r \in Robots : waiting[r] # NoRequest => fn[waiting[r]] # "idle"

IInv ==
  /\ TypeOK
  /\ IdsAreFresh
  /\ RowsFollowCarts
  /\ PlansHoldRows
  /\ TxFollowsPc
  /\ UnusedIsClean
  /\ OkIsBacked
  /\ ReportsArePlanned
  /\ WaitingWasMade
  /\ TakenIsPlanned

--------------------------------------------------------------------------------

(* A plan's request is not the request for any of its orders. *)
LEMMA CallsDiffer ==
  ASSUME NEW p \in PlanIds
  PROVE  PlanCall(p) \in Requests /\ PlanCall(p) \notin Patches /\ PlanCall(p) # NoRequest
BY BoundsAssumption DEF PlanCall, Requests, Patches, PlanIds, OrderIds, NoRequest

--------------------------------------------------------------------------------
(* ItemsToProcess: what the loop over the items of a request leaves *)

Items == Seq([product : Products, quantity : Int])

\* What the loop makes of its n-th item, when m holds what it has made so far.
Stored(items, m, n) ==
  IF items[n].quantity > 0 THEN [m EXCEPT ![items[n].product] = items[n].quantity] ELSE m

\* after[n] is what the first n of the items leave.
LoopOver(items, k, after) ==
  after = [n \in 0 .. k |->
             IF n = 0 THEN [p \in Products |-> 0] ELSE Stored(items, after[n - 1], n)]

\* The first n items give q for product p.
LastOf(items, n, p, q) ==
  LET given == {i \in 1 .. n : items[i].product = p /\ items[i].quantity > 0}
  IN \/ given = {} /\ q = 0
     \/ \E i \in given : items[i].quantity = q /\ \A j \in given : j =< i

LEMMA ItemsToProcessIsLoop ==
  ASSUME NEW items
  PROVE  ItemsToProcess(items) = (CHOOSE after : LoopOver(items, Len(items), after))[Len(items)]
BY DEF ItemsToProcess, LoopOver, Stored

(* What holds for 0 and after each number for the next holds for all: Good is *)
(* the set it holds for.                                                      *)
LEMMA CountUp ==
  ASSUME NEW k \in Nat, NEW Good, 0 \in Good,
         \A n \in 0 .. k : n # 0 /\ n - 1 \in Good => n \in Good
  PROVE  k \in Good
<1> DEFINE R == {p \in Nat \X Nat : p[1] < p[2]}
           Bad == {n \in 0 .. k : n \notin Good}
<1> SUFFICES ASSUME k \notin Good PROVE FALSE
  OBVIOUS
<1>1. IsWellFoundedOn(R, Nat)
  BY NatLessThanWellFounded DEF OpToRel
<1>2. Bad \in SUBSET Nat /\ Bad # {}
  OBVIOUS
<1> HIDE DEF R
<1>3. PICK n \in Bad : \A m \in Bad : ~ (<<m, n>> \in R)
  <2> HIDE DEF Bad
  <2> QED BY <1>1, <1>2, WFMin
<1>4. n \in 0 .. k /\ n \notin Good /\ n # 0 /\ n - 1 \in 0 .. k
  OBVIOUS
<1>5. n - 1 \in Good
  <2>1. n - 1 \in Nat /\ n \in Nat /\ n - 1 < n
    BY <1>4
  <2>2. <<n - 1, n>> \in R
    BY <2>1 DEF R
  <2> QED BY <1>3, <1>4, <2>2
<1> QED BY <1>4, <1>5

(* The loop can be run over any number of the items. *)
LEMMA LoopRuns ==
  ASSUME NEW items, NEW k \in Nat
  PROVE  \E after : LoopOver(items, k, after)
<1> DEFINE Good == {n \in Nat : \E after : LoopOver(items, n, after)}
           none == [p \in Products |-> 0]
<1>1. 0 \in Good
  <2> DEFINE after == [n \in 0 .. 0 |-> none]
  <2>1. LoopOver(items, 0, after)
    BY DEF LoopOver
  <2> HIDE DEF after
  <2> QED BY <2>1
<1>2. ASSUME NEW n \in 0 .. k, n # 0, n - 1 \in Good
      PROVE  n \in Good
  <2>1. PICK before : LoopOver(items, n - 1, before)
    BY <1>2
  <2> DEFINE after == [m \in 0 .. n |-> IF m = n THEN Stored(items, before[n - 1], n) ELSE before[m]]
  <2>2. n \in Nat /\ n - 1 \in 0 .. n /\ n - 1 # n
    BY <1>2
  <2>3. \A m \in 0 .. n :
          after[m] = IF m = 0 THEN none ELSE Stored(items, after[m - 1], m)
    <3> SUFFICES ASSUME NEW m \in 0 .. n
                 PROVE  after[m] = IF m = 0 THEN none ELSE Stored(items, after[m - 1], m)
      OBVIOUS
    <3>1. CASE m = n
      <4>1. after[m] = Stored(items, before[n - 1], n) /\ after[n - 1] = before[n - 1]
        BY <2>2, <3>1
      <4> HIDE DEF after
      <4> QED BY <1>2, <3>1, <4>1
    <3>2. CASE m # n
      <4>1. m \in 0 .. n - 1 /\ m # n /\ (m # 0 => m - 1 \in 0 .. n /\ m - 1 # n)
        BY <2>2, <3>2
      <4>2. before[m] = IF m = 0 THEN none ELSE Stored(items, before[m - 1], m)
        BY <2>1, <4>1 DEF LoopOver
      <4>3. after[m] = before[m] /\ (m # 0 => after[m - 1] = before[m - 1])
        BY <4>1
      <4> HIDE DEF after, none
      <4> QED BY <4>2, <4>3
    <3> QED BY <3>1, <3>2
  <2>4. after = [m \in 0 .. n |-> after[m]]
    OBVIOUS
  <2>5. LoopOver(items, n, after)
    <3> HIDE DEF after
    <3> QED BY <2>3, <2>4 DEF LoopOver
  <2> HIDE DEF after
  <2> QED BY <2>2, <2>5
<1> HIDE DEF Good
<1>3. k \in Good
  BY <1>1, <1>2, CountUp
<1> QED BY <1>3 DEF Good

(* One item more: its quantity, if positive, replaces that of its product. *)
LEMMA LastOfNext ==
  ASSUME NEW items \in Items, NEW n \in 1 .. Len(items), NEW m \in [Products -> Nat],
         \A p \in Products : LastOf(items, n - 1, p, m[p])
  PROVE  /\ Stored(items, m, n) \in [Products -> Nat]
         /\ \A p \in Products : LastOf(items, n, p, Stored(items, m, n)[p])
<1> DEFINE item == items[n]
<1>1. item \in [product : Products, quantity : Int]
  <2>1. \A T : items \in Seq(T) => \A i \in 1 .. Len(items) : items[i] \in T
    OBVIOUS
  <2> QED BY <2>1, Zenon DEF Items
<1>2. item.product \in Products /\ item.quantity \in Int
  BY <1>1
<1>3. Len(items) \in Nat /\ n \in Nat /\ 1 .. n = (1 .. n - 1) \cup {n} /\ n \notin 1 .. n - 1
      /\ \A i \in 1 .. n - 1 : i =< n
  <2>1. Len(items) \in Nat
    BY DEF Items
  <2> QED BY <2>1
<1> DEFINE given(p) == {i \in 1 .. n - 1 : items[i].product = p /\ items[i].quantity > 0}
           now(p) == {i \in 1 .. n : items[i].product = p /\ items[i].quantity > 0}
<1>4. CASE item.quantity > 0
  <2>1. Stored(items, m, n) = [m EXCEPT ![item.product] = item.quantity]
    BY <1>4 DEF Stored
  <2>2. item.quantity \in Nat
    BY <1>2, <1>4
  <2>3. ASSUME NEW p \in Products PROVE LastOf(items, n, p, Stored(items, m, n)[p])
    <3>1. CASE p = item.product
      <4>1. n \in now(p) /\ \A j \in now(p) : j =< n
        BY <1>3, <1>4, <3>1
      <4>2. Stored(items, m, n)[p] = items[n].quantity
        BY <2>1, <3>1
      <4> QED BY <4>1, <4>2 DEF LastOf
    <3>2. CASE p # item.product
      <4>1. now(p) = given(p)
        BY <1>3, <3>2
      <4>2. Stored(items, m, n)[p] = m[p]
        BY <1>2, <2>1, <3>2
      <4> QED BY <4>1, <4>2 DEF LastOf
    <3> QED BY <3>1, <3>2
  <2> QED BY <1>2, <2>1, <2>2, <2>3
<1>5. CASE ~(item.quantity > 0)
  <2>1. Stored(items, m, n) = m
    BY <1>5 DEF Stored
  <2>2. \A p \in Products : now(p) = given(p)
    BY <1>3, <1>5
  <2> QED BY <2>1, <2>2 DEF LastOf
<1> QED BY <1>4, <1>5

(* The loop leaves the last positive quantity of every product. *)
LEMMA LoopKeepsLast ==
  ASSUME NEW items \in Items
  PROVE  /\ ItemsToProcess(items) \in [Products -> Nat]
         /\ \A p \in Products : LastOf(items, Len(items), p, ItemsToProcess(items)[p])
<1> DEFINE k == Len(items)
           after == CHOOSE g : LoopOver(items, k, g)
           Good == {n \in Nat : n =< k => /\ after[n] \in [Products -> Nat]
                                          /\ \A p \in Products : LastOf(items, n, p, after[n][p])}
<1>1. k \in Nat
  BY DEF Items
<1>2. LoopOver(items, k, after)
  BY <1>1, LoopRuns
<1>3. ItemsToProcess(items) = after[k]
  BY ItemsToProcessIsLoop
<1> HIDE DEF after
<1>4. \A n \in 0 .. k : after[n] =
        IF n = 0 THEN [p \in Products |-> 0] ELSE Stored(items, after[n - 1], n)
  <2> HIDE DEF k
  <2> QED BY <1>2 DEF LoopOver
<1>5. 0 \in Good
  <2>1. after[0] = [p \in Products |-> 0]
    BY <1>1, <1>4
  <2>2. \A p \in Products : LastOf(items, 0, p, 0)
    BY DEF LastOf
  <2> QED BY <2>1, <2>2
<1>6. ASSUME NEW n \in 0 .. k, n # 0, n - 1 \in Good
      PROVE  n \in Good
  <2>1. n \in 1 .. k /\ n \in Nat /\ n - 1 =< k
    BY <1>1, <1>6
  <2>2. after[n] = Stored(items, after[n - 1], n)
    BY <1>4, <1>6
  <2>3. /\ after[n - 1] \in [Products -> Nat]
        /\ \A p \in Products : LastOf(items, n - 1, p, after[n - 1][p])
    BY <1>6, <2>1
  <2>4. /\ after[n] \in [Products -> Nat]
        /\ \A p \in Products : LastOf(items, n, p, after[n][p])
    BY <2>1, <2>2, <2>3, LastOfNext
  <2> QED BY <2>1, <2>4
<1>7. k \in Good
  <2> HIDE DEF Good, k
  <2> QED BY <1>1, <1>5, <1>6, CountUp
<1> QED BY <1>1, <1>3, <1>7

(* ItemsToProcess gives every product a natural quantity, that of the last    *)
(* item of the product with a positive one.                                   *)
LEMMA LastPositiveIsProcessed ==
  ASSUME NEW items \in ItemLists
  PROVE  /\ ItemsToProcess(items) \in [Products -> Nat]
         /\ \A p \in Products : IsLastPositive(items, p, ItemsToProcess(items)[p])
<1>1. items \in Items
  BY ProductAssumption DEF Items
<1>2. DOMAIN items = 1 .. Len(items)
  BY <1>1 DEF Items
<1>3. /\ ItemsToProcess(items) \in [Products -> Nat]
      /\ \A p \in Products : LastOf(items, Len(items), p, ItemsToProcess(items)[p])
  BY <1>1, LoopKeepsLast
<1> QED BY <1>2, <1>3 DEF IsLastPositive, LastOf

--------------------------------------------------------------------------------

(* The search returns some of the orders it was given. *)
LEMMA LoadsAreOrders ==
  ASSUME NEW orders, NEW weight, NEW value, NEW capacity,
         NEW load \in BestLoads(orders, weight, value, capacity)
  PROVE  load \subseteq orders
BY DEF BestLoads, Loads

--------------------------------------------------------------------------------

(* The initial state satisfies IInv. *)
LEMMA InitIInv == Init => IInv
<1> SUFFICES ASSUME Init PROVE IInv
  OBVIOUS
<1> USE BoundsAssumption DEF Init, Call!CallInit
<1>1. TypeOK
  BY DEF TypeOK, Call!CallTypeOK, Statuses
<1>2. PlansHoldRows /\ TxFollowsPc /\ UnusedIsClean
  BY DEF PlansHoldRows, TxFollowsPc, UnusedIsClean
<1>3. OkIsBacked
  <2>1. \A p \in PlanIds : PlanCall(p) \in Requests
    BY CallsDiffer
  <2>2. \A q \in Patches : q \in Requests
    BY DEF Requests
  <2> QED BY <2>1, <2>2 DEF OkIsBacked
<1>4. ReportsArePlanned
  BY DEF ReportsArePlanned, Patches
<1>5. IdsAreFresh /\ RowsFollowCarts /\ WaitingWasMade /\ TakenIsPlanned
  BY DEF IdsAreFresh, RowsFollowCarts, WaitingWasMade, TakenIsPlanned
<1> QED BY <1>1, <1>2, <1>3, <1>4, <1>5 DEF IInv

--------------------------------------------------------------------------------
(* Every step keeps IInv: one lemma per action, in it one step for the type  *)
(* invariant, one per part the action can disturb, one for all the others.  *)

(* Taking a cart changes the cart only. *)
LEMMA SubmitCartKeeps ==
  ASSUME IInv, NEW c \in Carts, SubmitCart(c)
  PROVE  IInv'
<1> USE DEF IInv, SubmitCart, orderVars, cartVars, planVars, callVars, robotVars
<1>1. TypeOK'
  BY LastPositiveIsProcessed DEF TypeOK, Call!CallTypeOK
<1>2. RowsFollowCarts'
  BY DEF RowsFollowCarts
<1>3. IdsAreFresh' /\ PlansHoldRows' /\ TxFollowsPc' /\ UnusedIsClean' /\ OkIsBacked' /\ ReportsArePlanned' /\ WaitingWasMade' /\ TakenIsPlanned'
  BY DEF IdsAreFresh, PlansHoldRows, TxFollowsPc, UnusedIsClean, OkIsBacked, ReportsArePlanned, WaitingWasMade, TakenIsPlanned
<1> QED BY <1>1, <1>2, <1>3

(* A fresh id joins one cart and has no row yet. *)
LEMMA CreateKeeps ==
  ASSUME IInv, NEW c \in Carts, Create(c)
  PROVE  IInv'
<1> USE DEF IInv, Create, orderVars, cartVars, planVars, callVars, robotVars
<1>1. TypeOK'
  BY BoundsAssumption DEF TypeOK, Call!CallTypeOK, OrderIds
<1>2. IdsAreFresh'
  BY DEF IdsAreFresh, TypeOK, OrderIds
<1>3. RowsFollowCarts'
  <2>1. nextId \in OrderIds /\ status[nextId] = "none"
    BY DEF IdsAreFresh, TypeOK, OrderIds
  <2> QED BY <2>1 DEF RowsFollowCarts
<1>4. PlansHoldRows' /\ TxFollowsPc' /\ UnusedIsClean' /\ OkIsBacked' /\ ReportsArePlanned' /\ WaitingWasMade' /\ TakenIsPlanned'
  BY DEF PlansHoldRows, TxFollowsPc, UnusedIsClean, OkIsBacked, ReportsArePlanned, WaitingWasMade, TakenIsPlanned
<1> QED BY <1>1, <1>2, <1>3, <1>4

(* A rollback leaves the ids of the cart without rows. *)
LEMMA CreateFailsKeeps ==
  ASSUME IInv, NEW c \in Carts, CreateFails(c)
  PROVE  IInv'
<1> USE DEF IInv, CreateFails, orderVars, cartVars, planVars, callVars, robotVars
<1>1. TypeOK'
  BY DEF TypeOK, Call!CallTypeOK
<1>2. RowsFollowCarts'
  BY DEF RowsFollowCarts
<1>3. IdsAreFresh' /\ PlansHoldRows' /\ TxFollowsPc' /\ UnusedIsClean' /\ OkIsBacked' /\ ReportsArePlanned' /\ WaitingWasMade' /\ TakenIsPlanned'
  BY DEF IdsAreFresh, PlansHoldRows, TxFollowsPc, UnusedIsClean, OkIsBacked, ReportsArePlanned, WaitingWasMade, TakenIsPlanned
<1> QED BY <1>1, <1>2, <1>3

(* The rows of one cart appear, all of them, and of no other. *)
LEMMA CommitOrdersKeeps ==
  ASSUME IInv, NEW c \in Carts, CommitOrders(c)
  PROVE  IInv'
<1> USE DEF IInv, CommitOrders, orderVars, cartVars, planVars, callVars, robotVars
<1>1. TypeOK'
  BY DEF TypeOK, Call!CallTypeOK, Statuses
<1>2. IdsAreFresh'
  <2>1. \A o \in ids[c] : o < nextId
    BY DEF IdsAreFresh
  <2>2. \A o \in OrderIds : o \notin ids[c] => status'[o] = status[o]
    BY DEF TypeOK
  <2>3. \A o \in OrderIds : o >= nextId => o \notin ids[c]
    BY <2>1 DEF TypeOK, OrderIds
  <2> QED BY <2>2, <2>3 DEF IdsAreFresh
<1>3. RowsFollowCarts'
  <2>1. ASSUME NEW d \in Carts, d # c
        PROVE  /\ cart'[d] = cart[d]
               /\ \A o \in ids[d] : status'[o] = status[o]
    BY <2>1 DEF IdsAreFresh, TypeOK
  <2>2. cart'[c] \in {"created", "failed"} /\ \A o \in ids[c] : status'[o] = "shipping"
    BY DEF TypeOK
  <2> QED BY <2>1, <2>2 DEF RowsFollowCarts
<1>4. PlansHoldRows'
  BY DEF PlansHoldRows, TypeOK
<1>5. TakenIsPlanned'
  BY DEF TakenIsPlanned
<1>6. TxFollowsPc' /\ UnusedIsClean' /\ OkIsBacked' /\ ReportsArePlanned' /\ WaitingWasMade'
  BY DEF TxFollowsPc, UnusedIsClean, OkIsBacked, ReportsArePlanned, WaitingWasMade
<1> QED BY <1>1, <1>2, <1>3, <1>4, <1>5, <1>6

(* A transaction begins where none was committed. *)
LEMMA BeginTxKeeps ==
  ASSUME IInv, NEW p \in PlanIds, BeginTx(p)
  PROVE  IInv'
<1> USE DEF IInv, BeginTx, Running, Alive, orderVars, cartVars, planVars, callVars, robotVars
<1>1. TypeOK'
  BY DEF TypeOK, Call!CallTypeOK
<1>2. TxFollowsPc'
  BY DEF TxFollowsPc
<1>3. OkIsBacked'
  BY DEF OkIsBacked, TxFollowsPc
<1>4. ReportsArePlanned'
  BY DEF ReportsArePlanned, TxFollowsPc
<1>5. TakenIsPlanned'
  <2>1. tx[p] # "committed"
    BY DEF TxFollowsPc
  <2> QED BY <2>1 DEF TakenIsPlanned
<1>6. IdsAreFresh' /\ RowsFollowCarts' /\ PlansHoldRows' /\ UnusedIsClean' /\ WaitingWasMade'
  BY DEF IdsAreFresh, RowsFollowCarts, PlansHoldRows, UnusedIsClean, WaitingWasMade
<1> QED BY <1>1, <1>2, <1>3, <1>4, <1>5, <1>6

(* The snapshot holds rows only. *)
LEMMA GetShippingOrdersKeeps ==
  ASSUME IInv, NEW p \in PlanIds, GetShippingOrders(p)
  PROVE  IInv'
<1> USE DEF IInv, GetShippingOrders, Running, Alive, orderVars, cartVars, planVars, callVars, robotVars
<1>1. TypeOK'
  BY DEF TypeOK, Call!CallTypeOK
<1>2. PlansHoldRows'
  BY DEF PlansHoldRows
<1>3. TxFollowsPc'
  BY DEF TxFollowsPc
<1>4. IdsAreFresh' /\ RowsFollowCarts' /\ UnusedIsClean' /\ OkIsBacked' /\ ReportsArePlanned' /\ WaitingWasMade' /\ TakenIsPlanned'
  BY DEF IdsAreFresh, RowsFollowCarts, UnusedIsClean, OkIsBacked, ReportsArePlanned, WaitingWasMade, TakenIsPlanned
<1> QED BY <1>1, <1>2, <1>3, <1>4

(* The load is part of the snapshot, and no committed plan changes. *)
LEMMA SelectOrdersForDeliveryKeeps ==
  ASSUME IInv, NEW p \in PlanIds, SelectOrdersForDelivery(p)
  PROVE  IInv'
<1> USE DEF IInv, SelectOrdersForDelivery, Running, orderVars, cartVars, planVars, callVars, robotVars
<1>1. TypeOK'
  BY LoadsAreOrders DEF TypeOK, Call!CallTypeOK, Requests
<1>2. PlansHoldRows'
  BY LoadsAreOrders DEF PlansHoldRows
<1>3. TxFollowsPc'
  BY DEF TxFollowsPc
<1>4. ReportsArePlanned'
  <2>1. tx[p] # "committed"
    BY DEF TxFollowsPc
  <2> QED BY <2>1 DEF ReportsArePlanned
<1>5. TakenIsPlanned'
  <2>1. tx[p] # "committed"
    BY DEF TxFollowsPc
  <2> QED BY <2>1 DEF TakenIsPlanned
<1>6. IdsAreFresh' /\ RowsFollowCarts' /\ UnusedIsClean' /\ OkIsBacked' /\ WaitingWasMade'
  BY DEF IdsAreFresh, RowsFollowCarts, UnusedIsClean, OkIsBacked, WaitingWasMade
<1> QED BY <1>1, <1>2, <1>3, <1>4, <1>5, <1>6

(* Taking the row locks commits nothing. *)
LEMMA UpdateStatusesKeeps ==
  ASSUME IInv, NEW p \in PlanIds, UpdateStatuses(p)
  PROVE  IInv'
<1> USE DEF IInv, UpdateStatuses, Running, Alive, orderVars, cartVars, planVars, callVars, robotVars
<1>1. TypeOK'
  BY DEF TypeOK, Call!CallTypeOK
<1>2. TxFollowsPc'
  BY DEF TxFollowsPc
<1>3. OkIsBacked'
  BY DEF OkIsBacked
<1>4. ReportsArePlanned'
  BY DEF ReportsArePlanned
<1>5. TakenIsPlanned'
  BY DEF TakenIsPlanned
<1>6. IdsAreFresh' /\ RowsFollowCarts' /\ PlansHoldRows' /\ UnusedIsClean' /\ WaitingWasMade'
  BY DEF IdsAreFresh, RowsFollowCarts, PlansHoldRows, UnusedIsClean, WaitingWasMade
<1> QED BY <1>1, <1>2, <1>3, <1>4, <1>5, <1>6

(* The goroutine is at its last place when the commit starts. *)
LEMMA CommitKeeps ==
  ASSUME IInv, NEW p \in PlanIds, Commit(p)
  PROVE  IInv'
<1> USE DEF IInv, Commit, Running, Alive, orderVars, cartVars, planVars, callVars, robotVars
<1>1. TypeOK'
  BY DEF TypeOK, Call!CallTypeOK
<1>2. TxFollowsPc'
  BY DEF TxFollowsPc, TypeOK
<1>3. OkIsBacked'
  BY DEF OkIsBacked
<1>4. ReportsArePlanned'
  BY DEF ReportsArePlanned
<1>5. TakenIsPlanned'
  BY DEF TakenIsPlanned
<1>6. IdsAreFresh' /\ RowsFollowCarts' /\ PlansHoldRows' /\ UnusedIsClean' /\ WaitingWasMade'
  BY DEF IdsAreFresh, RowsFollowCarts, PlansHoldRows, UnusedIsClean, WaitingWasMade
<1> QED BY <1>1, <1>2, <1>3, <1>4, <1>5, <1>6

(* Only rows that exist become delivering, and a committed plan holds them. *)
LEMMA CommitLandsKeeps ==
  ASSUME IInv, NEW p \in PlanIds, CommitLands(p)
  PROVE  IInv'
<1> USE DEF IInv, CommitLands, orderVars, cartVars, planVars, callVars, robotVars
<1>1. TypeOK'
  BY DEF TypeOK, Call!CallTypeOK, Statuses
<1>2. IdsAreFresh'
  <2>1. \A o \in OrderIds : status[o] = "none" => status'[o] = "none"
    BY DEF PlansHoldRows
  <2> QED BY <2>1 DEF IdsAreFresh
<1>3. RowsFollowCarts'
  <2>1. \A o \in OrderIds : status'[o] = "none" <=> status[o] = "none"
    BY DEF PlansHoldRows
  <2>2. \A d \in Carts : ids[d] \subseteq OrderIds
    BY DEF TypeOK
  <2> QED BY <2>1, <2>2 DEF RowsFollowCarts
<1>4. PlansHoldRows'
  BY DEF PlansHoldRows, TypeOK
<1>5. TxFollowsPc'
  BY DEF TxFollowsPc
<1>6. OkIsBacked'
  BY DEF OkIsBacked
<1>7. ReportsArePlanned'
  BY DEF ReportsArePlanned
<1>8. TakenIsPlanned'
  BY DEF TakenIsPlanned, TypeOK
<1>9. UnusedIsClean' /\ WaitingWasMade'
  BY DEF UnusedIsClean, WaitingWasMade
<1> QED BY <1>1, <1>2, <1>3, <1>4, <1>5, <1>6, <1>7, <1>8, <1>9 DEF IInv

(* A commit that is lost leaves the rows alone. *)
LEMMA CommitLostKeeps ==
  ASSUME IInv, NEW p \in PlanIds, CommitLost(p)
  PROVE  IInv'
<1> USE DEF IInv, CommitLost, orderVars, cartVars, planVars, callVars, robotVars
<1>1. TypeOK'
  BY BoundsAssumption DEF TypeOK, Call!CallTypeOK, Statuses, Requests, Patches, PlanIds, OrderIds
<1>2. TxFollowsPc'
  BY DEF TxFollowsPc, TypeOK, Call!CallTypeOK, Requests
<1>3. OkIsBacked'
  BY DEF OkIsBacked, TypeOK, Call!CallTypeOK, Requests
<1>4. ReportsArePlanned'
  BY DEF ReportsArePlanned, TypeOK, Call!CallTypeOK, Requests
<1>5. TakenIsPlanned'
  BY DEF TakenIsPlanned, TypeOK, Call!CallTypeOK, Requests
<1>6. IdsAreFresh' /\ RowsFollowCarts' /\ PlansHoldRows' /\ UnusedIsClean' /\ WaitingWasMade'
  BY DEF IdsAreFresh, RowsFollowCarts, PlansHoldRows, UnusedIsClean, WaitingWasMade
<1> QED BY <1>1, <1>2, <1>3, <1>4, <1>5, <1>6 DEF IInv

(* An "ok" is sent for a committed transaction only. *)
LEMMA PlanReturnsKeeps ==
  ASSUME IInv, NEW p \in PlanIds, PlanReturns(p)
  PROVE  IInv'
<1> USE DEF IInv, PlanReturns, Running, Call!Send, orderVars, cartVars, planVars, callVars, robotVars
<1>1. TypeOK'
  BY CallsDiffer, BoundsAssumption DEF TypeOK, Call!CallTypeOK, Statuses, Requests, Patches, PlanIds, OrderIds
<1>2. UnusedIsClean'
  BY CallsDiffer DEF UnusedIsClean, TypeOK, Call!CallTypeOK, Requests
<1>3. OkIsBacked'
  BY CallsDiffer DEF OkIsBacked, PlanCall, TypeOK, Call!CallTypeOK, Requests
<1>4. WaitingWasMade'
  BY CallsDiffer DEF WaitingWasMade, TypeOK, Call!CallTypeOK, Requests
<1>5. IdsAreFresh' /\ RowsFollowCarts' /\ PlansHoldRows' /\ TxFollowsPc' /\ ReportsArePlanned' /\ TakenIsPlanned'
  BY DEF IdsAreFresh, RowsFollowCarts, PlansHoldRows, TxFollowsPc, ReportsArePlanned, TakenIsPlanned
<1> QED BY <1>1, <1>2, <1>3, <1>4, <1>5 DEF IInv

(* A failure undoes no committed transaction. *)
LEMMA PlanFailsKeeps ==
  ASSUME IInv, NEW p \in PlanIds, PlanFails(p)
  PROVE  IInv'
<1> USE DEF IInv, PlanFails, Call!Send, orderVars, cartVars, planVars, callVars, robotVars
<1>1. TypeOK'
  BY CallsDiffer, BoundsAssumption DEF TypeOK, Call!CallTypeOK, Statuses, Requests, Patches, PlanIds, OrderIds
<1>2. TxFollowsPc'
  BY CallsDiffer DEF TxFollowsPc, TypeOK, Call!CallTypeOK, Requests
<1>3. UnusedIsClean'
  BY CallsDiffer DEF UnusedIsClean, TypeOK, Call!CallTypeOK, Requests
<1>4. OkIsBacked'
  BY CallsDiffer DEF OkIsBacked, TypeOK, Call!CallTypeOK, Requests
<1>5. ReportsArePlanned'
  BY CallsDiffer DEF ReportsArePlanned, TypeOK, Call!CallTypeOK, Requests
<1>6. WaitingWasMade'
  BY CallsDiffer DEF WaitingWasMade, TypeOK, Call!CallTypeOK, Requests
<1>7. TakenIsPlanned'
  BY CallsDiffer DEF TakenIsPlanned, TypeOK, Call!CallTypeOK, Requests
<1>8. IdsAreFresh' /\ RowsFollowCarts' /\ PlansHoldRows'
  BY DEF IdsAreFresh, RowsFollowCarts, PlansHoldRows
<1> QED BY <1>1, <1>2, <1>3, <1>4, <1>5, <1>6, <1>7, <1>8 DEF IInv

(* Nor does the rollback at the end of the context. *)
LEMMA AwaitDoneKeeps ==
  ASSUME IInv, NEW p \in PlanIds, AwaitDone(p)
  PROVE  IInv'
<1> USE DEF IInv, AwaitDone, orderVars, cartVars, planVars, callVars, robotVars
<1>1. TypeOK'
  BY BoundsAssumption DEF TypeOK, Call!CallTypeOK, Statuses, Requests, Patches, PlanIds, OrderIds
<1>2. TxFollowsPc'
  BY DEF TxFollowsPc, TypeOK, Call!CallTypeOK, Requests
<1>3. OkIsBacked'
  BY DEF OkIsBacked, TypeOK, Call!CallTypeOK, Requests
<1>4. ReportsArePlanned'
  BY DEF ReportsArePlanned, TypeOK, Call!CallTypeOK, Requests
<1>5. TakenIsPlanned'
  BY DEF TakenIsPlanned, TypeOK, Call!CallTypeOK, Requests
<1>6. IdsAreFresh' /\ RowsFollowCarts' /\ PlansHoldRows' /\ UnusedIsClean' /\ WaitingWasMade'
  BY DEF IdsAreFresh, RowsFollowCarts, PlansHoldRows, UnusedIsClean, WaitingWasMade
<1> QED BY <1>1, <1>2, <1>3, <1>4, <1>5, <1>6 DEF IInv

(* A report completes a row that exists and that a plan holds. *)
LEMMA PatchLandsKeeps ==
  ASSUME IInv, NEW q \in Patches, PatchLands(q)
  PROVE  IInv'
<1> USE DEF IInv, PatchLands, orderVars, cartVars, planVars, callVars, robotVars
<1>0. /\ q[2] \in OrderIds
      /\ status[q[2]] # "none"
      /\ \E p \in PlanIds : tx[p] = "committed" /\ q[2] \in chosen[p]
  BY DEF Patches, ReportsArePlanned, PlansHoldRows
<1>1. TypeOK'
  BY BoundsAssumption DEF TypeOK, Call!CallTypeOK, Statuses, Requests, Patches, PlanIds, OrderIds
<1>2. IdsAreFresh'
  <2>1. \A o \in OrderIds : status'[o] = "none" <=> status[o] = "none"
    BY <1>0 DEF TypeOK
  <2> QED BY <2>1 DEF IdsAreFresh
<1>3. RowsFollowCarts'
  <2>1. \A o \in OrderIds : status'[o] = "none" <=> status[o] = "none"
    BY <1>0 DEF TypeOK
  <2>2. \A d \in Carts : ids[d] \subseteq OrderIds
    BY DEF TypeOK
  <2> QED BY <2>1, <2>2 DEF RowsFollowCarts
<1>4. PlansHoldRows'
  BY DEF PlansHoldRows, TypeOK, Call!CallTypeOK, Requests
<1>5. UnusedIsClean'
  BY DEF UnusedIsClean, TypeOK, Call!CallTypeOK, Requests
<1>6. OkIsBacked'
  BY DEF OkIsBacked, TypeOK, Call!CallTypeOK, Requests
<1>7. ReportsArePlanned'
  BY DEF ReportsArePlanned, TypeOK, Call!CallTypeOK, Requests
<1>8. TakenIsPlanned'
  BY <1>0 DEF TakenIsPlanned, TypeOK
<1>9. TxFollowsPc' /\ WaitingWasMade'
  BY DEF TxFollowsPc, WaitingWasMade
<1> QED BY <1>1, <1>2, <1>3, <1>4, <1>5, <1>6, <1>7, <1>8, <1>9 DEF IInv

(* A statement that is lost leaves the rows alone. *)
LEMMA PatchLostKeeps ==
  ASSUME IInv, NEW q \in Patches, PatchLost(q)
  PROVE  IInv'
<1> USE DEF IInv, PatchLost, orderVars, cartVars, planVars, callVars, robotVars
<1>1. TypeOK'
  BY BoundsAssumption DEF TypeOK, Call!CallTypeOK, Statuses, Requests, Patches, PlanIds, OrderIds
<1>2. UnusedIsClean'
  BY DEF UnusedIsClean, TypeOK, Call!CallTypeOK, Requests
<1>3. OkIsBacked'
  BY DEF OkIsBacked, TypeOK, Call!CallTypeOK, Requests
<1>4. ReportsArePlanned'
  BY DEF ReportsArePlanned, TypeOK, Call!CallTypeOK, Requests
<1>5. IdsAreFresh' /\ RowsFollowCarts' /\ PlansHoldRows' /\ TxFollowsPc' /\ WaitingWasMade' /\ TakenIsPlanned'
  BY DEF IdsAreFresh, RowsFollowCarts, PlansHoldRows, TxFollowsPc, WaitingWasMade, TakenIsPlanned
<1> QED BY <1>1, <1>2, <1>3, <1>4, <1>5 DEF IInv

(* An "ok" is sent for a statement that has landed only. *)
LEMMA PatchReturnsKeeps ==
  ASSUME IInv, NEW q \in Patches, PatchReturns(q)
  PROVE  IInv'
<1> USE DEF IInv, PatchReturns, Call!Send, orderVars, cartVars, planVars, callVars, robotVars
<1>1. TypeOK'
  BY CallsDiffer, BoundsAssumption DEF TypeOK, Call!CallTypeOK, Statuses, Requests, Patches, PlanIds, OrderIds
<1>2. UnusedIsClean'
  BY CallsDiffer DEF UnusedIsClean, TypeOK, Call!CallTypeOK, Requests
<1>3. OkIsBacked'
  BY CallsDiffer DEF OkIsBacked, TypeOK, Call!CallTypeOK, Requests
<1>4. WaitingWasMade'
  BY CallsDiffer DEF WaitingWasMade, TypeOK, Call!CallTypeOK, Requests
<1>5. IdsAreFresh' /\ RowsFollowCarts' /\ PlansHoldRows' /\ TxFollowsPc' /\ ReportsArePlanned' /\ TakenIsPlanned'
  BY DEF IdsAreFresh, RowsFollowCarts, PlansHoldRows, TxFollowsPc, ReportsArePlanned, TakenIsPlanned
<1> QED BY <1>1, <1>2, <1>3, <1>4, <1>5 DEF IInv

(* A failed report changes no row. *)
LEMMA PatchFailsKeeps ==
  ASSUME IInv, NEW q \in Patches, PatchFails(q)
  PROVE  IInv'
<1> USE DEF IInv, PatchFails, Call!Send, orderVars, cartVars, planVars, callVars, robotVars
<1>1. TypeOK'
  BY CallsDiffer, BoundsAssumption DEF TypeOK, Call!CallTypeOK, Statuses, Requests, Patches, PlanIds, OrderIds
<1>2. UnusedIsClean'
  BY CallsDiffer DEF UnusedIsClean, TypeOK, Call!CallTypeOK, Requests
<1>3. OkIsBacked'
  BY CallsDiffer DEF OkIsBacked, TypeOK, Call!CallTypeOK, Requests
<1>4. WaitingWasMade'
  BY CallsDiffer DEF WaitingWasMade, TypeOK, Call!CallTypeOK, Requests
<1>5. IdsAreFresh' /\ RowsFollowCarts' /\ PlansHoldRows' /\ TxFollowsPc' /\ ReportsArePlanned' /\ TakenIsPlanned'
  BY DEF IdsAreFresh, RowsFollowCarts, PlansHoldRows, TxFollowsPc, ReportsArePlanned, TakenIsPlanned
<1> QED BY <1>1, <1>2, <1>3, <1>4, <1>5 DEF IInv

(* The end of a context concerns a request that was made. *)
LEMMA EndContextKeeps ==
  ASSUME IInv, NEW q \in Requests, EndContext(q)
  PROVE  IInv'
<1> USE DEF IInv, EndContext, Call!EndContext, orderVars, cartVars, planVars, callVars, robotVars
<1>1. TypeOK'
  BY BoundsAssumption DEF TypeOK, Call!CallTypeOK, Statuses, Requests, Patches, PlanIds, OrderIds
<1>2. UnusedIsClean'
  BY DEF UnusedIsClean, TypeOK, Call!CallTypeOK, Requests
<1>3. IdsAreFresh' /\ RowsFollowCarts' /\ PlansHoldRows' /\ TxFollowsPc' /\ OkIsBacked' /\ ReportsArePlanned' /\ WaitingWasMade' /\ TakenIsPlanned'
  BY DEF IdsAreFresh, RowsFollowCarts, PlansHoldRows, TxFollowsPc, OkIsBacked, ReportsArePlanned, WaitingWasMade, TakenIsPlanned
<1> QED BY <1>1, <1>2, <1>3 DEF IInv

(* The answer is the value sent, or an error. *)
LEMMA AnswerKeeps ==
  ASSUME IInv, NEW q \in Requests, Answer(q)
  PROVE  IInv'
<1> USE DEF IInv, Answer, Call!ReturnResult, Call!ReturnCtxErr, orderVars, cartVars, planVars, callVars, robotVars
<1>1. TypeOK'
  <2>1. CASE Call!ReturnResult(q)
    BY <2>1 DEF TypeOK, Call!CallTypeOK
  <2>2. CASE Call!ReturnCtxErr(q)
    BY <2>2 DEF TypeOK, Call!CallTypeOK
  <2> QED BY <2>1, <2>2
<1>2. UnusedIsClean'
  <2>1. fn[q] # "idle"
    BY DEF UnusedIsClean
  <2>2. \A other \in Requests \ {q} :
          ctx'[other] = ctx[other] /\ done'[other] = done[other] /\ answer'[other] = answer[other]
    BY DEF TypeOK, Call!CallTypeOK
  <2> QED BY <2>1, <2>2 DEF UnusedIsClean
<1>3. OkIsBacked'
  BY CallsDiffer DEF OkIsBacked, TypeOK, Call!CallTypeOK, Requests
<1>4. IdsAreFresh' /\ RowsFollowCarts' /\ PlansHoldRows' /\ TxFollowsPc' /\ ReportsArePlanned' /\ WaitingWasMade' /\ TakenIsPlanned'
  BY DEF IdsAreFresh, RowsFollowCarts, PlansHoldRows, TxFollowsPc, ReportsArePlanned, WaitingWasMade, TakenIsPlanned
<1> QED BY <1>1, <1>2, <1>3, <1>4 DEF IInv

(* A robot without orders asks with a request not made before. *)
LEMMA RequestPlanKeeps ==
  ASSUME IInv, NEW r \in Robots, RequestPlan(r)
  PROVE  IInv'
<1> USE DEF IInv, RequestPlan, Call!StartCall, orderVars, cartVars, planVars, callVars, robotVars
<1>0. nextPlan \in PlanIds /\ PlanCall(nextPlan) \in Requests
  BY CallsDiffer, BoundsAssumption DEF TypeOK, PlanIds
<1>1. TypeOK'
  BY <1>0, BoundsAssumption DEF TypeOK, Call!CallTypeOK, PlanIds
<1>2. UnusedIsClean'
  BY CallsDiffer DEF UnusedIsClean, TypeOK, Call!CallTypeOK, Requests
<1>3. ReportsArePlanned'
  BY CallsDiffer DEF ReportsArePlanned, TypeOK, Call!CallTypeOK, Requests
<1>4. WaitingWasMade'
  BY <1>0 DEF WaitingWasMade, TypeOK, Call!CallTypeOK
<1>5. IdsAreFresh' /\ RowsFollowCarts' /\ PlansHoldRows' /\ TxFollowsPc' /\ OkIsBacked' /\ TakenIsPlanned'
  BY DEF IdsAreFresh, RowsFollowCarts, PlansHoldRows, TxFollowsPc, OkIsBacked, TakenIsPlanned
<1> QED BY <1>1, <1>2, <1>3, <1>4, <1>5 DEF IInv

(* The orders of a plan answered "ok" are those of a committed one. *)
LEMMA ReceivePlanKeeps ==
  ASSUME IInv, NEW r \in Robots, ReceivePlan(r)
  PROVE  IInv'
<1> USE DEF IInv, ReceivePlan, orderVars, cartVars, planVars, callVars, robotVars
<1>1. TypeOK'
  BY CallsDiffer, BoundsAssumption DEF TypeOK, Call!CallTypeOK, Statuses, Requests, Patches, PlanIds, OrderIds
<1>2. ReportsArePlanned'
  <2>1. answer[PlanCall(job[r])] = "ok" => tx[job[r]] = "committed"
    BY DEF OkIsBacked
  <2>2. /\ \A other \in Robots \ {r} : todo'[other] = todo[other]
        /\ todo'[r] # {} => answer[PlanCall(job[r])] = "ok" /\ todo'[r] = chosen[job[r]]
    BY DEF TypeOK
  <2> QED BY <2>1, <2>2 DEF ReportsArePlanned
<1>3. WaitingWasMade'
  BY CallsDiffer DEF WaitingWasMade, TypeOK, Call!CallTypeOK, Requests
<1>4. IdsAreFresh' /\ RowsFollowCarts' /\ PlansHoldRows' /\ TxFollowsPc' /\ UnusedIsClean' /\ OkIsBacked' /\ TakenIsPlanned'
  BY DEF IdsAreFresh, RowsFollowCarts, PlansHoldRows, TxFollowsPc, UnusedIsClean, OkIsBacked, TakenIsPlanned
<1> QED BY <1>1, <1>2, <1>3, <1>4 DEF IInv

(* A report is sent for an order of a committed plan, once. *)
LEMMA SendPatchKeeps ==
  ASSUME IInv, NEW r \in Robots, SendPatch(r)
  PROVE  IInv'
<1> USE DEF IInv, Call!StartCall, orderVars, cartVars, planVars, callVars, robotVars
<1>0. PICK o \in todo[r] :
        LET q == <<job[r], o>> IN
        /\ waiting' = [waiting EXCEPT ![r] = q]
        /\ todo' = [todo EXCEPT ![r] = @ \ {o}]
        /\ stmt' = [stmt EXCEPT ![q] = "sent"]
        /\ Call!StartCall(q)
  BY DEF SendPatch
<1> DEFINE q == <<job[r], o>>
<1>a. /\ q \in Patches /\ q \in Requests /\ q # NoRequest
      /\ tx[job[r]] = "committed" /\ o \in chosen[job[r]]
  BY BoundsAssumption DEF ReportsArePlanned, TypeOK, Patches, Requests, PlanIds, NoRequest
<1>b. /\ UNCHANGED <<orderVars, cartVars, planVars, job>>
      /\ waiting[r] = NoRequest
  BY DEF SendPatch
<1> HIDE DEF q
<1>c. /\ waiting' = [waiting EXCEPT ![r] = q]
      /\ todo' = [todo EXCEPT ![r] = @ \ {o}]
      /\ stmt' = [stmt EXCEPT ![q] = "sent"]
      /\ fn[q] = "idle" /\ fn' = [fn EXCEPT ![q] = "running"]
      /\ ctx' = [ctx EXCEPT ![q] = "live"]
      /\ UNCHANGED <<done, answer>>
  BY <1>0 DEF q
<1>1. TypeOK'
  BY <1>a, <1>b, <1>c DEF TypeOK, Call!CallTypeOK
<1>2. UnusedIsClean'
  BY <1>a, <1>b, <1>c DEF UnusedIsClean, TypeOK, Call!CallTypeOK
<1>3. OkIsBacked'
  <2>1. done[q] = "empty" /\ answer[q] = "none"
    BY <1>a, <1>c DEF UnusedIsClean
  <2> QED BY <2>1, <1>a, <1>b, <1>c DEF OkIsBacked, TypeOK
<1>4. ReportsArePlanned'
  <2>1. /\ \A other \in Robots \ {r} : todo'[other] = todo[other]
        /\ todo'[r] \subseteq todo[r]
    BY <1>c DEF TypeOK
  <2>2. \A p \in PlanIds : \A k \in OrderIds :
          <<p, k>> # q => stmt'[<<p, k>>] = stmt[<<p, k>>]
    BY <1>a, <1>c DEF TypeOK, Patches
  <2>3. \A p \in PlanIds : \A k \in OrderIds :
          <<p, k>> = q => tx[p] = "committed" /\ k \in chosen[p]
    BY <1>a DEF q
  <2> QED BY <2>1, <2>2, <2>3, <1>b DEF ReportsArePlanned
<1>5. WaitingWasMade'
  BY <1>a, <1>c DEF WaitingWasMade, TypeOK, Call!CallTypeOK
<1>6. IdsAreFresh' /\ RowsFollowCarts' /\ PlansHoldRows' /\ TxFollowsPc' /\ TakenIsPlanned'
  BY <1>b DEF IdsAreFresh, RowsFollowCarts, PlansHoldRows, TxFollowsPc, TakenIsPlanned
<1> QED BY <1>1, <1>2, <1>3, <1>4, <1>5, <1>6 DEF IInv

(* The orders to report only become fewer. *)
LEMMA ReceivePatchKeeps ==
  ASSUME IInv, NEW r \in Robots, ReceivePatch(r)
  PROVE  IInv'
<1> USE DEF IInv, ReceivePatch, orderVars, cartVars, planVars, callVars, robotVars
<1>1. TypeOK'
  BY BoundsAssumption DEF TypeOK, Call!CallTypeOK, Statuses, Requests, Patches, PlanIds, OrderIds
<1>2. ReportsArePlanned'
  BY DEF ReportsArePlanned, TypeOK, Call!CallTypeOK, Requests
<1>3. WaitingWasMade'
  BY DEF WaitingWasMade, TypeOK, Call!CallTypeOK, Requests
<1>4. IdsAreFresh' /\ RowsFollowCarts' /\ PlansHoldRows' /\ TxFollowsPc' /\ UnusedIsClean' /\ OkIsBacked' /\ TakenIsPlanned'
  BY DEF IdsAreFresh, RowsFollowCarts, PlansHoldRows, TxFollowsPc, UnusedIsClean, OkIsBacked, TakenIsPlanned
<1> QED BY <1>1, <1>2, <1>3, <1>4 DEF IInv

(* A robot gives up on a request it has made. *)
LEMMA GiveUpKeeps ==
  ASSUME IInv, NEW r \in Robots, GiveUp(r)
  PROVE  IInv'
<1> USE DEF IInv, GiveUp, orderVars, cartVars, planVars, callVars, robotVars
<1>1. TypeOK'
  BY BoundsAssumption DEF TypeOK, Call!CallTypeOK, Statuses, Requests, Patches, PlanIds, OrderIds
<1>2. UnusedIsClean'
  <2>1. fn[waiting[r]] # "idle"
    BY DEF WaitingWasMade
  <2>2. \A q \in Requests : q # waiting[r] => ctx'[q] = ctx[q]
    BY DEF TypeOK, Call!CallTypeOK
  <2> QED BY <2>1, <2>2 DEF UnusedIsClean
<1>3. ReportsArePlanned'
  BY DEF ReportsArePlanned, TypeOK, Call!CallTypeOK, Requests
<1>4. WaitingWasMade'
  BY DEF WaitingWasMade, TypeOK, Call!CallTypeOK, Requests
<1>5. IdsAreFresh' /\ RowsFollowCarts' /\ PlansHoldRows' /\ TxFollowsPc' /\ OkIsBacked' /\ TakenIsPlanned'
  BY DEF IdsAreFresh, RowsFollowCarts, PlansHoldRows, TxFollowsPc, OkIsBacked, TakenIsPlanned
<1> QED BY <1>1, <1>2, <1>3, <1>4, <1>5 DEF IInv

--------------------------------------------------------------------------------

(* IInv is inductive. *)
LEMMA StepIInv == IInv /\ [Next]_vars => IInv'
<1> SUFFICES ASSUME IInv, [Next]_vars PROVE IInv'
  OBVIOUS
<1>1. ASSUME NEW c \in Carts, CartStep(c) PROVE IInv'
  BY <1>1, SubmitCartKeeps, CreateKeeps, CreateFailsKeeps, CommitOrdersKeeps DEF CartStep
<1>2. ASSUME NEW p \in PlanIds, PlanStep(p) PROVE IInv'
  BY <1>2, BeginTxKeeps, GetShippingOrdersKeeps, SelectOrdersForDeliveryKeeps,
     UpdateStatusesKeeps, CommitKeeps, CommitLandsKeeps, CommitLostKeeps, PlanReturnsKeeps, PlanFailsKeeps, AwaitDoneKeeps DEF PlanStep
<1>3. ASSUME NEW q \in Patches, PatchStep(q) PROVE IInv'
  BY <1>3, PatchLandsKeeps, PatchLostKeeps, PatchReturnsKeeps, PatchFailsKeeps DEF PatchStep
<1>4. ASSUME NEW r \in Robots, RobotStep(r) PROVE IInv'
  BY <1>4, RequestPlanKeeps, ReceivePlanKeeps, SendPatchKeeps, ReceivePatchKeeps,
     GiveUpKeeps DEF RobotStep
<1>5. ASSUME NEW q \in Requests, EndContext(q) \/ Answer(q) PROVE IInv'
  BY <1>5, EndContextKeeps, AnswerKeeps
<1>6. CASE UNCHANGED vars
  <2> USE <1>6 DEF vars, orderVars, cartVars, planVars, callVars, robotVars
  <2>1. TypeOK'
    BY DEF IInv, TypeOK, Call!CallTypeOK
  <2>2. IdsAreFresh' /\ RowsFollowCarts' /\ PlansHoldRows' /\ TxFollowsPc' /\ UnusedIsClean'
    BY DEF IInv, IdsAreFresh, RowsFollowCarts, PlansHoldRows, TxFollowsPc, UnusedIsClean
  <2>3. OkIsBacked' /\ ReportsArePlanned' /\ WaitingWasMade' /\ TakenIsPlanned'
    BY DEF IInv, OkIsBacked, ReportsArePlanned, WaitingWasMade, TakenIsPlanned
  <2> QED BY <2>1, <2>2, <2>3 DEF IInv
<1> QED BY <1>1, <1>2, <1>3, <1>4, <1>5, <1>6 DEF Next

(* IInv holds in every reachable state. *)
THEOREM Invariance == Spec => []IInv
<1> QED BY InitIInv, StepIInv, PTL DEF Spec

(* Every variable keeps its type: what TypeOK says, for any instance. *)
THEOREM TypeCorrect == Spec => []TypeOK
<1>1. IInv => TypeOK
  BY DEF IInv
<1> QED BY <1>1, Invariance, PTL

(* ExecTx makes a cart's orders appear together, for any number of customers *)
(* inserting at the same time.                                               *)
THEOREM CartsAtomic == Spec => []CartsAreAtomic
<1>1. IInv => CartsAreAtomic
  BY DEF IInv, RowsFollowCarts, CartsAreAtomic
<1> QED BY <1>1, Invariance, PTL

(* A robot is never sent out on a plan, nor told that a report is stored,    *)
(* before the database has it, whatever times out.                           *)
THEOREM OkDurable == Spec => []OkMeansDurable
<1>1. IInv => OkMeansDurable
  BY DEF IInv, OkIsBacked, OkMeansDurable
<1> QED BY <1>1, Invariance, PTL

(* Delivering and completed orders belong to a committed plan.               *)
THEOREM OrdersArePlanned == Spec => []TakenIsPlanned
<1>1. IInv => TakenIsPlanned
  BY DEF IInv
<1> QED BY <1>1, Invariance, PTL

(* A step leaves the rows alone, or is one of the three that write them.     *)
LEMMA StatusSteps ==
  ASSUME [Next]_vars
  PROVE  \/ \E c \in Carts : CommitOrders(c)
         \/ \E p \in PlanIds : CommitLands(p)
         \/ \E q \in Patches : PatchLands(q)
         \/ UNCHANGED status
<1> USE DEF orderVars
<1>1. \A c \in Carts : CartStep(c) => CommitOrders(c) \/ UNCHANGED status
  BY DEF CartStep, SubmitCart, Create, CreateFails
<1>2. \A p \in PlanIds : PlanStep(p) => CommitLands(p) \/ UNCHANGED status
  BY DEF PlanStep, BeginTx, GetShippingOrders, SelectOrdersForDelivery, UpdateStatuses,
         Commit, CommitLost, PlanReturns, PlanFails, AwaitDone
<1>3. \A q \in Patches : PatchStep(q) => PatchLands(q) \/ UNCHANGED status
  BY DEF PatchStep, PatchLost, PatchReturns, PatchFails
<1>4. \A q \in Requests : EndContext(q) \/ Answer(q) => UNCHANGED status
  BY DEF EndContext, Answer
<1>5. \A r \in Robots : RobotStep(r) => UNCHANGED status
  BY DEF RobotStep, RequestPlan, ReceivePlan, SendPatch, ReceivePatch, GiveUp
<1> QED BY <1>1, <1>2, <1>3, <1>4, <1>5 DEF Next, vars

(* No step puts an order a plan has taken back into the pool, or removes a   *)
(* row: with any number of robots and of transactions left behind.           *)
THEOREM NoWayBack == Spec => NeverBackToShipping
<1> DEFINE Forward(o) ==
      /\ status[o] \in {"delivering", "completed"} => status'[o] \in {"delivering", "completed"}
      /\ status[o] = "shipping" => status'[o] # "none"
<1>1. ASSUME IInv, [Next]_vars, NEW o \in OrderIds PROVE Forward(o)
  <2>1. CASE \E c \in Carts : CommitOrders(c)
    BY <1>1, <2>1 DEF CommitOrders, IInv, RowsFollowCarts, TypeOK
  <2>2. CASE \E p \in PlanIds : CommitLands(p)
    BY <1>1, <2>2 DEF CommitLands, IInv, TypeOK
  <2>3. CASE \E q \in Patches : PatchLands(q)
    BY <1>1, <2>3 DEF PatchLands, IInv, TypeOK
  <2>4. CASE UNCHANGED status
    BY <2>4
  <2>5. \/ \E c \in Carts : CommitOrders(c)
        \/ \E p \in PlanIds : CommitLands(p)
        \/ \E q \in Patches : PatchLands(q)
        \/ UNCHANGED status
    BY <1>1, StatusSteps
  <2> QED BY <2>1, <2>2, <2>3, <2>4, <2>5
<1>2. IInv /\ [Next]_vars => [\A o \in OrderIds :
       /\ status[o] \in {"delivering", "completed"} => status'[o] \in {"delivering", "completed"}
       /\ status[o] = "shipping" => status'[o] # "none"]_vars
  BY <1>1
<1> QED BY <1>2, Invariance, PTL DEF Spec, NeverBackToShipping

(* A goroutine that runs after a step ran before it, or is just started; and a *)
(* step puts nothing into its channel.                                        *)
LEMMA RunningIsStarted ==
  ASSUME IInv, [Next]_vars, NEW q \in Requests, fn'[q] = "running"
  PROVE  fn[q] \in {"idle", "running"} /\ done'[q] \in {done[q], "empty"}
<1> DEFINE Good == fn[q] \in {"idle", "running"} /\ done'[q] \in {done[q], "empty"}
<1>1. fn \in [Requests -> {"idle", "running", "exited"}] /\ DOMAIN done = Requests
  BY DEF IInv, TypeOK, Call!CallTypeOK
<1>2. CASE UNCHANGED callVars
  BY <1>1, <1>2 DEF callVars
<1>3. ASSUME NEW s, NEW r, Call!Send(s, r) PROVE Good
  BY <1>1, <1>3 DEF Call!Send
<1>4. CASE \E c \in Carts : CartStep(c)
  BY <1>2, <1>4 DEF CartStep, SubmitCart, Create, CreateFails, CommitOrders
<1>5. CASE \E p \in PlanIds : PlanStep(p)
  BY <1>2, <1>3, <1>5 DEF PlanStep, BeginTx, GetShippingOrders, SelectOrdersForDelivery,
     UpdateStatuses, Commit, CommitLands, CommitLost, PlanReturns, PlanFails, AwaitDone
<1>6. CASE \E s \in Patches : PatchStep(s)
  BY <1>2, <1>3, <1>6 DEF PatchStep, PatchLands, PatchLost, PatchReturns, PatchFails
<1>7. CASE \E s \in Requests : EndContext(s) \/ Answer(s)
  BY <1>1, <1>7 DEF EndContext, Answer, Call!EndContext, Call!ReturnResult, Call!ReturnCtxErr
<1>8. CASE \E r \in Robots : RobotStep(r)
  <2>1. ASSUME NEW r \in Robots, RequestPlan(r) PROVE Good
    BY <1>1, <2>1 DEF RequestPlan, Call!StartCall
  <2>2. ASSUME NEW r \in Robots, SendPatch(r) PROVE Good
    BY <1>1, <2>2 DEF SendPatch, Call!StartCall
  <2>3. ASSUME NEW r \in Robots, ReceivePlan(r) \/ ReceivePatch(r) PROVE Good
    BY <1>2, <2>3 DEF ReceivePlan, ReceivePatch
  <2>4. ASSUME NEW r \in Robots, GiveUp(r) PROVE Good
    BY <1>1, <2>4 DEF GiveUp
  <2> QED BY <1>8, <2>1, <2>2, <2>3, <2>4 DEF RobotStep
<1>9. CASE UNCHANGED vars
  BY <1>2, <1>9 DEF vars
<1> QED BY <1>4, <1>5, <1>6, <1>7, <1>8, <1>9 DEF Next

(* The send of a goroutine whose caller has left never waits: the channel's    *)
(* one place is free as long as the goroutine runs.                           *)
THEOREM SendersLeave == Spec => []SendNeverBlocks
<1> USE DEF SendNeverBlocks, Call!SendNeverBlocks, Call!CanSend
<1>1. Init => SendNeverBlocks
  BY DEF Init, Call!CallInit
<1>2. IInv /\ SendNeverBlocks /\ [Next]_vars => SendNeverBlocks'
  BY RunningIsStarted DEF IInv, UnusedIsClean
<1> QED BY <1>1, <1>2, Invariance, PTL DEF Spec

--------------------------------------------------------------------------------
(***************************************************************************)
(* What a 201 of CreateOrders stands for, for any carts and any number of   *)
(* customers that insert at the same time: the pieces asked for.            *)
(***************************************************************************)

\* The rows of product p that the transaction of cart c has inserted.
RowsOf(c, p) == {o \in ids[c] : product[o] = p}

\* What was inserted and what remains make up the list that was asked for.
NothingGetsLost ==
  \A c \in Carts :
    /\ cart[c] = "idle" => ids[c] = {}
    /\ cart[c] = "created" => \A p \in Products : remaining[c][p] = 0
    /\ cart[c] \in {"inserting", "created"} =>
         /\ asked[c] \in ItemLists
         /\ \A p \in Products :
              Cardinality(RowsOf(c, p)) + remaining[c][p] = ItemsToProcess(asked[c])[p]

(* A cart's rows can be counted. *)
LEMMA RowsAreFinite ==
  ASSUME TypeOK, NEW c \in Carts, NEW p
  PROVE  IsFiniteSet(RowsOf(c, p)) /\ Cardinality(RowsOf(c, p)) \in Nat
<1>1. IsFiniteSet(OrderIds)
  BY BoundsAssumption, FS_Interval DEF OrderIds
<1>2. RowsOf(c, p) \subseteq OrderIds
  BY DEF RowsOf, TypeOK
<1> QED BY <1>1, <1>2, FS_Subset, FS_CardinalityType

(* No cart has a row before the first is inserted. *)
LEMMA InitNothingLost == Init => NothingGetsLost
BY DEF Init, NothingGetsLost

(* A cart that a step leaves alone, with the rows of its ids, stays as it is. *)
LEMMA OtherCartsStay ==
  ASSUME NothingGetsLost, NEW c \in Carts,
         cart'[c] = cart[c], asked'[c] = asked[c], remaining'[c] = remaining[c],
         ids'[c] = ids[c],
         \A o \in ids[c] : product'[o] = product[o]
  PROVE  /\ cart'[c] = "idle" => ids'[c] = {}
         /\ cart'[c] = "created" => \A p \in Products : remaining'[c][p] = 0
         /\ cart'[c] \in {"inserting", "created"} =>
              /\ asked'[c] \in ItemLists
              /\ \A p \in Products :
                   Cardinality(RowsOf(c, p)') + remaining'[c][p] = ItemsToProcess(asked'[c])[p]
<1>1. \A p : RowsOf(c, p)' = RowsOf(c, p)
  BY DEF RowsOf
<1> QED BY <1>1 DEF NothingGetsLost

(* Taking a cart: nothing is inserted, everything remains. *)
LEMMA SubmitCartLosesNothing ==
  ASSUME TypeOK, NothingGetsLost, NEW c \in Carts, SubmitCart(c)
  PROVE  NothingGetsLost'
<1> USE DEF SubmitCart, orderVars
<1>1. PICK items \in ItemLists :
        /\ asked' = [asked EXCEPT ![c] = items]
        /\ remaining' = [remaining EXCEPT ![c] = ItemsToProcess(items)]
  OBVIOUS
<1>2. /\ ids[c] = {} /\ cart'[c] = "inserting"
      /\ asked'[c] = items /\ remaining'[c] = ItemsToProcess(items)
  BY <1>1 DEF NothingGetsLost, TypeOK
<1>3. \A p : RowsOf(c, p)' = {}
  BY <1>2 DEF RowsOf
<1>4. ASSUME NEW p \in Products
      PROVE  Cardinality(RowsOf(c, p)') + remaining'[c][p] = ItemsToProcess(items)[p]
  <2>1. ItemsToProcess(items)[p] \in Nat /\ remaining'[c][p] = ItemsToProcess(items)[p]
    BY <1>1, <1>2, LastPositiveIsProcessed
  <2>2. Cardinality(RowsOf(c, p)') = 0
    BY <1>3, FS_EmptySet, Zenon
  <2> QED BY <2>1, <2>2
<1>5. ASSUME NEW d \in Carts \ {c}
      PROVE  /\ cart'[d] = cart[d] /\ asked'[d] = asked[d]
             /\ remaining'[d] = remaining[d] /\ ids'[d] = ids[d]
  BY <1>1 DEF TypeOK
<1> QED BY <1>2, <1>4, <1>5, OtherCartsStay DEF NothingGetsLost

(* An INSERT: one row more of the product, one piece less to insert. *)
LEMMA CreateLosesNothing ==
  ASSUME IInv, NothingGetsLost, NEW c \in Carts, Create(c)
  PROVE  NothingGetsLost'
<1> USE DEF Create, IInv
<1>1. PICK p \in Products :
        /\ remaining[c][p] > 0
        /\ remaining' = [remaining EXCEPT ![c][p] = @ - 1]
        /\ product' = [product EXCEPT ![nextId] = p]
  OBVIOUS
<1>2. /\ nextId \in OrderIds /\ ids'[c] = ids[c] \cup {nextId}
      /\ \A d \in Carts : nextId \notin ids[d]
  BY DEF TypeOK, IdsAreFresh, OrderIds
<1>3. /\ product'[nextId] = p
      /\ \A d \in Carts : \A o \in ids[d] : product'[o] = product[o]
  BY <1>1, <1>2 DEF TypeOK
<1>4. /\ RowsOf(c, p)' = RowsOf(c, p) \cup {nextId} /\ nextId \notin RowsOf(c, p)
      /\ \A q \in Products \ {p} : RowsOf(c, q)' = RowsOf(c, q)
  BY <1>2, <1>3 DEF RowsOf
<1>5. Cardinality(RowsOf(c, p)') = Cardinality(RowsOf(c, p)) + 1
  BY <1>4, RowsAreFinite, FS_AddElement
<1>6. /\ remaining[c][p] \in Nat /\ remaining'[c][p] = remaining[c][p] - 1
      /\ \A q \in Products \ {p} : remaining'[c][q] = remaining[c][q]
  BY <1>1 DEF TypeOK
<1>7. /\ cart'[c] = "inserting" /\ asked'[c] \in ItemLists
      /\ \A q \in Products :
           Cardinality(RowsOf(c, q)') + remaining'[c][q] = ItemsToProcess(asked'[c])[q]
  <2> DEFINE quantity == ItemsToProcess(asked[c])
  <2>1. /\ cart[c] = "inserting" /\ cart' = cart /\ asked' = asked /\ asked[c] \in ItemLists
        /\ \A q \in Products : Cardinality(RowsOf(c, q)) + remaining[c][q] = quantity[q]
    BY DEF NothingGetsLost
  <2> HIDE DEF quantity
  <2>2. Cardinality(RowsOf(c, p)') + remaining'[c][p] = quantity[p]
    <3>1. Cardinality(RowsOf(c, p)) \in Nat
      BY RowsAreFinite
    <3>2. Cardinality(RowsOf(c, p)) + remaining[c][p] = quantity[p]
      BY <2>1
    <3> QED BY <1>5, <1>6, <3>1, <3>2
  <2>3. ASSUME NEW q \in Products \ {p}
        PROVE  Cardinality(RowsOf(c, q)') + remaining'[c][q] = quantity[q]
    <3>1. RowsOf(c, q)' = RowsOf(c, q) /\ remaining'[c][q] = remaining[c][q]
      BY <1>4, <1>6
    <3> QED BY <2>1, <3>1, Zenon
  <2> HIDE DEF Create
  <2>4. \A q \in Products :
          Cardinality(RowsOf(c, q)') + remaining'[c][q] = quantity[q]
    BY <2>2, <2>3, Zenon
  <2> QED BY <2>1, <2>4, Zenon DEF quantity
<1>8. ASSUME NEW d \in Carts \ {c}
      PROVE  /\ cart'[d] = cart[d] /\ asked'[d] = asked[d]
             /\ remaining'[d] = remaining[d] /\ ids'[d] = ids[d]
  BY <1>1 DEF TypeOK
<1> QED BY <1>3, <1>7, <1>8, OtherCartsStay DEF NothingGetsLost

(* A commit or a rollback inserts nothing more; a commit comes when nothing  *)
(* remains.                                                                  *)
LEMMA EndLosesNothing ==
  ASSUME TypeOK, NothingGetsLost, NEW c \in Carts, CommitOrders(c) \/ CreateFails(c)
  PROVE  NothingGetsLost'
<1> USE DEF CommitOrders, CreateFails, orderVars
<1>1. /\ cart[c] = "inserting" /\ cart'[c] \in {"created", "failed"}
      /\ cart'[c] = "created" => \A p \in Products : remaining[c][p] = 0
      /\ UNCHANGED <<asked, remaining, ids, product>>
      /\ \A d \in Carts \ {c} : cart'[d] = cart[d]
  BY DEF TypeOK
<1>2. \A p : RowsOf(c, p)' = RowsOf(c, p)
  BY <1>1 DEF RowsOf
<1>3. cart'[c] = "created" =>
        /\ asked'[c] \in ItemLists
        /\ \A p \in Products :
             Cardinality(RowsOf(c, p)') + remaining'[c][p] = ItemsToProcess(asked'[c])[p]
  BY <1>1, <1>2 DEF NothingGetsLost
<1> QED BY <1>1, <1>3, OtherCartsStay DEF NothingGetsLost

(* Every step keeps NothingGetsLost. *)
LEMMA StepLosesNothing == IInv /\ NothingGetsLost /\ [Next]_vars => NothingGetsLost'
<1> SUFFICES ASSUME IInv, NothingGetsLost, [Next]_vars PROVE NothingGetsLost'
  OBVIOUS
<1>1. CASE \E c \in Carts : CartStep(c)
  BY <1>1, SubmitCartLosesNothing, CreateLosesNothing, EndLosesNothing DEF CartStep, IInv
<1>2. CASE UNCHANGED <<cart, asked, remaining, ids, product>>
  BY <1>2, OtherCartsStay DEF NothingGetsLost
<1>3. \/ \E c \in Carts : CartStep(c)
      \/ UNCHANGED <<cart, asked, remaining, ids, product>>
  <2> USE DEF orderVars, cartVars
  <2>1. \A p \in PlanIds : PlanStep(p) => UNCHANGED <<cart, asked, remaining, ids, product>>
    BY DEF PlanStep, BeginTx, GetShippingOrders, SelectOrdersForDelivery, UpdateStatuses,
           Commit, CommitLands, CommitLost, PlanReturns, PlanFails, AwaitDone
  <2>2. \A q \in Patches : PatchStep(q) => UNCHANGED <<cart, asked, remaining, ids, product>>
    BY DEF PatchStep, PatchLands, PatchLost, PatchReturns, PatchFails
  <2>3. \A q \in Requests : EndContext(q) \/ Answer(q) => UNCHANGED <<cart, asked, remaining, ids, product>>
    BY DEF EndContext, Answer
  <2>4. \A r \in Robots : RobotStep(r) => UNCHANGED <<cart, asked, remaining, ids, product>>
    BY DEF RobotStep, RequestPlan, ReceivePlan, SendPatch, ReceivePatch, GiveUp
  <2> QED BY <2>1, <2>2, <2>3, <2>4 DEF Next, vars
<1> QED BY <1>1, <1>2, <1>3

(* A 201 stands for the pieces this customer asked for: of each product as    *)
(* many rows as the last positive quantity in the request says and nothing    *)
(* else, in whatever order the products are inserted and whatever other carts *)
(* insert meanwhile.                                                          *)
THEOREM AskedAndInserted == Spec => []CartsHoldWhatWasAsked
<1>1. IInv /\ NothingGetsLost => CartsHoldWhatWasAsked
  <2> SUFFICES ASSUME IInv, NothingGetsLost, NEW c \in Carts, cart[c] = "created",
                      NEW p \in Products
               PROVE  IsLastPositive(asked[c], p, Cardinality({o \in ids[c] : product[o] = p}))
    BY DEF CartsHoldWhatWasAsked
  <2> DEFINE rows == Cardinality(RowsOf(c, p))
             quantity == ItemsToProcess(asked[c])[p]
  <2>1. asked[c] \in ItemLists /\ rows + remaining[c][p] = quantity /\ remaining[c][p] = 0
    BY DEF NothingGetsLost
  <2>2. rows \in Nat
    BY RowsAreFinite DEF IInv
  <2>3. IsLastPositive(asked[c], p, quantity)
    BY <2>1, LastPositiveIsProcessed
  <2> HIDE DEF rows, quantity
  <2>4. rows = quantity
    BY <2>1, <2>2
  <2> QED BY <2>3, <2>4 DEF rows, RowsOf
<1> QED BY <1>1, InitNothingLost, StepLosesNothing, Invariance, PTL DEF Spec

--------------------------------------------------------------------------------
(***************************************************************************)
(* What holds when a single robot drives the backend, for any number of     *)
(* carts, orders and plans: although a request the robot has given up on    *)
(* may still be running, and its transaction committing, under the next one, *)
(* no order is reported by two plans, and the backend implements             *)
(* OrderLifecycle.  With two robots neither holds.                           *)
(***************************************************************************)

SingleRobot == \A r, s \in Robots : r = s

\* A context lives only while the robot waits, so that plans before the one it
\* waits for can send no statement any more.
CallsAreAwaited ==
  \A q \in Requests :
    /\ answer[q] # "none" => ctx[q] = "ended"
    /\ ctx[q] = "live" => \E r \in Robots : waiting[r] = q

\* The robot is at the last plan that was requested.
JobIsLast ==
  /\ \A p \in PlanIds : p >= nextPlan => fn[PlanCall(p)] = "idle"
  /\ \A r \in Robots :
       /\ job[r] = nextPlan - 1
       /\ \A p \in PlanIds : waiting[r] = PlanCall(p) => p = job[r]

\* What a plan holds at each place of its goroutine.
PlanFollowsPc ==
  \A p \in PlanIds :
    /\ fn[PlanCall(p)] = "idle" => tx[p] = "none" /\ snapshot[p] = {} /\ chosen[p] = {}
    /\ pc[p] \in {"begin", "select", "choose", "update"} => tx[p] \in {"none", "open", "aborted"}
    /\ pc[p] = "commit" /\ tx[p] = "open" => chosen[p] = {}

\* The orders of a committed plan are taken, and only reports complete them.
StatusFollowsPlans ==
  /\ \A p \in PlanIds :
       tx[p] = "committed" => \A o \in chosen[p] : status[o] \in {"delivering", "completed"}
  /\ \A o \in OrderIds :
       status[o] = "completed" => \E p \in PlanIds : stmt[<<p, o>>] # "none"

\* The robot has been told of plan p.
Told(p) ==
  \/ \E o \in OrderIds : stmt[<<p, o>>] # "none"
  \/ \E r \in Robots : job[r] = p /\ todo[r] # {}

\* The orders of such a plan are in no later one.
LaterPlansDiffer ==
  \A p, q \in PlanIds : p < q /\ Told(p) =>
    snapshot[q] \cap chosen[p] = {} /\ chosen[q] \cap chosen[p] = {}

\* A plan that has updated its orders waited for the locks of those before it.
LocksArePassedOn ==
  \A p, q \in PlanIds :
    p < q /\ tx[q] \in {"locked", "committing", "committed"} => Locks(p) \cap chosen[q] = {}

SInv ==
  /\ CallsAreAwaited
  /\ JobIsLast
  /\ PlanFollowsPc
  /\ StatusFollowsPlans
  /\ LaterPlansDiffer
  /\ LocksArePassedOn

--------------------------------------------------------------------------------
(* SInv holds initially, and every step keeps it: one lemma per action, in it *)
(* one step per part the action can disturb, one for all the others.          *)

LEMMA InitSInv == Init => SInv
<1> SUFFICES ASSUME Init PROVE SInv
  OBVIOUS
<1> USE BoundsAssumption, CallsDiffer DEF Init, Call!CallInit
<1>1. CallsAreAwaited /\ JobIsLast
  BY DEF CallsAreAwaited, JobIsLast
<1>2. PlanFollowsPc /\ StatusFollowsPlans
  BY DEF PlanFollowsPc, StatusFollowsPlans
<1>3. LaterPlansDiffer /\ LocksArePassedOn
  BY DEF LaterPlansDiffer, LocksArePassedOn, Patches
<1> QED BY <1>1, <1>2, <1>3 DEF SInv

(* A step that commits no plan keeps StatusFollowsPlans if rows only appear or *)
(* are completed by a report.                                                  *)
LEMMA StatusAdvances ==
  ASSUME StatusFollowsPlans,
         \A p \in PlanIds : tx'[p] = "committed" =>
           tx[p] = "committed" /\ chosen'[p] = chosen[p] /\ chosen[p] \subseteq OrderIds,
         \A o \in OrderIds :
           \/ status'[o] = status[o]
           \/ status[o] = "none" /\ status'[o] = "shipping"
           \/ status'[o] = "completed" /\ \E p \in PlanIds : stmt'[<<p, o>>] # "none",
         \A p \in PlanIds : \A o \in OrderIds :
           stmt[<<p, o>>] # "none" => stmt'[<<p, o>>] # "none"
  PROVE  StatusFollowsPlans'
<1>1. ASSUME NEW p \in PlanIds, tx'[p] = "committed", NEW o \in chosen'[p]
      PROVE  status'[o] \in {"delivering", "completed"}
  <2>1. o \in OrderIds /\ status[o] \in {"delivering", "completed"}
    BY <1>1 DEF StatusFollowsPlans
  <2> QED BY <2>1
<1>2. ASSUME NEW o \in OrderIds, status'[o] = "completed"
      PROVE  \E p \in PlanIds : stmt'[<<p, o>>] # "none"
  BY <1>2 DEF StatusFollowsPlans
<1> QED BY <1>1, <1>2 DEF StatusFollowsPlans

(* A plan whose context lives is the last one, and those after it are unused. *)
LEMMA AliveIsLast ==
  ASSUME IInv, SInv, NEW p \in PlanIds, Alive(p), NEW q \in PlanIds, q > p
  PROVE  fn[PlanCall(q)] = "idle" /\ tx[q] = "none" /\ snapshot[q] = {} /\ chosen[q] = {}
<1>1. PICK r \in Robots : waiting[r] = PlanCall(p)
  BY CallsDiffer DEF SInv, CallsAreAwaited, Alive
<1>2. p = nextPlan - 1
  BY <1>1 DEF SInv, JobIsLast
<1>3. nextPlan \in Int /\ q >= nextPlan
  BY <1>2, BoundsAssumption DEF IInv, TypeOK, PlanIds
<1> QED BY <1>3 DEF SInv, JobIsLast, PlanFollowsPc

(* A cart's rows become shipping from nothing: no plan holds them yet. *)
LEMMA CartSteps ==
  ASSUME IInv, SInv, NEW c \in Carts, CartStep(c)
  PROVE  SInv'
<1> USE CallsDiffer, BoundsAssumption DEF IInv, SInv, CartStep, SubmitCart, Create, CreateFails, CommitOrders, orderVars, cartVars, planVars, callVars, robotVars
<1>1. StatusFollowsPlans'
  <2>1. \A o \in OrderIds : status'[o] = status[o] \/ (status[o] = "none" /\ status'[o] = "shipping")
    BY DEF RowsFollowCarts, TypeOK
  <2>2. tx' = tx /\ chosen' = chosen /\ stmt' = stmt
    OBVIOUS
  <2>3. \A p \in PlanIds : chosen[p] \subseteq OrderIds
    BY DEF TypeOK
  <2> QED BY <2>1, <2>2, <2>3, StatusAdvances
<1>2. CallsAreAwaited' /\ JobIsLast' /\ PlanFollowsPc' /\ LaterPlansDiffer' /\ LocksArePassedOn'
  <2>1. /\ CallsAreAwaited /\ JobIsLast /\ PlanFollowsPc /\ LaterPlansDiffer /\ LocksArePassedOn
        /\ UNCHANGED <<planVars, stmt, callVars, robotVars>>
    OBVIOUS
  <2> QED BY ONLY <2>1
          DEF CallsAreAwaited, JobIsLast, PlanFollowsPc, LaterPlansDiffer, LocksArePassedOn, Told, Locks,
              planVars, callVars, robotVars
<1> QED BY <1>1, <1>2 DEF SInv

(* A transaction begins without locks. *)
LEMMA BeginTxStep ==
  ASSUME IInv, SInv, NEW p \in PlanIds, BeginTx(p)
  PROVE  SInv'
<1> USE CallsDiffer, BoundsAssumption DEF IInv, SInv, BeginTx, Running, Alive, orderVars, cartVars, planVars, callVars, robotVars
<1>1. PlanFollowsPc'
  BY DEF PlanFollowsPc, TypeOK
<1>2. StatusFollowsPlans'
  BY DEF StatusFollowsPlans, TypeOK
<1>3. LocksArePassedOn'
  BY DEF LocksArePassedOn, Locks, TypeOK
<1>4. CallsAreAwaited' /\ JobIsLast' /\ LaterPlansDiffer'
  BY DEF CallsAreAwaited, JobIsLast, LaterPlansDiffer, Told
<1> QED BY <1>1, <1>2, <1>3, <1>4 DEF SInv

(* The orders of a committed plan are not in a later snapshot. *)
LEMMA GetShippingOrdersStep ==
  ASSUME IInv, SInv, NEW p \in PlanIds, GetShippingOrders(p)
  PROVE  SInv'
<1> USE CallsDiffer, BoundsAssumption DEF IInv, SInv, GetShippingOrders, Running, Alive, orderVars, cartVars, planVars, callVars, robotVars
<1>1. PlanFollowsPc'
  BY DEF PlanFollowsPc, TypeOK
<1>2. LaterPlansDiffer'
  <2>1. \A a \in PlanIds : Told(a) => tx[a] = "committed"
    BY DEF Told, ReportsArePlanned
  <2>2. \A a \in PlanIds : Told(a) => snapshot'[p] \cap chosen[a] = {}
    BY <2>1 DEF StatusFollowsPlans, TypeOK
  <2>3. \A a \in PlanIds : Told(a)' = Told(a)
    BY DEF Told
  <2> QED BY <2>2, <2>3 DEF LaterPlansDiffer, TypeOK
<1>3. CallsAreAwaited' /\ JobIsLast' /\ StatusFollowsPlans' /\ LocksArePassedOn'
  BY DEF CallsAreAwaited, JobIsLast, StatusFollowsPlans, LocksArePassedOn, Locks
<1> QED BY <1>1, <1>2, <1>3 DEF SInv

(* The load is part of the snapshot, and is not the one of a plan told of. *)
LEMMA SelectOrdersStep ==
  ASSUME IInv, SInv, NEW p \in PlanIds, SelectOrdersForDelivery(p)
  PROVE  SInv'
<1> USE CallsDiffer, BoundsAssumption DEF IInv, SInv, SelectOrdersForDelivery, Running, orderVars, cartVars, planVars, callVars, robotVars
<1>a. /\ chosen'[p] \subseteq snapshot[p] /\ \A a \in PlanIds \ {p} : chosen'[a] = chosen[a]
      /\ pc' \in [PlanIds -> {"begin", "select", "choose", "update", "commit", "committing"}]
      /\ pc'[p] = "update" \/ (pc'[p] = "commit" /\ chosen'[p] = {})
      /\ \A a \in PlanIds \ {p} : pc'[a] = pc[a]
  BY LoadsAreOrders DEF TypeOK
<1>b. tx[p] \in {"none", "open", "aborted"}
  BY DEF PlanFollowsPc
<1>1. PlanFollowsPc'
  BY <1>a DEF PlanFollowsPc, TypeOK
<1>2. StatusFollowsPlans'
  <2>1. \A a \in PlanIds : tx[a] = "committed" => chosen'[a] = chosen[a] /\ chosen[a] \subseteq OrderIds
    BY <1>a, <1>b DEF TypeOK
  <2> QED BY <2>1, StatusAdvances
<1>3. LaterPlansDiffer'
  <2>1. ~Told(p) /\ \A a \in PlanIds : Told(a)' = Told(a)
    BY <1>b DEF Told, ReportsArePlanned
  <2> QED BY <1>a, <2>1 DEF LaterPlansDiffer, TypeOK
<1>4. LocksArePassedOn'
  BY <1>a, <1>b DEF LocksArePassedOn, Locks, TypeOK
<1>5. CallsAreAwaited' /\ JobIsLast'
  BY DEF CallsAreAwaited, JobIsLast
<1> QED BY <1>1, <1>2, <1>3, <1>4, <1>5 DEF SInv

(* An UPDATE waits for the locks of earlier plans, and there is no later one. *)
LEMMA UpdateStatusesStep ==
  ASSUME IInv, SInv, NEW p \in PlanIds, UpdateStatuses(p)
  PROVE  SInv'
<1> USE CallsDiffer, BoundsAssumption DEF IInv, SInv, UpdateStatuses, Running, orderVars, cartVars, planVars, callVars, robotVars
<1>1. PlanFollowsPc'
  BY DEF PlanFollowsPc, TypeOK
<1>2. StatusFollowsPlans'
  BY DEF StatusFollowsPlans, TypeOK
<1>3. LocksArePassedOn'
  <2>1. \A a \in PlanIds : a > p => tx[a] = "none"
    BY AliveIsLast
  <2>2. \A a \in PlanIds \ {p} : Locks(a) \cap chosen[p] = {} /\ Locks(a)' = Locks(a) /\ tx'[a] = tx[a]
    BY DEF LockedByOthers, Locks, TypeOK
  <2> QED BY <2>1, <2>2 DEF LocksArePassedOn, PlanIds
<1>4. CallsAreAwaited' /\ JobIsLast' /\ LaterPlansDiffer'
  BY DEF CallsAreAwaited, JobIsLast, LaterPlansDiffer, Told
<1> QED BY <1>1, <1>2, <1>3, <1>4 DEF SInv

(* A commit keeps the locks there are. *)
LEMMA CommitStep ==
  ASSUME IInv, SInv, NEW p \in PlanIds, Commit(p)
  PROVE  SInv'
<1> USE CallsDiffer, BoundsAssumption DEF IInv, SInv, Commit, Running, Alive, orderVars, cartVars, planVars, callVars, robotVars
<1>1. PlanFollowsPc'
  BY DEF PlanFollowsPc, TypeOK
<1>2. StatusFollowsPlans'
  BY DEF StatusFollowsPlans, TypeOK
<1>3. LocksArePassedOn'
  <2>1. tx[p] = "locked" \/ chosen[p] = {}
    BY DEF PlanFollowsPc
  <2>2. \A a \in PlanIds : Locks(a)' = Locks(a)
    BY <2>1 DEF Locks, TypeOK
  <2> QED BY <2>1, <2>2 DEF LocksArePassedOn, TypeOK
<1>4. CallsAreAwaited' /\ JobIsLast' /\ LaterPlansDiffer'
  BY DEF CallsAreAwaited, JobIsLast, LaterPlansDiffer, Told
<1> QED BY <1>1, <1>2, <1>3, <1>4 DEF SInv

(* A commit takes the orders of its plan, none of which has been reported. *)
LEMMA CommitLandsStep ==
  ASSUME IInv, SInv, NEW p \in PlanIds, CommitLands(p)
  PROVE  SInv'
<1> USE CallsDiffer, BoundsAssumption DEF IInv, SInv, CommitLands, orderVars, cartVars, planVars, callVars, robotVars
<1>1. PlanFollowsPc'
  BY DEF PlanFollowsPc, TxFollowsPc, TypeOK
<1>2. StatusFollowsPlans'
  <2>1. \A o \in OrderIds : status'[o] = IF o \in chosen[p] THEN "delivering" ELSE status[o]
    OBVIOUS
  <2>2. \A a \in PlanIds : chosen[a] \subseteq OrderIds
    BY DEF TypeOK
  <2> QED BY <2>1, <2>2 DEF StatusFollowsPlans, TypeOK
<1>3. LocksArePassedOn'
  BY DEF LocksArePassedOn, Locks, TypeOK
<1>4. CallsAreAwaited' /\ JobIsLast' /\ LaterPlansDiffer'
  BY DEF CallsAreAwaited, JobIsLast, LaterPlansDiffer, Told
<1> QED BY <1>1, <1>2, <1>3, <1>4 DEF SInv

(* A rollback, or a lost commit, gives up the locks. *)
LEMMA AbortStep ==
  ASSUME IInv, SInv, NEW p \in PlanIds, CommitLost(p) \/ AwaitDone(p)
  PROVE  SInv'
<1> USE CallsDiffer, BoundsAssumption DEF IInv, SInv, CommitLost, AwaitDone, orderVars, cartVars, planVars, callVars, robotVars
<1>1. PlanFollowsPc'
  BY DEF PlanFollowsPc, TypeOK
<1>2. StatusFollowsPlans'
  <2>1. \A a \in PlanIds : chosen[a] \subseteq OrderIds /\ (tx'[a] = "committed" => tx[a] = "committed")
    BY DEF TypeOK
  <2>2. status' = status /\ chosen' = chosen /\ stmt' = stmt
    OBVIOUS
  <2> QED BY <2>1, <2>2, StatusAdvances
<1>3. LocksArePassedOn'
  <2>1. /\ LocksArePassedOn /\ chosen' = chosen
        /\ \A a \in PlanIds : tx'[a] = tx[a] \/ tx'[a] = "aborted"
    BY DEF TypeOK
  <2> QED BY ONLY <2>1 DEF LocksArePassedOn, Locks
<1>4. CallsAreAwaited' /\ JobIsLast' /\ LaterPlansDiffer'
  BY DEF CallsAreAwaited, JobIsLast, LaterPlansDiffer, Told
<1> QED BY <1>1, <1>2, <1>3, <1>4 DEF SInv

(* A goroutine that ends is not idle. *)
LEMMA PlanReturnsStep ==
  ASSUME IInv, SInv, NEW p \in PlanIds, PlanReturns(p)
  PROVE  SInv'
<1> USE CallsDiffer, BoundsAssumption DEF IInv, SInv, PlanReturns, Running, Call!Send, orderVars, cartVars, planVars, callVars, robotVars
<1>1. JobIsLast'
  BY DEF JobIsLast, TypeOK, Call!CallTypeOK
<1>2. PlanFollowsPc'
  BY DEF PlanFollowsPc, TypeOK, Call!CallTypeOK
<1>3. CallsAreAwaited' /\ StatusFollowsPlans' /\ LaterPlansDiffer' /\ LocksArePassedOn'
  BY DEF CallsAreAwaited, StatusFollowsPlans, LaterPlansDiffer, LocksArePassedOn, Told, Locks
<1> QED BY <1>1, <1>2, <1>3 DEF SInv

(* Nor is one that fails, and its locks are given up. *)
LEMMA PlanFailsStep ==
  ASSUME IInv, SInv, NEW p \in PlanIds, PlanFails(p)
  PROVE  SInv'
<1> USE CallsDiffer, BoundsAssumption DEF IInv, SInv, PlanFails, Call!Send, orderVars, cartVars, planVars, callVars, robotVars
<1>1. JobIsLast'
  BY DEF JobIsLast, TypeOK, Call!CallTypeOK
<1>2. PlanFollowsPc'
  BY DEF PlanFollowsPc, TypeOK, Call!CallTypeOK
<1>3. StatusFollowsPlans'
  BY DEF StatusFollowsPlans, TypeOK
<1>4. LocksArePassedOn'
  BY DEF LocksArePassedOn, Locks, TypeOK
<1>5. CallsAreAwaited' /\ LaterPlansDiffer'
  BY DEF CallsAreAwaited, LaterPlansDiffer, Told
<1> QED BY <1>1, <1>2, <1>3, <1>4, <1>5 DEF SInv

(* The goroutine of a report is not one of a plan. *)
LEMMA PatchEndsStep ==
  ASSUME IInv, SInv, NEW q \in Patches, PatchReturns(q) \/ PatchFails(q)
  PROVE  SInv'
<1> USE CallsDiffer, BoundsAssumption DEF IInv, SInv, PatchReturns, PatchFails, Call!Send, orderVars, cartVars, planVars, callVars, robotVars
<1>1. JobIsLast'
  BY DEF JobIsLast, TypeOK, Call!CallTypeOK
<1>2. PlanFollowsPc'
  BY DEF PlanFollowsPc, TypeOK, Call!CallTypeOK
<1>3. StatusFollowsPlans' /\ LocksArePassedOn'
  BY DEF StatusFollowsPlans, LocksArePassedOn, Locks
<1>4. CallsAreAwaited' /\ LaterPlansDiffer'
  BY DEF CallsAreAwaited, LaterPlansDiffer, Told
<1> QED BY <1>1, <1>2, <1>3, <1>4 DEF SInv

(* A statement that lands was sent, and completes an order of its plan. *)
LEMMA PatchStatementStep ==
  ASSUME IInv, SInv, NEW q \in Patches, PatchLands(q) \/ PatchLost(q)
  PROVE  SInv'
<1> USE CallsDiffer, BoundsAssumption DEF IInv, SInv, PatchLands, PatchLost, orderVars, cartVars, planVars, callVars, robotVars
<1>a. \A s \in Patches : stmt'[s] # "none" <=> stmt[s] # "none"
  BY DEF TypeOK
<1>b. \A a \in PlanIds : \A o \in OrderIds : <<a, o>> \in Patches
  BY DEF Patches
<1>1. StatusFollowsPlans'
  <2>1. \A o \in OrderIds : status'[o] = status[o] \/ (o = q[2] /\ status'[o] = "completed")
    BY DEF TypeOK, Patches
  <2>2. q = <<q[1], q[2]>> /\ q[1] \in PlanIds /\ q[2] \in OrderIds
    BY DEF Patches
  <2>3. \A o \in OrderIds : status'[o] = status[o]
          \/ (status'[o] = "completed" /\ \E a \in PlanIds : stmt'[<<a, o>>] # "none")
    BY <1>a, <2>1, <2>2
  <2>4. tx' = tx /\ chosen' = chosen /\ \A a \in PlanIds : chosen[a] \subseteq OrderIds
    BY DEF TypeOK
  <2>5. \A a \in PlanIds : \A o \in OrderIds : stmt[<<a, o>>] # "none" => stmt'[<<a, o>>] # "none"
    BY <1>a, <1>b
  <2> QED BY <2>3, <2>4, <2>5, StatusAdvances
<1>2. LaterPlansDiffer'
  <2>1. \A a \in PlanIds : Told(a)' = Told(a)
    BY <1>a DEF Told, Patches
  <2> QED BY <2>1 DEF LaterPlansDiffer
<1>3. CallsAreAwaited' /\ JobIsLast' /\ PlanFollowsPc' /\ LocksArePassedOn'
  BY DEF CallsAreAwaited, JobIsLast, PlanFollowsPc, LocksArePassedOn, Locks
<1> QED BY <1>1, <1>2, <1>3 DEF SInv

(* A context ends; an answer comes with, or ends, its context. *)
LEMMA CallSteps ==
  ASSUME IInv, SInv, NEW q \in Requests, EndContext(q) \/ Answer(q)
  PROVE  SInv'
<1> USE CallsDiffer, BoundsAssumption DEF IInv, SInv, EndContext, Answer, Call!EndContext, Call!ReturnResult, Call!ReturnCtxErr, orderVars, cartVars, planVars, callVars, robotVars
<1>1. CallsAreAwaited'
  <2>1. /\ \A s \in Requests \ {q} : ctx'[s] = ctx[s] /\ answer'[s] = answer[s]
        /\ ctx'[q] = "ended"
    BY DEF TypeOK, Call!CallTypeOK
  <2> QED BY <2>1 DEF CallsAreAwaited
<1>2. JobIsLast' /\ PlanFollowsPc' /\ StatusFollowsPlans' /\ LaterPlansDiffer' /\ LocksArePassedOn'
  BY DEF JobIsLast, PlanFollowsPc, StatusFollowsPlans, LaterPlansDiffer, LocksArePassedOn, Told, Locks
<1> QED BY <1>1, <1>2 DEF SInv

(* The next request is made by the only robot there is, and no other lives. *)
LEMMA RequestPlanStep ==
  ASSUME SingleRobot, IInv, SInv, NEW r \in Robots, RequestPlan(r)
  PROVE  SInv'
<1> USE BoundsAssumption DEF IInv, SInv, RequestPlan, Call!StartCall, orderVars, cartVars, planVars, callVars, robotVars
<1>a. /\ nextPlan \in PlanIds /\ PlanCall(nextPlan) \in Requests
      /\ \A s \in Robots : s = r
      /\ answer[PlanCall(nextPlan)] = "none"
  BY CallsDiffer DEF SingleRobot, TypeOK, PlanIds, UnusedIsClean
<1>b. \A p, q \in PlanIds : PlanCall(p) = PlanCall(q) => p = q
  BY DEF PlanCall
<1>c. NoRequest \notin Requests
  BY DEF NoRequest, Requests, PlanCall, Patches, PlanIds, OrderIds
<1>1. CallsAreAwaited'
  BY <1>a, <1>c DEF CallsAreAwaited, TypeOK, Call!CallTypeOK
<1>2. JobIsLast'
  BY <1>a, <1>b, CallsDiffer DEF JobIsLast, TypeOK, Call!CallTypeOK, PlanIds
<1>3. PlanFollowsPc'
  BY <1>a, CallsDiffer DEF PlanFollowsPc, TypeOK, Call!CallTypeOK
<1>4. LaterPlansDiffer'
  <2>1. \A p \in PlanIds : Told(p)' => Told(p)
    BY <1>a DEF Told
  <2> QED BY <2>1 DEF LaterPlansDiffer
<1>5. StatusFollowsPlans' /\ LocksArePassedOn'
  BY DEF StatusFollowsPlans, LocksArePassedOn, Locks
<1> QED BY <1>1, <1>2, <1>3, <1>4, <1>5 DEF SInv

(* The plan a robot is told of is the last one. *)
LEMMA ReceivePlanStep ==
  ASSUME IInv, SInv, NEW r \in Robots, ReceivePlan(r)
  PROVE  SInv'
<1> USE BoundsAssumption DEF IInv, SInv, ReceivePlan, orderVars, cartVars, planVars, callVars, robotVars
<1>a. /\ job[r] \in PlanIds /\ job[r] = nextPlan - 1 /\ nextPlan \in Int
      /\ waiting[r] = PlanCall(job[r]) /\ ctx[waiting[r]] = "ended"
      /\ waiting' = [waiting EXCEPT ![r] = NoRequest]
  BY CallsDiffer DEF JobIsLast, CallsAreAwaited, TypeOK
<1>1. CallsAreAwaited'
  BY <1>a DEF CallsAreAwaited, TypeOK
<1>2. JobIsLast'
  BY <1>a, CallsDiffer DEF JobIsLast, TypeOK
<1>3. LaterPlansDiffer'
  <2>1. \A p \in PlanIds \ {job[r]} : Told(p)' => Told(p)
    BY DEF Told, TypeOK
  <2>2. \A q \in PlanIds : job[r] < q => snapshot[q] = {} /\ chosen[q] = {}
    BY <1>a DEF JobIsLast, PlanFollowsPc, PlanIds
  <2> QED BY <2>1, <2>2 DEF LaterPlansDiffer
<1>4. PlanFollowsPc' /\ StatusFollowsPlans' /\ LocksArePassedOn'
  BY DEF PlanFollowsPc, StatusFollowsPlans, LocksArePassedOn, Locks
<1> QED BY <1>1, <1>2, <1>3, <1>4 DEF SInv

(* A report is sent for a plan the robot was told of. *)
LEMMA SendPatchStep ==
  ASSUME IInv, SInv, NEW r \in Robots, SendPatch(r)
  PROVE  SInv'
<1> USE DEF IInv, SInv, orderVars, cartVars, planVars, robotVars
<1>0. PICK o \in todo[r] :
        LET q == <<job[r], o>> IN
        /\ waiting' = [waiting EXCEPT ![r] = q]
        /\ todo' = [todo EXCEPT ![r] = @ \ {o}]
        /\ stmt' = [stmt EXCEPT ![q] = "sent"]
        /\ Call!StartCall(q)
  BY DEF SendPatch
<1> DEFINE q == <<job[r], o>>
<1>a. q \in Patches /\ q \in Requests /\ job[r] \in PlanIds
  BY BoundsAssumption DEF ReportsArePlanned, TypeOK, Patches, Requests, PlanIds
<1>b. /\ UNCHANGED <<orderVars, cartVars, planVars, job>>
      /\ waiting[r] = NoRequest
  BY DEF SendPatch
<1>d. \A p \in PlanIds : \A k \in OrderIds : <<p, k>> \in Patches /\ (<<p, k>> = q => p = job[r])
  BY DEF Patches
<1> HIDE DEF q
<1>c. /\ waiting' = [waiting EXCEPT ![r] = q]
      /\ todo' = [todo EXCEPT ![r] = @ \ {o}]
      /\ stmt' = [stmt EXCEPT ![q] = "sent"]
      /\ fn[q] = "idle" /\ fn' = [fn EXCEPT ![q] = "running"]
      /\ ctx' = [ctx EXCEPT ![q] = "live"]
      /\ UNCHANGED <<done, answer>>
  BY <1>0 DEF q, Call!StartCall
<1>e. NoRequest \notin Requests
  BY BoundsAssumption DEF NoRequest, Requests, PlanCall, Patches, PlanIds, OrderIds
<1>1. CallsAreAwaited'
  <2>1. answer[q] = "none"
    BY <1>a, <1>c DEF UnusedIsClean
  <2> QED BY <2>1, <1>a, <1>b, <1>c, <1>e DEF CallsAreAwaited, TypeOK, Call!CallTypeOK
<1>f. \A p \in PlanIds : PlanCall(p) # q /\ fn'[PlanCall(p)] = fn[PlanCall(p)]
  BY <1>a, <1>c, CallsDiffer DEF TypeOK, Call!CallTypeOK
<1>2. JobIsLast'
  BY <1>a, <1>b, <1>c, <1>f DEF JobIsLast, TypeOK
<1>3. PlanFollowsPc'
  BY <1>b, <1>f DEF PlanFollowsPc
<1>4. StatusFollowsPlans'
  <2>1. \A p \in PlanIds : \A k \in OrderIds :
          stmt[<<p, k>>] # "none" => stmt'[<<p, k>>] # "none"
    BY <1>a, <1>c, <1>d DEF TypeOK
  <2>2. status' = status /\ tx' = tx /\ chosen' = chosen
        /\ \A p \in PlanIds : chosen[p] \subseteq OrderIds
    BY <1>b DEF TypeOK
  <2> QED BY <2>1, <2>2, StatusAdvances
<1>5. LaterPlansDiffer'
  <2>1. \A p \in PlanIds : Told(p)' => Told(p)
    <3>1. ASSUME NEW p \in PlanIds, NEW k \in OrderIds, stmt'[<<p, k>>] # "none" PROVE Told(p)
      <4>1. CASE <<p, k>> = q
        BY <4>1, <1>d DEF Told
      <4>2. CASE <<p, k>> # q
        BY <3>1, <4>2, <1>a, <1>c, <1>d DEF Told, TypeOK
      <4> QED BY <4>1, <4>2
    <3>2. \A s \in Robots : todo'[s] \subseteq todo[s]
      BY <1>c DEF TypeOK
    <3> QED BY <3>1, <3>2, <1>b DEF Told
  <2> QED BY <2>1, <1>b DEF LaterPlansDiffer
<1>6. LocksArePassedOn'
  BY <1>b DEF LocksArePassedOn, Locks
<1> QED BY <1>1, <1>2, <1>3, <1>4, <1>5, <1>6 DEF SInv

(* A robot that takes the answer to a report, or gives up, waits no longer,  *)
(* and what it was told of only becomes less.                                *)
LEMMA LeaveStep ==
  ASSUME IInv, SInv, NEW r \in Robots, ReceivePatch(r) \/ GiveUp(r)
  PROVE  SInv'
<1> USE BoundsAssumption DEF IInv, SInv, orderVars, cartVars, planVars, callVars, robotVars
<1>a. /\ waiting[r] \in Requests /\ waiting' = [waiting EXCEPT ![r] = NoRequest]
      /\ UNCHANGED <<orderVars, cartVars, planVars, stmt, fn, done, answer, job>>
      /\ \A s \in Robots : todo'[s] \subseteq todo[s]
  BY DEF ReceivePatch, GiveUp, TypeOK, Requests
<1>b. ctx'[waiting[r]] = "ended" /\ \A q \in Requests \ {waiting[r]} : ctx'[q] = ctx[q]
  <2>1. CASE ReceivePatch(r)
    BY <2>1, <1>a DEF ReceivePatch, CallsAreAwaited
  <2>2. CASE GiveUp(r)
    BY <2>2, <1>a DEF GiveUp, TypeOK, Call!CallTypeOK
  <2> QED BY <2>1, <2>2
<1>1. CallsAreAwaited'
  BY <1>a, <1>b DEF CallsAreAwaited, TypeOK
<1>2. JobIsLast'
  BY <1>a, CallsDiffer DEF JobIsLast, TypeOK
<1>3. LaterPlansDiffer'
  <2>1. \A p \in PlanIds : Told(p)' => Told(p)
    BY <1>a DEF Told
  <2> QED BY <2>1, <1>a DEF LaterPlansDiffer
<1>4. PlanFollowsPc' /\ StatusFollowsPlans' /\ LocksArePassedOn'
  BY <1>a DEF PlanFollowsPc, StatusFollowsPlans, LocksArePassedOn, Locks
<1> QED BY <1>1, <1>2, <1>3, <1>4 DEF SInv

--------------------------------------------------------------------------------

(* SInv is inductive, given IInv. *)
LEMMA StepSInv == SingleRobot /\ IInv /\ SInv /\ [Next]_vars => SInv'
<1> SUFFICES ASSUME SingleRobot, IInv, SInv, [Next]_vars PROVE SInv'
  OBVIOUS
<1>1. ASSUME NEW c \in Carts, CartStep(c) PROVE SInv'
  BY <1>1, CartSteps
<1>2. ASSUME NEW p \in PlanIds, PlanStep(p) PROVE SInv'
  BY <1>2, BeginTxStep, GetShippingOrdersStep, SelectOrdersStep, UpdateStatusesStep,
     CommitStep, CommitLandsStep, AbortStep, PlanReturnsStep, PlanFailsStep DEF PlanStep
<1>3. ASSUME NEW q \in Patches, PatchStep(q) PROVE SInv'
  BY <1>3, PatchStatementStep, PatchEndsStep DEF PatchStep
<1>4. ASSUME NEW r \in Robots, RobotStep(r) PROVE SInv'
  BY <1>4, RequestPlanStep, ReceivePlanStep, SendPatchStep, LeaveStep DEF RobotStep
<1>5. ASSUME NEW q \in Requests, EndContext(q) \/ Answer(q) PROVE SInv'
  BY <1>5, CallSteps
<1>6. CASE UNCHANGED vars
  <2> USE <1>6 DEF vars, orderVars, cartVars, planVars, callVars, robotVars, SInv
  <2>1. CallsAreAwaited' /\ JobIsLast' /\ PlanFollowsPc' /\ StatusFollowsPlans'
    BY DEF CallsAreAwaited, JobIsLast, PlanFollowsPc, StatusFollowsPlans
  <2>2. LaterPlansDiffer' /\ LocksArePassedOn'
    BY DEF LaterPlansDiffer, LocksArePassedOn, Told, Locks
  <2> QED BY <2>1, <2>2
<1> QED BY <1>1, <1>2, <1>3, <1>4, <1>5, <1>6 DEF Next

(* Both invariants hold in every reachable state of a single robot. *)
THEOREM SInvariance ==
  ASSUME SingleRobot
  PROVE  Spec => [](IInv /\ SInv)
<1>1. SInv /\ IInv /\ [Next]_vars => SInv'
  BY StepSInv
<1> QED BY <1>1, InitSInv, Invariance, PTL DEF Spec

(* A single robot reports no order for two plans, whatever requests it gives *)
(* up on and however late their transactions commit.                         *)
THEOREM OneReport ==
  ASSUME SingleRobot
  PROVE  Spec => []ReportedOnce
<1>1. IInv /\ SInv => ReportedOnce
  <2> SUFFICES ASSUME IInv, SInv,
                      NEW p1 \in PlanIds, NEW p2 \in PlanIds, NEW o \in OrderIds,
                      stmt[<<p1, o>>] # "none", stmt[<<p2, o>>] # "none"
               PROVE  p1 = p2
    BY DEF ReportedOnce
  <2>1. Told(p1) /\ Told(p2) /\ o \in chosen[p1] /\ o \in chosen[p2]
    BY DEF Told, IInv, ReportsArePlanned
  <2>2. ~(p1 < p2) /\ ~(p2 < p1)
    BY <2>1 DEF SInv, LaterPlansDiffer
  <2> QED BY <2>2, BoundsAssumption DEF PlanIds
<1> QED BY <1>1, SInvariance, PTL

(* A commit takes its orders from the pool: none of them is completed. *)
LEMMA TakenFromThePool ==
  ASSUME IInv, SInv, NEW p \in PlanIds, tx[p] = "committing", NEW o \in chosen[p]
  PROVE  status[o] \in {"shipping", "delivering"}
<1>1. o \in OrderIds /\ status[o] \in Statuses /\ status[o] # "none"
  BY DEF IInv, TypeOK, PlansHoldRows
<1>2. ASSUME status[o] = "completed" PROVE FALSE
  <2>1. PICK a \in PlanIds : stmt[<<a, o>>] # "none"
    BY <1>1, <1>2 DEF SInv, StatusFollowsPlans
  <2>2. Told(a) /\ tx[a] = "committed" /\ o \in chosen[a]
    BY <1>1, <2>1 DEF Told, IInv, ReportsArePlanned
  <2>3. ~(a < p)
    BY <2>2 DEF SInv, LaterPlansDiffer
  <2>4. ~(p < a)
    BY <2>2 DEF SInv, LocksArePassedOn, Locks
  <2> QED BY <2>2, <2>3, <2>4, BoundsAssumption DEF PlanIds
<1> QED BY <1>1, <1>2 DEF Statuses

(* The order a report completes has been taken. *)
LEMMA ReportedIsTaken ==
  ASSUME IInv, SInv, NEW q \in Patches, stmt[q] = "sent"
  PROVE  status[q[2]] \in {"delivering", "completed"}
<1>1. q[1] \in PlanIds /\ q[2] \in OrderIds /\ q = <<q[1], q[2]>>
  BY DEF Patches
<1>2. tx[q[1]] = "committed" /\ q[2] \in chosen[q[1]]
  BY <1>1 DEF IInv, ReportsArePlanned
<1> QED BY <1>1, <1>2 DEF SInv, StatusFollowsPlans

(* The backend of a single robot implements OrderLifecycle: orders move      *)
(* forward only, a batch of them per transaction, one per report.            *)
THEOREM Refinement ==
  ASSUME SingleRobot
  PROVE  Spec => ImplementsLifecycle
<1> USE DEF Lifecycle!Next, Lifecycle!Place, Lifecycle!Assign, Lifecycle!Complete, Lifecycle!Move
<1>1. Init => Lifecycle!Init
  BY DEF Init, Lifecycle!Init
<1>2. ASSUME IInv, SInv, [Next]_vars PROVE [Lifecycle!Next]_status
  <2>0. status \in [OrderIds -> Statuses]
    BY <1>2 DEF IInv, TypeOK
  <2>1. ASSUME NEW c \in Carts, CommitOrders(c) PROVE Lifecycle!Next
    <3>1. ids[c] \in SUBSET OrderIds /\ \A o \in ids[c] : status[o] = "none"
      BY <1>2, <2>1 DEF CommitOrders, IInv, TypeOK, RowsFollowCarts
    <3> QED BY <2>1, <3>1 DEF CommitOrders
  <2>2. ASSUME NEW p \in PlanIds, CommitLands(p) PROVE Lifecycle!Next
    <3> DEFINE S == {o \in chosen[p] : status[o] = "shipping"}
    <3>1. S \in SUBSET OrderIds /\ \A o \in S : status[o] = "shipping"
      BY <1>2 DEF IInv, TypeOK
    <3>2. \A o \in OrderIds : o \in chosen[p] /\ o \notin S => status[o] = "delivering"
      BY <1>2, <2>2, TakenFromThePool DEF CommitLands
    <3>3. status' = [o \in OrderIds |-> IF o \in S THEN "delivering" ELSE status[o]]
      BY <2>2, <3>2 DEF CommitLands
    <3> QED BY <3>1, <3>3
  <2>3. ASSUME NEW q \in Patches, PatchLands(q) PROVE Lifecycle!Next \/ UNCHANGED status
    <3>1. q[2] \in OrderIds /\ status[q[2]] \in {"delivering", "completed"}
      BY <1>2, <2>3, ReportedIsTaken DEF PatchLands, Patches
    <3>2. status' = [o \in OrderIds |-> IF o \in {q[2]} THEN "completed" ELSE status[o]]
      BY <2>0, <2>3 DEF PatchLands
    <3> QED BY <2>0, <3>1, <3>2
  <2>4. \/ \E c \in Carts : CommitOrders(c)
        \/ \E p \in PlanIds : CommitLands(p)
        \/ \E q \in Patches : PatchLands(q)
        \/ UNCHANGED status
    BY <1>2, StatusSteps
  <2> QED BY <2>1, <2>2, <2>3, <2>4
<1>3. IInv /\ SInv /\ [Next]_vars => [Lifecycle!Next]_status
  BY <1>2
<1> QED BY <1>1, <1>3, SInvariance, PTL DEF Spec, ImplementsLifecycle, Lifecycle!Spec

================================================================================
