------------------------------ MODULE Fulfilment -------------------------------
(***************************************************************************)
(* The life of an order in the backend: customers create orders in one     *)
(* transaction, robots ask for a delivery plan (a transaction that reads    *)
(* the shipping orders, picks the best load and marks it delivering) and    *)
(* report each picked order as completed (a single UPDATE).                 *)
(*                                                                          *)
(* The database is InnoDB at REPEATABLE READ: a plain SELECT reads the      *)
(* committed rows as they were when the transaction first read, an UPDATE   *)
(* works on the current rows, waits for the locks of other transactions and *)
(* keeps its own until its transaction ends.                                *)
(***************************************************************************)
EXTENDS Integers, Sequences, FiniteSets, Knapsack

CONSTANTS
  Carts,      \* requests to POST /api/v1/product/post, each sent once
  ItemLists,  \* what a cart may hold: sequences of [product, quantity]
  Robots,     \* clients of the robot API, each one sequential
  Products,
  Weight, Value,   \* the products' columns
  Capacity,   \* the capacity query parameter of every plan
  MaxOrders,  \* bound: order ids handed out by AUTO_INCREMENT
  MaxPlans    \* bound: delivery plans requested

ASSUME BoundsAssumption == MaxOrders \in Nat /\ MaxPlans \in Nat

OrderIds == 1 .. MaxOrders
PlanIds  == 1 .. MaxPlans

\* The requests to the robot API: plan p, and the PATCH for order o of plan p.
PlanCall(p) == <<p, 0>>
Patches   == PlanIds \X OrderIds
Requests  == {PlanCall(p) : p \in PlanIds} \cup Patches
NoRequest == <<0, 0>>
NoProduct == "no product"

ASSUME ProductAssumption ==
  /\ NoProduct \notin Products
  /\ \A items \in ItemLists :
       items \in Seq([product : Products, quantity : Int])

VARIABLES
  \* the orders table
  status,     \* the committed shipped_status, "none" for no such row
  product,    \* the product_id written with the row
  nextId,     \* the AUTO_INCREMENT counter
  \* CreateOrders
  cart,       \* "idle", "inserting", "created" (201) or "failed" (500)
  asked,      \* the items of its request
  remaining,  \* how many rows of each product are still to be inserted
  current,    \* the product the loop is at
  ids,        \* the ids the transaction has inserted
  \* GenerateDeliveryPlan
  nextPlan,   \* the id of the next plan request
  pc,         \* where the goroutine is
  tx,         \* its transaction in the database
  snapshot,   \* the rows GetShippingOrders returned
  chosen,     \* the orders of the plan
  \* UpdateOrderStatus
  stmt,       \* its UPDATE: "none", "sent", "landed" or "lost"
  \* WithTimeout
  fn, ctx, done, answer,
  \* the robots
  waiting,    \* the request a robot waits for
  job,        \* the plan a robot works on
  todo        \* the orders of it that it has yet to report

Call == INSTANCE WithTimeout

orderVars == <<status, product, nextId>>
cartVars  == <<cart, asked, remaining, current, ids>>
planVars  == <<nextPlan, pc, tx, snapshot, chosen>>
callVars  == <<fn, ctx, done, answer>>
robotVars == <<waiting, job, todo>>
vars == <<orderVars, cartVars, planVars, stmt, callVars, robotVars>>

Statuses == {"none", "shipping", "delivering", "completed"}

TypeOK ==
  /\ status \in [OrderIds -> Statuses]
  /\ product \in [OrderIds -> Products \cup {NoProduct}]
  /\ nextId \in 1 .. MaxOrders + 1
  /\ cart \in [Carts -> {"idle", "inserting", "created", "failed"}]
  /\ asked \in [Carts -> ItemLists \cup {<<>>}]
  /\ remaining \in [Carts -> [Products -> Nat]]
  /\ current \in [Carts -> Products \cup {NoProduct}]
  /\ ids \in [Carts -> SUBSET OrderIds]
  /\ nextPlan \in 1 .. MaxPlans + 1
  /\ pc \in [PlanIds -> {"begin", "select", "choose", "update", "commit", "committing"}]
  /\ tx \in [PlanIds -> {"none", "open", "locked", "committing", "committed", "aborted"}]
  /\ snapshot \in [PlanIds -> SUBSET OrderIds]
  /\ chosen \in [PlanIds -> SUBSET OrderIds]
  /\ stmt \in [Patches -> {"none", "sent", "landed", "lost"}]
  /\ Call!CallTypeOK
  /\ waiting \in [Robots -> Requests \cup {NoRequest}]
  /\ job \in [Robots -> 0 .. MaxPlans]
  /\ todo \in [Robots -> SUBSET OrderIds]

Init ==
  /\ status = [o \in OrderIds |-> "none"]
  /\ product = [o \in OrderIds |-> NoProduct]
  /\ nextId = 1
  /\ cart = [c \in Carts |-> "idle"]
  /\ asked = [c \in Carts |-> <<>>]
  /\ remaining = [c \in Carts |-> [p \in Products |-> 0]]
  /\ current = [c \in Carts |-> NoProduct]
  /\ ids = [c \in Carts |-> {}]
  /\ nextPlan = 1
  /\ pc = [p \in PlanIds |-> "begin"]
  /\ tx = [p \in PlanIds |-> "none"]
  /\ snapshot = [p \in PlanIds |-> {}]
  /\ chosen = [p \in PlanIds |-> {}]
  /\ stmt = [q \in Patches |-> "none"]
  /\ Call!CallInit
  /\ waiting = [r \in Robots |-> NoRequest]
  /\ job = [r \in Robots |-> 0]
  /\ todo = [r \in Robots |-> {}]

--------------------------------------------------------------------------------
(* CreateOrders *)

\* Defect: the quantities of a product are added up.
ItemsAddedUp(items) ==
  LET after[n \in 0 .. Len(items)] ==
        IF n = 0 THEN [p \in Products |-> 0]
        ELSE IF items[n].quantity > 0
             THEN [after[n - 1] EXCEPT ![items[n].product] = @ + items[n].quantity]
             ELSE after[n - 1]
  IN after[Len(items)]

\* itemsToProcess: the loop goes through the items and stores each positive
\* quantity under its product; a product without one is not in the map (0).
ItemsToProcess(items) ==
  LET after[n \in 0 .. Len(items)] ==
        IF n = 0 THEN [p \in Products |-> 0]
        ELSE IF items[n].quantity > 0
             THEN [after[n - 1] EXCEPT ![items[n].product] = items[n].quantity]
             ELSE after[n - 1]
  IN after[Len(items)]

SubmitCart(c) ==
  /\ cart[c] = "idle"
  /\ cart' = [cart EXCEPT ![c] = "inserting"]
  /\ \E items \in ItemLists :
       /\ asked' = [asked EXCEPT ![c] = items]
       /\ remaining' = [remaining EXCEPT ![c] = ItemsToProcess(items)]
  /\ UNCHANGED <<orderVars, current, ids, planVars, stmt, callVars, robotVars>>

\* Defect: the loop runs once too often (i <= quantity).
CreateOneMore(c) ==
  /\ cart[c] = "inserting"
  /\ nextId =< MaxOrders
  /\ \E p \in Products :
       /\ current' = [current EXCEPT ![c] = p]
       /\ remaining' = [remaining EXCEPT ![c][p] = @ - 1]
       /\ product' = [product EXCEPT ![nextId] = p]
  /\ ids' = [ids EXCEPT ![c] = @ \cup {nextId}]
  /\ nextId' = nextId + 1
  /\ UNCHANGED <<status, cart, asked, planVars, stmt, callVars, robotVars>>

\* Defect: the INSERT runs on the pool, not in the transaction.
CreateOutsideTx(c) ==
  /\ cart[c] = "inserting"
  /\ nextId =< MaxOrders
  /\ \E p \in Products :
       /\ remaining[c][p] > 0
       /\ current' = [current EXCEPT ![c] = p]
       /\ remaining' = [remaining EXCEPT ![c][p] = @ - 1]
       /\ product' = [product EXCEPT ![nextId] = p]
  /\ status' = [status EXCEPT ![nextId] = "shipping"]
  /\ ids' = [ids EXCEPT ![c] = @ \cup {nextId}]
  /\ nextId' = nextId + 1
  /\ UNCHANGED <<cart, asked, planVars, stmt, callVars, robotVars>>

\* OrderRepository.Create, for the product the loop is at until its quantity is
\* used up, then for any other: Go's map order.  The row stays invisible to
\* others until the commit.
Create(c) ==
  /\ cart[c] = "inserting"
  /\ nextId =< MaxOrders
  /\ \E p \in Products :
       /\ remaining[c][p] > 0
       /\ current[c] \in Products \ {p} => remaining[c][current[c]] = 0
       /\ current' = [current EXCEPT ![c] = p]
       /\ remaining' = [remaining EXCEPT ![c][p] = @ - 1]
       /\ product' = [product EXCEPT ![nextId] = p]
  /\ ids' = [ids EXCEPT ![c] = @ \cup {nextId}]
  /\ nextId' = nextId + 1
  /\ UNCHANGED <<status, cart, asked, planVars, stmt, callVars, robotVars>>

\* Begin, an INSERT or the commit fails, or the client is gone: Rollback.  The
\* AUTO_INCREMENT counter keeps its value.
CreateFails(c) ==
  /\ cart[c] = "inserting"
  /\ cart' = [cart EXCEPT ![c] = "failed"]
  /\ UNCHANGED <<orderVars, asked, remaining, current, ids, planVars, stmt, callVars, robotVars>>

\* The commit lands; the reply to it may still get lost.
CommitOrders(c) ==
  /\ cart[c] = "inserting"
  /\ \A p \in Products : remaining[c][p] = 0
  /\ status' = [o \in OrderIds |-> IF o \in ids[c] THEN "shipping" ELSE status[o]]
  /\ \E result \in {"created", "failed"} : cart' = [cart EXCEPT ![c] = result]
  /\ UNCHANGED <<product, nextId, asked, remaining, current, ids, planVars, stmt, callVars,
                 robotVars>>

--------------------------------------------------------------------------------
(* GenerateDeliveryPlan: the goroutine of plan p *)

\* The row locks of p's transaction.
Locks(p) == IF tx[p] \in {"locked", "committing"} THEN chosen[p] ELSE {}

LockedByOthers(p, S) == \E other \in PlanIds \ {p} : Locks(other) \cap S # {}

Running(p, place) == fn[PlanCall(p)] = "running" /\ pc[p] = place

Alive(p) == ctx[PlanCall(p)] = "live"

\* A statement is sent only while the context lives and the transaction with it.
BeginTx(p) ==
  /\ Running(p, "begin")
  /\ Alive(p)
  /\ tx' = [tx EXCEPT ![p] = "open"]
  /\ pc' = [pc EXCEPT ![p] = "select"]
  /\ UNCHANGED <<orderVars, cartVars, nextPlan, snapshot, chosen, stmt, callVars, robotVars>>

\* Defect: the query leaves out only the orders that are completed.
GetOpenOrders(p) ==
  /\ Running(p, "select")
  /\ Alive(p)
  /\ tx[p] = "open"
  /\ snapshot' = [snapshot EXCEPT ![p] =
                    {o \in OrderIds : status[o] \in {"shipping", "delivering"}}]
  /\ pc' = [pc EXCEPT ![p] = "choose"]
  /\ UNCHANGED <<orderVars, cartVars, nextPlan, tx, chosen, stmt, callVars, robotVars>>

GetShippingOrders(p) ==
  /\ Running(p, "select")
  /\ Alive(p)
  /\ tx[p] = "open"
  /\ snapshot' = [snapshot EXCEPT ![p] = {o \in OrderIds : status[o] = "shipping"}]
  /\ pc' = [pc EXCEPT ![p] = "choose"]
  /\ UNCHANGED <<orderVars, cartVars, nextPlan, tx, chosen, stmt, callVars, robotVars>>

\* The search looks at the context only every 16384 steps and may outlive it.
SelectOrdersForDelivery(p) ==
  /\ Running(p, "choose")
  /\ \E load \in BestLoads(snapshot[p], [o \in snapshot[p] |-> Weight[product[o]]],
                           [o \in snapshot[p] |-> Value[product[o]]], Capacity) :
       /\ chosen' = [chosen EXCEPT ![p] = load]
       /\ pc' = [pc EXCEPT ![p] = IF load = {} THEN "commit" ELSE "update"]
  /\ UNCHANGED <<orderVars, cartVars, nextPlan, tx, snapshot, stmt, callVars, robotVars>>

\* Defect: the UPDATE runs on the pool, not in the transaction.
UpdateOutsideTx(p) ==
  /\ Running(p, "update")
  /\ Alive(p)
  /\ tx[p] = "open"
  /\ ~LockedByOthers(p, chosen[p])
  /\ status' = [o \in OrderIds |-> IF o \in chosen[p] THEN "delivering" ELSE status[o]]
  /\ pc' = [pc EXCEPT ![p] = "commit"]
  /\ UNCHANGED <<product, nextId, cartVars, nextPlan, tx, snapshot, chosen, stmt,
                 callVars, robotVars>>

\* The WHERE clause names the ids only: whatever status the rows have by now
\* is overwritten when the transaction commits.
UpdateStatuses(p) ==
  /\ Running(p, "update")
  /\ Alive(p)
  /\ tx[p] = "open"
  /\ ~LockedByOthers(p, chosen[p])
  /\ tx' = [tx EXCEPT ![p] = "locked"]
  /\ pc' = [pc EXCEPT ![p] = "commit"]
  /\ UNCHANGED <<orderVars, cartVars, nextPlan, snapshot, chosen, stmt, callVars, robotVars>>

\* Commit looks at the context once; from then on the context cannot undo it.
Commit(p) ==
  /\ Running(p, "commit")
  /\ Alive(p)
  /\ tx[p] \in {"open", "locked"}
  /\ tx' = [tx EXCEPT ![p] = "committing"]
  /\ pc' = [pc EXCEPT ![p] = "committing"]
  /\ UNCHANGED <<orderVars, cartVars, nextPlan, snapshot, chosen, stmt, callVars, robotVars>>

\* The server executes COMMIT.
CommitLands(p) ==
  /\ tx[p] = "committing"
  /\ tx' = [tx EXCEPT ![p] = "committed"]
  /\ status' = [o \in OrderIds |-> IF o \in chosen[p] THEN "delivering" ELSE status[o]]
  /\ UNCHANGED <<product, nextId, cartVars, nextPlan, pc, snapshot, chosen, stmt, callVars, robotVars>>

\* The connection breaks before COMMIT reaches the server.
CommitLost(p) ==
  /\ tx[p] = "committing"
  /\ tx' = [tx EXCEPT ![p] = "aborted"]
  /\ UNCHANGED <<orderVars, cartVars, nextPlan, pc, snapshot, chosen, stmt, callVars, robotVars>>

\* Defect: fn returns without waiting for the commit.
PlanReturnsEarly(p) ==
  /\ Running(p, "committing")
  /\ Call!Send(PlanCall(p), "ok")
  /\ UNCHANGED <<orderVars, cartVars, planVars, stmt, robotVars>>

PlanReturns(p) ==
  /\ Running(p, "committing")
  /\ tx[p] = "committed"
  /\ Call!Send(PlanCall(p), "ok")
  /\ UNCHANGED <<orderVars, cartVars, planVars, stmt, robotVars>>

\* Defect: a plan that fails gives its orders back, a commit with a lost reply
\* included.
PlanFailsAndReverts(p) ==
  /\ fn[PlanCall(p)] = "running"
  /\ tx' = [tx EXCEPT ![p] = IF @ \in {"open", "locked"} THEN "aborted" ELSE @]
  /\ status' = [o \in OrderIds |-> IF o \in chosen[p] THEN "shipping" ELSE status[o]]
  /\ Call!Send(PlanCall(p), "error")
  /\ UNCHANGED <<product, nextId, cartVars, nextPlan, pc, snapshot, chosen, stmt, robotVars>>

\* A call fails, by its own or because the context has ended; the deferred
\* Rollback undoes what has not reached the commit.
PlanFails(p) ==
  /\ fn[PlanCall(p)] = "running"
  /\ pc[p] = "choose" => ~Alive(p)
  /\ tx' = [tx EXCEPT ![p] = IF @ \in {"open", "locked"} THEN "aborted" ELSE @]
  /\ Call!Send(PlanCall(p), "error")
  /\ UNCHANGED <<orderVars, cartVars, nextPlan, pc, snapshot, chosen, stmt, robotVars>>

\* Defect: the rollback waits for the goroutine.
RollbackOnReturn(p) ==
  /\ fn[PlanCall(p)] = "exited"
  /\ tx[p] \in {"open", "locked"}
  /\ tx' = [tx EXCEPT ![p] = "aborted"]
  /\ UNCHANGED <<orderVars, cartVars, nextPlan, pc, snapshot, chosen, stmt, callVars, robotVars>>

\* database/sql rolls back on its own when the context ends, wherever the
\* goroutine is, until Commit has been called.
AwaitDone(p) ==
  /\ ctx[PlanCall(p)] = "ended"
  /\ tx[p] \in {"open", "locked"}
  /\ tx' = [tx EXCEPT ![p] = "aborted"]
  /\ UNCHANGED <<orderVars, cartVars, nextPlan, pc, snapshot, chosen, stmt, callVars, robotVars>>

--------------------------------------------------------------------------------
(* UpdateOrderStatus: q = <<plan, order>> *)

\* The server executes the UPDATE, whatever the row's status is; that may be
\* after the goroutine has given up on it.
PatchLands(q) ==
  /\ stmt[q] = "sent"
  /\ \A p \in PlanIds : q[2] \notin Locks(p)
  /\ stmt' = [stmt EXCEPT ![q] = "landed"]
  /\ status' = [status EXCEPT ![q[2]] = "completed"]
  /\ UNCHANGED <<product, nextId, cartVars, planVars, callVars, robotVars>>

\* It never reaches the server, or is killed there.
PatchLost(q) ==
  /\ stmt[q] = "sent"
  /\ stmt' = [stmt EXCEPT ![q] = "lost"]
  /\ UNCHANGED <<orderVars, cartVars, planVars, callVars, robotVars>>

PatchReturns(q) ==
  /\ stmt[q] = "landed"
  /\ Call!Send(q, "ok")
  /\ UNCHANGED <<orderVars, cartVars, planVars, stmt, robotVars>>

PatchFails(q) ==
  /\ Call!Send(q, "error")
  /\ UNCHANGED <<orderVars, cartVars, planVars, stmt, robotVars>>

--------------------------------------------------------------------------------
(* WithTimeout, for plans and patches alike *)

EndContext(q) ==
  /\ Call!EndContext(q)
  /\ UNCHANGED <<orderVars, cartVars, planVars, stmt, robotVars>>

\* Defect: the select has no case for the context.
AnswerWithResultOnly(q) ==
  /\ Call!ReturnResult(q)
  /\ UNCHANGED <<orderVars, cartVars, planVars, stmt, robotVars>>

Answer(q) ==
  /\ Call!ReturnResult(q) \/ Call!ReturnCtxErr(q)
  /\ UNCHANGED <<orderVars, cartVars, planVars, stmt, robotVars>>

--------------------------------------------------------------------------------
(* The robots: scenarios/robot.js *)

RequestPlan(r) ==
  /\ waiting[r] = NoRequest
  /\ todo[r] = {}
  /\ nextPlan =< MaxPlans
  /\ nextPlan' = nextPlan + 1
  /\ waiting' = [waiting EXCEPT ![r] = PlanCall(nextPlan)]
  /\ job' = [job EXCEPT ![r] = nextPlan]
  /\ Call!StartCall(PlanCall(nextPlan))
  /\ UNCHANGED <<orderVars, cartVars, pc, tx, snapshot, chosen, stmt, todo>>

\* The orders of a plan that arrives are the ones to report.
ReceivePlan(r) ==
  /\ job[r] \in PlanIds
  /\ waiting[r] = PlanCall(job[r])
  /\ answer[waiting[r]] # "none"
  /\ todo' = [todo EXCEPT ![r] = IF answer[waiting[r]] = "ok" THEN chosen[job[r]] ELSE {}]
  /\ waiting' = [waiting EXCEPT ![r] = NoRequest]
  /\ UNCHANGED <<orderVars, cartVars, planVars, stmt, callVars, job>>

SendPatch(r) ==
  /\ waiting[r] = NoRequest
  /\ \E o \in todo[r] :
       LET q == <<job[r], o>> IN
       /\ waiting' = [waiting EXCEPT ![r] = q]
       /\ todo' = [todo EXCEPT ![r] = @ \ {o}]
       /\ stmt' = [stmt EXCEPT ![q] = "sent"]
       /\ Call!StartCall(q)
  /\ UNCHANGED <<orderVars, cartVars, planVars, job>>

\* A failed report ends the iteration: the rest of the plan is dropped.
ReceivePatch(r) ==
  /\ waiting[r] \in Patches
  /\ answer[waiting[r]] # "none"
  /\ todo' = IF answer[waiting[r]] = "ok" THEN todo ELSE [todo EXCEPT ![r] = {}]
  /\ waiting' = [waiting EXCEPT ![r] = NoRequest]
  /\ UNCHANGED <<orderVars, cartVars, planVars, stmt, callVars, job>>

\* The client's own timeout (60 s, half the server's): it closes the connection,
\* which ends the request's context, and counts the request as failed.
GiveUp(r) ==
  /\ waiting[r] # NoRequest
  /\ answer[waiting[r]] = "none"
  /\ ctx' = [ctx EXCEPT ![waiting[r]] = "ended"]
  /\ todo' = [todo EXCEPT ![r] = {}]
  /\ waiting' = [waiting EXCEPT ![r] = NoRequest]
  /\ UNCHANGED <<orderVars, cartVars, planVars, stmt, fn, done, answer, job>>

--------------------------------------------------------------------------------

CartStep(c) == SubmitCart(c) \/ Create(c) \/ CreateFails(c) \/ CommitOrders(c)

PlanStep(p) ==
  \/ BeginTx(p) \/ GetShippingOrders(p) \/ SelectOrdersForDelivery(p)
  \/ UpdateStatuses(p) \/ Commit(p) \/ CommitLands(p) \/ CommitLost(p)
  \/ PlanReturns(p) \/ PlanFails(p) \/ AwaitDone(p)

PatchStep(q) == PatchLands(q) \/ PatchLost(q) \/ PatchReturns(q) \/ PatchFails(q)

RobotStep(r) ==
  \/ RequestPlan(r) \/ ReceivePlan(r) \/ SendPatch(r) \/ ReceivePatch(r) \/ GiveUp(r)

Next ==
  \/ \E c \in Carts : CartStep(c)
  \/ \E p \in PlanIds : PlanStep(p)
  \/ \E q \in Patches : PatchStep(q)
  \/ \E q \in Requests : EndContext(q) \/ Answer(q)
  \/ \E r \in Robots : RobotStep(r)

Spec == Init /\ [][Next]_vars

\* The deadline of a context passes, a select with a ready case and a rollback
\* of database/sql go on, the server ends a commit, a robot takes an answer.
\* The goroutines themselves are not assumed to get anywhere.
Fairness ==
  /\ \A q \in Requests : WF_vars(EndContext(q)) /\ WF_vars(Answer(q))
  /\ \A p \in PlanIds : WF_vars(AwaitDone(p)) /\ WF_vars(CommitLands(p) \/ CommitLost(p))
  /\ \A r \in Robots : WF_vars(ReceivePlan(r) \/ ReceivePatch(r))

FairSpec == Spec /\ Fairness

--------------------------------------------------------------------------------
(* Properties *)

(* A customer's orders appear all together or not at all: an order a robot  *)
(* can see never belongs to a cart whose transaction is still open, and a   *)
(* 201 is sent only for orders that are there (ExecTx around the INSERTs).  *)
CartsAreAtomic ==
  \A c \in Carts :
    /\ cart[c] = "inserting" => \A o \in ids[c] : status[o] = "none"
    /\ cart[c] = "created" => \A o \in ids[c] : status[o] # "none"
    /\ \A o1, o2 \in ids[c] : status[o1] = "none" => status[o2] = "none"

\* n is the last positive quantity that the items give for product p, 0 if there
\* is none.
IsLastPositive(items, p, n) ==
  LET given == {i \in DOMAIN items : items[i].product = p /\ items[i].quantity > 0}
  IN \/ given = {} /\ n = 0
     \/ \E i \in given : items[i].quantity = n /\ \A j \in given : j =< i

(* A 201 stands for the pieces this customer asked for: of each product as   *)
(* many rows as the last positive quantity in the request says and nothing    *)
(* else, in whatever order the products are inserted, whatever other carts    *)
(* insert meanwhile and whatever ids that leaves to this one.                 *)
CartsHoldWhatWasAsked ==
  \A c \in Carts : cart[c] = "created" =>
    \A p \in Products :
      IsLastPositive(asked[c], p, Cardinality({o \in ids[c] : product[o] = p}))

(* A robot is told to go only with a plan that is in the database: an "ok"  *)
(* for a plan means its transaction has committed, and an "ok" for a report *)
(* means its UPDATE has landed, although WithTimeout may answer before the  *)
(* goroutine does.                                                          *)
OkMeansDurable ==
  /\ \A p \in PlanIds : answer[PlanCall(p)] = "ok" => tx[p] = "committed"
  /\ \A q \in Patches : answer[q] = "ok" => stmt[q] = "landed"

(* An order is delivering, or completed, only because a committed plan holds *)
(* it: a plan that timed out before its commit leaves no trace, and a report  *)
(* names only orders of a committed plan, however late it lands.             *)
TakenIsPlanned ==
  \A o \in OrderIds : status[o] \in {"delivering", "completed"} =>
    \E p \in PlanIds : tx[p] = "committed" /\ o \in chosen[p]

(* Once a plan has taken an order it never goes back into the pool the next *)
(* plan is chosen from, whatever fails or times out afterwards, and no row  *)
(* disappears.                                                              *)
NeverBackToShipping ==
  [][\A o \in OrderIds :
       /\ status[o] \in {"delivering", "completed"} => status'[o] \in {"delivering", "completed"}
       /\ status[o] = "shipping" => status'[o] # "none"]_vars

(* No order is reported by two plans: GetShippingOrders and UpdateStatuses  *)
(* together hand an order to one robot only.  True of a single sequential   *)
(* robot, although the transaction of a request it has given up on may      *)
(* still be running under its next one.                                     *)
ReportedOnce ==
  \A p1, p2 \in PlanIds : \A o \in OrderIds :
    stmt[<<p1, o>>] # "none" /\ stmt[<<p2, o>>] # "none" => p1 = p2

(* An order whose completion was confirmed stays completed.                 *)
CompletedStays ==
  [][\A o \in OrderIds : status[o] = "completed" => status'[o] = "completed"]_vars

(* WithTimeout: the goroutine's send never waits for a caller that has left. *)
SendNeverBlocks == Call!SendNeverBlocks

(* The abstract life of an order. *)
Lifecycle == INSTANCE OrderLifecycle

(* A single robot's backend implements it: stale transactions included, a   *)
(* status only moves forward, a plan takes its orders in one step.          *)
ImplementsLifecycle == Lifecycle!Spec

(* Every request of a robot ends, with an answer or the robot's own         *)
(* timeout, even if the search or a lock wait never does (the comment on    *)
(* WithTimeout).                                                            *)
RequestsEnd == \A r \in Robots : waiting[r] # NoRequest ~> waiting[r] = NoRequest

(* No transaction keeps its row locks for ever: the context's end releases  *)
(* them even when the goroutine is stuck.                                   *)
LocksReleased == \A p \in PlanIds : Locks(p) # {} ~> Locks(p) = {}

================================================================================
