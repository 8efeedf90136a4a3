# A verification project for the robot delivery web shop

The repository is a performance-tuning contest: a web shop whose orders are delivered by robots
(`webapp/`), the load-test workers that score the contestants' VMs (`benchmarker/worker/`), and the
scripts that start a grading run. This directory holds TLA+ models of its stateful parts, the
TLC configurations that check them, and proofs for TLAPS.

Paths below are relative to `src/`; `backend/` stands for `webapp/backend/internal/`,
`worker/` for `benchmarker/worker/`, `frontend/` for `webapp/frontend/src/`.

## 1. The system

| Component | State | Operations | What is hard about it |
|---|---|---|---|
| Request timeout, `backend/service/utils/timeout.go` | goroutine, derived context, one-place channel per call | `WithTimeout` | answer and goroutine race; the goroutine outlives its caller |
| Order creation, `backend/service/product.go` | `orders` rows, a transaction | `CreateOrders` | rows inserted one by one under readers; a commit whose reply is lost |
| Delivery plans and reports, `backend/service/robot.go`, `repository/order.go`, `repository/store.go` | `orders.shipped_status`, snapshots, row locks | `GenerateDeliveryPlan`, `UpdateOrderStatus` | snapshot read, long search, blind UPDATE; context end against commit |
| Plan search, `backend/service/robot.go` | stack, slices, best set | `selectOrdersForDelivery` | aliasing of Go slices, cancellation every 16384 steps |
| Lists, `backend/repository/{product,order}.go`, handlers | none (read-only) | `List`, `ListProducts`, `ListOrders` | paging bounds, comparators with NULL |
| Sessions, `backend/service/auth.go`, middleware, login/logout pages | `user_sessions`, cookie | login, `FindUserBySessionID`, logout | two roundings of the expiry; replies of logins that were left, repeated or timed out; a cookie shared by tabs |
| Robot client, `worker/scenarios/robot.js` | the plan it works on | plan, report, report, … | own timeout, half the server's |
| User journey, `worker/scenarios/userJourney.js` | none kept | straight-line requests | – |
| Load-test workers, `worker/{main,queue,lock,worker,postScore}.go` | Azure table row per request, queue message, dead-letter queue, score | `pollQueue`, `processMessage` | at-least-once delivery, check-then-act on the table, ignored errors, crashes |
| Order history and product pages, `frontend/app/{orders,product}/page.tsx` | query, rows, totals, quantities, `isLoading` | the handlers | responses that overtake each other, disabled and not disabled inputs |
| Grading scripts, `run.sh`, `restore_and_migration.sh`, `get_test_status.sh`, `webapp/restart_container.sh` | what the database holds, whether the backend runs, the step of each run | check, restart, restore, migrate, e2e, request, poll | exit codes and missing replies that are not looked at; runs that overlap |
| Scoring, `worker/cmd/runner`, `worker/score` | two counters of k6 | sum | a counter that k6 never touched is absent |
| Telemetry, images, database pool, VM set-up, e2e tests | – | – | see section 8 |

Interactions: the pages call the backend's handlers; a customer's `CreateOrders` and the robots'
plans and reports meet in the `orders` table; the robot handlers wrap their service call in
`WithTimeout`, whose context reaches the transaction; the workers share the Azure table and queue
and run the k6 scenarios (the robot client) against one VM per team; the grading scripts put a
request on that queue, through the intermediate server, and prepare the VM it will be run against.

### What makes each part correct

* Orders: a cart's rows appear together; an order is handed to one robot; a robot is told only what
  the database holds; a status never moves backwards; every request ends and releases its locks.
* Search: the load is one of the highest value within the capacity; the search ends, and notices
  that nobody waits for it.
* Lists: the pages together are the list, in its order, each row once.
* Workers: one test per team at a time; a message goes away only with its outcome on record; a row
  agrees with what happened; every request is settled.
* Grading: a load test is run on a system that passed its e2e tests and holds the load test's data; a
  team's requests do not meet; whoever waits for an outcome is shown one.
* Sessions: a cookie the browser sends is accepted by the backend; it belongs to the last login; after
  a logout there is none; neither page waits for ever.
* Pages: what is shown is what was asked for; what was typed is ordered, once.

## 2. Modules

| Module | Models | State ↔ code |
|---|---|---|
| `WithTimeout` | one call of `WithTimeout` | `fn` the goroutine, `ctx` the derived context, `done` the channel's buffer, `answer` what the caller got |
| `Fulfilment` | `CreateOrders`, `GenerateDeliveryPlan`, `UpdateOrderStatus` and the robots; instantiates `WithTimeout` for every request | see below |
| `OrderLifecycle` | the abstract life of an order: place, assign, complete | `status` |
| `Knapsack` | reference definition of the best load | – |
| `Arrange` | what filtering or sorting a sequence does (the places that are kept, in an order, without recursion, so that it can be proved about), and the slice of it that LIMIT and OFFSET take | – |
| `SelectOrders` | the search, one call of `dfs` per step | `call`, `stack` the recursion; `heap` the backing arrays of Go slices |
| `Listing` | the two list endpoints and a walk through their pages | `req` the validated request, `shown` the rows received |
| `LoadTestQueue` | the workers | `row`/`fresh` the table, `queue`/`holder` the message and its pop receipt, `pc` the place in `processMessage` |
| `RequestLifecycle` | what a team sees of its load-test request: waits, runs, finished with a score or failed without; what may happen once something was lost | `status`, `scored`, `lossy` |
| `GradingRun` | `run.sh`, the restore, the local runner and `get_test_status.sh`; extends `LoadTestQueue` | `stage` the command a run is at, `db` what the database holds, `up` the backend, `shown` and `score` what is printed |
| `ListPage` | state and handlers of the two list pages, each with the endpoint it asks | `endpoint` which of the two; `query`, `pending`, `rows`, `totalCount`, `isLoading` of the page; `inflight` the requests not answered, `overtaken` whether an answer has come before an older one's |
| `ProductPage` | both pages: `ListPage`, on the product page with quantities and the order button | `typed` the quantities, `posts` the orders not answered, `ordered` how often the backend took each, `repeats` the replies lost and the presses while an order was under way |
| `Sessions` | login, `user_sessions`, the cookie, login and logout pages in several tabs; instantiates `WithTimeout` for every login | `rows` the table, `step` the place in the closure of `Login`, `cookie` the jar, `page` and `isLoading` the tabs, `request` a login as the browser sees it |
| `MC…` | constants for TLC | – |
| `FulfilmentProofs` | the theorems about `Fulfilment`: for any robots, about the pieces of a cart, and for a single robot | – |
| `SelectOrdersProofs` | sums over finite sets, and the theorems about the search | – |
| `ArrangeProofs`, `ListingProofs`, `PageProofs` | the theorems about arranging a sequence, about the lists, and about the pages | – |
| `LoadTestQueueProofs`, `GradingRunProofs` | the theorems about the workers, and about the scripts composed with them | – |
| `SessionsProofs` | the theorems about `Sessions` | – |

Definitions marked `Defect` are variants of the definition that follows them, with a mistake a
programmer might make there. No specification uses them; putting one in the place of the original
must make the property named for it in `PROJECT.json` fail.

### Fulfilment

`status` is the committed column. A cart's rows exist from `Create` on (`ids`, `product`) but stay
`"none"` in `status` until `CommitOrders`: other transactions do not see them. `asked` keeps the items of
the request. `ItemsToProcess` is the handler's loop, item by item, as a recursive function; what its
result should be is said without it, by `CartsHoldWhatWasAsked`: of a product listed several times
the last positive quantity counts (`IsLastPositive`). A plan's transaction
is `tx` (`open`, `locked` after the UPDATE, `committing` while COMMIT is on its way, `committed`,
`aborted`) and its goroutine is at `pc`; the two move apart because `database/sql` rolls back on its
own when the context ends (`AwaitDone`). The row locks of a transaction are those of the orders it
has updated. REPEATABLE READ is modelled by `snapshot`, read once; the UPDATE works on current rows.
A report is one autocommitted UPDATE, `stmt`; it may land after its goroutine has given up.
Every statement may fail; a COMMIT may land with its reply lost.

Product weight and value are constants since nothing writes them. The PATCH endpoint takes any
string as a status; robots send `completed`, and that is what is modelled. AUTO_INCREMENT ids are
not reused after a rollback, as in InnoDB.

### SelectOrders

A step is one call of the closure `dfs`: pruned, canceled, a leaf, or a descent. The second
recursive call is a tail call, so `stack` holds the callers that wait for the first. `append` writes
in place when the array has room and allocates one of twice the size otherwise, which is what the Go
runtime does for short slices; the copy taken for the best set gets an array of its own.

### Listing

The database orders products by `ORDER BY field direction, product_id ASC`; `ListOrders` sorts
stably with hand-written comparators. Handlers validate page and size; only `ProductHandler.List`
sets `Offset`. The table does not change during a walk. Filter and sort are given by the places of
the rows (`Arrange`): the k-th row of the result is the one at the place that k - 1 kept places come
before, `LeftToRight` for a filter, by the comparator and then by place for a stable sort.

### LoadTestQueue

One step per call to Azure or to the intermediate server. `holder` is the worker whose pop receipt
is valid: a message that became visible again and was taken by another cannot be deleted by the
first. `fresh` abstracts the clock of the one-hour filter. What may go wrong in a behaviour is a set
of names, `faults`, chosen at the start among `FaultSets`; properties that need the absence of some
faults say so (`NoOverrun`, `InTime`). `lost` records the requests a status of which was not written; a lost reply to
an upsert that landed is not among them (`TryStatus`, `CheckFails`). A message that is not JSON (`"malformed"`) never gets a row: the worker
keeps a copy and deletes it. `RequestLifecycle` is refined with `lossy` standing for "something that
was lost is possible or has happened", so that a row the code settles twice, or a failed request
with a score, is allowed only then.

### GradingRun

A step is a command of a script. The run and the request it makes share a name, which stands for the
job id run.sh is given in the reply. `remote` tells a VM of the contest from a machine of one's own,
where the local runner takes the place of the queue. The intermediate server (it refuses a second request of a team)
is external and modelled from how
the scripts use it; the e2e tests stand for what they need, a running backend and the e2e data. A command the restore checks may fail in any run and ends it; the faults are
what nobody looks at: `"unchecked"` (a migration, the restart), `"replies"` (a `curl` without reply),
`"overlap"` (a second run.sh). The data of the e2e tests is three files; only the last one's exit
code counts, so any subset with the last in it goes on.

### ListPage and ProductPage

The two pages have the same handlers and differ in what they are answered. `Response` is the handler
of the `endpoint`: the products' takes the page asked for; the orders' never computes an offset, so
that every page is the first (finding 2). Without a hit both send `data: null`, which the product page
reads as an empty list and the orders page keeps (`NoData`). Matching and sorting is the subject of
`Listing`; here a search finds some of the items (`Hits`) and a list has two directions.

A handler that changes the query re-renders, and the effect sends a request for the new query; the
response of any request replaces the rows. `overtaken` records that this happened out of order, since
the page last waited for no answer: the condition under which older rows may stay. What may complicate a behaviour is a set of names, `may`,
chosen at the start among `Conditions`. A quantity is represented by the entry that typed it, so
that ordering it twice can be seen. When the total shrinks below the page, the grid steps back in an
effect of that render (`GridStepsBack`), hence before the user's next event: `UserStep` waits for it
(`PastTheEnd`). Were the user able to sort first, a request for the old page and one for the last
would be under way together without the user having sorted while rows are loading.

### Sessions

A session is named after the login that created it, so that it can be told which attempt a cookie
belongs to. A login's goroutine checks the password, inserts the row and deposits its result;
`Answer` is the `select`. The reply has two effects in the browser, one after the other: its header
fills the cookie jar, then the page's code runs; loading another page by its address aborts what is
still on its way. Logout clears the cookie and leaves the row. Time counts in ticks, two to the
second: the row's expiry is rounded (MySQL `DATETIME`), the cookie's is cut (`net/http`). The server,
the database and the browser share a clock, and a broken connection is noticed in the end. The
browser's history buttons are left out; so are the list requests of the shop's pages, for which
`UserAuth` says whether they would be let in.

## 3. Runs

| Run | Shows | Bounds, and why they are enough |
|---|---|---|
| `one_robot` | a single robot: `OrderLifecycle` is implemented, no order is reported by two plans, goroutines can always deposit their result; with fair timers every request ends and locks are released | 2 orders, 2 plans: the second plan runs beside a stale transaction of the first, and a plan can take one or both orders |
| `carts_and_robots` | two robots and two customers: told only what is durable, delivering and completed orders belong to a committed plan, nothing goes back to shipping, carts are atomic, and each holds what it asked for | 2 carts insert by turns beside one plan, or 2 plans of different robots overlap in every way, the first beside the cart and the second asked for once it is confirmed (`Bounded`, which also names the first cart and the first robot, all being alike); carts of one piece of each and of two of a kind, from products listed more than once (a smaller quantity later, 0 at the end), and of nothing |
| `completed_stays` | **violated**, finding 1 | 1 order |
| `best_load` | the plan is a best load; the search ends and sees its cancellation | 5 orders of 4 kinds: the smallest list for which a slice with spare room is extended twice; up to 3 of every small kind; a negative, a tight and a loose capacity |
| `lists` | pages of products are the list; both lists are sorted; the directions mirror each other | up to 3 rows with every mix of ties, NULL and matches; pages shorter than, equal to and longer than the list, and the default |
| `order_pages` | **violated**, finding 2 | as `lists` |
| `queue_faults` | the workers: one test per team, nothing left behind or unaccounted for, scores counted, `RequestLifecycle` implemented | 2 workers and 2 requests of one team: a worker blocks, overtakes or repeats the other's work; one crash, any number of failing calls or of overruns, or a message that is not JSON |
| `grading` | the scripts with the workers: requests of a team do not meet, tests are prepared, an outcome is shown | 2 runs of a team, after each other or overlapping, and another team's request; 2 workers, so that one blocks the other; one crash; counters of 0 and 1, or missing |
| `queue_one_vm` | **violated**, finding 3 | 1 request, 2 workers |
| `queue_starve` | **violated**, finding 4 | 2 requests of a team, 1 worker, no fault |
| `page_orders` | both pages: what is shown answers the query shown, the page exists, nobody is locked out; what is ordered and how often | 2 products on one or two pages, a search that finds both, one or none; 2 requests and 2 orders under way: one overtakes the other, and another follows; failing orders alone, failing list requests alone, both with overlapping requests, and lost replies with double clicks, at most 2 of them |
| `sessions` | the cookie names a live session and the last login, logging out works, login and logout end | 2 logins, 2 tabs: replies overtake each other in one tab or across two; a lifetime of one second, half-second ticks and a clock of 3, so that a row outlives its cookie and both expire; the complications are taken in four combinations |

Bounds that a guard enforces: `MaxOrders`, `MaxPlans` (Fulfilment), `MaxCrashes`, and `MaxPosted`
up to which scores are counted (LoadTestQueue), `MaxInFlight`, `MaxEntries`, `MaxPosts`, `MaxRepeats` (the pages), `MaxLogins`, `MaxNow` (Sessions),
`MaxCount` (GradingRun), and `Bounded` of `MCFulfilment` for the run `carts_and_robots`.
`MaxPosted` is one more than any value `ScoredOnce` allows. Deadlock is not checked where the system
really stops: carts and plans are bounded, a walk ends with the last page, the search returns, and
workers with an empty queue only poll. It is checked for the pages and the sessions, where a user can always act.

What a property takes for granted, and would be false without (the hazards in `PROJECT.json` say where):

* `OneTestInTime` and `DeletedIsSettled`: no limit passes under a worker. Calls may fail, and the
  properties name what it takes: a status of one of the requests was not written. `ScoredOnce`: no call
  fails either.
* `SettledShowsQuery`: no answer was overtaken. It holds of users who sort while rows are loading and
  of requests that fail, which leave no rows. Of the orders it says that the screen shows the first
  page of the list whatever page the query names; what the grid makes of `null` rows is its own affair.
* `PageExists`: the user does not sort or resize while rows are loading, and no request fails.
* `OrderedOnce` counts one order for each reply that was lost and each press of the button while an
  order was under way.
* `CookieOfLastLogin`: the login button is not pressed again while a login of the tab is under way.
  `LoggedOutIsOut`: one tab. `CookieIsAccepted`: the database is not restored.
* `RequestsDoNotMeet`: in time and without a crash. The part of `TestIsPrepared` about the data: runs one
  after the other (`OneAfterTheOther`). `OutcomeIsShown` leaves out requests that a crash has made block
  each other.

## 4. Fairness

* `Fulfilment`: deadlines pass and a ready `select` proceeds (`EndContext`, `Answer`),
  `database/sql` rolls a cancelled transaction back (`AwaitDone`), the server or the connection ends
  a commit, a client takes an answer that is there. Goroutines are **not** assumed to proceed: the
  search or a lock wait may hang, which is the case `WithTimeout` exists for.
* `SelectOrders`: the goroutine runs (`WF` on the search).
* `LoadTestQueue`: a worker proceeds within a message (a crash hands the message on); a hidden
  message becomes visible; a message that is visible again and again is taken in the end (`SF` on
  `Dequeue`: every worker polls the queue for ever, main.go:108). `FairSpec`, which only the violated
  run uses, adds that requests arrive.
* `GradingRun`: the same for the workers, and every command of a script ends. Nobody has to start a
  run.
* `Sessions`: the deadline of a login passes and its `select` proceeds, replies arrive and the page's
  code handles them, a server action returns. The goroutine of a login may hang.

## 5. Findings

1. `backend/repository/order.go:42`. Two robots that plan at the same time read the same shipping
   orders. The second UPDATE names ids only, so an order already completed is `delivering` again.
2. `backend/handler/order.go:35`. `Offset` is never computed: every page of the order history is the
   first one.
3. `worker/lock.go:61`. A message that reappears during its own long test is not recognised as a
   duplicate: two tests run against one VM.
4. `worker/queue.go:71`. Two requests of a team each mark themselves running before looking at the
   other: both are skipped for ever.

Met on the way and not listed as findings, since no run shows them:

* on a page whose sorting or size is changed while rows are loading, an overtaken answer stays on the
  screen (`frontend/app/product/page.tsx:64`);
* a list without hits is sent as `data: null` (`backend/repository/order.go:86`); the order history hands
  it to its grid as it is (`frontend/app/orders/page.tsx:81`), the product page does not;
* only the quantities on the screen are ordered, and those of all pages are cleared
  (`frontend/app/product/page.tsx:89`, `:109`);
* the login button stays enabled while a login is under way (`frontend/app/login/page.tsx:182`), so the
  session may be that of an earlier press;
* a logout whose call fails leaves its page at the message that it is under way
  (`frontend/app/logout/page.tsx:14`);
* on a machine of one's own the load test is run even when the e2e tests failed (`run.sh:130`), while
  `documents/md/rules/03_Scoring.md:14` makes them a condition;
* run.sh goes on when the check for an earlier request gets no reply (`run.sh:45`); the intermediate
  server then refuses the second request;
* the restore looks at the last of its three commands only, and not at a migration
  (`restore_and_migration.sh:33`);
* a worker that crashes after it has marked a row finished and before it deletes the message brings
  the request back; with a newer request of the team on the queue the two skip each other for ever.

## 6. Proofs

Every theorem is for any values of the constants. The assumptions are the named `ASSUME`s of the
modules (`BoundsAssumption`, `ProductAssumption`, `OrderAssumption`, `CapacityAssumption`,
`CheckAssumption`, `ListingAssumption`, `ListAssumption`, `QueueAssumption`, `RunAssumption`,
`SessionAssumption`: bounds are natural numbers, item lists are sequences of product and integer
quantity, weights and values are unsigned as in `mysql/init/init.sql`, a capacity or a page size asked
for is any integer, a table is a sequence of rows, the unreadable requests are requests, runs are of
one team, …); TLC evaluates them in the runs. Each module has the same outline: an inductive invariant
(`IInv`, `SInv`, `RInv`, `LoadInv`), one lemma per action with one step per conjunct the action
touches, and theorems that follow from the invariant.

Every invariant and every action property that a run finds to hold is a theorem here; what TLC alone
shows is in section 7.

### `FulfilmentProofs`, first part: any number of robots

* `TypeCorrect`: `Spec => []TypeOK`
* `CartsAtomic`: `Spec => []CartsAreAtomic`
* `OkDurable`: `Spec => []OkMeansDurable`
* `OrdersArePlanned`: `Spec => []TakenIsPlanned`
* `NoWayBack`: `Spec => NeverBackToShipping`
* `SendersLeave`: `Spec => []SendNeverBlocks`

Only `TakenIsPlanned` is a part of the invariant as it stands. `IInv` adds to it and to `TypeOK`:

* `IdsAreFresh`: no row has an id the counter has not reached, and no two carts share an id — else a
  commit could make rows of another cart visible;
* `RowsFollowCarts`: the status of a cart's rows follows from the cart's state;
* `PlansHoldRows`: what a snapshot or a chosen set names are rows that exist — else a plan's commit
  could create one;
* `TxFollowsPc`: the transaction of a goroutine that has not come to Commit is not committed, however
  `AwaitDone` moves it;
* `UnusedIsClean`: a request that was not made has left no trace;
* `OkIsBacked`: a result in the channel or an answer of "ok" is backed by the commit or the UPDATE;
* `ReportsArePlanned`, `WaitingWasMade`: what a robot reports and waits for comes from a plan it was
  answered with.

`NoWayBack` is a case distinction on the three actions that write `status`; `SendersLeave` needs that
a goroutine which runs after a step ran before it or was just started (`RunningIsStarted`).

### `FulfilmentProofs`, second part: the pieces of a cart

* `AskedAndInserted`: `Spec => []CartsHoldWhatWasAsked`: the rows of a created cart number, for each
  product of the list it sent, the last positive quantity listed, and none of other products

`NothingGetsLost` adds to `IInv` that, for one item list, the number of rows of each product and what
remains of it make up the quantity in `ItemsToProcess(asked[c])`. An INSERT moves one from the second to the first; that it adds a
row, and that no other cart's rows change their product, rests on `IdsAreFresh`. That the loop yields
the last positive quantity (`LastPositiveIsProcessed`) is an induction over the items it has read
(`LoopKeepsLast`), in the form of a least counterexample (`CountUp`).

### `FulfilmentProofs`, third part: a single robot

* `OneReport`: `SingleRobot` implies `Spec => []ReportedOnce`
* `Refinement`: `SingleRobot` implies `Spec => ImplementsLifecycle`

Neither holds of two robots (finding 1). What is hard with one is the request the robot has given up
on: its goroutine may still search, and its COMMIT may still be on its way, beside the next plan.
`SInv` says why that does no harm:

* `CallsAreAwaited`: a context lives only while the robot waits for its call, so an earlier plan can
  send no statement any more; `JobIsLast`: the robot is at the last plan requested;
* `PlanFollowsPc`: what a plan holds at each place of its goroutine;
* `StatusFollowsPlans`: orders of a committed plan are taken; only reports complete them;
* `LaterPlansDiffer`: once the robot was told of a plan, no later plan holds its orders — they were
  not shipping any more when the later snapshot was read;
* `LocksArePassedOn`: the UPDATE of a plan waited for the locks of the earlier ones, so a COMMIT under
  way shares no order with a later plan that has got past its UPDATE.

A commit therefore takes no completed order (`TakenFromThePool`), and a report completes an order
that was taken (`ReportedIsTaken`): the two facts the refinement rests on. With `CommitOrders` they
are the only actions that write `status`; each maps to `Assign`, `Complete` or `Place`, or stutters.

### `SelectOrdersProofs`: the search

* `TypeCorrect`: `Spec => []TypeOK`
* `CancelSeen`: `Spec => []CancelIsSeen`
* `BestIsOwn`: `Spec => BestIsNotWritten`
* `PlanIsOptimal`: `Spec => []PlanIsBest`
* `MovesOn`: `Spec => SearchMovesOn`

`BestIsNotWritten` (stated in the proof module) is the part of `PlanIsBest` about Go slices: an
`append` to the set of another call never changes the best set that was recorded. `IInv` says that
every slice lies within its array (`Fits`), that a call has chosen at most as many orders as it has
decided on, and that no call's slice has the array of the best set (`Sound`); `AppendedFits` and
`SavedFits` state what `append` does for any slice, and `ReturnIsSound` is the step they are needed
for. `LateSteps` counts what `CancelSeen` bounds: the steps after the end of the context are no more
than the remainder of all steps by `CheckEvery`.

`PlanIsOptimal` rests on a second invariant, `LoadInv`, about what the slices hold (`Held`):

* `Weighed`: a call holds orders it has decided on, with their weight and value. A set has no order of
  its own, so this needs that a sum does not depend on the order of its terms (below);
* `Under`: a call lies in the branch of its caller that leaves the caller's order out, and what it
  appends to an array they share comes after the caller's part — else `append` in one branch would
  change what another holds;
* `NoneForgotten`: every load that fits is worth no more than the best one so far, or starts like what
  the call holds (`Agrees`), or is left to the second branch of a caller (`Waiting`);
* `BestIsLoad`: the best set fits, is worth what was recorded, and has no order of value 0.

A pruned call loses no load, since a load weighs at least what a part of it weighs (`TotalGrows`). A
descent divides the loads at hand between the two branches, and a return hands what waited for the
caller to the next call (`ReturnKeepsLoads`). That no order of value 0 is in the best set is not said
by any line of the code: the load without it was looked at before, and the search keeps a load only
for a higher value (`LeafHolds`). `MovesOn` is the measure by which the search ends: each step leaves
a smaller set of orders `Pending`, or decides on one more order.

`Total` is a fold of the community modules over a finite set. `Least` and `SmallestFailure` give
induction over the size of finite sets, from the well-foundedness of the natural numbers; `SumsExist`
and `SumsAgree` show that the function the fold is defined by exists and is the only one, so that
`TotalUnfolds`, `TotalWithout` (any member can be the one taken out), `TotalWith` and `TotalGrows`
follow for any finite set.

### `ArrangeProofs`: filtered and sorted sequences

`ArrangedIsSeq` is what the next two modules use: for any set of places and strict total order of
them, `Arranged` is a sequence with one entry for each place. It rests on `PlaceIsRanked`: exactly one
place has k - 1 others before it. `PlacesInOrder` says that entries come in the order of their places,
`LeftToRightIsTotal` that a filter is an instance.

### `ListingProofs`: any table, page size and order

* `TypeCorrect`: `Spec => []TypeOK`
* `PagesCover`: `Spec => []ProductPagesCoverTheList`
* `HeadIsShown`: `Spec => []ShownIsTheHead`
* `TurningRound`: `Spec => []DirectionsMirror`

`IInv` says that what has been shown is the head of the sorted list up to the pages asked for
(`ShownIsCovered`) and that the walk ends only when they cover the total (`WalkFollowsTotal`).
`LessIsWeakOrder` shows that every comparator, NULL dates included, orders the rows; with the place as
the last criterion it becomes a total order (`SortOrderIsTotal`), so that a stable sort has one
result. `SliceOfPage` is the arithmetic of the offset: a page starts where the one before it ended.
It holds of the orders' first page only (finding 2).

### `PageProofs`: any list, products and bounds

* `TypeCorrect`: `Spec => []TypeOK`
* `RowsMatchQuery`: `Spec => []SettledShowsQuery`
* `PageIsThere`: `Spec => []PageExists`
* `NeverLockedForGood`: `Spec => []LockedMeansDue`
* `TypedOnceOrderedOnce`: `Spec => []OrderedOnce`
* `ConfirmedLeavesForm`: `Spec => []ConfirmedIsCleared`

`ListInv` adds to the properties of the list `LatestIsLast` (as long as no answer has overtaken an
older one, the last request under way is that of the query shown), `OneAtATime` (without overlap it is
the only one, and the grid does not step back meanwhile) and `TotalFitsPage` (without failures the
total is that of the search, or is due and the page is the first). `AnswerIsShown` states what an
answer looks like on either page, `data: null` included: the slice of the page asked for, or of the
first one, has the rows `RowsArePage` describes without slices. `HitsAreItems` and `ListedRows` take
what they need of the filtered list from `ArrangedIsSeq`.

`IInv` adds, for the orders, `OnlyUsed` (what is in the form or under way has been typed) and
`RepeatsAccountForAll`: there is at most one order under way more than there were repeats, what is still
in the form has been taken no more often than there were repeats, and what is under way no more often
than the repeats and the orders under way leave room for.

### `LoadTestQueueProofs`: the workers

* `TypeCorrect`: `Spec => []TypeOK`
* `OneTest`: `Spec => []OneTestInTime`
* `OutcomeKept`: `Spec => []DeletedIsAccountedFor`
* `NoRowLeftBehind`: `Spec => []DeletedIsSettled`
* `ScoresBounded`: `Spec => []ScoredOnce`
* `Refinement`: `Spec => ImplementsRequests`

`IInv` adds to `TypeOK`: `JobsExist`, `RowsExist` and `TestsHaveStarted` (a worker is at work on a
request whose message and row exist, and whose row it has marked); `OutcomesAreOnRecord` (what a
worker is about to write down is true: a score was posted, or a copy is in the dead-letter queue); and,
as long as no limit passes under a worker, `JobsAreHeld` (the worker holds the only valid pop receipt),
`RowsFollowWork` (the row of a request at work is fresh and says so, or a status of it was not
written), and `TeammatesAreRead`: of two workers on requests of a team none of whose statuses was lost,
one has yet to read the other's row, and will skip; for calls that succeed as well, `NothingIsLost`,
`ScoresAreCounted` (every score but one was followed by a crash) and `SettledIsLeaving`. `TeammatesAreRead` is why check-then-act on the table works here — marking comes before reading
— and `OneTest` follows from it, since a worker that tests has nothing left to read. The refinement
maps every action to the step of its request; where a row is written again, the invariant yields
that something was lost.

### `GradingRunProofs`: scripts and workers together

* `QueueOfRuns`: `RunSpec => Spec`, the composition implements `LoadTestQueue`, so that `IInv` above
  holds of it (`LoadTestQueueProofs` is used, not repeated)
* `RunTypeCorrect`: `RunSpec => []RunTypeOK`
* `OneRequest`: `RunSpec => []RequestsDoNotMeet`
* `Prepared`: `RunSpec => []TestIsPrepared`

`RInv` adds `TestedBeforeRequest` (a request that was made follows passed e2e tests),
`DatabaseComesFirst` (what the database holds at each step of a restore), `RestoresInTurn` and
`NoRestoreBehindARequest` (of runs one after the other, nobody restores while a request waits or
runs).

### `SessionsProofs`: any tabs, logins, clock and lifetime

* `TypeCorrect`: `Spec => []TypeOK`
* `CookieAccepted`: `Spec => []CookieIsAccepted`
* `LoggedOut`: `Spec => []LoggedOutIsOut`
* `LastLoginWins`: `Spec => CookieOfLastLogin`

`IInv` adds `OkIsCreated` (an "ok" comes from a goroutine that has inserted its row), `CookieIsBacked`,
`RowsOutlastCookies` (for a database that is not restored), `LastIsUnderWay` (without a second
press, the login a tab has under way is the last of that tab), `LogoutIsAlone` and `ClearedStaysCleared`. The lemmas
`Division`, `DivisionIsMonotone` and `Seconds` show, for any number of ticks in a second, that the
row's rounded expiry is not before the cookie's cut one.

## 7. What is only model-checked

* Liveness (`RequestsEnd`, `LocksReleased`, `SearchEnds`, `OutcomeIsShown`, `LoginEnds`, `LogoutEnds`)
  is beyond the prover. Of `SearchEnds` the part that is not scheduling is proved (`MovesOn`).
* The findings are runs that violate a property, and so say nothing about larger instances but that
  the behaviour exists.

## 8. What is not modelled

* Of scoring: the files k6 and the scorer exchange, and `localRunBench.go`, a variant of the runner.
* Of the database pool and the start-up: the limits (25 connections against 10 of the server) appear
  as statements that may fail; the routes are set up once.
* Of the grading scripts: messages, the choice of the network and of the host name.
* Telemetry: observes. Images: read a file. VM set-up: run once.
* Worker leftovers: `dlq.go`'s `enqueueToDLQ` and `nowUTC` have no caller.
* The user journey of k6: straight-line requests that keep no state; the e2e tests appear by what
  they need of the system.
* Offsets near the limits of 64-bit integers in the lists.
* A lock wait of `CreateOrders` that never ends: it runs without `WithTimeout`, so the code promises
  nothing about it (the hazard is listed without a property).

## 9. Plan

Done: the core in the order `WithTimeout`, `Fulfilment` with `OrderLifecycle` and `Knapsack`, its
proofs, `SelectOrders`, `LoadTestQueue`, `Listing`, `ListPage`, `ProductPage`, `Sessions`; then
`RequestLifecycle` and the refinement, `GradingRun`, and the proofs about the carts, the search, the
workers, the scripts, the sessions, the single robot, the plan search, the lists and the pages.

Left: the user journey as a client of `Sessions` and `Fulfilment`, which would bring the login of many
users into the order model.
