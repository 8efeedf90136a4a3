------------------------------- MODULE ListPage --------------------------------
(***************************************************************************)
(* The two list pages of the frontend, product/page.tsx and orders/page.tsx, *)
(* each with the endpoint of the backend it asks.  The page keeps the query  *)
(* it shows; every change of it sends a request, and whatever response        *)
(* arrives replaces the rows.  A response is not tied to its request: they    *)
(* arrive in any order.  The list itself does not change.                     *)
(*                                                                          *)
(* A search stands for the text and the type of match.  How the backend      *)
(* matches and sorts rows is the subject of Listing: here a search finds      *)
(* some of the items, and a list is sorted in one direction or the other.     *)
(*                                                                          *)
(* may names what can complicate a behaviour, one of Conditions:             *)
(*   "overlap"     the user sorts or resizes while a request is under way    *)
(*   "fetchFails"  requests for rows may fail                                *)
(***************************************************************************)
EXTENDS Arrange, SequencesExt

CONSTANTS
  Items,       \* the list, a sequence
  Found,       \* the items each search finds
  NoSearch,    \* the empty text
  PageSizes,
  NoData,      \* "data": null, what Go makes of a slice without a backing array
  Conditions,  \* the sets of complications considered
  MaxInFlight  \* bound: requests under way

ASSUME ListAssumption ==
  /\ Items \in Seq(ToSet(Items))
  /\ NoSearch \in DOMAIN Found
  /\ PageSizes \subseteq Nat \ {0}
  /\ MaxInFlight \in Nat \ {0}
  /\ NoData \notin Seq(ToSet(Items))

VARIABLES
  endpoint,  \* of {"product", "orders"}, the list this page shows
  query,     \* searchQuery, page, pageSize and sortModel
  pending,   \* what the search box holds
  rows, totalCount,
  isLoading,
  inflight,  \* the queries sent and not answered, the oldest first
  overtaken, \* an answer has come before that of an older request, since the
             \* page last waited for none
  may

listVars == <<endpoint, query, pending, rows, totalCount, isLoading, inflight, overtaken, may>>

Searches == DOMAIN Found
LastPage(total, size) == IF total = 0 THEN 1 ELSE (total + size - 1) \div size
Pages    == 1 .. LastPage(Len(Items), 1)
Queries  == [search : Searches, page : Pages, size : PageSizes, desc : BOOLEAN]

ListTypeOK ==
  /\ endpoint \in {"product", "orders"}
  /\ query \in Queries
  /\ pending \in Searches
  /\ rows \in BoundedSeq(ToSet(Items), Len(Items)) \/ (endpoint = "orders" /\ rows = NoData)
  /\ totalCount \in 0 .. Len(Items)
  /\ isLoading \in BOOLEAN
  /\ inflight \in BoundedSeq(Queries, MaxInFlight)
  /\ overtaken \in BOOLEAN
  /\ may \in Conditions

--------------------------------------------------------------------------------
(* The backend *)

Hits(search) ==
  LET places == {i \in 1 .. Len(Items) : Items[i] \in Found[search]}
  IN Arranged(Items, places, LeftToRight(places))

Listed(q) == IF q.desc THEN Reverse(Hits(q.search)) ELSE Hits(q.search)

\* The handler of the orders looks at the page and never sets the offset.
Offset(q) == IF endpoint = "product" THEN (q.page - 1) * q.size ELSE 0

\* Without any hit the repositories return a nil slice of a nil slice.
Response(q) ==
  [data  |-> IF Listed(q) = <<>> THEN NoData ELSE Slice(Listed(q), Offset(q), q.size),
   total |-> Len(Listed(q))]

--------------------------------------------------------------------------------

\* The effect on mount, and on every change of the query: fetch.
ListInit ==
  /\ endpoint \in {"product", "orders"}
  /\ query \in [search : {NoSearch}, page : {1}, size : PageSizes, desc : BOOLEAN]
  /\ pending = NoSearch
  /\ rows = <<>>
  /\ totalCount = 0
  /\ isLoading = TRUE
  /\ inflight = <<query>>
  /\ overtaken = FALSE
  /\ may \in Conditions

Fetch(q) ==
  /\ isLoading' = TRUE
  /\ inflight' = Append(inflight, q)
  /\ overtaken' = (overtaken /\ inflight # <<>>)

\* Defect: the request is built from the state of an earlier render.
ShowStale(q) ==
  /\ query' = q
  /\ IF q = query THEN UNCHANGED <<isLoading, inflight, overtaken>>
     ELSE Len(inflight) < MaxInFlight /\ Fetch(query)
  /\ UNCHANGED <<rows, totalCount>>

Show(q) ==
  /\ query' = q
  /\ IF q = query THEN UNCHANGED <<isLoading, inflight, overtaken>>
     ELSE Len(inflight) < MaxInFlight /\ Fetch(q)
  /\ UNCHANGED <<rows, totalCount>>

\* The search box and its buttons are disabled while isLoading.
HandleInputChange ==
  /\ ~isLoading
  /\ pending' \in Searches
  /\ UNCHANGED <<query, rows, totalCount, isLoading, inflight, overtaken>>

\* Defect: the page is kept.
HandleSearchOnPage ==
  /\ ~isLoading
  /\ Show([query EXCEPT !.search = pending])
  /\ UNCHANGED pending

HandleSearch ==
  /\ ~isLoading
  /\ Show([query EXCEPT !.search = pending, !.page = 1])
  /\ UNCHANGED pending

HandleReset ==
  /\ ~isLoading
  /\ pending' = NoSearch
  /\ Show([query EXCEPT !.search = NoSearch, !.page = 1])

\* The grid offers the pages of totalCount, and none while it is loading.
HandlePageChange ==
  /\ ~isLoading
  /\ \E page \in 1 .. LastPage(totalCount, query.size) : Show([query EXCEPT !.page = page])
  /\ UNCHANGED pending

\* The grid's page size and its column headers stay enabled.
HandlePageSizeChange ==
  /\ isLoading => "overlap" \in may
  /\ \E size \in PageSizes \ {query.size} : Show([query EXCEPT !.size = size, !.page = 1])
  /\ UNCHANGED pending

HandleSortModelChange ==
  /\ isLoading => "overlap" \in may
  /\ Show([query EXCEPT !.desc = ~@])
  /\ UNCHANGED pending

\* The grid steps back when the rows it is told of end before its page.
PastTheEnd == query.page > LastPage(totalCount, query.size)

GridStepsBack ==
  /\ PastTheEnd
  /\ Show([query EXCEPT !.page = LastPage(totalCount, query.size)])
  /\ UNCHANGED pending

\* The k-th request under way is answered.
Answered(k) ==
  /\ inflight' = RemoveAt(inflight, k)
  /\ overtaken' = (overtaken \/ k > 1)

\* Defect: the product page takes the data as it is, like the orders page.
FetchSucceedsAsIs(k) ==
  LET response == Response(inflight[k]) IN
  /\ rows' = response.data
  /\ totalCount' = response.total
  /\ isLoading' = FALSE
  /\ Answered(k)
  /\ UNCHANGED <<query, pending>>

\* .then and .finally.  The product page reads null as an empty list, the
\* orders page keeps it.
FetchSucceeds(k) ==
  LET response == Response(inflight[k]) IN
  /\ rows' = IF endpoint = "product" /\ response.data = NoData THEN <<>> ELSE response.data
  /\ totalCount' = response.total
  /\ isLoading' = FALSE
  /\ Answered(k)
  /\ UNCHANGED <<query, pending>>

\* Defect: isLoading is reset by .then only.
FetchFailsLocked(k) ==
  /\ "fetchFails" \in may
  /\ rows' = <<>>
  /\ Answered(k)
  /\ UNCHANGED <<query, pending, totalCount, isLoading>>

\* .catch and .finally: totalCount keeps its value.
FetchFails(k) ==
  /\ "fetchFails" \in may
  /\ rows' = <<>>
  /\ isLoading' = FALSE
  /\ Answered(k)
  /\ UNCHANGED <<query, pending, totalCount>>

\* The grid does so in an effect of the render, before the user's next event.
UserStep ==
  /\ ~PastTheEnd
  /\ \/ HandleInputChange \/ HandleSearch \/ HandleReset
     \/ HandlePageChange \/ HandlePageSizeChange \/ HandleSortModelChange

ListNext ==
  /\ \/ UserStep
     \/ GridStepsBack
     \/ \E k \in DOMAIN inflight : FetchSucceeds(k) \/ FetchFails(k)
  /\ UNCHANGED <<endpoint, may>>

--------------------------------------------------------------------------------

Settled == inflight = <<>>

\* The rows are the page-th of the pages of the given size that list is cut into.
RowsArePage(list, page, size) ==
  LET before == (page - 1) * size IN
  /\ Len(rows) =< size
  /\ \A i \in DOMAIN rows : before + i =< Len(list) /\ rows[i] = list[before + i]
  /\ Len(rows) < size => before + Len(rows) >= Len(list)

\* What an answer to the query shown looks like on the screen: its page of the
\* products; of the orders, whatever page it names, the first.
ShowsQuery ==
  /\ totalCount = Len(Hits(query.search))
  /\ \/ endpoint = "product" /\ RowsArePage(Listed(query), query.page, query.size)
     \/ endpoint = "orders" /\ rows # NoData /\ RowsArePage(Listed(query), 1, query.size)
     \/ endpoint = "orders" /\ rows = NoData /\ Hits(query.search) = <<>>

(* When all answers are in, the rows and the total on the screen are those of *)
(* the query it names, or there are no rows after an error, and the next      *)
(* answer puts both right.  The fetch closes over the state of the render it   *)
(* belongs to.  Overlapping requests included: only an answer that overtakes   *)
(* that of an older request can leave other rows behind.                       *)
SettledShowsQuery ==
  Settled /\ ~overtaken => ShowsQuery \/ ("fetchFails" \in may /\ rows = <<>>)

(* The page shown exists: a search and a new page size start from page 1,   *)
(* so that the user never looks at an empty page past the end.  A failed or *)
(* overtaken request leaves the total of another search.                    *)
PageExists ==
  Settled /\ may \cap {"overlap", "fetchFails"} = {} =>
    query.page =< LastPage(Len(Hits(query.search)), query.size)

(* The form is disabled only while an answer is due: no path leaves the     *)
(* user locked out, failed and overtaken requests included.                 *)
LockedMeansDue == isLoading => ~Settled

================================================================================
