------------------------------ MODULE PageProofs -------------------------------
(***************************************************************************)
(* What the list pages guarantee, that of the orders and that of the products, *)
(* for any list, any searches and page sizes, and any number of requests under *)
(* way: the rows are those of the query shown, the page exists, and the form   *)
(* is never locked for good.  And of the product page: a quantity typed once   *)
(* is ordered once, and once more at most for each reply lost and each press   *)
(* while an order is under way.                                                *)
(***************************************************************************)
EXTENDS ProductPage, ArrangeProofs

\* A user who waits has one request under way, that of the query shown, and the
\* grid does not step back meanwhile.
OneAtATime ==
  "overlap" \notin may =>
    /\ inflight \in {<<>>, <<query>>}
    /\ inflight # <<>> => isLoading /\ ~PastTheEnd

\* Unless an answer has overtaken another, the query shown was asked for last.
LatestIsLast ==
  ~overtaken /\ inflight # <<>> => inflight[Len(inflight)] = query

\* While no request fails the total is that of the search, or due and the page
\* is the first.
TotalFitsPage ==
  may \cap {"overlap", "fetchFails"} = {} =>
    /\ inflight = <<>> => totalCount = Len(Hits(query.search))
    /\ query.page = 1 \/ totalCount = Len(Hits(query.search))
    /\ query.page =< LastPage(Len(Hits(query.search)), query.size)

ListInv ==
  /\ ListTypeOK
  /\ LockedMeansDue
  /\ OneAtATime
  /\ LatestIsLast
  /\ SettledShowsQuery
  /\ TotalFitsPage

--------------------------------------------------------------------------------
(* Sequences, pages and answers *)

(* A bounded sequence, told by its elements and its length. *)
LEMMA BoundedSeqs ==
  ASSUME NEW S, NEW n \in Nat, NEW s
  PROVE  s \in BoundedSeq(S, n) <=> s \in Seq(S) /\ Len(s) =< n
<1>1. ASSUME s \in BoundedSeq(S, n) PROVE s \in Seq(S) /\ Len(s) =< n
  <2>1. PICK m \in 0 .. n : s \in [1 .. m -> S]
    BY <1>1 DEF BoundedSeq, SeqOf
  <2> QED BY <2>1
<1>2. ASSUME s \in Seq(S), Len(s) =< n PROVE s \in BoundedSeq(S, n)
  <2>1. Len(s) \in 0 .. n /\ s \in [1 .. Len(s) -> S]
    BY <1>2
  <2> QED BY <2>1 DEF BoundedSeq, SeqOf
<1> QED BY <1>1, <1>2

(* RemoveAt makes a sequence shorter by one; its elements are of the sequence. *)
LEMMA RemoveAtSeq ==
  ASSUME NEW S, NEW s \in Seq(S), NEW k \in 1 .. Len(s)
  PROVE  /\ RemoveAt(s, k) \in Seq(S)
         /\ Len(RemoveAt(s, k)) = Len(s) - 1
         /\ \A j \in 1 .. Len(s) - 1 : \E i \in 1 .. Len(s) : RemoveAt(s, k)[j] = s[i]
         /\ Len(s) = 1 => RemoveAt(s, k) = <<>>
         /\ k = 1 /\ Len(s) > 1 => RemoveAt(s, k)[Len(s) - 1] = s[Len(s)]
<1> DEFINE a == SubSeq(s, 1, k - 1)
           b == SubSeq(s, k + 1, Len(s))
           r == a \o b
<1>0. Len(s) \in Nat /\ k \in Nat /\ 1 =< k /\ k =< Len(s)
  OBVIOUS
<1>1. /\ a \in Seq(S) /\ Len(a) = k - 1
      /\ \A j \in 1 .. k - 1 : a[j] = s[j]
  OBVIOUS
<1>2. /\ b \in Seq(S) /\ Len(b) = Len(s) - k
      /\ \A j \in 1 .. Len(s) - k : b[j] = s[k + j]
  OBVIOUS
<1>3. RemoveAt(s, k) = r
  BY DEF RemoveAt
<1> HIDE DEF a, b
<1>4. r \in Seq(S) /\ Len(r) = Len(s) - 1
  <2>1. a \in Seq(S) /\ b \in Seq(S)
    BY <1>1, <1>2
  <2>2. r \in Seq(S) /\ Len(r) = Len(a) + Len(b)
    BY <2>1
  <2>3. Len(a) + Len(b) = Len(s) - 1
    BY <1>0, <1>1, <1>2
  <2> QED BY <2>2, <2>3
<1>5. \A j \in 1 .. Len(s) - 1 : \E i \in 1 .. Len(s) : r[j] = s[i]
  <2> TAKE j \in 1 .. Len(s) - 1
  <2>1. CASE j < k
    <3>1. r[j] = s[j] /\ j \in 1 .. Len(s)
      BY <1>0, <1>1, <1>2, <2>1
    <3> QED BY <3>1
  <2>2. CASE j >= k
    <3>1. r[j] = b[j - (k - 1)] /\ j - (k - 1) \in 1 .. Len(s) - k
      BY <1>0, <1>1, <1>2, <2>2
    <3>2. r[j] = s[j + 1] /\ j + 1 \in 1 .. Len(s)
      BY <1>0, <1>2, <2>2, <3>1
    <3> QED BY <3>2
  <2>3. j < k \/ j >= k
    BY <1>0
  <2> QED BY <2>1, <2>2, <2>3
<1>6. Len(s) = 1 => r = <<>>
  BY <1>4
<1>7. ASSUME k = 1, Len(s) > 1 PROVE r[Len(s) - 1] = s[Len(s)]
  <2>1. Len(a) = 0 /\ Len(b) = Len(s) - 1 /\ Len(s) - 1 \in 1 .. Len(s) - k
    BY <1>0, <1>1, <1>2, <1>7
  <2>2. r[Len(s) - 1] = b[Len(s) - 1]
    BY <1>1, <1>2, <2>1
  <2>3. k + (Len(s) - 1) = Len(s)
    BY <1>0, <1>7
  <2> QED BY <1>2, <2>1, <2>2, <2>3
<1> QED BY <1>3, <1>4, <1>5, <1>6, <1>7

(* There is a first page, and no page beyond the one that holds one row each.  *)
LEMMA LastPageRange ==
  ASSUME NEW total \in Nat, NEW size \in Nat \ {0}
  PROVE  LastPage(total, size) \in 1 .. LastPage(total, 1)
<1>1. CASE total = 0
  BY <1>1 DEF LastPage
<1>2. CASE total > 0
  <2> DEFINE d == (total + size - 1) \div size
  <2>1. /\ d \in Int /\ size * d =< total + size - 1
        /\ total + size - 1 < size * (d + 1)
    OBVIOUS
  <2> HIDE DEF d
  <2>2. d >= 1
    <3> SUFFICES ASSUME d =< 0 PROVE FALSE
      BY <2>1
    <3>1. size * (d + 1) =< size
      BY <2>1
    <3> QED BY <1>2, <2>1, <3>1
  <2>3. d =< total
    <3> SUFFICES ASSUME d >= total + 1 PROVE FALSE
      BY <2>1
    <3>1. size * d >= size * (total + 1) /\ size * (total + 1) = size * total + size
      BY <2>1
    <3>2. size * total >= total
      BY <1>2
    <3> QED BY <2>1, <3>1, <3>2
  <2>4. LastPage(total, 1) = total
    BY <1>2 DEF LastPage
  <2> QED BY <1>2, <2>1, <2>2, <2>3, <2>4 DEF LastPage, d
<1> QED BY <1>1, <1>2

(* More rows have no fewer pages. *)
LEMMA PagesGrow ==
  ASSUME NEW n \in Nat, NEW total \in 0 .. n
  PROVE  LastPage(total, 1) =< LastPage(n, 1) /\ LastPage(total, 1) \in Nat
BY DEF LastPage

(* A page of a list of the application is one of Pages. *)
LEMMA PagesOfList ==
  ASSUME NEW total \in 0 .. Len(Items), NEW size \in PageSizes
  PROVE  /\ 1 \in Pages
         /\ LastPage(total, size) \in Pages /\ LastPage(total, size) \in Nat
         /\ LastPage(total, size) >= 1
         /\ \A page \in 1 .. LastPage(total, size) : page \in Pages
<1>1. size \in Nat \ {0} /\ Len(Items) \in Nat
  BY ListAssumption
<1>2. LastPage(total, size) \in 1 .. LastPage(total, 1)
  BY <1>1, LastPageRange
<1>3. LastPage(total, 1) =< LastPage(Len(Items), 1) /\ LastPage(total, 1) \in Nat
  BY <1>1, PagesGrow
<1>4. LastPage(Len(Items), 1) \in Nat
  BY <1>1, PagesGrow
<1> QED BY <1>2, <1>3, <1>4 DEF Pages

(* The hits are items, no more than there are. *)
LEMMA HitsAreItems ==
  ASSUME NEW search
  PROVE  Hits(search) \in Seq(ToSet(Items)) /\ Len(Hits(search)) \in 0 .. Len(Items)
<1> DEFINE P == {i \in 1 .. Len(Items) : Items[i] \in Found[search]}
           R == LeftToRight(P)
           S == ToSet(Items)
<1>1. P \in SUBSET (1 .. Len(Items)) /\ P \in SUBSET Int
  OBVIOUS
<1>2. Hits(search) = Arranged(Items, P, R)
  BY DEF Hits
<1>3. StrictTotalOrder(P, R)
  <2> HIDE DEF P
  <2> QED BY <1>1, LeftToRightIsTotal
<1>4. Items \in Seq(S)
  BY ListAssumption
<1> HIDE DEF P, R, S
<1>5. /\ Arranged(Items, P, R) \in Seq(S) /\ Cardinality(P) \in 0 .. Len(Items)
      /\ Len(Arranged(Items, P, R)) = Cardinality(P)
  BY <1>1, <1>3, <1>4, ArrangedIsSeq
<1> QED BY <1>2, <1>5 DEF S

(* Sorting does not change what is found. *)
LEMMA ListedRows ==
  ASSUME NEW q \in Queries
  PROVE  /\ Listed(q) \in Seq(ToSet(Items)) /\ Len(Listed(q)) = Len(Hits(q.search))
         /\ Len(Listed(q)) \in 0 .. Len(Items)
         /\ Listed(q) = <<>> <=> Hits(q.search) = <<>>
<1> DEFINE hits == Hits(q.search)
<1>1. hits \in Seq(ToSet(Items)) /\ Len(hits) \in 0 .. Len(Items) /\ Len(Items) \in Nat
  BY HitsAreItems, ListAssumption
<1>2. Listed(q) = IF q.desc THEN Reverse(hits) ELSE hits
  BY DEF Listed
<1> HIDE DEF hits
<1>3. Reverse(hits) \in Seq(ToSet(Items)) /\ Len(Reverse(hits)) = Len(hits)
  BY <1>1 DEF Reverse
<1>4. Listed(q) \in Seq(ToSet(Items)) /\ Len(Listed(q)) = Len(hits)
  BY <1>2, <1>3, <1>1
<1>5. Listed(q) = <<>> <=> hits = <<>>
  BY <1>1, <1>4
<1> QED BY <1>1, <1>4, <1>5 DEF hits

(* Queries name pages that exist for some size, from 1. *)
LEMMA QueryNumbers ==
  ASSUME NEW q \in Queries
  PROVE  q.page \in Nat \ {0} /\ q.size \in Nat \ {0} /\ (q.page - 1) * q.size \in Nat
<1>1. q.page \in Pages /\ q.size \in PageSizes
  BY DEF Queries
<1>2. LastPage(Len(Items), 1) \in Nat
  BY PagesGrow, ListAssumption
<1>3. q.size \in Nat \ {0}
  BY <1>1, ListAssumption
<1>4. q.page \in 1 .. LastPage(Len(Items), 1)
  BY <1>1 DEF Pages
<1>5. q.page \in Nat \ {0}
  BY <1>2, <1>4
<1> QED BY <1>3, <1>5

(* Every answer has the number of hits and rows of the list, and what an answer *)
(* to the query shown leaves on the screen is what ShowsQuery says: the page it *)
(* names of the products, the first of the orders, and of no hits null.         *)
LEMMA AnswerIsShown ==
  ASSUME endpoint \in {"product", "orders"}, endpoint' = endpoint, NEW q \in Queries,
         rows' = IF endpoint = "product" /\ Response(q).data = NoData THEN <<>> ELSE Response(q).data,
         totalCount' = Response(q).total
  PROVE  /\ \/ rows' \in Seq(ToSet(Items)) /\ Len(rows') =< Len(Items)
            \/ endpoint = "orders" /\ rows' = NoData
         /\ totalCount' \in 0 .. Len(Items) /\ totalCount' = Len(Hits(q.search))
         /\ query' = q => ShowsQuery'
<1> DEFINE list == Listed(q)
           t == Slice(list, Offset(q), q.size)
<1>1. /\ list \in Seq(ToSet(Items)) /\ Len(list) = Len(Hits(q.search))
      /\ Len(list) \in 0 .. Len(Items)
      /\ list = <<>> <=> Hits(q.search) = <<>>
  BY ListedRows
<1>2. q.page \in Nat \ {0} /\ q.size \in Nat \ {0} /\ (q.page - 1) * q.size \in Nat
  BY QueryNumbers
<1>3. Response(q).data = (IF list = <<>> THEN NoData ELSE t) /\ Response(q).total = Len(list)
  BY DEF Response
<1>4. totalCount' = Len(Hits(q.search)) /\ totalCount' \in 0 .. Len(Items)
  BY <1>1, <1>3
<1>5. Offset(q) = (IF endpoint = "product" THEN (q.page - 1) * q.size ELSE 0) /\ Offset(q) \in Nat
  BY <1>2 DEF Offset
<1>6. NoData \notin Seq(ToSet(Items)) /\ Len(Items) \in Nat
  BY ListAssumption
<1>7. query' = q =>
        (ShowsQuery' <=>
           /\ totalCount' = Len(Hits(q.search))
           /\ \/ endpoint = "product" /\ RowsArePage(list, q.page, q.size)'
              \/ endpoint = "orders" /\ rows' # NoData /\ RowsArePage(list, 1, q.size)'
              \/ endpoint = "orders" /\ rows' = NoData /\ Hits(q.search) = <<>>)
  BY DEF ShowsQuery, Listed
<1> HIDE DEF list
<1>8. CASE list = <<>>
  <2>1. CASE endpoint = "product"
    <3>1. rows' = <<>> /\ rows' \in Seq(ToSet(Items)) /\ Len(rows') = 0 /\ Len(list) = 0
      BY <1>3, <1>8, <2>1
    <3>2. RowsArePage(list, q.page, q.size)'
      <4>1. (q.page - 1) * q.size + 0 >= 0 /\ 0 =< q.size
        BY <1>2
      <4>2. DOMAIN rows' = {}
        BY <3>1
      <4>3. (q.page - 1) * q.size + Len(rows') >= Len(list) /\ Len(rows') =< q.size
        BY <3>1, <4>1
      <4> QED BY <4>2, <4>3 DEF RowsArePage
    <3> QED BY <1>4, <1>6, <1>7, <2>1, <3>1, <3>2
  <2>2. CASE endpoint = "orders"
    <3>1. rows' = NoData
      BY <1>3, <1>8, <2>2
    <3> QED BY <1>1, <1>4, <1>7, <1>8, <2>2, <3>1
  <2> QED BY <2>1, <2>2
<1>9. CASE list # <<>>
  <2>1. /\ t \in Seq(ToSet(Items)) /\ Len(t) =< Len(list) /\ Len(t) =< q.size
        /\ \A i \in 1 .. Len(t) : Offset(q) + i =< Len(list) /\ t[i] = list[Offset(q) + i]
        /\ Len(t) < q.size => Offset(q) + Len(t) >= Len(list)
    <3>1. q.size \in Nat
      BY <1>2
    <3> QED BY <1>1, <1>5, <3>1, SliceIsPage
  <2> HIDE DEF t
  <2>2. rows' = t /\ rows' # NoData
    BY <1>3, <1>6, <1>9, <2>1
  <2>3. rows' \in Seq(ToSet(Items)) /\ Len(rows') =< Len(Items)
    BY <1>1, <1>6, <2>1, <2>2
  <2>4. DOMAIN rows' = 1 .. Len(t)
    BY <2>1, <2>2
  <2>5. CASE endpoint = "product"
    <3>1. Offset(q) = (q.page - 1) * q.size
      BY <1>5, <2>5
    <3>2. RowsArePage(list, q.page, q.size)'
      BY <2>1, <2>2, <2>4, <3>1 DEF RowsArePage
    <3> QED BY <1>4, <1>7, <2>3, <2>5, <3>2
  <2>6. CASE endpoint = "orders"
    <3>1. Offset(q) = 0 /\ (1 - 1) * q.size = 0
      BY <1>2, <1>5, <2>6
    <3>2. RowsArePage(list, 1, q.size)'
      BY <2>1, <2>2, <2>4, <3>1 DEF RowsArePage
    <3> QED BY <1>4, <1>7, <2>2, <2>3, <2>6, <3>2
  <2> QED BY <2>5, <2>6
<1> QED BY <1>8, <1>9

--------------------------------------------------------------------------------
(* The list page *)

\* What the type invariant says, in the terms the provers know.
ListTyped ==
  /\ endpoint \in {"product", "orders"}
  /\ query \in Queries /\ pending \in Searches
  /\ \/ rows \in Seq(ToSet(Items)) /\ Len(rows) =< Len(Items)
     \/ endpoint = "orders" /\ rows = NoData
  /\ totalCount \in 0 .. Len(Items)
  /\ isLoading \in BOOLEAN
  /\ inflight \in Seq(Queries) /\ Len(inflight) =< MaxInFlight
  /\ overtaken \in BOOLEAN
  /\ may \in Conditions

(* It says that, before a step and after it. *)
LEMMA ListTypes == (ListTypeOK <=> ListTyped) /\ (ListTypeOK' <=> ListTyped')
<1>1. Len(Items) \in Nat /\ MaxInFlight \in Nat
  BY ListAssumption
<1>2. /\ rows \in BoundedSeq(ToSet(Items), Len(Items))
           <=> rows \in Seq(ToSet(Items)) /\ Len(rows) =< Len(Items)
      /\ rows' \in BoundedSeq(ToSet(Items), Len(Items))
           <=> rows' \in Seq(ToSet(Items)) /\ Len(rows') =< Len(Items)
  BY <1>1, BoundedSeqs
<1>3. /\ inflight \in BoundedSeq(Queries, MaxInFlight)
           <=> inflight \in Seq(Queries) /\ Len(inflight) =< MaxInFlight
      /\ inflight' \in BoundedSeq(Queries, MaxInFlight)
           <=> inflight' \in Seq(Queries) /\ Len(inflight') =< MaxInFlight
  BY <1>1, BoundedSeqs
<1> QED BY <1>2, <1>3 DEF ListTypeOK, ListTyped

(* The page that is opened has its first request under way. *)
LEMMA InitListInv == ListInit => ListInv
<1> SUFFICES ASSUME ListInit PROVE ListInv
  OBVIOUS
<1>1. 0 \in 0 .. Len(Items) /\ Len(Items) \in Nat
  BY ListAssumption
<1>2. query \in Queries /\ query.page = 1 /\ query.size \in PageSizes
  BY <1>1, PagesOfList, ListAssumption DEF ListInit, Queries, Searches
<1>3. inflight \in Seq(Queries) /\ Len(inflight) =< MaxInFlight /\ inflight = <<query>>
  BY <1>2, ListAssumption DEF ListInit
<1>4. ListTypeOK
  <2>1. rows \in Seq(ToSet(Items)) /\ Len(rows) =< Len(Items)
    BY <1>1 DEF ListInit
  <2>2. ListTyped
    BY <1>1, <1>2, <1>3, <2>1, ListAssumption DEF ListInit, Searches, ListTyped
  <2> QED BY <2>2, ListTypes
<1>5. LastPage(totalCount, query.size) >= 1
  BY <1>1, <1>2, PagesOfList DEF ListInit
<1>6. ~PastTheEnd
  <2>1. LastPage(totalCount, query.size) \in Nat
    BY <1>1, <1>2, PagesOfList DEF ListInit
  <2> QED BY <1>2, <1>5, <2>1 DEF PastTheEnd
<1>7. query.page =< LastPage(Len(Hits(query.search)), query.size)
  <2>1. LastPage(Len(Hits(query.search)), query.size) \in Pages
        /\ LastPage(Len(Hits(query.search)), query.size) >= 1
    BY <1>2, HitsAreItems, PagesOfList
  <2> QED BY <1>2, <2>1
<1>8. inflight # <<>>
  BY <1>3
<1> QED
  BY <1>2, <1>3, <1>4, <1>6, <1>7, <1>8
  DEF ListInv, LockedMeansDue, OneAtATime, LatestIsLast, SettledShowsQuery, TotalFitsPage,
      Settled, ListInit

(* A change of the query keeps the invariant: of a user who waits it is made   *)
(* with nothing under way, to a page that the total covers, and of the same    *)
(* search unless it is the first page.                                         *)
LEMMA ShowKeeps ==
  ASSUME ListInv, NEW q \in Queries, Show(q), pending' \in Searches, UNCHANGED <<endpoint, may>>,
         "overlap" \notin may => ~isLoading /\ q.page =< LastPage(totalCount, q.size),
         may \cap {"overlap", "fetchFails"} = {} => q.page = 1 \/ q.search = query.search
  PROVE  ListInv'
<1> USE ListTypes DEF ListInv, ListTyped
<1>1. CASE q = query
  BY <1>1, ListTypes
  DEF Show, LockedMeansDue, OneAtATime, LatestIsLast, PastTheEnd, SettledShowsQuery, ShowsQuery,
      RowsArePage, TotalFitsPage, Settled
<1>2. CASE q # query
  <2>1. /\ query' = q /\ isLoading' = TRUE /\ inflight' = Append(inflight, q)
        /\ Len(inflight) < MaxInFlight /\ UNCHANGED <<rows, totalCount, endpoint, may>>
        /\ overtaken' = (overtaken /\ inflight # <<>>)
    BY <1>2 DEF Show, Fetch
  <2>2. /\ inflight' \in Seq(Queries) /\ Len(inflight') =< MaxInFlight
        /\ inflight' # <<>>
        /\ inflight = <<>> => inflight' = <<q>>
        /\ inflight'[Len(inflight')] = q
    <3>1. inflight \in Seq(Queries) /\ Len(inflight) \in Nat /\ MaxInFlight \in Nat
      BY ListAssumption
    <3>2. /\ Append(inflight, q) \in Seq(Queries)
          /\ Len(Append(inflight, q)) = Len(inflight) + 1
          /\ Append(inflight, q)[Len(inflight) + 1] = q
      BY <3>1
    <3>3. Append(inflight, q) # <<>>
      BY <3>1, <3>2
    <3>4. inflight = <<>> => Append(inflight, q) = <<q>>
      OBVIOUS
    <3> QED BY <2>1, <3>1, <3>2, <3>3, <3>4
  <2>3. ListTypeOK'
    BY <2>1, <2>2, ListTypes
  <2>4. LockedMeansDue' /\ LatestIsLast' /\ SettledShowsQuery'
    BY <2>1, <2>2 DEF LockedMeansDue, LatestIsLast, SettledShowsQuery, Settled
  <2>5. "overlap" \notin may => inflight = <<>>
    BY DEF OneAtATime
  <2>6. OneAtATime'
    <3>1. LastPage(totalCount, q.size) \in Nat /\ q.page \in Nat
      <4>1. q.size \in PageSizes /\ q.page \in Pages
        BY DEF Queries
      <4>2. LastPage(totalCount, q.size) \in Pages
        BY <4>1, PagesOfList
      <4>3. LastPage(Len(Items), 1) \in Nat
        BY PagesGrow, ListAssumption
      <4> QED BY <4>1, <4>2, <4>3 DEF Pages
    <3>2. "overlap" \notin may => ~(q.page > LastPage(totalCount, q.size))
      BY <3>1
    <3> QED BY <2>1, <2>2, <2>5, <3>2 DEF OneAtATime, PastTheEnd
  <2>7. TotalFitsPage'
    <3> SUFFICES ASSUME may \cap {"overlap", "fetchFails"} = {}
                 PROVE  /\ q.page = 1 \/ totalCount = Len(Hits(q.search))
                        /\ q.page =< LastPage(Len(Hits(q.search)), q.size)
      BY <2>1, <2>2 DEF TotalFitsPage
    <3>1. totalCount = Len(Hits(query.search))
      BY <2>5 DEF TotalFitsPage
    <3>2. LastPage(Len(Hits(q.search)), q.size) >= 1
      BY HitsAreItems, PagesOfList DEF Queries
    <3> QED BY <3>1, <3>2
  <2> QED BY <2>3, <2>4, <2>6, <2>7
<1> QED BY <1>1, <1>2

(* The user's handlers keep it. *)
LEMMA UserStepKeeps ==
  ASSUME ListInv, UserStep, UNCHANGED <<endpoint, may>>
  PROVE  ListInv'
<1> USE ListTypes DEF ListInv, ListTyped
<1>0. /\ query \in Queries /\ query.page \in Pages /\ query.size \in PageSizes
      /\ query.search \in Searches /\ pending \in Searches /\ NoSearch \in Searches
      /\ totalCount \in 0 .. Len(Items)
  BY ListAssumption DEF Queries, Searches
<1>1. /\ 1 \in Pages
      /\ \A size \in PageSizes : LastPage(totalCount, size) >= 1
  BY <1>0, PagesOfList
<1>2. query.page =< LastPage(totalCount, query.size)
  <2>1. LastPage(Len(Items), 1) \in Nat
    BY PagesGrow, ListAssumption
  <2>2. LastPage(totalCount, query.size) \in Nat /\ query.page \in Nat
    BY <1>0, <2>1, PagesOfList DEF Pages
  <2> QED BY <2>2 DEF UserStep, PastTheEnd
<1>3. CASE HandleInputChange
  BY <1>3, ListTypes
  DEF HandleInputChange, LockedMeansDue, OneAtATime, LatestIsLast, PastTheEnd, SettledShowsQuery,
      ShowsQuery, RowsArePage, TotalFitsPage, Settled
<1>4. CASE HandleSearch
  <2> DEFINE q == [query EXCEPT !.search = pending, !.page = 1]
  <2>1. q \in Queries /\ q.page = 1 /\ q.size = query.size
    BY <1>0, <1>1 DEF Queries
  <2>2. Show(q) /\ ~isLoading /\ pending' = pending
    BY <1>4 DEF HandleSearch
  <2> HIDE DEF q
  <2> QED BY <1>0, <1>1, <2>1, <2>2, ShowKeeps
<1>5. CASE HandleReset
  <2> DEFINE q == [query EXCEPT !.search = NoSearch, !.page = 1]
  <2>1. q \in Queries /\ q.page = 1 /\ q.size = query.size
    BY <1>0, <1>1 DEF Queries
  <2>2. Show(q) /\ ~isLoading /\ pending' = NoSearch
    BY <1>5 DEF HandleReset
  <2> HIDE DEF q
  <2> QED BY <1>0, <1>1, <2>1, <2>2, ShowKeeps
<1>6. CASE HandlePageChange
  <2>1. PICK page \in 1 .. LastPage(totalCount, query.size) :
          Show([query EXCEPT !.page = page])
    BY <1>6 DEF HandlePageChange
  <2> DEFINE q == [query EXCEPT !.page = page]
  <2>2. q \in Queries /\ q.page = page /\ q.size = query.size /\ q.search = query.search
    BY <1>0, PagesOfList DEF Queries
  <2>3. Show(q) /\ ~isLoading /\ pending' = pending /\ q.page =< LastPage(totalCount, q.size)
    BY <1>6, <2>1, <2>2 DEF HandlePageChange
  <2> HIDE DEF q
  <2> QED BY <1>0, <2>2, <2>3, ShowKeeps
<1>7. CASE HandlePageSizeChange
  <2>1. PICK size \in PageSizes \ {query.size} :
          Show([query EXCEPT !.size = size, !.page = 1])
    BY <1>7 DEF HandlePageSizeChange
  <2> DEFINE q == [query EXCEPT !.size = size, !.page = 1]
  <2>2. q \in Queries /\ q.page = 1 /\ q.size = size
    BY <1>0, <1>1 DEF Queries
  <2>3. Show(q) /\ (isLoading => "overlap" \in may) /\ pending' = pending
    BY <1>7, <2>1 DEF HandlePageSizeChange
  <2> HIDE DEF q
  <2> QED BY <1>0, <1>1, <2>2, <2>3, ShowKeeps
<1>8. CASE HandleSortModelChange
  <2> DEFINE q == [query EXCEPT !.desc = ~@]
  <2>1. q \in Queries /\ q.page = query.page /\ q.size = query.size /\ q.search = query.search
    BY <1>0 DEF Queries
  <2>2. Show(q) /\ (isLoading => "overlap" \in may) /\ pending' = pending
    BY <1>8 DEF HandleSortModelChange
  <2> HIDE DEF q
  <2> QED BY <1>0, <1>2, <2>1, <2>2, ShowKeeps
<1> QED BY <1>3, <1>4, <1>5, <1>6, <1>7, <1>8 DEF UserStep

(* So does the grid: while a user waits it steps back with nothing under way,  *)
(* and never when no request fails.                                            *)
LEMMA GridStepsBackKeeps ==
  ASSUME ListInv, GridStepsBack, UNCHANGED <<endpoint, may>>
  PROVE  ListInv'
<1> USE ListTypes DEF ListInv, ListTyped
<1> DEFINE last == LastPage(totalCount, query.size)
           q == [query EXCEPT !.page = last]
<1>1. /\ query \in Queries /\ query.size \in PageSizes /\ totalCount \in 0 .. Len(Items)
      /\ query.search \in Searches
  BY DEF Queries
<1>2. last \in Pages /\ last =< last
  <2>1. LastPage(Len(Items), 1) \in Nat
    BY PagesGrow, ListAssumption
  <2> QED BY <1>1, <2>1, PagesOfList DEF Pages
<1>3. q \in Queries /\ q.page = last /\ q.size = query.size /\ q.search = query.search
  <2> HIDE DEF last
  <2> QED BY <1>1, <1>2 DEF Queries
<1>4. Show(q) /\ pending' = pending
  BY DEF GridStepsBack
<1>5. "overlap" \notin may => ~isLoading
  BY DEF GridStepsBack, OneAtATime, LockedMeansDue, Settled
<1>6. q.page =< LastPage(totalCount, q.size)
  BY <1>2, <1>3
<1> HIDE DEF q, last
<1> QED BY <1>3, <1>4, <1>5, <1>6, ShowKeeps

(* An answer to a user who waits is that to the query shown, and so is the last *)
(* one when none has overtaken another.                                         *)
LEMMA FetchKeeps ==
  ASSUME ListInv, NEW k \in DOMAIN inflight, FetchSucceeds(k) \/ FetchFails(k),
         UNCHANGED <<endpoint, may>>
  PROVE  ListInv'
<1> USE ListTypes DEF ListInv, ListTyped
<1>1. /\ k \in 1 .. Len(inflight) /\ inflight[k] \in Queries
      /\ query' = query /\ pending' = pending /\ isLoading' = FALSE
      /\ inflight' = RemoveAt(inflight, k) /\ overtaken' = (overtaken \/ k > 1)
  BY DEF FetchSucceeds, FetchFails, Answered
<1>2. /\ inflight' \in Seq(Queries) /\ Len(inflight') = Len(inflight) - 1
      /\ Len(inflight) = 1 => inflight' = <<>>
      /\ k = 1 /\ Len(inflight) > 1 => inflight'[Len(inflight) - 1] = inflight[Len(inflight)]
  BY <1>1, RemoveAtSeq
<1>3. "overlap" \notin may => inflight[k] = query /\ inflight' = <<>>
  <2> SUFFICES ASSUME "overlap" \notin may PROVE inflight[k] = query /\ inflight' = <<>>
    OBVIOUS
  <2>1. inflight = <<query>>
    BY <1>1 DEF OneAtATime
  <2> QED BY <1>1, <1>2, <2>1
<1>4. LockedMeansDue' /\ OneAtATime'
  BY <1>1, <1>3 DEF LockedMeansDue, OneAtATime
<1>5. ~overtaken' => ~overtaken /\ k = 1 /\ inflight[Len(inflight)] = query
  <2>1. ~(k > 1) => k = 1
    BY <1>1
  <2>2. inflight # <<>>
    BY <1>1
  <2> QED BY <1>1, <2>1, <2>2 DEF LatestIsLast
<1>6. LatestIsLast'
  <2> SUFFICES ASSUME ~overtaken', inflight' # <<>> PROVE inflight'[Len(inflight')] = query
    BY <1>1 DEF LatestIsLast
  <2>1. Len(inflight) # 1 /\ Len(inflight) \in Nat /\ Len(inflight) >= 1
    BY <1>1, <1>2
  <2>2. Len(inflight) > 1 /\ Len(inflight') = Len(inflight) - 1
    BY <1>2, <2>1
  <2> QED BY <1>2, <1>5, <2>2
<1>7. ~overtaken' /\ Settled' => inflight[k] = query
  <2> SUFFICES ASSUME ~overtaken', Settled' PROVE inflight[k] = query
    OBVIOUS
  <2>1. Len(inflight') = 0
    BY DEF Settled
  <2>2. Len(inflight) = 1
    BY <1>1, <1>2, <2>1
  <2> QED BY <1>5, <2>2
<1>8. Len(inflight') =< MaxInFlight /\ overtaken' \in BOOLEAN
  BY <1>1, <1>2, ListAssumption
<1>9. CASE FetchSucceeds(k)
  <2> DEFINE q == inflight[k]
  <2>1. /\ rows' = IF endpoint = "product" /\ Response(q).data = NoData THEN <<>> ELSE Response(q).data
        /\ totalCount' = Response(q).total
    BY <1>9 DEF FetchSucceeds
  <2>2. /\ \/ rows' \in Seq(ToSet(Items)) /\ Len(rows') =< Len(Items)
           \/ endpoint = "orders" /\ rows' = NoData
        /\ totalCount' \in 0 .. Len(Items) /\ totalCount' = Len(Hits(q.search))
        /\ query' = q => ShowsQuery'
    <3>1. q \in Queries /\ endpoint \in {"product", "orders"} /\ endpoint' = endpoint
      BY <1>1
    <3> HIDE DEF q
    <3> QED BY ONLY <2>1, <3>1, AnswerIsShown
  <2>3. ListTypeOK'
    BY <1>1, <1>2, <1>8, <2>2, ListTypes
  <2>4. SettledShowsQuery'
    BY <1>1, <1>7, <2>2 DEF SettledShowsQuery
  <2>5. TotalFitsPage'
    BY <1>1, <1>3, <2>2 DEF TotalFitsPage
  <2> QED BY <1>4, <1>6, <2>3, <2>4, <2>5
<1>10. CASE FetchFails(k)
  <2>1. rows' = <<>> /\ totalCount' = totalCount /\ "fetchFails" \in may
    BY <1>10 DEF FetchFails
  <2>2. ListTypeOK'
    <3>1. rows' \in Seq(ToSet(Items)) /\ Len(rows') =< Len(Items)
      BY <2>1, ListAssumption
    <3> QED BY <1>1, <1>2, <1>8, <2>1, <3>1, ListTypes
  <2> QED BY <1>4, <1>6, <2>1, <2>2 DEF SettledShowsQuery, TotalFitsPage
<1> QED BY <1>9, <1>10

(* Every step of the list page keeps the invariant, and so does every step     *)
(* that is none of it.                                                         *)
LEMMA ListStepKeeps ==
  ASSUME ListInv, [ListNext]_listVars
  PROVE  ListInv'
<1>1. CASE ListNext
  BY <1>1, UserStepKeeps, GridStepsBackKeeps, FetchKeeps DEF ListNext
<1>2. CASE UNCHANGED listVars
  BY <1>2, ListTypes
  DEF listVars, ListTyped, ListInv, LockedMeansDue, OneAtATime, LatestIsLast, PastTheEnd,
      SettledShowsQuery, ShowsQuery, RowsArePage, TotalFitsPage, Settled
<1> QED BY <1>1, <1>2

--------------------------------------------------------------------------------
(* The product page's quantities and orders *)

Posts == [items : SUBSET Entries, entered : SUBSET Entries]

\* Entries that have been typed so far.
Used == 1 .. nextEntry - 1

CartTyped ==
  /\ typed \in [Products -> 0 .. MaxEntries]
  /\ nextEntry \in 1 .. MaxEntries + 1
  /\ posts \in Seq(Posts) /\ Len(posts) =< MaxPosts
  /\ ordered \in [Entries -> 0 .. MaxRepeats + 1]
  /\ confirmed \subseteq Entries
  /\ repeats \in 0 .. MaxRepeats

\* What is in the form, on its way, ordered or confirmed has been typed.
OnlyUsed ==
  /\ Filled(Products) \subseteq Used
  /\ confirmed \subseteq Used
  /\ \A k \in 1 .. Len(posts) : posts[k].items \subseteq Used /\ posts[k].entered \subseteq Used
  /\ \A e \in Entries : ordered[e] > 0 => e \in Used

\* The quantity is in the form or on its way to the backend.
Pending(e) == e \in Filled(Products) \/ \E k \in 1 .. Len(posts) : e \in posts[k].items

\* Only a repeat sends a second order beside one, or leaves in the form what has
\* been ordered: with all that is under way every quantity still stays in bounds.
RepeatsAccountForAll ==
  /\ Len(posts) =< 1 + repeats
  /\ \A e \in Filled(Products) : ordered[e] =< repeats
  /\ \A e \in Entries : Pending(e) => ordered[e] + Len(posts) =< 1 + repeats

IInv ==
  /\ ListInv
  /\ CartTyped
  /\ OnlyUsed
  /\ OrderedOnce
  /\ RepeatsAccountForAll
  /\ ConfirmedIsCleared

(* The type invariant, in the terms the provers know. *)
LEMMA CartTypes == ListTypeOK /\ CartTyped <=> TypeOK
<1>1. MaxPosts \in Nat /\ MaxRepeats \in Nat
  BY EntryAssumption
<1>2. posts \in BoundedSeq(Posts, MaxPosts) <=> posts \in Seq(Posts) /\ Len(posts) =< MaxPosts
  BY <1>1, BoundedSeqs
<1> QED BY <1>2 DEF TypeOK, CartTyped, Posts

(* The form is empty at first. *)
LEMMA InitIInv == Init => IInv
<1> SUFFICES ASSUME Init PROVE IInv
  OBVIOUS
<1>1. ListInv
  BY InitListInv DEF Init
<1>2. MaxEntries \in Nat /\ MaxPosts \in Nat /\ MaxRepeats \in Nat
  BY EntryAssumption
<1>3. CartTyped /\ Filled(Products) = {}
  BY <1>2 DEF Init, CartTyped, Filled
<1>4. Len(posts) = 0
  BY DEF Init
<1>5. OnlyUsed /\ OrderedOnce
  BY <1>2, <1>3, <1>4 DEF Init, OnlyUsed, Used, OrderedOnce
<1>6. RepeatsAccountForAll /\ ConfirmedIsCleared
  BY <1>3, <1>4 DEF Init, RepeatsAccountForAll, Pending, ConfirmedIsCleared
<1> QED BY <1>1, <1>3, <1>5, <1>6 DEF Init, IInv

(* Rows of the page are products. *)
LEMMA RowsAreProducts == ListInv /\ endpoint = "product" => ToSet(rows) \subseteq Products
<1> SUFFICES ASSUME ListInv, endpoint = "product" PROVE ToSet(rows) \subseteq Products
  OBVIOUS
<1>1. rows \in Seq(Products)
  BY ListTypes DEF ListInv, ListTyped, Products
<1> QED BY <1>1 DEF ToSet

(* The entries up to a later one are those up to an earlier one, and more. *)
LEMMA EntriesGrow ==
  ASSUME NEW n \in Nat, NEW m \in Nat, 1 =< n, n =< m
  PROVE  /\ (1 .. n - 1) \subseteq (1 .. m - 1)
         /\ (n .. m - 1) \cap (1 .. n - 1) = {}
         /\ (n .. m - 1) \subseteq (1 .. m - 1)
OBVIOUS

(* Typing a quantity uses an entry of its own, or none. *)
LEMMA QuantityKeeps ==
  ASSUME IInv, HandleQuantityChange
  PROVE  IInv'
<1> USE EntryAssumption
<1>1. PICK p \in ToSet(rows) :
        \/ /\ nextEntry =< MaxEntries
           /\ typed' = [typed EXCEPT ![p] = nextEntry]
           /\ nextEntry' = nextEntry + 1
        \/ typed' = [typed EXCEPT ![p] = 0] /\ UNCHANGED nextEntry
  BY DEF HandleQuantityChange
<1>2. p \in Products
  BY <1>1, RowsAreProducts DEF IInv, HandleQuantityChange
<1>3. UNCHANGED <<listVars, posts, ordered, confirmed, repeats>>
  BY DEF HandleQuantityChange
<1>4. ListInv'
  BY <1>3, ListStepKeeps DEF IInv, listVars
<1>5. /\ CartTyped' /\ nextEntry' \in Nat /\ nextEntry \in Nat
      /\ 1 =< nextEntry /\ nextEntry =< nextEntry'
  BY <1>1, <1>2, <1>3 DEF IInv, CartTyped
<1>6. Filled(Products)' \subseteq Filled(Products) \cup (nextEntry .. nextEntry' - 1)
  BY <1>1, <1>2, <1>3, <1>5 DEF IInv, CartTyped, Filled
<1>7. Used \subseteq Used' /\ (nextEntry .. nextEntry' - 1) \cap Used = {}
      /\ (nextEntry .. nextEntry' - 1) \subseteq Used'
  BY <1>5, EntriesGrow DEF Used
<1>8. OnlyUsed'
  BY <1>3, <1>6, <1>7 DEF IInv, OnlyUsed
<1>9. OrderedOnce' /\ ConfirmedIsCleared'
  BY <1>3, <1>6, <1>7 DEF IInv, OnlyUsed, OrderedOnce, ConfirmedIsCleared
<1>10. RepeatsAccountForAll'
  <2>1. /\ Filled(Products) \subseteq Entries /\ Filled(Products)' \subseteq Entries
        /\ \A e \in Entries : ordered[e] \in Nat
        /\ repeats \in Nat /\ Len(posts) \in Nat /\ Len(posts) =< 1 + repeats
    <3>1. Filled(Products) \subseteq Entries
      BY DEF IInv, CartTyped, Filled, Entries
    <3>2. Filled(Products)' \subseteq Entries
      BY ONLY <1>5, EntryAssumption DEF CartTyped, Filled, Entries
    <3>3. /\ \A e \in Entries : ordered[e] \in Nat
          /\ repeats \in Nat /\ Len(posts) \in Nat
      BY DEF IInv, CartTyped
    <3>4. Len(posts) =< 1 + repeats
      BY DEF IInv, RepeatsAccountForAll
    <3> QED BY ONLY <3>1, <3>2, <3>3, <3>4
  <2>2. \A e \in Filled(Products)' : e \in Filled(Products) \/ ordered[e] = 0
    <3> TAKE e \in Filled(Products)'
    <3>1. CASE e \in Filled(Products)
      BY <3>1
    <3>2. CASE e \in nextEntry .. nextEntry' - 1
      <4>1. e \notin Used /\ e \in Entries
        BY <1>7, <2>1, <3>2
      <4>2. ~(ordered[e] > 0)
        BY <4>1 DEF IInv, OnlyUsed
      <4> QED BY <2>1, <4>1, <4>2
    <3> QED BY <1>6, <3>1, <3>2
  <2>3. \A e \in Filled(Products)' : ordered[e] =< repeats
    BY <2>1, <2>2 DEF IInv, RepeatsAccountForAll
  <2>4. \A e \in Entries : Pending(e)' => Pending(e) \/ ordered[e] = 0
    BY <1>3, <2>2 DEF Pending
  <2>5. \A e \in Entries : Pending(e)' => ordered[e] + Len(posts) =< 1 + repeats
    BY <2>1, <2>4 DEF IInv, RepeatsAccountForAll
  <2> QED BY <1>3, <2>1, <2>3, <2>5 DEF RepeatsAccountForAll
<1> QED BY <1>4, <1>5, <1>8, <1>9, <1>10 DEF IInv

(* What is sent is in the form. *)
LEMMA SubmitKeeps ==
  ASSUME IInv, HandleSubmit
  PROVE  IInv'
<1> DEFINE post == [items |-> Filled(ToSet(rows)), entered |-> Filled(Products)]
<1>1. /\ posts' = Append(posts, post) /\ Len(posts) < MaxPosts
      /\ UNCHANGED <<listVars, typed, nextEntry, ordered, confirmed>>
      /\ IF posts = <<>> THEN repeats' = repeats
         ELSE repeats < MaxRepeats /\ repeats' = repeats + 1
  BY DEF HandleSubmit, Repeat
<1>2. ListInv'
  BY <1>1, ListStepKeeps DEF IInv, listVars
<1>3. Filled(ToSet(rows)) \subseteq Filled(Products) /\ Filled(Products) \subseteq Entries
  BY RowsAreProducts DEF IInv, Filled, CartTyped, Entries, HandleSubmit
<1>4. post \in Posts /\ post.items \subseteq Filled(Products) /\ post.entered = Filled(Products)
  BY <1>3 DEF Posts
<1> HIDE DEF post
<1>5. /\ posts' \in Seq(Posts) /\ Len(posts') = Len(posts) + 1 /\ posts'[Len(posts) + 1] = post
      /\ \A k \in 1 .. Len(posts) : posts'[k] = posts[k]
      /\ Len(posts) \in Nat /\ (posts = <<>> => Len(posts) = 0)
  BY <1>1, <1>4 DEF IInv, CartTyped
<1>6. CartTyped' /\ Filled(Products)' = Filled(Products) /\ Used' = Used
  BY <1>1, <1>5, EntryAssumption DEF IInv, CartTyped, Filled, Used
<1>7. \A k \in 1 .. Len(posts') : k \in 1 .. Len(posts) \/ posts'[k] = post
  BY <1>5
<1>8. OnlyUsed'
  BY <1>1, <1>4, <1>5, <1>6, <1>7 DEF IInv, OnlyUsed
<1>9. repeats \in Nat /\ repeats' \in Nat /\ repeats =< repeats'
      /\ \A e \in Entries : ordered[e] \in Nat
  BY <1>1 DEF IInv, CartTyped
<1>10. OrderedOnce' /\ ConfirmedIsCleared'
  BY <1>1, <1>6, <1>9 DEF IInv, OrderedOnce, ConfirmedIsCleared
<1>11. RepeatsAccountForAll'
  <2>1. \A e \in Entries : Pending(e)' => Pending(e)
    BY <1>4, <1>5, <1>6, <1>7 DEF Pending
  <2>2. \A e \in Filled(Products) : ordered[e] =< repeats'
    BY <1>3, <1>9 DEF IInv, RepeatsAccountForAll
  <2>3. CASE posts = <<>>
    <3>1. \A e \in Entries : Pending(e) => e \in Filled(Products)
      BY <1>5, <2>3 DEF Pending
    <3>2. \A e \in Entries : Pending(e)' => ordered[e] + 1 =< 1 + repeats'
      BY <1>9, <2>1, <2>2, <3>1
    <3> QED BY <1>1, <1>5, <1>6, <1>9, <2>2, <2>3, <3>2 DEF RepeatsAccountForAll
  <2>4. CASE posts # <<>>
    <3>1. repeats' = repeats + 1
      BY <1>1, <2>4
    <3>2. Len(posts) + 1 =< 1 + repeats'
      BY <1>5, <1>9, <3>1 DEF IInv, RepeatsAccountForAll
    <3>3. \A e \in Entries : Pending(e)' => ordered[e] + (Len(posts) + 1) =< 1 + repeats'
      BY <1>5, <1>9, <2>1, <3>1 DEF IInv, RepeatsAccountForAll
    <3> QED BY <1>1, <1>5, <1>6, <2>2, <3>2, <3>3 DEF RepeatsAccountForAll
  <2> QED BY <2>3, <2>4
<1> QED BY <1>2, <1>6, <1>8, <1>10, <1>11 DEF IInv

(* Taking an order counts its entries. *)
LEMMA TakeCounts ==
  ASSUME CartTyped, NEW items, Take(items)
  PROVE  /\ ordered' \in [Entries -> Nat]
         /\ \A e \in Entries : ordered'[e] = IF e \in items THEN ordered[e] + 1 ELSE ordered[e]
<1>1. \A e \in Entries : ordered[e] \in Nat
  BY EntryAssumption DEF CartTyped
<1> QED BY <1>1 DEF Take

(* Counts within the bounds of OrderedOnce are of the type of ordered. *)
LEMMA CountsInType ==
  ASSUME OrderedOnce', ordered' \in [Entries -> Nat], repeats' \in 0 .. MaxRepeats
  PROVE  ordered' \in [Entries -> 0 .. MaxRepeats + 1]
<1>1. \A e \in Entries : ordered'[e] \in 0 .. MaxRepeats + 1
  BY EntryAssumption DEF OrderedOnce
<1> QED BY <1>1

(* An order that is no longer under way leaves the others. *)
LEMMA PostsWithout ==
  ASSUME CartTyped, NEW k \in DOMAIN posts, posts' = RemoveAt(posts, k)
  PROVE  /\ posts' \in Seq(Posts) /\ Len(posts') = Len(posts) - 1 /\ Len(posts) \in Nat
         /\ \A j \in 1 .. Len(posts') : \E i \in 1 .. Len(posts) : posts'[j] = posts[i]
         /\ posts[k] \in Posts /\ k \in 1 .. Len(posts)
<1>1. posts \in Seq(Posts) /\ k \in 1 .. Len(posts)
  BY DEF CartTyped
<1>2. /\ RemoveAt(posts, k) \in Seq(Posts) /\ Len(RemoveAt(posts, k)) = Len(posts) - 1
      /\ \A j \in 1 .. Len(posts) - 1 : \E i \in 1 .. Len(posts) : RemoveAt(posts, k)[j] = posts[i]
  BY <1>1, RemoveAtSeq
<1>3. Len(posts) \in Nat /\ posts[k] \in Posts
  BY <1>1
<1> QED BY <1>1, <1>2, <1>3

(* A confirmed order empties the form: what it held is ordered once more. *)
LEMMA OrderSucceedsKeeps ==
  ASSUME IInv, NEW k \in DOMAIN posts, OrderSucceeds(k)
  PROVE  IInv'
<1>1. /\ Take(posts[k].items) /\ posts' = RemoveAt(posts, k)
      /\ confirmed' = confirmed \cup posts[k].entered
      /\ typed' = [p \in Products |-> 0]
      /\ UNCHANGED <<listVars, nextEntry, repeats>>
  BY DEF OrderSucceeds
<1>2. ListInv'
  BY <1>1, ListStepKeeps DEF IInv, listVars
<1>3. /\ posts' \in Seq(Posts) /\ Len(posts') = Len(posts) - 1 /\ Len(posts) \in Nat
      /\ \A j \in 1 .. Len(posts') : \E i \in 1 .. Len(posts) : posts'[j] = posts[i]
      /\ posts[k] \in Posts /\ k \in 1 .. Len(posts)
  BY <1>1, PostsWithout DEF IInv
<1>4. /\ ordered' \in [Entries -> Nat]
      /\ \A e \in Entries :
           ordered'[e] = IF e \in posts[k].items THEN ordered[e] + 1 ELSE ordered[e]
  BY <1>1, TakeCounts DEF IInv
<1>5. Filled(Products)' = {} /\ Used' = Used
  BY <1>1 DEF Filled, Used
<1>6. /\ repeats \in Nat /\ repeats' = repeats /\ Len(posts) >= 1 /\ Len(posts) =< 1 + repeats
      /\ \A e \in Entries : ordered[e] \in Nat /\ ordered[e] =< 1 + repeats
      /\ \A e \in Entries : Pending(e) => ordered[e] + Len(posts) =< 1 + repeats
      /\ \A e \in posts[k].items : Pending(e)
  <2>1. repeats \in Nat /\ repeats' = repeats /\ \A e \in Entries : ordered[e] \in Nat
    BY <1>1 DEF IInv, CartTyped
  <2>2. \A e \in Entries : ordered[e] =< 1 + repeats
    BY DEF IInv, OrderedOnce
  <2>3. /\ Len(posts) =< 1 + repeats
        /\ \A e \in Entries : Pending(e) => ordered[e] + Len(posts) =< 1 + repeats
    BY DEF IInv, RepeatsAccountForAll
  <2>4. \A e \in posts[k].items : Pending(e)
    BY ONLY <1>3 DEF Pending
  <2>5. Len(posts) >= 1
    BY ONLY <1>3
  <2> QED BY ONLY <2>1, <2>2, <2>3, <2>4, <2>5
<1>7. OrderedOnce'
  BY <1>3, <1>4, <1>6 DEF OrderedOnce
<1>8. CartTyped'
  <2>1. ordered' \in [Entries -> 0 .. MaxRepeats + 1]
    BY <1>1, <1>4, <1>7, CountsInType DEF IInv, CartTyped
  <2> QED BY <1>1, <1>3, <2>1, EntryAssumption DEF IInv, CartTyped, Posts
<1>9. OnlyUsed'
  BY <1>1, <1>3, <1>4, <1>5 DEF IInv, OnlyUsed
<1>10. ConfirmedIsCleared'
  BY <1>5 DEF ConfirmedIsCleared
<1>11. RepeatsAccountForAll'
  <2>1. \A e \in Entries : Pending(e)' => Pending(e)
    BY <1>3, <1>5 DEF Pending
  <2>2. \A e \in Entries : Pending(e)' => ordered'[e] + Len(posts') =< 1 + repeats'
    BY <1>3, <1>4, <1>6, <2>1
  <2>3. Len(posts') =< 1 + repeats'
    BY <1>3, <1>6
  <2> QED BY <1>5, <2>2, <2>3 DEF RepeatsAccountForAll
<1> QED BY <1>2, <1>7, <1>8, <1>9, <1>10, <1>11 DEF IInv

(* A failed order leaves the form as it is; one whose reply is lost has been    *)
(* taken.                                                                     *)
LEMMA OrderFailsKeeps ==
  ASSUME IInv, NEW k \in DOMAIN posts, OrderFails(k)
  PROVE  IInv'
<1>1. /\ posts' = RemoveAt(posts, k)
      /\ UNCHANGED <<listVars, typed, nextEntry, confirmed>>
      /\ \/ ordered' = ordered /\ repeats' = repeats
         \/ Take(posts[k].items) /\ repeats < MaxRepeats /\ repeats' = repeats + 1
  BY DEF OrderFails, Repeat
<1>2. ListInv'
  BY <1>1, ListStepKeeps DEF IInv, listVars
<1>3. /\ posts' \in Seq(Posts) /\ Len(posts') = Len(posts) - 1 /\ Len(posts) \in Nat
      /\ \A j \in 1 .. Len(posts') : \E i \in 1 .. Len(posts) : posts'[j] = posts[i]
      /\ posts[k] \in Posts /\ k \in 1 .. Len(posts)
  BY <1>1, PostsWithout DEF IInv
<1>4. /\ repeats \in Nat /\ Len(posts) =< 1 + repeats
      /\ \A e \in Entries : ordered[e] \in Nat /\ ordered[e] =< 1 + repeats
      /\ \A e \in Entries : Pending(e) => ordered[e] + Len(posts) =< 1 + repeats
      /\ \A e \in Filled(Products) : e \in Entries /\ ordered[e] =< repeats
  BY DEF IInv, CartTyped, OrderedOnce, RepeatsAccountForAll, Filled, Entries
<1>5. /\ ordered' \in [Entries -> Nat] /\ repeats' \in 0 .. MaxRepeats
      /\ \A e \in Entries : e \notin posts[k].items => ordered'[e] = ordered[e]
      /\ \A e \in Entries : ordered'[e] - ordered[e] =< repeats' - repeats
      /\ repeats =< repeats'
  <2>1. CASE ordered' = ordered /\ repeats' = repeats
    <3>1. ordered \in [Entries -> Nat]
      BY EntryAssumption DEF IInv, CartTyped
    <3> QED BY <1>4, <2>1, <3>1 DEF IInv, CartTyped
  <2>2. CASE Take(posts[k].items) /\ repeats < MaxRepeats /\ repeats' = repeats + 1
    <3>1. /\ ordered' \in [Entries -> Nat]
          /\ \A e \in Entries :
               ordered'[e] = IF e \in posts[k].items THEN ordered[e] + 1 ELSE ordered[e]
      BY <2>2, TakeCounts DEF IInv
    <3>2. repeats' \in 0 .. MaxRepeats
      BY <1>4, <2>2, EntryAssumption
    <3>3. \A e \in Entries : e \notin posts[k].items => ordered'[e] = ordered[e]
      BY ONLY <3>1
    <3>4. \A e \in Entries : ordered'[e] - ordered[e] =< 1
      BY ONLY <1>4, <3>1
    <3>5. repeats' - repeats = 1 /\ repeats =< repeats'
      BY ONLY <1>4, <2>2
    <3> QED BY ONLY <3>1, <3>2, <3>3, <3>4, <3>5
  <2> QED BY <1>1, <2>1, <2>2
<1>6. Filled(Products)' = Filled(Products) /\ Used' = Used
  BY <1>1 DEF Filled, Used
<1>7. \A e \in Entries : ordered'[e] \in Nat
  BY <1>5
<1>8. OrderedOnce'
  BY <1>4, <1>5, <1>7 DEF OrderedOnce
<1>9. CartTyped'
  <2>1. ordered' \in [Entries -> 0 .. MaxRepeats + 1]
    BY <1>5, <1>8, CountsInType
  <2> QED BY <1>1, <1>3, <1>5, <2>1, EntryAssumption DEF IInv, CartTyped
<1>10. OnlyUsed'
  BY <1>1, <1>3, <1>4, <1>5, <1>6 DEF IInv, OnlyUsed
<1>11. ConfirmedIsCleared'
  BY <1>1, <1>6 DEF IInv, ConfirmedIsCleared
<1>12. RepeatsAccountForAll'
  <2>1. \A e \in Entries : Pending(e)' => Pending(e)
    BY <1>3, <1>6 DEF Pending
  <2>2. ASSUME NEW e \in Entries, Pending(e)' PROVE ordered'[e] + Len(posts') =< 1 + repeats'
    <3>1. /\ ordered[e] + Len(posts) =< 1 + repeats /\ ordered'[e] - ordered[e] =< repeats' - repeats
          /\ ordered[e] \in Nat /\ ordered'[e] \in Nat
      BY <1>4, <1>5, <1>7, <2>1, <2>2
    <3>2. Len(posts') = Len(posts) - 1 /\ Len(posts) \in Nat /\ repeats \in Nat /\ repeats' \in Int
      BY <1>3, <1>4, <1>5
    <3> QED BY ONLY <3>1, <3>2
  <2>3. \A e \in Filled(Products) : ordered'[e] =< repeats'
    BY <1>4, <1>5, <1>7
  <2>4. Len(posts') =< 1 + repeats'
    BY <1>3, <1>4, <1>5
  <2> QED BY <1>6, <2>2, <2>3, <2>4 DEF RepeatsAccountForAll
<1> QED BY <1>2, <1>8, <1>9, <1>10, <1>11, <1>12 DEF IInv

(* Every step keeps the invariant. *)
LEMMA StepIInv == IInv /\ [Next]_vars => IInv'
<1> SUFFICES ASSUME IInv, [Next]_vars PROVE IInv'
  OBVIOUS
<1>1. ASSUME UNCHANGED cartVars, [ListNext]_listVars PROVE IInv'
  <2>1. ListInv'
    BY <1>1, ListStepKeeps DEF IInv, ListNext, listVars
  <2> QED BY <1>1, <2>1
    DEF IInv, cartVars, CartTyped, OnlyUsed, Used, Filled, OrderedOnce, RepeatsAccountForAll,
        Pending, ConfirmedIsCleared
<1>2. CASE Next
  BY <1>1, <1>2, QuantityKeeps, SubmitKeeps, OrderSucceedsKeeps, OrderFailsKeeps DEF Next
<1>3. CASE UNCHANGED vars
  BY <1>1, <1>3 DEF vars
<1> QED BY <1>2, <1>3

THEOREM Invariance == Spec => []IInv
<1> QED BY InitIInv, StepIInv, PTL DEF Spec

(* The page keeps to its types and bounds, whatever arrives in whatever order. *)
THEOREM TypeCorrect == Spec => []TypeOK
<1>1. IInv => TypeOK
  BY CartTypes DEF IInv, ListInv
<1> QED BY <1>1, Invariance, PTL

(* On either page, when all answers are in and none has overtaken another, the  *)
(* rows and the total are those of the query shown, or there are none after an  *)
(* error: of the orders those of the first page, and null when none is found.   *)
THEOREM RowsMatchQuery == Spec => []SettledShowsQuery
<1>1. IInv => SettledShowsQuery
  BY DEF IInv, ListInv
<1> QED BY <1>1, Invariance, PTL

(* The page shown exists, as long as no request fails or overtakes another.    *)
THEOREM PageIsThere == Spec => []PageExists
<1>1. IInv => PageExists
  BY DEF IInv, ListInv, TotalFitsPage, PageExists
<1> QED BY <1>1, Invariance, PTL

(* The form is locked only while an answer is due, whatever fails.             *)
THEOREM NeverLockedForGood == Spec => []LockedMeansDue
<1>1. IInv => LockedMeansDue
  BY DEF IInv, ListInv
<1> QED BY <1>1, Invariance, PTL

(* A quantity typed once is ordered once, and once more at most for each reply  *)
(* that gets lost and each press while an order is under way.                  *)
THEOREM TypedOnceOrderedOnce == Spec => []OrderedOnce
<1>1. IInv => OrderedOnce
  BY DEF IInv
<1> QED BY <1>1, Invariance, PTL

(* What has been confirmed is not in the form any more, whatever is pressed.   *)
THEOREM ConfirmedLeavesForm == Spec => []ConfirmedIsCleared
<1>1. IInv => ConfirmedIsCleared
  BY DEF IInv
<1> QED BY <1>1, Invariance, PTL
================================================================================
