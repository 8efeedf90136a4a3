------------------------------- MODULE Listing ---------------------------------
(***************************************************************************)
(* POST /api/v1/product and POST /api/v1/orders: a user walks through the  *)
(* pages of a list.  Products are searched and sorted by the database and   *)
(* cut into pages by the repository; orders are searched, sorted and cut by *)
(* the repository.                                                          *)
(*                                                                          *)
(* A row carries what the lists look at: its id, the value of the column    *)
(* sorted by ("column": a name, a date or a status; "arrived_at": a date    *)
(* that may be NULL), and whether its name starts with, or contains, the    *)
(* text searched for.                                                       *)
(***************************************************************************)
EXTENDS Arrange

CONSTANTS
  Kinds,      \* of {"products", "orders"}, the lists walked through
  Tables,     \* sequences of rows, in the order the SELECT returns them
  PageSizes   \* page_size parameters; 0 stands for none given

Null == -1

\* Values of a column are numbered in their order, dates from 0.
Rows == [id : Nat, column : Int, arrived : Nat \cup {Null},
         prefix : BOOLEAN, contains : BOOLEAN]

ASSUME ListingAssumption ==
  /\ Kinds \subseteq {"products", "orders"}
  /\ Tables \subseteq Seq(Rows)
  /\ PageSizes \subseteq Int

VARIABLES
  kind, rows, req,
  page,       \* the page asked for next
  shown,      \* the rows received so far
  total,      \* the total of the last response, -1 before the first
  walking

vars == <<kind, rows, req, page, shown, total, walking>>

Searches == {"none", "partial", "prefix"}
Fields == {"id", "column", "arrived_at"}

TypeOK ==
  /\ kind \in Kinds
  /\ page \in Nat /\ total \in -1 .. Len(rows)
  /\ \A k \in DOMAIN shown : \E i \in DOMAIN rows : shown[k] = rows[i]
  /\ req \in [search : Searches, field : Fields, desc : BOOLEAN, size : Nat \ {0}]
  /\ walking \in BOOLEAN

--------------------------------------------------------------------------------

\* Defect: no default.
PageSizeAsGiven(size) == size

\* page_size: 20 unless a positive one is given.
PageSize(size) == IF size =< 0 THEN 20 ELSE size

\* The name filter; products know no prefix search.
Matches(row) ==
  CASE req.search = "none" -> TRUE
    [] req.search = "prefix" /\ kind = "orders" -> row.prefix
    [] OTHER -> row.contains

\* The comparators of ListOrders.  For arrived_at NULL is the smallest.
LessByColumn(a, b, desc) == IF desc THEN a > b ELSE a < b

\* Defect: the second comparator is a copy of the first.
LessByArrivalCopied(a, b, desc) ==
  IF a # Null /\ b # Null THEN LessByColumn(a, b, desc) ELSE a # Null

LessByArrival(a, b, desc) ==
  IF a # Null /\ b # Null
  THEN LessByColumn(a, b, desc)
  ELSE IF desc THEN a # Null ELSE b # Null

LessOrder(a, b, desc) ==
  CASE req.field = "column"     -> LessByColumn(a.column, b.column, desc)
    [] req.field = "arrived_at" -> LessByArrival(a.arrived, b.arrived, desc)
    [] OTHER                    -> LessByColumn(a.id, b.id, desc)

\* ORDER BY field direction, product_id ASC.
LessProduct(a, b, desc) ==
  IF req.field = "column" /\ a.column # b.column
  THEN LessByColumn(a.column, b.column, desc)
  ELSE LessByColumn(a.id, b.id, req.field = "id" /\ desc)

Less(a, b) ==
  IF kind = "products" THEN LessProduct(a, b, req.desc) ELSE LessOrder(a, b, req.desc)

\* sort.SliceStable: rows that compare equal keep their places.
StableSort(s) ==
  LET places == 1 .. Len(s)
  IN Arranged(s, places,
       {p \in places \X places :
          Less(s[p[1]], s[p[2]]) \/ (~Less(s[p[2]], s[p[1]]) /\ p[1] < p[2])})

Matching ==
  LET places == {i \in 1 .. Len(rows) : Matches(rows[i])}
  IN Arranged(rows, places, LeftToRight(places))

\* Defect: pages are taken to start from 0.
OffsetFromZero(p) == IF kind = "products" THEN p * req.size ELSE 0

\* List of the product handler sets the offset, that of the order handler does
\* not: Offset keeps its zero value.
Offset(p) == IF kind = "products" THEN (p - 1) * req.size ELSE 0

--------------------------------------------------------------------------------

Init ==
  /\ kind \in Kinds
  /\ rows \in Tables
  /\ \E size \in PageSizes :
       req \in [search : Searches,
                field : IF kind = "products" THEN Fields \ {"arrived_at"} ELSE Fields,
                desc : BOOLEAN, size : {PageSize(size)}]
  /\ page = 1
  /\ shown = <<>>
  /\ total = -1
  /\ walking = TRUE

\* Defect: the page is cut before it is sorted.
FetchPageThenSort ==
  /\ walking
  /\ shown' = shown \o StableSort(Slice(Matching, Offset(page), req.size))
  /\ total' = Len(Matching)
  /\ page' = page + 1
  /\ walking' = (page * req.size < total')
  /\ UNCHANGED <<kind, rows, req>>

\* One request; the user goes on while the total says there is more.
FetchPage ==
  /\ walking
  /\ shown' = shown \o Slice(StableSort(Matching), Offset(page), req.size)
  /\ total' = Len(Matching)
  /\ page' = page + 1
  /\ walking' = (page * req.size < total')
  /\ UNCHANGED <<kind, rows, req>>

\* The products are read without a deadline, the orders under WithTimeout; a
\* request that fails shows nothing, and the user asks for the same page again.
FetchProducts == kind = "products" /\ FetchPage
FetchOrders   == kind = "orders" /\ FetchPage

Next == FetchProducts \/ FetchOrders

Spec == Init /\ [][Next]_vars

--------------------------------------------------------------------------------

\* The walk shows every match once.
WalkIsComplete ==
  ~walking =>
    /\ Len(shown) = total
    /\ \A i \in DOMAIN rows : Matches(rows[i]) => \E k \in DOMAIN shown : shown[k] = rows[i]

(* Walking through the pages of the products up to the total shows every     *)
(* match once: no row falls between two pages and none is repeated.          *)
ProductPagesCoverTheList == kind = "products" => WalkIsComplete

(* So does walking through the pages of the order history.                   *)
OrderPagesCoverTheList == kind = "orders" => WalkIsComplete

(* What has been shown is the head of the list asked for: sorted, and no     *)
(* match that is missing belongs before it.  Every page of the order history *)
(* starts from the head, so that only its first one continues it.            *)
ShownIsTheHead ==
  kind = "products" \/ page =< 2 =>
    /\ \A j, k \in DOMAIN shown : j < k => ~Less(shown[k], shown[j])
    /\ \A i \in DOMAIN rows : \A k \in DOMAIN shown :
         Matches(rows[i]) /\ (\A j \in DOMAIN shown : shown[j] # rows[i])
           => ~Less(rows[i], shown[k])

(* Turning the direction round turns the order round: the two comparators of *)
(* a column agree, missing dates included.                                   *)
DirectionsMirror ==
  kind = "orders" =>
    \A i, j \in DOMAIN rows :
      LessOrder(rows[i], rows[j], TRUE) <=> LessOrder(rows[j], rows[i], FALSE)

================================================================================
