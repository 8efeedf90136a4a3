------------------------------ MODULE ProductPage ------------------------------
(***************************************************************************)
(* The list pages of the shop: the product page, a list page with a quantity *)
(* next to each row and a button that orders what is on the screen, and the  *)
(* order history, which has neither.  Quantities are kept by product and     *)
(* survive a change of page; a confirmed order clears them all.              *)
(*                                                                          *)
(* A quantity is represented by the entry that typed it: entries are         *)
(* numbered, 0 is an empty field (or a 0 typed into it).                     *)
(*                                                                          *)
(* Further complications of a behaviour:                                     *)
(*   "orderFails"   an order is refused                                      *)
(*   "replyLost"    an order is taken, and the reply to it lost              *)
(*   "doubleClick"  the button is pressed while an order is under way        *)
(***************************************************************************)
EXTENDS ListPage

CONSTANTS
  MaxEntries,  \* bound: quantities typed
  MaxPosts,    \* bound: orders under way
  MaxRepeats   \* bound: repeats

ASSUME EntryAssumption ==
  MaxEntries \in Nat /\ MaxPosts \in Nat \ {0} /\ MaxRepeats \in Nat

VARIABLES
  typed,     \* quantities
  nextEntry,
  posts,     \* the orders sent and not answered: [items, entered]
  ordered,   \* how often the backend has taken each entry
  confirmed, \* entered when the button was pressed, and confirmed to the user
  repeats    \* replies lost, and presses while an order was under way

cartVars == <<typed, nextEntry, posts, ordered, confirmed, repeats>>
vars == <<listVars, cartVars>>

Products == ToSet(Items)
Entries == 1 .. MaxEntries

TypeOK ==
  /\ ListTypeOK
  /\ typed \in [Products -> 0 .. MaxEntries]
  /\ nextEntry \in 1 .. MaxEntries + 1
  /\ posts \in BoundedSeq([items : SUBSET Entries, entered : SUBSET Entries], MaxPosts)
  /\ ordered \in [Entries -> 0 .. MaxRepeats + 1]
  /\ confirmed \subseteq Entries
  /\ repeats \in 0 .. MaxRepeats

Init ==
  /\ ListInit
  /\ typed = [p \in Products |-> 0]
  /\ nextEntry = 1
  /\ posts = <<>>
  /\ ordered = [e \in Entries |-> 0]
  /\ confirmed = {}
  /\ repeats = 0

Filled(S) == {typed[p] : p \in S} \ {0}

\* The fields are disabled while isLoading, but not while an order is sent.
HandleQuantityChange ==
  /\ endpoint = "product"
  /\ ~isLoading
  /\ \E p \in ToSet(rows) :
       \/ /\ nextEntry =< MaxEntries
          /\ typed' = [typed EXCEPT ![p] = nextEntry]
          /\ nextEntry' = nextEntry + 1
       \/ typed' = [typed EXCEPT ![p] = 0] /\ UNCHANGED nextEntry
  /\ UNCHANGED <<listVars, posts, ordered, confirmed, repeats>>

Repeat ==
  /\ repeats < MaxRepeats
  /\ repeats' = repeats + 1

\* The products on the screen with a quantity are ordered; without any there is
\* an alert and nothing is sent.
HandleSubmit ==
  /\ endpoint = "product"
  /\ ~isLoading
  /\ Len(posts) < MaxPosts
  /\ IF posts = <<>> THEN UNCHANGED repeats ELSE "doubleClick" \in may /\ Repeat
  /\ LET selected == Filled(ToSet(rows)) IN
     /\ selected # {}
     /\ posts' = Append(posts, [items |-> selected, entered |-> Filled(Products)])
  /\ UNCHANGED <<listVars, typed, nextEntry, ordered, confirmed>>

\* The backend inserts the order's rows.
Take(items) ==
  ordered' = [e \in Entries |-> IF e \in items THEN ordered[e] + 1 ELSE ordered[e]]

\* Defect: the fields are not cleared.
OrderSucceedsKeeping(k) ==
  /\ Take(posts[k].items)
  /\ confirmed' = confirmed \cup posts[k].entered
  /\ posts' = RemoveAt(posts, k)
  /\ UNCHANGED <<listVars, typed, nextEntry, repeats>>

\* Defect: the fields on the screen are cleared, which may be others by now.
OrderSucceedsOnScreen(k) ==
  /\ Take(posts[k].items)
  /\ confirmed' = confirmed \cup posts[k].items
  /\ typed' = [p \in Products |-> IF p \in ToSet(rows) THEN 0 ELSE typed[p]]
  /\ posts' = RemoveAt(posts, k)
  /\ UNCHANGED <<listVars, nextEntry, repeats>>

\* The backend takes the order, the user is told and every field is cleared.
OrderSucceeds(k) ==
  /\ Take(posts[k].items)
  /\ confirmed' = confirmed \cup posts[k].entered
  /\ typed' = [p \in Products |-> 0]
  /\ posts' = RemoveAt(posts, k)
  /\ UNCHANGED <<listVars, nextEntry, repeats>>

\* The order is refused, or taken and the reply lost: the fields stay.
OrderFails(k) ==
  /\ \/ "orderFails" \in may /\ UNCHANGED <<ordered, repeats>>
     \/ "replyLost" \in may /\ Take(posts[k].items) /\ Repeat
  /\ posts' = RemoveAt(posts, k)
  /\ UNCHANGED <<listVars, typed, nextEntry, confirmed>>

Next ==
  \/ ListNext /\ UNCHANGED cartVars
  \/ HandleQuantityChange
  \/ HandleSubmit
  \/ \E k \in DOMAIN posts : OrderSucceeds(k) \/ OrderFails(k)

Spec == Init /\ [][Next]_vars

--------------------------------------------------------------------------------

(* What a user has typed once is ordered once, and once more at most for each *)
(* reply that gets lost and each press while an order is under way: the       *)
(* fields are cleared by the confirmation, whatever the list does meanwhile,  *)
(* and refused orders may be sent again.                                      *)
OrderedOnce == \A e \in Entries : ordered[e] =< 1 + repeats

(* What has been confirmed is not in the form any more: a press after the     *)
(* alert cannot order it again, double clicks and retries included.          *)
ConfirmedIsCleared == confirmed \cap Filled(Products) = {}
================================================================================
