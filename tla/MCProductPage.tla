----------------------------- MODULE MCProductPage -----------------------------
(* ProductPage for TLC: two products, on one page or on two. *)
EXTENDS ProductPage

TwoItems == <<1, 2>>
OneSearch == [all |-> {1, 2}, some |-> {2}, none |-> {}]
All == "all"
Sizes == {1, 2}

PatientAndHasty ==
  {{"orderFails"}, {"fetchFails"}, {"orderFails", "fetchFails", "overlap"},
   {"orderFails", "replyLost", "doubleClick"}}
================================================================================
