---------------------------- MODULE OrderLifecycle -----------------------------
(***************************************************************************)
(* What customers and robots may count on: orders are placed in batches, a *)
(* plan takes shipping orders in one step, and each is completed after it   *)
(* was taken.  A status never moves backwards.                              *)
(***************************************************************************)
CONSTANT OrderIds

VARIABLE status

Init == status = [o \in OrderIds |-> "none"]

\* All orders of S go from one status to the next.
Move(S, from, to) ==
  /\ \A o \in S : status[o] = from
  /\ status' = [o \in OrderIds |-> IF o \in S THEN to ELSE status[o]]

Place    == \E S \in SUBSET OrderIds : Move(S, "none", "shipping")
Assign   == \E S \in SUBSET OrderIds : Move(S, "shipping", "delivering")
Complete == \E o \in OrderIds : Move({o}, "delivering", "completed")

Next == Place \/ Assign \/ Complete

Spec == Init /\ [][Next]_status
================================================================================
