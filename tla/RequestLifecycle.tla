--------------------------- MODULE RequestLifecycle ----------------------------
(***************************************************************************)
(* What a team may count on when it watches its load-test requests: a       *)
(* request waits, runs, and is finished with a score or failed without one. *)
(* Only once something was lost (a crash, a failing call, a time limit)      *)
(* may a settled request run again, or a failed one have a score.           *)
(***************************************************************************)
CONSTANT Requests

VARIABLES status, scored, lossy

vars == <<status, scored, lossy>>

Init ==
  /\ status = [r \in Requests |-> "none"]
  /\ scored = [r \in Requests |-> FALSE]
  /\ lossy \in BOOLEAN

Move(r, from, to) ==
  /\ status[r] \in from
  /\ status' = [status EXCEPT ![r] = to]
  /\ UNCHANGED <<scored, lossy>>

Request(r) == Move(r, {"none"}, "waiting")
Start(r)   == Move(r, {"waiting"}, "running")
Finish(r)  == scored[r] /\ Move(r, {"running"}, "finished")
Fail(r)    == (lossy \/ ~scored[r]) /\ Move(r, {"running"}, "failed")

\* A message that came back is worked on again.
Repeat(r) ==
  /\ lossy
  /\ \/ Move(r, {"finished", "failed"}, "running")
     \/ Move(r, {"finished"}, "failed")
     \/ scored[r] /\ Move(r, {"failed"}, "finished")

Score(r) ==
  /\ status[r] = "running" \/ lossy
  /\ scored' = [scored EXCEPT ![r] = TRUE]
  /\ UNCHANGED <<status, lossy>>

Lose ==
  /\ lossy' = TRUE
  /\ UNCHANGED <<status, scored>>

Next ==
  \/ \E r \in Requests : Request(r) \/ Start(r) \/ Finish(r) \/ Fail(r) \/ Repeat(r) \/ Score(r)
  \/ Lose

Spec == Init /\ [][Next]_vars
================================================================================
