------------------------------ MODULE WithTimeout ------------------------------
(***************************************************************************)
(* utils.WithTimeout: a request runs fn in a goroutine of its own and      *)
(* waits for either the goroutine's result or the end of the context.  The *)
(* result travels over a channel with room for one value.  The context     *)
(* ends by the 120 s deadline or by the parent's cancellation (the HTTP    *)
(* client went away); when both are ready the select picks either branch.  *)
(*                                                                         *)
(* Fulfilment instantiates the operators for every request to the robot    *)
(* API and composes them with the steps of the request's fn.               *)
(***************************************************************************)
CONSTANT Requests

VARIABLES
  fn,      \* the goroutine: "idle", "running", "exited"
  ctx,     \* the derived context: "unused", "live", "ended"
  done,    \* the channel's buffer: "empty" or the value sent
  answer   \* what WithTimeout returned: "none", "ok", "error"

CallTypeOK ==
  /\ fn \in [Requests -> {"idle", "running", "exited"}]
  /\ ctx \in [Requests -> {"unused", "live", "ended"}]
  /\ done \in [Requests -> {"empty", "ok", "error"}]
  /\ answer \in [Requests -> {"none", "ok", "error"}]

CallInit ==
  /\ fn = [q \in Requests |-> "idle"]
  /\ ctx = [q \in Requests |-> "unused"]
  /\ done = [q \in Requests |-> "empty"]
  /\ answer = [q \in Requests |-> "none"]

\* context.WithTimeout, make(chan error, 1) and the go statement.
StartCall(q) ==
  /\ fn[q] = "idle"
  /\ fn' = [fn EXCEPT ![q] = "running"]
  /\ ctx' = [ctx EXCEPT ![q] = "live"]
  /\ UNCHANGED <<done, answer>>

\* Defect: an unbuffered channel, whose send waits for the caller's receive.
CanSendUnbuffered(q) == done[q] = "empty" /\ answer[q] = "none"

\* The channel has a buffer of one: a send needs room, not a receiver.
CanSend(q) == done[q] = "empty"

\* done <- fn(ctx): fn has returned r, the goroutine sends it and is gone.
Send(q, r) ==
  /\ fn[q] = "running"
  /\ CanSend(q)
  /\ fn' = [fn EXCEPT ![q] = "exited"]
  /\ done' = [done EXCEPT ![q] = r]
  /\ UNCHANGED <<ctx, answer>>

\* The deadline passes, or the client closes the connection.
EndContext(q) ==
  /\ ctx[q] = "live"
  /\ ctx' = [ctx EXCEPT ![q] = "ended"]
  /\ UNCHANGED <<fn, done, answer>>

\* case err := <-done: return err (and the deferred cancel).
ReturnResult(q) ==
  /\ answer[q] = "none"
  /\ done[q] # "empty"
  /\ answer' = [answer EXCEPT ![q] = done[q]]
  /\ done' = [done EXCEPT ![q] = "empty"]
  /\ ctx' = [ctx EXCEPT ![q] = "ended"]
  /\ UNCHANGED fn

\* case <-ctx.Done(): return ctx.Err().
ReturnCtxErr(q) ==
  /\ answer[q] = "none"
  /\ ctx[q] = "ended"
  /\ answer' = [answer EXCEPT ![q] = "error"]
  /\ UNCHANGED <<fn, ctx, done>>

--------------------------------------------------------------------------------

(* No goroutine outlives its fn: the one whose caller has already left with *)
(* the timeout deposits its result in the channel's buffer and exits.       *)
SendNeverBlocks == \A q \in Requests : fn[q] = "running" => CanSend(q)
================================================================================
