----------------------------- MODULE LoadTestQueue -----------------------------
(***************************************************************************)
(* The load-test workers.  Requests arrive on an Azure storage queue; a     *)
(* table holds one row per request with its status.  A worker takes a       *)
(* message, marks the row running, reads the rows of the team's other       *)
(* requests, and unless one of them is waiting or running it runs the load  *)
(* test, registers the score, marks the row finished and deletes the        *)
(* message.  A message that is not deleted comes back when its visibility   *)
(* timeout passes, to whichever worker asks first; only the worker that      *)
(* took it last can delete it (the pop receipt).                            *)
(*                                                                          *)
(* Every call to Azure or to the intermediate server is a step of its own.  *)
(* faults names what may go wrong in a behaviour, one of FaultSets:         *)
(*   "crash"       a worker dies at any point and is restarted              *)
(*   "calls"       a call fails, or its reply is lost                       *)
(*   "deadLetter"  so does one to the dead-letter queue                     *)
(*   "overrun"     a message's visibility, or the hour a row counts for,    *)
(*                 passes while a worker is still at work on the request    *)
(*   "longTest"    as "overrun", during the load test only                  *)
(*   "aging"       the hour passes for a row no worker is at work on        *)
(*   "malformed"   the messages of the requests Unreadable are not JSON     *)
(***************************************************************************)
EXTENDS Naturals, FiniteSets

CONSTANTS
  Workers,
  Tests,      \* load-test requests: LoadTestID, the table's RowKey
  Team,       \* the team of each, the PartitionKey; a team has one VM
  Unreadable, \* requests whose message may not be JSON
  FaultSets,  \* the sets of faults considered
  MaxCrashes, \* bound: crashes in a behaviour
  MaxPosted   \* bound: registrations counted per request

ASSUME QueueAssumption ==
  /\ Unreadable \subseteq Tests
  /\ MaxCrashes \in Nat
  /\ MaxPosted \in Nat \ {0}

VARIABLES
  row,      \* the Status column, "none" before the request exists
  fresh,    \* UpdatedAt lies within the last hour
  queue,    \* the message: "absent", "visible", "hidden", "deleted"
  holder,   \* who took it last, and so holds the valid pop receipt
  pc,       \* where each worker is in processMessage
  job,      \* the request it works on
  unread,   \* the rows isDuplicateOrSkip has still to page through
  posted,   \* scores registered with the intermediate server
  dlq,      \* the request is in the dead-letter queue
  crashes,
  lost,     \* history: the requests a status of which was not written
  faults

vars ==
  <<row, fresh, queue, holder, pc, job, unread, posted, dlq, crashes, lost, faults>>
tableVars == <<row, fresh>>

Nobody == "nobody"
NoJob == "nojob"

Busy(w) == pc[w] # "poll"
AtWork(t) == \E w \in Workers : Busy(w) /\ job[w] = t

\* The requests whose message is not JSON.
Malformed == IF "malformed" \in faults THEN Unreadable ELSE {}

Teammates(t) == {u \in Tests \ {t} : Team[u] = Team[t]}

TypeOK ==
  /\ row \in [Tests -> {"none", "waiting", "running", "finished", "failed"}]
  /\ fresh \in [Tests -> BOOLEAN]
  /\ queue \in [Tests -> {"absent", "visible", "hidden", "deleted"}]
  /\ holder \in [Tests -> Workers \cup {Nobody}]
  /\ pc \in [Workers -> {"poll", "parse", "check", "test", "post", "release",
                         "deadLetter", "markFailed", "delete"}]
  /\ job \in [Workers -> Tests \cup {NoJob}]
  /\ unread \in [Workers -> SUBSET Tests]
  /\ posted \in [Tests -> 0 .. MaxPosted]
  /\ dlq \in [Tests -> BOOLEAN]
  /\ crashes \in 0 .. MaxCrashes
  /\ lost \subseteq Tests
  /\ faults \in FaultSets

Init ==
  /\ row = [t \in Tests |-> "none"]
  /\ fresh = [t \in Tests |-> FALSE]
  /\ queue = [t \in Tests |-> "absent"]
  /\ holder = [t \in Tests |-> Nobody]
  /\ pc = [w \in Workers |-> "poll"]
  /\ job = [w \in Workers |-> NoJob]
  /\ unread = [w \in Workers |-> {}]
  /\ posted = [t \in Tests |-> 0]
  /\ dlq = [t \in Tests |-> FALSE]
  /\ crashes = 0
  /\ lost = {}
  /\ faults \in FaultSets

--------------------------------------------------------------------------------
(* Around the workers *)

\* The intermediate server takes a request: a waiting row and a message.
Enqueue(t) ==
  /\ queue[t] = "absent"
  /\ queue' = [queue EXCEPT ![t] = "visible"]
  /\ IF t \in Malformed THEN UNCHANGED tableVars
     ELSE /\ row' = [row EXCEPT ![t] = "waiting"]
          /\ fresh' = [fresh EXCEPT ![t] = TRUE]
  /\ UNCHANGED <<holder, pc, job, unread, posted, dlq, crashes, lost, faults>>

\* Whether a time limit of request t may pass in spite of the work on it.
MayElapse(t) ==
  \A w \in Workers : Busy(w) /\ job[w] = t =>
    \/ "overrun" \in faults
    \/ "longTest" \in faults /\ pc[w] = "test"

VisibilityTimeout(t) ==
  /\ queue[t] = "hidden"
  /\ MayElapse(t)
  /\ queue' = [queue EXCEPT ![t] = "visible"]
  /\ UNCHANGED <<tableVars, holder, pc, job, unread, posted, dlq, crashes, lost, faults>>

HourPasses(t) ==
  /\ fresh[t]
  /\ MayElapse(t)
  /\ AtWork(t) \/ "aging" \in faults
  /\ fresh' = [fresh EXCEPT ![t] = FALSE]
  /\ UNCHANGED <<row, queue, holder, pc, job, unread, posted, dlq, crashes, lost, faults>>

\* The container dies, a load test it runs with it, and is restarted.
Crash(w) ==
  /\ "crash" \in faults
  /\ crashes < MaxCrashes
  /\ Busy(w)
  /\ crashes' = crashes + 1
  /\ pc' = [pc EXCEPT ![w] = "poll"]
  /\ job' = [job EXCEPT ![w] = NoJob]
  /\ unread' = [unread EXCEPT ![w] = {}]
  /\ UNCHANGED <<tableVars, queue, holder, posted, dlq, lost, faults>>

--------------------------------------------------------------------------------
(* pollQueue and processMessage *)

Goto(w, place) == pc' = [pc EXCEPT ![w] = place]

\* Back to the poll loop; the message stays as it is.
Leave(w) ==
  /\ Goto(w, "poll")
  /\ job' = [job EXCEPT ![w] = NoJob]
  /\ unread' = [unread EXCEPT ![w] = {}]

\* An upsert of the row of w's request.
SetStatus(w, status) ==
  /\ row' = [row EXCEPT ![job[w]] = status]
  /\ fresh' = [fresh EXCEPT ![job[w]] = TRUE]

CallFails == "calls" \in faults

\* Calls whose error is only logged.
TryStatus(w, status) ==
  \/ SetStatus(w, status) /\ UNCHANGED lost
  \/ CallFails /\ UNCHANGED tableVars /\ lost' = lost \cup {job[w]}

Dequeue(w, t) ==
  /\ pc[w] = "poll"
  /\ queue[t] = "visible"
  /\ queue' = [queue EXCEPT ![t] = "hidden"]
  /\ holder' = [holder EXCEPT ![t] = w]
  /\ job' = [job EXCEPT ![w] = t]
  /\ Goto(w, "parse")
  /\ UNCHANGED <<tableVars, unread, posted, dlq, crashes, lost, faults>>

\* DeleteMessage with the pop receipt w got: refused once another took the
\* message.
DeleteMessage(w) ==
  queue' = IF holder[job[w]] = w THEN [queue EXCEPT ![job[w]] = "deleted"] ELSE queue

TryDelete(w) == DeleteMessage(w) \/ (CallFails /\ UNCHANGED queue)

\* A message that is not JSON is deleted and forgotten.
ParseFails(w) ==
  /\ pc[w] = "parse"
  /\ job[w] \in Malformed
  /\ TryDelete(w)
  /\ Leave(w)
  /\ UNCHANGED <<tableVars, holder, posted, dlq, crashes, lost, faults>>

\* The row is marked running before anything is looked at.
MarkRunning(w) ==
  /\ pc[w] = "parse"
  /\ job[w] \notin Malformed
  /\ TryStatus(w, "running")
  /\ unread' = [unread EXCEPT ![w] = Teammates(job[w])]
  /\ Goto(w, "check")
  /\ UNCHANGED <<queue, holder, job, posted, dlq, crashes, faults>>

\* Defect: the query asks for waiting rows only.
InProgressWaiting(t) == row[t] = "waiting" /\ fresh[t]

\* The rows the query matches.
InProgress(t) == row[t] \in {"waiting", "running"} /\ fresh[t]

\* isDuplicateOrSkip pages through the team's rows, one row to a page.
ReadRow(w, t) ==
  /\ pc[w] = "check"
  /\ t \in unread[w]
  /\ ~InProgress(t)
  /\ unread' = [unread EXCEPT ![w] = @ \ {t}]
  /\ UNCHANGED <<tableVars, queue, holder, pc, job, posted, dlq, crashes, lost, faults>>

\* Defect: the message of a request that has to wait is deleted.
SkipAndDelete(w) ==
  /\ pc[w] = "check"
  /\ \E t \in unread[w] : InProgress(t)
  /\ DeleteMessage(w)
  /\ Leave(w)
  /\ UNCHANGED <<tableVars, holder, posted, dlq, crashes, lost, faults>>

\* Another request of the team is waiting or running: the message is left to
\* come back.
Skip(w) ==
  /\ pc[w] = "check"
  /\ \E t \in unread[w] : InProgress(t)
  /\ Leave(w)
  /\ UNCHANGED <<tableVars, queue, holder, posted, dlq, crashes, lost, faults>>

AcquireLock(w) ==
  /\ pc[w] = "check"
  /\ unread[w] = {}
  /\ SetStatus(w, "running")
  /\ Goto(w, "test")
  /\ UNCHANGED <<queue, holder, job, unread, posted, dlq, crashes, lost, faults>>

\* The query or the upsert fails, though the row may have been written: as Skip.
CheckFails(w) ==
  /\ CallFails
  /\ pc[w] = "check"
  /\ UNCHANGED tableVars \/ (unread[w] = {} /\ SetStatus(w, "running"))
  /\ Leave(w)
  /\ UNCHANGED <<queue, holder, posted, dlq, crashes, lost, faults>>

\* run_k6.sh ends, with a score (0 when none can be computed) or an error.
TestEnds(w) ==
  /\ pc[w] = "test"
  /\ Goto(w, "post") \/ Goto(w, "deadLetter")
  /\ UNCHANGED <<tableVars, queue, holder, job, unread, posted, dlq, crashes, lost, faults>>

Register(t) ==
  posted' = [posted EXCEPT ![t] = IF @ < MaxPosted THEN @ + 1 ELSE @]

\* Defect: the error of the registration is ignored.
PostScoreIgnored(w) ==
  /\ pc[w] = "post"
  /\ Register(job[w]) \/ UNCHANGED posted
  /\ Goto(w, "release")
  /\ UNCHANGED <<tableVars, queue, holder, job, unread, dlq, crashes, lost, faults>>

\* The score is registered, or refused, or registered with the reply lost.
PostScore(w) ==
  /\ pc[w] = "post"
  /\ \/ Register(job[w]) /\ Goto(w, "release")
     \/ UNCHANGED posted /\ Goto(w, "deadLetter")
     \/ CallFails /\ Register(job[w]) /\ Goto(w, "deadLetter")
  /\ UNCHANGED <<tableVars, queue, holder, job, unread, dlq, crashes, lost, faults>>

\* Defect: the status is misspelt.
ReleaseLockMisspelt(w) ==
  /\ pc[w] = "release"
  /\ SetStatus(w, "completed")
  /\ Goto(w, "delete")
  /\ UNCHANGED <<queue, holder, job, unread, posted, dlq, crashes, lost, faults>>

\* Defect: the message is not deleted after a test that went well.
ReleaseLockAndLeave(w) ==
  /\ pc[w] = "release"
  /\ SetStatus(w, "finished")
  /\ Leave(w)
  /\ UNCHANGED <<queue, holder, posted, dlq, crashes, lost, faults>>

ReleaseLock(w) ==
  /\ pc[w] = "release"
  /\ TryStatus(w, "finished")
  /\ Goto(w, "delete")
  /\ UNCHANGED <<queue, holder, job, unread, posted, dlq, crashes, faults>>

\* Defect: no copy is kept.
DeadLetterSkipped(w) ==
  /\ pc[w] = "deadLetter"
  /\ Goto(w, "markFailed")
  /\ UNCHANGED <<tableVars, queue, holder, job, unread, posted, dlq, crashes, lost, faults>>

\* markFailedAndDrop: dead-letter queue, status, and the message goes.
DeadLetter(w) ==
  /\ pc[w] = "deadLetter"
  /\ \/ dlq' = [dlq EXCEPT ![job[w]] = TRUE]
     \/ "deadLetter" \in faults /\ UNCHANGED dlq
  /\ Goto(w, "markFailed")
  /\ UNCHANGED <<tableVars, queue, holder, job, unread, posted, crashes, lost, faults>>

\* Defect: the status stays running.
MarkFailedForgotten(w) ==
  /\ pc[w] = "markFailed"
  /\ Goto(w, "delete")
  /\ UNCHANGED <<tableVars, queue, holder, job, unread, posted, dlq, crashes, lost, faults>>

MarkFailed(w) ==
  /\ pc[w] = "markFailed"
  /\ TryStatus(w, "failed")
  /\ Goto(w, "delete")
  /\ UNCHANGED <<queue, holder, job, unread, posted, dlq, crashes, faults>>

Delete(w) ==
  /\ pc[w] = "delete"
  /\ TryDelete(w)
  /\ Leave(w)
  /\ UNCHANGED <<tableVars, holder, posted, dlq, crashes, lost, faults>>

ProcessMessage(w) ==
  \/ ParseFails(w) \/ MarkRunning(w)
  \/ (\E t \in Tests : ReadRow(w, t)) \/ Skip(w) \/ AcquireLock(w) \/ CheckFails(w)
  \/ TestEnds(w) \/ PostScore(w) \/ ReleaseLock(w)
  \/ DeadLetter(w) \/ MarkFailed(w) \/ Delete(w)

\* What happens without a new request.
Serve ==
  \/ \E t \in Tests : VisibilityTimeout(t) \/ HourPasses(t)
  \/ \E w \in Workers : Crash(w) \/ ProcessMessage(w) \/ (\E t \in Tests : Dequeue(w, t))

Next == Serve \/ (\E t \in Tests : Enqueue(t))

Spec == Init /\ [][Next]_vars

\* A worker does not stop in the middle of a message, a hidden message comes
\* back, and the queue is served in turn: a message that is visible again and
\* again is taken in the end.
ServeFairness ==
  /\ \A t \in Tests :
       /\ WF_vars(VisibilityTimeout(t))
       /\ SF_vars(\E w \in Workers : Dequeue(w, t))
  /\ \A w \in Workers : WF_vars(ProcessMessage(w))

\* Requests arrive.
Fairness == ServeFairness /\ \A t \in Tests : WF_vars(Enqueue(t))

FairSpec == Spec /\ Fairness

--------------------------------------------------------------------------------
(* Properties *)

(* A team's VM serves one load test at a time.                                *)
OneTestPerTeam ==
  \A v, w \in Workers :
    v # w /\ pc[v] = "test" /\ pc[w] = "test" => Team[job[v]] # Team[job[w]]

\* No time limit passes under a worker.
NoOverrun == faults \cap {"overrun", "longTest"} = {}

(* Marking the row before reading the others' is enough for two workers not   *)
(* to miss each other, crashes, stale rows and earlier skips included: as     *)
(* long as no limit passes under a worker, two tests of a team meet only when  *)
(* a status of one of the two was not written.                                *)
OneTestInTime ==
  NoOverrun =>
    \A v, w \in Workers :
      v # w /\ pc[v] = "test" /\ pc[w] = "test" /\ Team[job[v]] = Team[job[w]]
        => job[v] \in lost \/ job[w] \in lost

(* A request leaves the queue only when its outcome is on record: a score     *)
(* registered, or a copy in the dead-letter queue, as long as that can be     *)
(* written to.                                                                *)
DeletedIsAccountedFor ==
  "deadLetter" \notin faults =>
    \A t \in Tests \ Malformed : queue[t] = "deleted" => posted[t] > 0 \/ dlq[t]

(* No row stays waiting or running behind a message that is gone, unless one   *)
(* of its statuses was not written: such a row blocks its team for an hour.    *)
DeletedIsSettled ==
  NoOverrun =>
    \A t \in Tests \ Malformed :
      queue[t] = "deleted" => row[t] \in {"finished", "failed"} \/ t \in lost

\* Every call succeeds, too.
InTime == faults \cap {"calls", "overrun", "longTest"} = {}

(* A second score is registered only after a crash, one for each at most.     *)
ScoredOnce == InTime => \A t \in Tests : posted[t] =< 1 + crashes

(* The life of a request as the team sees it. *)
Lifecycle == INSTANCE RequestLifecycle WITH
  Requests <- Tests,
  status <- row,
  scored <- [t \in Tests |-> posted[t] > 0],
  lossy <- crashes > 0 \/ ~InTime

(* Two workers, the queue, the table and the intermediate server implement   *)
(* it: a finished request has a score whatever is repeated or lost, and as    *)
(* long as nothing is lost an outcome is final and a failed one has no score. *)
ImplementsRequests == Lifecycle!Spec

(* Every request is settled and leaves the queue in the end.                  *)
RequestsSettle ==
  \A t \in Tests :
    <>[](t \in Malformed \/ (row[t] \in {"finished", "failed"} /\ queue[t] = "deleted"))

================================================================================
