-------------------------- MODULE LoadTestQueueProofs --------------------------
(***************************************************************************)
(* Theorems about LoadTestQueue, for any number of workers, requests and    *)
(* teams, any sets of faults and any bounds.                                *)
(***************************************************************************)
EXTENDS LoadTestQueue, TLAPS

\* A copy of the request is in the dead-letter queue, if that can be written to.
Kept(t) == dlq[t] \/ "deadLetter" \in faults

\* The places between the mark as running and the final status.
Marked == {"check", "test", "post", "release", "deadLetter", "markFailed"}
Settled == {"finished", "failed"}

\* A worker is at work on a request that exists and can be read.
JobsExist ==
  \A w \in Workers :
    /\ Busy(w) => job[w] \in Tests /\ queue[job[w]] # "absent"
    /\ pc[w] \notin {"poll", "parse"} => job[w] \notin Malformed

\* The row comes with the message.
RowsExist ==
  \A t \in Tests :
    /\ queue[t] = "absent" => row[t] = "none"
    /\ queue[t] # "absent" /\ t \notin Malformed => row[t] # "none"

\* The lock has been acquired before a test starts.
TestsHaveStarted ==
  \A w \in Workers :
    pc[w] \in Marked \ {"check"} => row[job[w]] \notin {"none", "waiting"}

\* What a worker is about to write down is true.
OutcomesAreOnRecord ==
  /\ \A w \in Workers :
       /\ pc[w] = "release" => posted[job[w]] > 0
       /\ pc[w] = "markFailed" => Kept(job[w])
       /\ pc[w] = "delete" => posted[job[w]] > 0 \/ Kept(job[w])
  /\ \A t \in Tests :
       /\ row[t] = "finished" => posted[t] > 0
       /\ queue[t] = "deleted" /\ t \notin Malformed => posted[t] > 0 \/ Kept(t)

\* Without overruns a message is hidden while it is worked on, and only the
\* worker that took it last works on it.
JobsAreHeld ==
  NoOverrun =>
    \A w \in Workers : Busy(w) => queue[job[w]] = "hidden" /\ holder[job[w]] = w

\* ... the row then says where that worker is, unless a status was not written,
RowsFollowWork ==
  NoOverrun =>
    /\ \A w \in Workers : job[w] \notin lost =>
         /\ pc[w] \in Marked => row[job[w]] = "running" /\ fresh[job[w]]
         /\ pc[w] = "delete" => row[job[w]] \in Settled
    /\ \A t \in Tests \ (Malformed \cup lost) : queue[t] = "deleted" => row[t] \in Settled

\* ... which takes a failing call,
NothingIsLost == InTime => lost = {}

\* ... every score but one was followed by a crash, and the last one by its
\* worker's way to the deletion,
ScoresAreCounted ==
  InTime =>
    \A t \in Tests :
      /\ posted[t] =< 1 + crashes
      /\ posted[t] = 1 + crashes =>
           \/ queue[t] = "deleted"
           \/ \E w \in Workers : job[w] = t /\ pc[w] \in {"release", "delete"}

\* ... a settled request is on its way out of the queue, as long as no worker
\* has crashed,
SettledIsLeaving ==
  InTime /\ crashes = 0 =>
    \A t \in Tests : row[t] \in Settled =>
      \/ queue[t] = "deleted"
      \/ \E w \in Workers : job[w] = t /\ pc[w] = "delete"

\* ... and of two workers on requests of a team one has yet to read the other's
\* row, which will make it skip.
TeammatesAreRead ==
  NoOverrun =>
    /\ \A w \in Workers : pc[w] = "test" => unread[w] = {}
    /\ \A v, w \in Workers :
         v # w /\ pc[v] \in {"check", "test"} /\ pc[w] \in {"check", "test"}
           /\ Team[job[v]] = Team[job[w]] /\ job[v] \notin lost /\ job[w] \notin lost
         => job[w] \in unread[v] \/ job[v] \in unread[w]

IInv ==
  /\ TypeOK
  /\ JobsExist
  /\ RowsExist
  /\ TestsHaveStarted
  /\ OutcomesAreOnRecord
  /\ JobsAreHeld
  /\ RowsFollowWork
  /\ NothingIsLost
  /\ ScoresAreCounted
  /\ SettledIsLeaving
  /\ TeammatesAreRead

--------------------------------------------------------------------------------
(* The initial state satisfies IInv. *)
LEMMA InitIInv == Init => IInv
<1> SUFFICES ASSUME Init PROVE IInv
  OBVIOUS
<1> USE QueueAssumption DEF Init
<1>1. TypeOK
  BY DEF TypeOK
<1>2. JobsExist /\ RowsExist /\ TestsHaveStarted /\ OutcomesAreOnRecord
  BY DEF JobsExist, RowsExist, TestsHaveStarted, OutcomesAreOnRecord, Marked, Busy
<1>3. /\ JobsAreHeld /\ RowsFollowWork /\ NothingIsLost
      /\ ScoresAreCounted /\ SettledIsLeaving /\ TeammatesAreRead
  BY DEF JobsAreHeld, RowsFollowWork, NothingIsLost, ScoresAreCounted, SettledIsLeaving, TeammatesAreRead,
         Marked, Settled, Busy
<1> QED BY <1>1, <1>2, <1>3 DEF IInv

--------------------------------------------------------------------------------
(* Every step keeps IInv: one lemma per action, in it one step for the type  *)
(* invariant and one or more for the parts the action can disturb.           *)

(* What may go wrong is decided at the start. *)
LEMMA FaultsStay ==
  UNCHANGED faults =>
    InTime' = InTime /\ NoOverrun' = NoOverrun /\ Malformed' = Malformed
BY DEF InTime, NoOverrun, Malformed

(* In time, no call fails and no time limit passes under a worker. *)
LEMMA InTimeMeans == InTime => NoOverrun /\ ~CallFails
BY DEF InTime, NoOverrun, CallFails

LEMMA NothingElapses ==
  ASSUME NoOverrun, NEW t \in Tests PROVE MayElapse(t) => ~AtWork(t)
BY DEF NoOverrun, MayElapse, AtWork

(* The bounded counters are numbers. *)
LEMMA CountersAreNat ==
  TypeOK => crashes \in Nat /\ \A t \in Tests : posted[t] \in Nat
<1> SUFFICES ASSUME TypeOK PROVE crashes \in Nat /\ \A t \in Tests : posted[t] \in Nat
  OBVIOUS
<1>1. crashes \in 0 .. MaxCrashes
  BY DEF TypeOK
<1>2. \A t \in Tests : posted[t] \in 0 .. MaxPosted
  BY DEF TypeOK
<1> QED BY <1>1, <1>2, QueueAssumption

(* A new request touches nothing a worker knows. *)
LEMMA EnqueueKeeps ==
  ASSUME IInv, NEW t \in Tests, Enqueue(t) PROVE IInv'
<1> USE FaultsStay DEF IInv, Enqueue, tableVars
<1>1. TypeOK'
  BY DEF TypeOK
<1>2. JobsExist'
  BY DEF TypeOK, JobsExist, Busy
<1>3. RowsExist'
  BY DEF TypeOK, RowsExist
<1>4. TestsHaveStarted'
  BY DEF TypeOK, JobsExist, TestsHaveStarted, Marked, Busy
<1>5. OutcomesAreOnRecord'
  BY DEF TypeOK, JobsExist, OutcomesAreOnRecord, Busy, Kept
<1>6. JobsAreHeld'
  BY DEF TypeOK, JobsExist, JobsAreHeld, Busy
<1>7. RowsFollowWork'
  <2>1. \A u \in Tests \ {t} : row'[u] = row[u] /\ fresh'[u] = fresh[u] /\ queue'[u] = queue[u]
    BY DEF TypeOK
  <2>2. \A w \in Workers : pc[w] # "poll" => job[w] \in Tests \ {t}
    BY DEF JobsExist, Busy
  <2>3. queue'[t] = "visible"
    BY DEF TypeOK
  <2> QED BY <2>1, <2>2, <2>3 DEF RowsFollowWork, Marked
<1>8. NothingIsLost'
  BY DEF NothingIsLost
<1>11. ScoresAreCounted'
  BY DEF TypeOK, ScoresAreCounted
<1>9. SettledIsLeaving'
  <2>1. \A u \in Tests \ {t} : row'[u] = row[u] /\ queue'[u] = queue[u]
    BY DEF TypeOK
  <2>2. row'[t] \notin Settled
    BY DEF TypeOK, RowsExist, Settled
  <2> QED BY <2>1, <2>2 DEF SettledIsLeaving
<1>10. TeammatesAreRead'
  BY DEF TeammatesAreRead
<1> QED BY <1>1, <1>2, <1>3, <1>4, <1>5, <1>6, <1>7, <1>8, <1>9, <1>10, <1>11

(* A message comes back only when, without overruns, nobody is at work on it. *)
LEMMA VisibilityTimeoutKeeps ==
  ASSUME IInv, NEW t \in Tests, VisibilityTimeout(t) PROVE IInv'
<1> USE DEF IInv
<1>1. /\ \A u \in Tests \ {t} : queue'[u] = queue[u]
      /\ queue[t] = "hidden" /\ queue'[t] = "visible"
      /\ UNCHANGED <<tableVars, holder, pc, job, unread, posted, dlq, crashes, lost, faults>>
      /\ NoOverrun => ~AtWork(t)
      /\ InTime' = InTime /\ NoOverrun' = NoOverrun /\ Malformed' = Malformed
  BY FaultsStay, NothingElapses DEF TypeOK, VisibilityTimeout
<1>2. TypeOK'
  BY DEF TypeOK, VisibilityTimeout, tableVars
<1>3. JobsExist' /\ RowsExist' /\ TestsHaveStarted' /\ OutcomesAreOnRecord'
  BY <1>1 DEF JobsExist, RowsExist, TestsHaveStarted, OutcomesAreOnRecord, Busy, Kept, tableVars
<1>4. JobsAreHeld'
  BY <1>1 DEF JobsExist, JobsAreHeld, AtWork, Busy
<1>5. RowsFollowWork'
  BY <1>1 DEF RowsFollowWork, tableVars
<1>6. ScoresAreCounted'
  BY <1>1 DEF ScoresAreCounted
<1>7. SettledIsLeaving' /\ TeammatesAreRead'
  BY <1>1 DEF SettledIsLeaving, TeammatesAreRead, tableVars
<1>8. NothingIsLost'
  BY <1>1 DEF NothingIsLost
<1> QED BY <1>2, <1>3, <1>4, <1>5, <1>6, <1>7, <1>8

(* A row ages only when, without overruns, nobody is at work on its request. *)
LEMMA HourPassesKeeps ==
  ASSUME IInv, NEW t \in Tests, HourPasses(t) PROVE IInv'
<1> USE DEF IInv
<1>1. /\ \A u \in Tests \ {t} : fresh'[u] = fresh[u]
      /\ UNCHANGED <<row, queue, holder, pc, job, unread, posted, dlq, crashes, lost, faults>>
      /\ NoOverrun => ~AtWork(t)
      /\ InTime' = InTime /\ NoOverrun' = NoOverrun /\ Malformed' = Malformed
  BY FaultsStay, NothingElapses DEF TypeOK, HourPasses
<1>2. TypeOK'
  BY DEF TypeOK, HourPasses
<1>3. JobsExist' /\ RowsExist' /\ TestsHaveStarted' /\ OutcomesAreOnRecord' /\ JobsAreHeld'
  BY <1>1 DEF JobsExist, RowsExist, TestsHaveStarted, OutcomesAreOnRecord, JobsAreHeld, Busy, Kept
<1>4. RowsFollowWork'
  BY <1>1 DEF JobsExist, RowsFollowWork, Marked, AtWork, Busy
<1>5. ScoresAreCounted'
  BY <1>1 DEF ScoresAreCounted
<1>6. SettledIsLeaving' /\ TeammatesAreRead'
  BY <1>1 DEF SettledIsLeaving, TeammatesAreRead
<1>7. NothingIsLost'
  BY <1>1 DEF NothingIsLost
<1> QED BY <1>2, <1>3, <1>4, <1>5, <1>6, <1>7

(* A crash excuses one more score. *)
LEMMA CrashKeeps ==
  ASSUME IInv, NEW w \in Workers, Crash(w) PROVE IInv'
<1> USE DEF IInv
<1>1. /\ \A v \in Workers \ {w} : pc'[v] = pc[v] /\ job'[v] = job[v] /\ unread'[v] = unread[v]
      /\ pc'[w] = "poll" /\ unread'[w] = {}
      /\ crashes' = crashes + 1
      /\ UNCHANGED <<tableVars, queue, holder, posted, dlq, lost, faults>>
      /\ InTime' = InTime /\ NoOverrun' = NoOverrun /\ Malformed' = Malformed
  BY FaultsStay DEF TypeOK, Crash
<1>2. TypeOK'
  <2>1. crashes' \in 0 .. MaxCrashes
    BY QueueAssumption, CountersAreNat DEF Crash
  <2> QED BY <2>1 DEF TypeOK, Crash, tableVars
<1>3. JobsExist' /\ RowsExist'
  BY <1>1 DEF JobsExist, RowsExist, Busy, tableVars
<1>4. TestsHaveStarted' /\ OutcomesAreOnRecord'
  BY <1>1 DEF TestsHaveStarted, OutcomesAreOnRecord, Marked, Kept, tableVars
<1>5. JobsAreHeld'
  BY <1>1 DEF JobsAreHeld, Busy
<1>6. RowsFollowWork'
  BY <1>1 DEF RowsFollowWork, Marked, tableVars
<1>7. ScoresAreCounted'
  BY <1>1, CountersAreNat DEF ScoresAreCounted
<1>8. SettledIsLeaving'
  BY <1>1, CountersAreNat DEF SettledIsLeaving
<1>9. TeammatesAreRead'
  BY <1>1 DEF TeammatesAreRead
<1>10. NothingIsLost'
  BY <1>1 DEF NothingIsLost
<1> QED BY <1>2, <1>3, <1>4, <1>5, <1>6, <1>7, <1>8, <1>9, <1>10

(* Without overruns nobody else is at work on a message that is visible. *)
LEMMA DequeueKeeps ==
  ASSUME IInv, NEW w \in Workers, NEW t \in Tests, Dequeue(w, t) PROVE IInv'
<1> USE DEF IInv
<1>1. /\ \A v \in Workers \ {w} : pc'[v] = pc[v] /\ job'[v] = job[v]
      /\ pc[w] = "poll" /\ pc'[w] = "parse" /\ job'[w] = t
      /\ \A u \in Tests \ {t} : queue'[u] = queue[u] /\ holder'[u] = holder[u]
      /\ queue[t] = "visible" /\ queue'[t] = "hidden" /\ holder'[t] = w
      /\ UNCHANGED <<tableVars, unread, posted, dlq, crashes, lost, faults>>
      /\ InTime' = InTime /\ NoOverrun' = NoOverrun /\ Malformed' = Malformed
  BY FaultsStay DEF TypeOK, Dequeue, Goto
<1>2. TypeOK'
  BY DEF TypeOK, Dequeue, Goto, tableVars
<1>3. JobsExist' /\ RowsExist'
  BY <1>1 DEF JobsExist, RowsExist, Busy, tableVars
<1>4. TestsHaveStarted' /\ OutcomesAreOnRecord'
  BY <1>1 DEF TestsHaveStarted, OutcomesAreOnRecord, Marked, Kept, tableVars
<1>5. JobsAreHeld'
  BY <1>1 DEF JobsExist, JobsAreHeld, Busy
<1>6. RowsFollowWork'
  BY <1>1 DEF RowsFollowWork, Marked, tableVars
<1>7. ScoresAreCounted'
  BY <1>1 DEF ScoresAreCounted
<1>8. SettledIsLeaving'
  BY <1>1 DEF SettledIsLeaving, tableVars
<1>9. TeammatesAreRead'
  BY <1>1 DEF TeammatesAreRead
<1>10. NothingIsLost'
  BY <1>1 DEF NothingIsLost
<1> QED BY <1>2, <1>3, <1>4, <1>5, <1>6, <1>7, <1>8, <1>9, <1>10

--------------------------------------------------------------------------------
(* The steps of processMessage. *)

\* Nothing changes but where worker w is.
Moves(w) ==
  /\ \A v \in Workers \ {w} : pc'[v] = pc[v] /\ job'[v] = job[v] /\ unread'[v] = unread[v]
  /\ UNCHANGED <<crashes, faults>>
  /\ InTime' = InTime /\ NoOverrun' = NoOverrun /\ Malformed' = Malformed

(* A worker that goes on keeps its request. *)
LEMMA GotoMoves ==
  ASSUME TypeOK, NEW w \in Workers, NEW place, Goto(w, place),
         UNCHANGED <<job, unread, crashes, faults>>
  PROVE  Moves(w) /\ pc'[w] = place
BY FaultsStay DEF TypeOK, Goto, Moves

(* A worker that leaves has read nothing. *)
LEMMA LeaveMoves ==
  ASSUME TypeOK, NEW w \in Workers, Leave(w), UNCHANGED <<crashes, faults>>
  PROVE  Moves(w) /\ pc'[w] = "poll" /\ unread'[w] = {}
BY FaultsStay DEF TypeOK, Leave, Goto, Moves

(* What a worker knows of its request; without overruns, also that no other  *)
(* worker is at work on it.                                                   *)
LEMMA JobFacts ==
  ASSUME IInv, NEW w \in Workers, pc[w] # "poll"
  PROVE  /\ job[w] \in Tests /\ queue[job[w]] # "absent"
         /\ NoOverrun =>
              /\ queue[job[w]] = "hidden" /\ holder[job[w]] = w
              /\ \A v \in Workers \ {w} : pc[v] # "poll" => job[v] # job[w]
<1>1. job[w] \in Tests /\ queue[job[w]] # "absent"
  BY DEF IInv, JobsExist, Busy
<1>2. NoOverrun => queue[job[w]] = "hidden" /\ holder[job[w]] = w
  BY DEF IInv, JobsAreHeld, Busy
<1>3. NoOverrun => \A v \in Workers \ {w} : pc[v] # "poll" => job[v] # job[w]
  BY <1>2 DEF IInv, JobsAreHeld, Busy
<1> QED BY <1>1, <1>2, <1>3

(* A call that sets the status touches no other row. *)
LEMMA StatusFacts ==
  ASSUME TypeOK, NEW w \in Workers, job[w] \in Tests, NEW status
  PROVE  SetStatus(w, status) =>
           /\ \A t \in Tests \ {job[w]} : row'[t] = row[t] /\ fresh'[t] = fresh[t]
           /\ row'[job[w]] = status /\ fresh'[job[w]] = TRUE
BY DEF TypeOK, SetStatus

(* Skip, CheckFails: the request is dropped. *)
LEMMA DropKeeps ==
  ASSUME IInv, NEW w \in Workers, pc[w] = "check", Leave(w),
         UNCHANGED tableVars \/ (CallFails /\ SetStatus(w, "running")),
         UNCHANGED <<queue, holder, posted, dlq, crashes, lost, faults>>
  PROVE  IInv'
<1> USE DEF IInv
<1>1. Moves(w) /\ pc'[w] = "poll" /\ unread'[w] = {}
  BY LeaveMoves
<1>2. /\ job[w] \in Tests /\ queue[job[w]] # "absent"
      /\ NoOverrun =>
           /\ queue[job[w]] = "hidden"
           /\ \A v \in Workers \ {w} : pc[v] # "poll" => job[v] # job[w]
  BY JobFacts
<1>3. /\ \A t \in Tests \ {job[w]} : row'[t] = row[t] /\ fresh'[t] = fresh[t]
      /\ row'[job[w]] \in {row[job[w]], "running"}
      /\ UNCHANGED tableVars \/ (~InTime /\ row'[job[w]] = "running")
  BY <1>2, StatusFacts, InTimeMeans DEF tableVars
<1>4. TypeOK'
  BY <1>2 DEF TypeOK, Leave, Goto, tableVars, SetStatus
<1>5. JobsExist' /\ RowsExist'
  <2>1. JobsExist'
    BY <1>1 DEF Moves, JobsExist, Busy
  <2>2. RowsExist'
    BY <1>1, <1>2, <1>3 DEF Moves, RowsExist
  <2> QED BY <2>1, <2>2
<1>6. TestsHaveStarted'
  BY <1>1, <1>2, <1>3 DEF Moves, TestsHaveStarted, JobsExist, Busy, Marked
<1>7. OutcomesAreOnRecord'
  BY <1>1, <1>2, <1>3 DEF Moves, OutcomesAreOnRecord, Kept
<1>8. JobsAreHeld'
  BY <1>1 DEF Moves, JobsAreHeld, Busy
<1>9. RowsFollowWork'
  <2>1. NoOverrun => \A v \in Workers \ {w} : pc[v] # "poll" => job[v] \in Tests \ {job[w]}
    BY <1>2 DEF JobsExist, Busy
  <2>2. NoOverrun' => \A v \in Workers : job'[v] \notin lost' =>
          /\ pc'[v] \in Marked => row'[job'[v]] = "running" /\ fresh'[job'[v]]
          /\ pc'[v] = "delete" => row'[job'[v]] \in Settled
    BY <1>1, <1>3, <2>1 DEF Moves, RowsFollowWork, Marked
  <2>3. NoOverrun' => \A t \in Tests \ (Malformed' \cup lost') :
          queue'[t] = "deleted" => row'[t] \in Settled
    BY <1>1, <1>2, <1>3 DEF Moves, RowsFollowWork
  <2> QED BY <2>2, <2>3 DEF RowsFollowWork
<1>10. NothingIsLost' /\ ScoresAreCounted'
  BY <1>1 DEF Moves, NothingIsLost, ScoresAreCounted
<1>11. SettledIsLeaving'
  BY <1>1, <1>3 DEF Moves, SettledIsLeaving, tableVars
<1>12. TeammatesAreRead'
  BY <1>1 DEF Moves, TeammatesAreRead
<1> QED BY <1>4, <1>5, <1>6, <1>7, <1>8, <1>9, <1>10, <1>11, <1>12

(* ParseFails, Delete: what the deletion has to find. *)
LEMMA DeletionKeeps ==
  ASSUME IInv, NEW w \in Workers, pc[w] \in {"parse", "delete"}, Leave(w),
         TryDelete(w),
         pc[w] = "parse" => job[w] \in Malformed,
         UNCHANGED <<tableVars, holder, posted, dlq, crashes, lost, faults>>
  PROVE  IInv'
<1> USE DEF IInv
<1>1. Moves(w) /\ pc'[w] = "poll" /\ unread'[w] = {}
  BY LeaveMoves
<1>2. /\ job[w] \in Tests /\ queue[job[w]] # "absent"
      /\ NoOverrun =>
           /\ holder[job[w]] = w
           /\ \A v \in Workers \ {w} : pc[v] # "poll" => job[v] # job[w]
  BY JobFacts
<1>3. /\ \A u \in Tests \ {job[w]} : queue'[u] = queue[u]
      /\ queue'[job[w]] \in {queue[job[w]], "deleted"}
      /\ InTime => queue'[job[w]] = "deleted"
  BY <1>2, InTimeMeans DEF TypeOK, TryDelete, DeleteMessage
<1>4. TypeOK'
  BY <1>2 DEF TypeOK, Leave, Goto, tableVars, TryDelete, DeleteMessage
<1>5. JobsExist'
  BY <1>1, <1>2, <1>3 DEF Moves, JobsExist, Busy
<1>6. RowsExist'
  BY <1>1, <1>2, <1>3 DEF Moves, RowsExist, tableVars
<1>7. TestsHaveStarted'
  BY <1>1 DEF Moves, TestsHaveStarted, Marked, tableVars
<1>8. OutcomesAreOnRecord'
  BY <1>1, <1>2, <1>3 DEF Moves, OutcomesAreOnRecord, Kept, tableVars
<1>9. JobsAreHeld'
  BY <1>1, <1>2, <1>3 DEF Moves, JobsAreHeld, JobsExist, Busy
<1>10. RowsFollowWork'
  BY <1>1, <1>2, <1>3 DEF Moves, RowsFollowWork, Marked, tableVars
<1>11. ScoresAreCounted'
  BY <1>1, <1>2, <1>3, InTimeMeans DEF Moves, ScoresAreCounted
<1>12. SettledIsLeaving'
  BY <1>1, <1>2, <1>3 DEF Moves, SettledIsLeaving, tableVars
<1>13. TeammatesAreRead'
  BY <1>1 DEF Moves, TeammatesAreRead
<1>14. NothingIsLost'
  BY <1>1 DEF Moves, NothingIsLost
<1> QED BY <1>4, <1>5, <1>6, <1>7, <1>8, <1>9, <1>10, <1>11, <1>12, <1>13, <1>14

(* The query of w misses no teammate: one it passes over is not under way. *)
LEMMA ReadRowKeeps ==
  ASSUME IInv, NEW w \in Workers, NEW t \in Tests, ReadRow(w, t) PROVE IInv'
<1> USE DEF IInv
<1>1. /\ \A v \in Workers \ {w} : unread'[v] = unread[v]
      /\ pc[w] = "check" /\ unread'[w] = unread[w] \ {t}
      /\ ~InProgress(t)
      /\ UNCHANGED <<tableVars, queue, holder, pc, job, posted, dlq, crashes, lost, faults>>
      /\ InTime' = InTime /\ NoOverrun' = NoOverrun /\ Malformed' = Malformed
  BY FaultsStay DEF TypeOK, ReadRow
<1>2. TypeOK'
  BY DEF TypeOK, ReadRow, tableVars
<1>3. JobsExist' /\ RowsExist' /\ TestsHaveStarted' /\ OutcomesAreOnRecord' /\ JobsAreHeld'
  BY <1>1 DEF JobsExist, RowsExist, TestsHaveStarted, OutcomesAreOnRecord, JobsAreHeld,
              Busy, Kept, tableVars
<1>4. RowsFollowWork'
  BY <1>1 DEF RowsFollowWork, tableVars
<1>5. ScoresAreCounted'
  BY <1>1 DEF ScoresAreCounted
<1>6. SettledIsLeaving'
  BY <1>1 DEF SettledIsLeaving, tableVars
<1>7. TeammatesAreRead'
  <2>1. NoOverrun => \A v \in Workers :
          pc[v] \in {"check", "test"} /\ job[v] \notin lost => job[v] # t
    BY <1>1 DEF RowsFollowWork, InProgress, Marked
  <2> QED BY <1>1, <2>1 DEF TeammatesAreRead
<1>8. NothingIsLost'
  BY <1>1 DEF NothingIsLost
<1> QED BY <1>2, <1>3, <1>4, <1>5, <1>6, <1>7, <1>8

(* The end of a load test. *)
LEMMA TestEndsKeeps ==
  ASSUME IInv, NEW w \in Workers, TestEnds(w) PROVE IInv'
<1> USE DEF IInv
<1>1. /\ Moves(w)
      /\ pc[w] = "test" /\ pc'[w] \in {"post", "deadLetter"}
      /\ UNCHANGED <<tableVars, queue, holder, job, unread, posted, dlq, lost>>
  BY GotoMoves DEF TestEnds
<1>2. TypeOK'
  BY DEF TypeOK, TestEnds, Goto, tableVars
<1>3. JobsExist' /\ RowsExist' /\ JobsAreHeld'
  <2>1. JobsExist'
    BY <1>1 DEF Moves, JobsExist, Busy
  <2>2. RowsExist'
    BY <1>1 DEF Moves, RowsExist, tableVars
  <2>3. JobsAreHeld'
    BY <1>1 DEF Moves, JobsAreHeld, Busy
  <2> QED BY <2>1, <2>2, <2>3
<1>4. TestsHaveStarted' /\ OutcomesAreOnRecord'
  BY <1>1 DEF Moves, TestsHaveStarted, OutcomesAreOnRecord, Marked, Kept, tableVars
<1>5. RowsFollowWork'
  BY <1>1 DEF Moves, RowsFollowWork, Marked, tableVars
<1>6. ScoresAreCounted' /\ SettledIsLeaving'
  <2>1. \A v \in Workers : pc[v] \in {"release", "delete"} => job'[v] = job[v] /\ pc'[v] = pc[v]
    BY <1>1 DEF Moves
  <2>2. ScoresAreCounted'
    BY <1>1, <2>1 DEF Moves, ScoresAreCounted
  <2>3. UNCHANGED <<row, queue, crashes>> /\ InTime' = InTime
    BY <1>1 DEF Moves, tableVars
  <2>4. SettledIsLeaving'
    BY <2>1, <2>3 DEF SettledIsLeaving
  <2> QED BY <2>2, <2>4
<1>7. TeammatesAreRead'
  BY <1>1 DEF Moves, TeammatesAreRead
<1>8. NothingIsLost'
  BY <1>1 DEF Moves, NothingIsLost
<1> QED BY <1>2, <1>3, <1>4, <1>5, <1>6, <1>7, <1>8

(* A score is registered once per crash and once more: the worker that        *)
(* registered one before holds the message, has deleted it or has crashed.    *)
LEMMA PostScoreKeeps ==
  ASSUME IInv, NEW w \in Workers, PostScore(w) PROVE IInv'
<1> USE DEF IInv
<1>1. /\ Moves(w)
      /\ pc[w] = "post" /\ pc'[w] \in {"release", "deadLetter"}
      /\ UNCHANGED <<tableVars, queue, holder, job, unread, dlq, lost>>
  BY GotoMoves DEF PostScore
<1>2. /\ job[w] \in Tests /\ queue[job[w]] # "absent"
      /\ NoOverrun =>
           /\ queue[job[w]] = "hidden"
           /\ \A v \in Workers \ {w} : pc[v] # "poll" => job[v] # job[w]
  BY <1>1, JobFacts
<1>3. crashes \in Nat /\ \A t \in Tests : posted[t] \in Nat
  BY CountersAreNat
<1>4. Register(job[w]) =>
        /\ \A t \in Tests \ {job[w]} : posted'[t] = posted[t]
        /\ posted'[job[w]] \in {posted[job[w]], posted[job[w]] + 1}
        /\ posted'[job[w]] > 0
        /\ posted' \in [Tests -> 0 .. MaxPosted]
  <2>1. posted[job[w]] \in 0 .. MaxPosted
    BY <1>2 DEF TypeOK
  <2>2. (IF posted[job[w]] < MaxPosted THEN posted[job[w]] + 1 ELSE posted[job[w]])
          \in (1 .. MaxPosted) \cap {posted[job[w]], posted[job[w]] + 1}
    BY <2>1, QueueAssumption
  <2> SUFFICES ASSUME Register(job[w])
               PROVE  /\ \A t \in Tests \ {job[w]} : posted'[t] = posted[t]
                      /\ posted'[job[w]] \in 1 .. MaxPosted
                      /\ posted'[job[w]] \in {posted[job[w]], posted[job[w]] + 1}
                      /\ posted' \in [Tests -> 0 .. MaxPosted]
    BY QueueAssumption
  <2>3. posted \in [Tests -> 0 .. MaxPosted]
    BY DEF TypeOK
  <2>4. (1 .. MaxPosted) \subseteq (0 .. MaxPosted)
    BY QueueAssumption
  <2> QED BY <1>2, <2>2, <2>3, <2>4 DEF Register
<1>5. /\ Register(job[w]) \/ UNCHANGED posted
      /\ pc'[w] = "release" => Register(job[w])
      /\ InTime => (pc'[w] = "release" <=> Register(job[w])) \/ UNCHANGED posted
  <2>1. \/ Register(job[w]) /\ pc'[w] = "release"
        \/ UNCHANGED posted /\ pc'[w] = "deadLetter"
        \/ CallFails /\ Register(job[w]) /\ pc'[w] = "deadLetter"
    BY GotoMoves DEF PostScore
  <2> QED BY <2>1, InTimeMeans
<1>6. TypeOK'
  BY <1>4, <1>5 DEF TypeOK, PostScore, Goto, tableVars
<1>7. JobsExist' /\ RowsExist' /\ JobsAreHeld'
  <2>1. JobsExist'
    BY <1>1 DEF Moves, JobsExist, Busy
  <2>2. RowsExist'
    BY <1>1 DEF Moves, RowsExist, tableVars
  <2>3. JobsAreHeld'
    BY <1>1 DEF Moves, JobsAreHeld, Busy
  <2> QED BY <2>1, <2>2, <2>3
<1>8. TestsHaveStarted'
  BY <1>1 DEF Moves, TestsHaveStarted, Marked, tableVars
<1>9. OutcomesAreOnRecord'
  <2>1. \A t \in Tests : posted[t] > 0 => posted'[t] > 0
    BY <1>2, <1>4, <1>5
  <2>2. pc'[w] = "release" => posted'[job[w]] > 0
    BY <1>4, <1>5
  <2> QED BY <1>1, <1>2, <2>1, <2>2 DEF Moves, OutcomesAreOnRecord, JobsExist, Busy, Kept, tableVars
<1>10. RowsFollowWork'
  BY <1>1 DEF Moves, RowsFollowWork, Marked, tableVars
<1>11. ScoresAreCounted'
  <2> SUFFICES ASSUME InTime, NEW t \in Tests
               PROVE  /\ posted'[t] =< 1 + crashes
                      /\ posted'[t] = 1 + crashes =>
                           \/ queue[t] = "deleted"
                           \/ \E v \in Workers : job[v] = t /\ pc'[v] \in {"release", "delete"}
    BY <1>1 DEF Moves, ScoresAreCounted
  <2>1. CASE t # job[w]
    BY <1>1, <1>4, <1>5, <2>1 DEF Moves, ScoresAreCounted
  <2>2. CASE t = job[w]
    <3>1. posted[t] =< 1 + crashes /\ posted[t] # 1 + crashes
      BY <1>1, <1>2, <2>2, InTimeMeans DEF ScoresAreCounted
    <3>2. CASE UNCHANGED posted
      BY <3>1, <3>2
    <3>3. CASE Register(job[w]) /\ pc'[w] = "release"
      BY <1>3, <1>4, <2>2, <3>1, <3>3
    <3> QED BY <1>5, <3>2, <3>3
  <2> QED BY <2>1, <2>2
<1>12. SettledIsLeaving'
  <2>1. \A v \in Workers : pc[v] = "delete" => job'[v] = job[v] /\ pc'[v] = pc[v]
    BY <1>1 DEF Moves
  <2>2. UNCHANGED <<row, queue, crashes>> /\ InTime' = InTime
    BY <1>1 DEF Moves, tableVars
  <2> QED BY <2>1, <2>2 DEF SettledIsLeaving
<1>13. TeammatesAreRead'
  BY <1>1 DEF Moves, TeammatesAreRead
<1>14. NothingIsLost'
  BY <1>1 DEF Moves, NothingIsLost
<1> QED BY <1>6, <1>7, <1>8, <1>9, <1>10, <1>11, <1>12, <1>13, <1>14

(* A copy in the dead-letter queue. *)
LEMMA DeadLetterKeeps ==
  ASSUME IInv, NEW w \in Workers, DeadLetter(w) PROVE IInv'
<1> USE DEF IInv
<1>1. /\ Moves(w)
      /\ pc[w] = "deadLetter" /\ pc'[w] = "markFailed"
      /\ UNCHANGED <<tableVars, queue, holder, job, unread, posted, lost>>
  BY GotoMoves DEF DeadLetter
<1>2. job[w] \in Tests
  BY <1>1, JobFacts
<1>3. \A t \in Tests : Kept(t) => Kept(t)'
  BY DEF Kept, DeadLetter, TypeOK
<1>4. Kept(job[w])'
  BY <1>1, <1>2 DEF Kept, DeadLetter, TypeOK
<1>5. TypeOK'
  BY <1>2 DEF TypeOK, DeadLetter, Goto, tableVars
<1>6. JobsExist' /\ RowsExist' /\ JobsAreHeld'
  <2>1. JobsExist'
    BY <1>1 DEF Moves, JobsExist, Busy
  <2>2. RowsExist'
    BY <1>1 DEF Moves, RowsExist, tableVars
  <2>3. JobsAreHeld'
    BY <1>1 DEF Moves, JobsAreHeld, Busy
  <2> QED BY <2>1, <2>2, <2>3
<1>7. TestsHaveStarted' /\ RowsFollowWork'
  BY <1>1 DEF Moves, TestsHaveStarted, RowsFollowWork, Marked, tableVars
<1>8. OutcomesAreOnRecord'
  BY <1>1, <1>3, <1>4 DEF Moves, OutcomesAreOnRecord, JobsExist, Busy, tableVars
<1>9. ScoresAreCounted' /\ SettledIsLeaving'
  <2>1. \A v \in Workers : pc[v] \in {"release", "delete"} => job'[v] = job[v] /\ pc'[v] = pc[v]
    BY <1>1 DEF Moves
  <2>2. ScoresAreCounted'
    BY <1>1, <2>1 DEF Moves, ScoresAreCounted
  <2>3. UNCHANGED <<row, queue, crashes>> /\ InTime' = InTime
    BY <1>1 DEF Moves, tableVars
  <2>4. SettledIsLeaving'
    BY <2>1, <2>3 DEF SettledIsLeaving
  <2> QED BY <2>2, <2>4
<1>10. TeammatesAreRead'
  BY <1>1 DEF Moves, TeammatesAreRead
<1>11. NothingIsLost'
  BY <1>1 DEF Moves, NothingIsLost
<1> QED BY <1>5, <1>6, <1>7, <1>8, <1>9, <1>10, <1>11

(* The mark as running precedes the look at the others: every teammate is     *)
(* still to be read.                                                          *)
LEMMA MarkRunningKeeps ==
  ASSUME IInv, NEW w \in Workers, MarkRunning(w) PROVE IInv'
<1> USE DEF IInv
<1>1. /\ \A v \in Workers \ {w} : pc'[v] = pc[v] /\ unread'[v] = unread[v]
      /\ pc[w] = "parse" /\ pc'[w] = "check"
      /\ job[w] \notin Malformed /\ unread'[w] = Teammates(job[w])
      /\ UNCHANGED <<queue, holder, job, posted, dlq, crashes, faults>>
      /\ InTime' = InTime /\ NoOverrun' = NoOverrun /\ Malformed' = Malformed
  BY FaultsStay DEF TypeOK, MarkRunning, Goto
<1>2. /\ job[w] \in Tests /\ queue[job[w]] # "absent"
      /\ NoOverrun =>
           /\ queue[job[w]] = "hidden"
           /\ \A v \in Workers \ {w} : pc[v] # "poll" => job[v] # job[w]
  BY <1>1, JobFacts
<1>3. /\ \A t \in Tests \ {job[w]} : row'[t] = row[t] /\ fresh'[t] = fresh[t]
      /\ row'[job[w]] \in {row[job[w]], "running"}
      /\ lost' \in {lost, lost \cup {job[w]}}
      /\ job[w] \in lost' \/ (row'[job[w]] = "running" /\ fresh'[job[w]])
      /\ InTime => row'[job[w]] = "running" /\ lost' = lost
  BY <1>2, StatusFacts, InTimeMeans DEF MarkRunning, TryStatus, tableVars
<1>4. TypeOK'
  <2>1. unread' \in [Workers -> SUBSET Tests]
    BY DEF TypeOK, MarkRunning, Teammates
  <2>2. SetStatus(w, "running") \/ UNCHANGED tableVars
    BY DEF MarkRunning, TryStatus
  <2>3. row' \in [Tests -> {"none", "waiting", "running", "finished", "failed"}]
    BY <1>2, <2>2 DEF TypeOK, SetStatus, tableVars
  <2>4. fresh' \in [Tests -> BOOLEAN]
    BY <1>2, <2>2 DEF TypeOK, SetStatus, tableVars
  <2>5. lost' \subseteq Tests
    BY <1>2, <1>3 DEF TypeOK
  <2> QED BY <2>1, <2>3, <2>4, <2>5 DEF TypeOK, MarkRunning, Goto
<1>5. JobsExist' /\ RowsExist'
  BY <1>1, <1>2, <1>3 DEF JobsExist, RowsExist, Busy
<1>6. TestsHaveStarted'
  BY <1>1, <1>2, <1>3 DEF TestsHaveStarted, JobsExist, Busy, Marked
<1>7. OutcomesAreOnRecord'
  BY <1>1, <1>2, <1>3 DEF OutcomesAreOnRecord, Kept
<1>8. JobsAreHeld'
  BY <1>1 DEF JobsAreHeld, Busy
<1>9. RowsFollowWork'
  <2>1. NoOverrun => \A v \in Workers \ {w} : pc[v] # "poll" => job[v] \in Tests \ {job[w]}
    BY <1>2 DEF JobsExist, Busy
  <2>2. NoOverrun' => \A v \in Workers : job[v] \notin lost' =>
          /\ pc'[v] \in Marked => row'[job[v]] = "running" /\ fresh'[job[v]]
          /\ pc'[v] = "delete" => row'[job[v]] \in Settled
    BY <1>1, <1>2, <1>3, <2>1 DEF RowsFollowWork, Marked
  <2>3. NoOverrun' => \A t \in Tests \ (Malformed' \cup lost') :
          queue'[t] = "deleted" => row'[t] \in Settled
    BY <1>1, <1>2, <1>3 DEF RowsFollowWork
  <2> QED BY <1>1, <2>2, <2>3 DEF RowsFollowWork
<1>10. NothingIsLost' /\ ScoresAreCounted'
  BY <1>1, <1>3 DEF NothingIsLost, ScoresAreCounted
<1>11. SettledIsLeaving'
  <2>1. InTime => row'[job[w]] \notin Settled
    BY <1>3 DEF Settled
  <2> QED BY <1>1, <1>3, <2>1 DEF SettledIsLeaving
<1>12. TeammatesAreRead'
  <2>1. NoOverrun => \A v \in Workers \ {w} :
                    pc[v] \in {"check", "test"} /\ Team[job[v]] = Team[job[w]]
                      => job[v] \in Teammates(job[w])
    BY <1>2 DEF JobsExist, Busy, Teammates
  <2> QED BY <1>1, <1>3, <2>1 DEF TeammatesAreRead
<1> QED BY <1>4, <1>5, <1>6, <1>7, <1>8, <1>9, <1>10, <1>11, <1>12

(* The lock is acquired only when every teammate has been read. *)
LEMMA AcquireLockKeeps ==
  ASSUME IInv, NEW w \in Workers, AcquireLock(w) PROVE IInv'
<1> USE DEF IInv
<1>1. /\ Moves(w)
      /\ pc[w] = "check" /\ pc'[w] = "test" /\ unread[w] = {}
      /\ UNCHANGED <<queue, holder, job, unread, posted, dlq, lost>>
  BY GotoMoves DEF AcquireLock
<1>2. /\ job[w] \in Tests /\ queue[job[w]] # "absent"
      /\ NoOverrun =>
           /\ queue[job[w]] = "hidden"
           /\ \A v \in Workers \ {w} : pc[v] # "poll" => job[v] # job[w]
  BY <1>1, JobFacts
<1>3. /\ \A t \in Tests \ {job[w]} : row'[t] = row[t] /\ fresh'[t] = fresh[t]
      /\ row'[job[w]] = "running" /\ fresh'[job[w]]
  BY <1>2, StatusFacts DEF AcquireLock
<1>4. TypeOK'
  BY <1>2 DEF TypeOK, AcquireLock, Goto, SetStatus
<1>5. JobsExist' /\ RowsExist'
  BY <1>1, <1>2, <1>3 DEF Moves, JobsExist, RowsExist, Busy
<1>6. TestsHaveStarted'
  BY <1>1, <1>2, <1>3 DEF Moves, TestsHaveStarted, JobsExist, Busy, Marked
<1>7. OutcomesAreOnRecord'
  BY <1>1, <1>2, <1>3 DEF Moves, OutcomesAreOnRecord, Kept
<1>8. JobsAreHeld'
  BY <1>1 DEF Moves, JobsAreHeld, Busy
<1>9. RowsFollowWork'
  <2>1. NoOverrun => \A v \in Workers \ {w} : pc[v] # "poll" => job[v] \in Tests \ {job[w]}
    BY <1>2 DEF JobsExist, Busy
  <2>2. NoOverrun' => \A v \in Workers : job[v] \notin lost' =>
          /\ pc'[v] \in Marked => row'[job[v]] = "running" /\ fresh'[job[v]]
          /\ pc'[v] = "delete" => row'[job[v]] \in Settled
    BY <1>1, <1>2, <1>3, <2>1 DEF Moves, RowsFollowWork, Marked
  <2>3. NoOverrun' => \A t \in Tests \ (Malformed' \cup lost') :
          queue'[t] = "deleted" => row'[t] \in Settled
    BY <1>1, <1>2, <1>3 DEF Moves, RowsFollowWork
  <2> QED BY <1>1, <2>2, <2>3 DEF RowsFollowWork
<1>10. ScoresAreCounted'
  BY <1>1 DEF Moves, ScoresAreCounted
<1>11. SettledIsLeaving'
  <2>1. row'[job[w]] \notin Settled
    BY <1>3 DEF Settled
  <2> QED BY <1>1, <1>3, <2>1 DEF Moves, SettledIsLeaving
<1>12. TeammatesAreRead'
  BY <1>1 DEF Moves, TeammatesAreRead
<1>13. NothingIsLost'
  BY <1>1 DEF Moves, NothingIsLost
<1> QED BY <1>4, <1>5, <1>6, <1>7, <1>8, <1>9, <1>10, <1>11, <1>12, <1>13

(* ReleaseLock, MarkFailed: the final status, which is true. *)
LEMMA SettlingKeeps ==
  ASSUME IInv, NEW w \in Workers, NEW status \in Settled,
         pc[w] = (IF status = "finished" THEN "release" ELSE "markFailed"),
         TryStatus(w, status),
         Goto(w, "delete"),
         UNCHANGED <<queue, holder, job, unread, posted, dlq, crashes, faults>>
  PROVE  IInv'
<1> USE DEF IInv
<1>1. Moves(w) /\ pc'[w] = "delete"
  BY GotoMoves
<1>2. /\ job[w] \in Tests /\ queue[job[w]] # "absent"
      /\ NoOverrun =>
           /\ queue[job[w]] = "hidden"
           /\ \A v \in Workers \ {w} : pc[v] # "poll" => job[v] # job[w]
  BY JobFacts
<1>3. /\ \A t \in Tests \ {job[w]} : row'[t] = row[t] /\ fresh'[t] = fresh[t]
      /\ row'[job[w]] \in {row[job[w]], status}
      /\ lost' \in {lost, lost \cup {job[w]}}
      /\ job[w] \in lost' \/ row'[job[w]] = status
      /\ InTime => lost' = lost
  BY <1>2, StatusFacts, InTimeMeans DEF TryStatus, tableVars
<1>4. TypeOK'
  <2>1. SetStatus(w, status) \/ UNCHANGED tableVars
    BY DEF TryStatus
  <2>2. row' \in [Tests -> {"none", "waiting", "running", "finished", "failed"}]
    BY <1>2, <2>1 DEF TypeOK, SetStatus, tableVars, Settled
  <2>3. fresh' \in [Tests -> BOOLEAN]
    <3>1. CASE fresh' = [fresh EXCEPT ![job[w]] = TRUE]
      BY <3>1 DEF TypeOK
    <3> QED BY <2>1, <3>1 DEF TypeOK, SetStatus, tableVars
  <2>4. lost' \subseteq Tests
    BY <1>2, <1>3 DEF TypeOK
  <2> QED BY <2>2, <2>3, <2>4 DEF TypeOK, Goto
<1>5. JobsExist' /\ RowsExist'
  BY <1>1, <1>2, <1>3 DEF Moves, JobsExist, RowsExist, Busy, Settled
<1>6. TestsHaveStarted'
  BY <1>1, <1>2, <1>3 DEF Moves, TestsHaveStarted, JobsExist, Busy, Marked, Settled
<1>7. OutcomesAreOnRecord'
  BY <1>1, <1>2, <1>3 DEF Moves, OutcomesAreOnRecord, Kept
<1>8. JobsAreHeld'
  BY <1>1 DEF Moves, JobsAreHeld, Busy
<1>9. RowsFollowWork'
  <2>1. NoOverrun => \A v \in Workers \ {w} : pc[v] # "poll" => job[v] \in Tests \ {job[w]}
    BY <1>2 DEF JobsExist, Busy
  <2>2. NoOverrun' => \A v \in Workers : job[v] \notin lost' =>
          /\ pc'[v] \in Marked => row'[job[v]] = "running" /\ fresh'[job[v]]
          /\ pc'[v] = "delete" => row'[job[v]] \in Settled
    BY <1>1, <1>2, <1>3, <2>1 DEF Moves, RowsFollowWork, Marked
  <2>3. NoOverrun' => \A t \in Tests \ (Malformed' \cup lost') :
          queue'[t] = "deleted" => row'[t] \in Settled
    BY <1>1, <1>2, <1>3 DEF Moves, RowsFollowWork
  <2> QED BY <1>1, <2>2, <2>3 DEF RowsFollowWork
<1>10. ScoresAreCounted'
  <2>1. \A v \in Workers : pc[v] \in {"release", "delete"} => pc'[v] \in {"release", "delete"}
    BY <1>1 DEF Moves
  <2>2. UNCHANGED <<job, queue, posted, crashes>> /\ InTime' = InTime
    BY <1>1 DEF Moves
  <2>3. ASSUME InTime, NEW t \in Tests
        PROVE  /\ posted[t] =< 1 + crashes
               /\ posted[t] = 1 + crashes =>
                    \/ queue[t] = "deleted"
                    \/ \E v \in Workers : job[v] = t /\ pc'[v] \in {"release", "delete"}
    BY <2>1, <2>3 DEF ScoresAreCounted
  <2> HIDE DEF IInv
  <2> QED BY ONLY <2>2, <2>3 DEF ScoresAreCounted
<1>11. SettledIsLeaving'
  <2>1. \A v \in Workers : pc[v] = "delete" => pc'[v] = "delete"
    BY <1>1 DEF Moves
  <2> SUFFICES ASSUME InTime, crashes = 0, NEW t \in Tests, row'[t] \in Settled
               PROVE  queue[t] = "deleted" \/ \E v \in Workers : job[v] = t /\ pc'[v] = "delete"
    BY <1>1 DEF Moves, SettledIsLeaving
  <2>3. CASE t = job[w]
    BY <1>1, <2>3
  <2>4. CASE t # job[w]
    BY <1>3, <2>1, <2>4 DEF SettledIsLeaving
  <2> QED BY <2>3, <2>4
<1>13. NothingIsLost'
  BY <1>1, <1>3 DEF Moves, NothingIsLost
<1>12. TeammatesAreRead'
  BY <1>1, <1>3 DEF Moves, TeammatesAreRead
<1> QED BY <1>4, <1>5, <1>6, <1>7, <1>8, <1>9, <1>10, <1>11, <1>12, <1>13

--------------------------------------------------------------------------------
(* Every step of a worker on its request keeps IInv. *)
LEMMA ProcessMessageKeeps ==
  ASSUME IInv, NEW w \in Workers, ProcessMessage(w) PROVE IInv'
<1>1. CASE ParseFails(w)
  BY <1>1, DeletionKeeps DEF ParseFails
<1>2. CASE MarkRunning(w)
  BY <1>2, MarkRunningKeeps
<1>3. ASSUME NEW t \in Tests, ReadRow(w, t) PROVE IInv'
  BY <1>3, ReadRowKeeps
<1>4. CASE Skip(w) \/ CheckFails(w)
  BY <1>4, DropKeeps DEF Skip, CheckFails
<1>5. CASE AcquireLock(w)
  BY <1>5, AcquireLockKeeps
<1>6. CASE TestEnds(w)
  BY <1>6, TestEndsKeeps
<1>7. CASE PostScore(w)
  BY <1>7, PostScoreKeeps
<1>8. CASE ReleaseLock(w)
  <2>1. "finished" \in Settled
    BY DEF Settled
  <2> QED BY <1>8, <2>1, SettlingKeeps DEF ReleaseLock
<1>9. CASE DeadLetter(w)
  BY <1>9, DeadLetterKeeps
<1>10. CASE MarkFailed(w)
  <2>1. "failed" \in Settled
    BY DEF Settled
  <2> QED BY <1>10, <2>1, SettlingKeeps DEF MarkFailed
<1>11. CASE Delete(w)
  BY <1>11, DeletionKeeps DEF Delete
<1> QED BY <1>1, <1>2, <1>3, <1>4, <1>5, <1>6, <1>7, <1>8, <1>9, <1>10, <1>11
        DEF ProcessMessage

(* IInv is inductive, ... *)
LEMMA StepIInv == IInv /\ [Next]_vars => IInv'
<1> SUFFICES ASSUME IInv, [Next]_vars PROVE IInv'
  OBVIOUS
<1>1. ASSUME NEW t \in Tests, Enqueue(t) \/ VisibilityTimeout(t) \/ HourPasses(t) PROVE IInv'
  BY <1>1, EnqueueKeeps, VisibilityTimeoutKeeps, HourPassesKeeps
<1>2. ASSUME NEW w \in Workers, Crash(w) \/ ProcessMessage(w) PROVE IInv'
  BY <1>2, CrashKeeps, ProcessMessageKeeps
<1>3. ASSUME NEW w \in Workers, NEW t \in Tests, Dequeue(w, t) PROVE IInv'
  BY <1>3, DequeueKeeps
<1>4. CASE UNCHANGED vars
  <2> USE <1>4, FaultsStay DEF vars, IInv
  <2>1. TypeOK' /\ RowsExist'
    BY DEF TypeOK, RowsExist
  <2>2. JobsExist' /\ TestsHaveStarted'
    BY DEF JobsExist, TestsHaveStarted, Busy
  <2>3. OutcomesAreOnRecord'
    BY DEF OutcomesAreOnRecord, Kept
  <2>4. JobsAreHeld' /\ RowsFollowWork'
    BY DEF JobsAreHeld, RowsFollowWork, Busy
  <2>5. NothingIsLost' /\ ScoresAreCounted'
    BY DEF NothingIsLost, ScoresAreCounted
  <2>6. SettledIsLeaving'
    BY DEF SettledIsLeaving
  <2>7. TeammatesAreRead'
    BY DEF TeammatesAreRead
  <2> QED BY <2>1, <2>2, <2>3, <2>4, <2>5, <2>6, <2>7
<1> QED BY <1>1, <1>2, <1>3, <1>4 DEF Next, Serve

(* ... and so holds in every reachable state. *)
THEOREM Invariance == Spec => []IInv
BY InitIInv, StepIInv, PTL DEF Spec

(* Every variable keeps its type. *)
THEOREM TypeCorrect == Spec => []TypeOK
<1>1. IInv => TypeOK
  BY DEF IInv
<1> QED BY <1>1, Invariance, PTL

(* As long as no time limit passes under a worker, two load tests of a team   *)
(* meet only when a status of one of the two was not written: else one would  *)
(* have to be read by the other's worker still, and neither reads any more.   *)
THEOREM OneTest == Spec => []OneTestInTime
<1>1. IInv => OneTestInTime
  BY DEF IInv, TeammatesAreRead, OneTestInTime
<1> QED BY <1>1, Invariance, PTL

(* A request leaves the queue only when its outcome is on record.             *)
THEOREM OutcomeKept == Spec => []DeletedIsAccountedFor
<1>1. IInv => DeletedIsAccountedFor
  BY DEF IInv, OutcomesAreOnRecord, DeletedIsAccountedFor, Kept
<1> QED BY <1>1, Invariance, PTL

(* No row stays waiting or running behind a message that is gone, unless one   *)
(* of its statuses was not written.                                           *)
THEOREM NoRowLeftBehind == Spec => []DeletedIsSettled
<1>1. IInv => DeletedIsSettled
  BY DEF IInv, RowsFollowWork, DeletedIsSettled, Settled
<1> QED BY <1>1, Invariance, PTL

(* A second score is registered only after a crash, one for each at most.     *)
THEOREM ScoresBounded == Spec => []ScoredOnce
<1>1. IInv => ScoredOnce
  BY DEF IInv, ScoresAreCounted, ScoredOnce
<1> QED BY <1>1, Invariance, PTL

--------------------------------------------------------------------------------
(* The workers implement RequestLifecycle: every step is a step or a stutter. *)

Lossy == crashes > 0 \/ ~InTime

(* The team sees only the rows, the scores and whether something was lost. *)
LEMMA NothingShows ==
  UNCHANGED <<row, posted, crashes, faults>> => UNCHANGED Lifecycle!vars
BY DEF Lifecycle!vars, InTime

(* One row that changes is a move of the abstract request. *)
LEMMA StatusMoves ==
  ASSUME NEW t, NEW from, NEW to, row[t] \in from, row' = [row EXCEPT ![t] = to],
         UNCHANGED <<posted, crashes, faults>>
  PROVE  Lifecycle!Move(t, from, to)
BY DEF Lifecycle!Move, InTime

(* The status a worker sets is the one it has, or an allowed next one. *)
LEMMA StatusImplements ==
  ASSUME IInv, NEW w \in Workers, pc[w] \notin {"poll", "delete"},
         NEW to \in {"running", "finished", "failed"},
         SetStatus(w, to), UNCHANGED <<posted, crashes, faults>>,
         to = "running" => pc[w] \in {"parse", "check"} /\ job[w] \notin Malformed,
         to = "finished" => pc[w] = "release",
         to = "failed" => pc[w] = "markFailed"
  PROVE  [Lifecycle!Next]_Lifecycle!vars
<1>0. PICK t \in Tests : t = job[w]
  BY JobFacts
<1>1. /\ queue[t] # "absent"
      /\ InTime =>
           /\ queue[t] = "hidden"
           /\ \A v \in Workers \ {w} : pc[v] # "poll" => job[v] # t
           /\ pc[w] \in Marked => row[t] = "running"
  BY <1>0, JobFacts, InTimeMeans DEF IInv, NothingIsLost, RowsFollowWork
<1>2. row[t] \in {"waiting", "running", "finished", "failed"}
  BY <1>0, <1>1 DEF IInv, TypeOK, RowsExist, TestsHaveStarted, Marked
<1>3. row[t] = to => row' = row
  BY <1>0 DEF IInv, TypeOK, SetStatus
<1>4. CASE row[t] = to
  BY <1>3, <1>4, NothingShows
<1>5. CASE to = "running" /\ row[t] # to
  <2>1. \A v \in Workers : pc[v] = "delete" /\ InTime => job[v] # t
    BY <1>0, <1>1, <1>5
  <2>2. InTime /\ crashes = 0 => row[t] \notin Settled
    BY <1>1, <2>1 DEF IInv, SettledIsLeaving
  <2>3. row[t] = "waiting" \/ (Lossy /\ row[t] \in {"finished", "failed"})
    BY <1>2, <1>5, <2>2, CountersAreNat DEF IInv, Settled, Lossy
  <2>4. CASE row[t] = "waiting"
    <3>1. row[t] \in {"waiting"} /\ row' = [row EXCEPT ![t] = "running"]
      BY <1>0, <1>5, <2>4 DEF SetStatus
    <3>2. Lifecycle!Move(t, {"waiting"}, "running")
      BY <3>1 DEF Lifecycle!Move, InTime
    <3> QED BY <1>1, <3>2 DEF Lifecycle!Start, Lifecycle!Next
  <2>5. CASE Lossy /\ row[t] \in {"finished", "failed"}
    <3>1. row[t] \in {"finished", "failed"} /\ row' = [row EXCEPT ![t] = "running"]
      BY <1>0, <1>5, <2>5 DEF SetStatus
    <3>2. Lifecycle!Move(t, {"finished", "failed"}, "running")
      BY <3>1 DEF Lifecycle!Move, InTime
    <3> QED BY <1>1, <2>5, <3>2 DEF Lossy, Lifecycle!Repeat, Lifecycle!Next
  <2> QED BY <2>3, <2>4, <2>5
<1>6. CASE to = "finished" /\ row[t] # to
  <2>1. posted[t] > 0
    BY <1>0, <1>6 DEF IInv, OutcomesAreOnRecord
  <2>2. row[t] = "running" \/ (Lossy /\ row[t] = "failed")
    BY <1>0, <1>1, <1>2, <1>6 DEF IInv, TestsHaveStarted, Marked, Lossy
  <2>3. CASE row[t] = "running"
    <3>1. row[t] \in {"running"} /\ row' = [row EXCEPT ![t] = "finished"]
      BY <1>0, <1>6, <2>3 DEF SetStatus
    <3>2. Lifecycle!Move(t, {"running"}, "finished")
      BY <3>1 DEF Lifecycle!Move, InTime
    <3> QED BY <1>1, <2>1, <3>2 DEF Lifecycle!Finish, Lifecycle!Next
  <2>4. CASE Lossy /\ row[t] = "failed"
    <3>1. row[t] \in {"failed"} /\ row' = [row EXCEPT ![t] = "finished"]
      BY <1>0, <1>6, <2>4 DEF SetStatus
    <3>2. Lifecycle!Move(t, {"failed"}, "finished")
      BY <3>1 DEF Lifecycle!Move, InTime
    <3> QED BY <1>1, <2>1, <2>4, <3>2 DEF Lossy, Lifecycle!Repeat, Lifecycle!Next
  <2> QED BY <2>2, <2>3, <2>4
<1>7. CASE to = "failed" /\ row[t] # to
  <2>1. InTime /\ crashes = 0 => ~(posted[t] > 0)
    <3>1. \A v \in Workers : pc[v] \in {"release", "delete"} /\ InTime => job[v] # t
      BY <1>0, <1>1, <1>7
    <3>2. InTime => posted[t] =< 1 + crashes /\ posted[t] # 1 + crashes
      BY <1>1, <3>1 DEF IInv, ScoresAreCounted
    <3>3. posted[t] \in Nat
      BY <1>1, CountersAreNat DEF IInv
    <3> QED BY <3>2, <3>3
  <2>2. Lossy \/ ~(posted[t] > 0)
    <3>1. crashes \in Nat
      BY CountersAreNat DEF IInv
    <3> QED BY <2>1, <3>1 DEF Lossy
  <2>3. row[t] = "running" \/ (Lossy /\ row[t] = "finished")
    BY <1>0, <1>1, <1>2, <1>7 DEF IInv, TestsHaveStarted, Marked, Lossy
  <2>4. CASE row[t] = "running"
    <3>1. row[t] \in {"running"} /\ row' = [row EXCEPT ![t] = "failed"]
      BY <1>0, <1>7, <2>4 DEF SetStatus
    <3>2. Lifecycle!Move(t, {"running"}, "failed")
      BY <3>1 DEF Lifecycle!Move, InTime
    <3> QED BY <1>1, <2>2, <3>2 DEF Lossy, Lifecycle!Fail, Lifecycle!Next
  <2>5. CASE Lossy /\ row[t] = "finished"
    <3>1. row[t] \in {"finished"} /\ row' = [row EXCEPT ![t] = "failed"]
      BY <1>0, <1>7, <2>5 DEF SetStatus
    <3>2. Lifecycle!Move(t, {"finished"}, "failed")
      BY <3>1 DEF Lifecycle!Move, InTime
    <3> QED BY <1>1, <2>5, <3>2 DEF Lossy, Lifecycle!Repeat, Lifecycle!Next
  <2> QED BY <2>3, <2>4, <2>5
<1> QED BY <1>4, <1>5, <1>6, <1>7

(* A score of a request that runs, or after something was lost. *)
LEMMA PostScoreImplements ==
  ASSUME IInv, NEW w \in Workers, PostScore(w) PROVE [Lifecycle!Next]_Lifecycle!vars
<1>1. PICK t \in Tests : t = job[w]
  BY JobFacts DEF PostScore
<1>2. CASE UNCHANGED posted
  BY <1>2, NothingShows DEF PostScore, tableVars
<1>3. CASE Register(t)
  <2>1. /\ posted \in [Tests -> 0 .. MaxPosted]
        /\ posted[t] \in 0 .. MaxPosted
    BY <1>1 DEF IInv, TypeOK
  <2>2. (IF posted[t] < MaxPosted THEN posted[t] + 1 ELSE posted[t]) > 0
    BY <2>1, QueueAssumption
  <2>3. [u \in Tests |-> posted'[u] > 0] = [[u \in Tests |-> posted[u] > 0] EXCEPT ![t] = TRUE]
    BY <1>1, <1>3, <2>1, <2>2 DEF Register
  <2>4. row[t] = "running" \/ Lossy
    BY <1>1, InTimeMeans DEF PostScore, IInv, NothingIsLost, RowsFollowWork, Marked, Lossy
  <2>5. Lifecycle!Score(t)
    BY <2>3, <2>4 DEF Lifecycle!Score, PostScore, tableVars, Lossy, InTime
  <2>6. \E r \in Tests : Lifecycle!Score(r)
    BY <1>1, <2>5
  <2> QED BY <2>6 DEF Lifecycle!Next
<1> QED BY <1>1, <1>2, <1>3 DEF PostScore

(* Every step of processMessage shows the team an allowed one, or nothing. *)
LEMMA ProcessMessageImplements ==
  ASSUME IInv, NEW w \in Workers, ProcessMessage(w) PROVE [Lifecycle!Next]_Lifecycle!vars
<1>1. CASE ParseFails(w) \/ Skip(w) \/ TestEnds(w) \/ DeadLetter(w) \/ Delete(w)
  BY <1>1, NothingShows DEF ParseFails, Skip, TestEnds, DeadLetter, Delete, tableVars
<1>2. ASSUME NEW t \in Tests, ReadRow(w, t) PROVE [Lifecycle!Next]_Lifecycle!vars
  BY <1>2, NothingShows DEF ReadRow, tableVars
<1>3. CASE MarkRunning(w)
  <2>1. SetStatus(w, "running") \/ UNCHANGED row
    BY <1>3 DEF MarkRunning, TryStatus, tableVars
  <2> QED BY <1>3, <2>1, StatusImplements, NothingShows DEF MarkRunning
<1>4. CASE AcquireLock(w)
  <2>1. job[w] \notin Malformed
    BY <1>4 DEF IInv, JobsExist, AcquireLock
  <2> QED BY <1>4, <2>1, StatusImplements DEF AcquireLock
<1>5. CASE PostScore(w)
  BY <1>5, PostScoreImplements
<1>6. CASE ReleaseLock(w)
  <2>1. SetStatus(w, "finished") \/ UNCHANGED row
    BY <1>6 DEF ReleaseLock, TryStatus, tableVars
  <2> QED BY <1>6, <2>1, StatusImplements, NothingShows DEF ReleaseLock
<1>7. CASE MarkFailed(w)
  <2>1. SetStatus(w, "failed") \/ UNCHANGED row
    BY <1>7 DEF MarkFailed, TryStatus, tableVars
  <2> QED BY <1>7, <2>1, StatusImplements, NothingShows DEF MarkFailed
<1>8. CASE CheckFails(w)
  <2>1. job[w] \notin Malformed
    BY <1>8 DEF IInv, JobsExist, CheckFails
  <2>2. SetStatus(w, "running") \/ UNCHANGED row
    BY <1>8 DEF CheckFails, tableVars
  <2> QED BY <1>8, <2>1, <2>2, StatusImplements, NothingShows DEF CheckFails
<1> QED BY <1>1, <1>2, <1>3, <1>4, <1>5, <1>6, <1>7, <1>8 DEF ProcessMessage

(* So does every step of the queue and its workers. *)
LEMMA StepImplements == IInv /\ [Next]_vars => [Lifecycle!Next]_Lifecycle!vars
<1> SUFFICES ASSUME IInv, [Next]_vars PROVE [Lifecycle!Next]_Lifecycle!vars
  OBVIOUS
<1>1. ASSUME NEW t \in Tests, Enqueue(t) PROVE [Lifecycle!Next]_Lifecycle!vars
  <2>1. CASE t \in Malformed
    BY <1>1, <2>1, NothingShows DEF Enqueue, tableVars
  <2>2. CASE t \notin Malformed
    <3>1. row[t] \in {"none"}
      BY <1>1 DEF Enqueue, IInv, RowsExist
    <3>2. Lifecycle!Move(t, {"none"}, "waiting")
      BY <1>1, <2>2, <3>1, StatusMoves DEF Enqueue
    <3> QED BY <3>2 DEF Lifecycle!Request, Lifecycle!Next
  <2> QED BY <2>1, <2>2
<1>2. ASSUME NEW t \in Tests, VisibilityTimeout(t) \/ HourPasses(t)
      PROVE  [Lifecycle!Next]_Lifecycle!vars
  BY <1>2, NothingShows DEF VisibilityTimeout, HourPasses, tableVars
<1>3. ASSUME NEW w \in Workers, Crash(w) PROVE [Lifecycle!Next]_Lifecycle!vars
  <2>1. crashes' > 0
    BY <1>3, CountersAreNat DEF Crash, IInv
  <2>2. Lifecycle!Lose
    BY <1>3, <2>1 DEF Crash, tableVars, Lifecycle!Lose
  <2> QED BY <2>2 DEF Lifecycle!Next
<1>4. ASSUME NEW w \in Workers, ProcessMessage(w) PROVE [Lifecycle!Next]_Lifecycle!vars
  BY <1>4, ProcessMessageImplements
<1>5. ASSUME NEW w \in Workers, NEW t \in Tests, Dequeue(w, t)
      PROVE  [Lifecycle!Next]_Lifecycle!vars
  BY <1>5, NothingShows DEF Dequeue, tableVars
<1>6. CASE UNCHANGED vars
  BY <1>6, NothingShows DEF vars
<1> QED BY <1>1, <1>2, <1>3, <1>4, <1>5, <1>6 DEF Next, Serve

(* A request waits, runs, and is finished with a score or failed without one; *)
(* only after a crash, a failing call or an overrun may it go another way.    *)
THEOREM Refinement == Spec => ImplementsRequests
<1>1. Init => Lifecycle!Init
  <2> SUFFICES ASSUME Init PROVE Lifecycle!Init
    OBVIOUS
  <2>1. [t \in Tests |-> posted[t] > 0] = [t \in Tests |-> FALSE]
    <3>1. \A t \in Tests : (posted[t] > 0) = FALSE
      BY DEF Init
    <3> QED BY ONLY <3>1, Zenon
  <2>2. (crashes > 0 \/ ~InTime) \in BOOLEAN
    OBVIOUS
  <2> QED BY <2>1, <2>2 DEF Init, Lifecycle!Init
<1>2. IInv /\ [Next]_vars => [Lifecycle!Next]_Lifecycle!vars
  BY StepImplements
<1> QED BY <1>1, <1>2, Invariance, PTL DEF Spec, ImplementsRequests, Lifecycle!Spec
================================================================================
