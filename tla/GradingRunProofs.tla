---------------------------- MODULE GradingRunProofs ---------------------------
(***************************************************************************)
(* Theorems about GradingRun, for any number of runs, workers and requests  *)
(* and any sets of faults.  The runs are composed with the workers, so that *)
(* what LoadTestQueueProofs shows of these is available here.               *)
(***************************************************************************)
EXTENDS GradingRun, LoadTestQueueProofs

(* What the runs and their environment do to the queue is what LoadTestQueue *)
(* allows.                                                                   *)
LEMMA StepsOfTheQueue == [RunNext]_allVars => [Next]_vars
<1> SUFFICES ASSUME [RunNext]_allVars PROVE [Next]_vars
  OBVIOUS
<1> USE RunAssumption
<1>1. CASE UNCHANGED allVars
  BY <1>1 DEF allVars
<1>2. CASE \E r \in Runs : CheckExistence(r) \/ RestartContainer(r) \/ Recreate(r) \/ InitSql(r)
                           \/ LoadData(r) \/ Migrate(r) \/ E2eRemote(r) \/ E2eLocal(r)
                           \/ RunnerMain(r) \/ GetStatus(r)
  <2>1. UNCHANGED vars
    BY <1>2 DEF CheckExistence, RestartContainer, Recreate, InitSql, LoadData, Migrate,
                E2eRemote, E2eLocal, RunnerMain, GetStatus
  <2> QED BY <2>1
<1>3. CASE \E r \in Runs : RequestLoadTest(r)
  <2>1. UNCHANGED vars \/ \E r \in Runs : Enqueue(r)
    BY <1>3 DEF RequestLoadTest
  <2> QED BY <2>1 DEF Next
<1>4. CASE Serve \/ \E t \in Tests : Enqueue(t)
  BY <1>4 DEF Next
<1> QED BY <1>1, <1>2, <1>3, <1>4 DEF RunNext, RunStep

(* The composition implements LoadTestQueue. *)
THEOREM QueueOfRuns == RunSpec => Spec
<1>1. RunInit => Init
  BY DEF RunInit
<1> QED BY <1>1, StepsOfTheQueue, PTL DEF RunSpec, Spec

--------------------------------------------------------------------------------
Active == {"waiting", "running"}

(* Nothing but a new request makes a message, and faults and crashes stay. *)
LEMMA ServeRequestsNothing ==
  ASSUME IInv, Serve
  PROVE  /\ UNCHANGED faults
         /\ crashes' = 0 => crashes = 0
         /\ \A t \in Tests : queue'[t] # "absent" => queue[t] # "absent"
<1> USE DEF IInv, TypeOK
<1>1. ASSUME NEW t \in Tests, VisibilityTimeout(t) \/ HourPasses(t)
      PROVE  UNCHANGED <<faults, crashes>> /\ \A u \in Tests : queue'[u] # "absent" => queue[u] # "absent"
  BY <1>1 DEF VisibilityTimeout, HourPasses
<1>2. ASSUME NEW w \in Workers, Crash(w)
      PROVE  UNCHANGED <<faults, queue>> /\ (crashes' = 0 => crashes = 0)
  BY <1>2, CountersAreNat DEF Crash
<1>3. ASSUME NEW w \in Workers, NEW t \in Tests, Dequeue(w, t)
      PROVE  UNCHANGED <<faults, crashes>> /\ \A u \in Tests : queue'[u] # "absent" => queue[u] # "absent"
  BY <1>3 DEF Dequeue
<1>4. ASSUME NEW w \in Workers, ParseFails(w) \/ Delete(w)
      PROVE  UNCHANGED <<faults, crashes>> /\ \A u \in Tests : queue'[u] # "absent" => queue[u] # "absent"
  BY <1>4 DEF ParseFails, Delete, TryDelete, DeleteMessage, JobsExist, Busy
<1>5. ASSUME NEW w \in Workers, ProcessMessage(w), ~ParseFails(w), ~Delete(w)
      PROVE  UNCHANGED <<faults, crashes, queue>>
  BY <1>5 DEF ProcessMessage, MarkRunning, ReadRow, Skip, AcquireLock, CheckFails, TestEnds,
              PostScore, ReleaseLock, DeadLetter, MarkFailed
<1> QED BY <1>1, <1>2, <1>3, <1>4, <1>5 DEF Serve

(* In time, and before a crash, a settled request stays settled. *)
LEMMA SettledStays ==
  ASSUME IInv, InTime, crashes = 0, Serve,
         NEW t \in Tests \ Malformed, row'[t] \in Active
  PROVE  row[t] \in Active
<1> USE DEF IInv, TypeOK
<1>1. CASE row'[t] = row[t]
  BY <1>1
<1>2. CASE row'[t] # row[t]
  <2>1. PICK w \in Workers : MarkRunning(w) \/ AcquireLock(w) \/ ReleaseLock(w) \/ MarkFailed(w)
    BY <1>2, InTimeMeans DEF Serve, ProcessMessage, VisibilityTimeout, HourPasses, Crash, Dequeue, ParseFails,
                ReadRow, Skip, CheckFails, TestEnds, PostScore, DeadLetter, Delete, tableVars
  <2>2. job[w] \in Tests /\ queue[job[w]] = "hidden" /\ holder[job[w]] = w
    BY <2>1, InTimeMeans DEF MarkRunning, AcquireLock, ReleaseLock, MarkFailed, JobsExist, JobsAreHeld, Busy
  <2>3. t = job[w] /\ pc[w] # "delete" /\ queue[t] = "hidden"
    BY <1>2, <2>1, <2>2 DEF MarkRunning, AcquireLock, ReleaseLock, MarkFailed, SetStatus, TryStatus,
                            tableVars
  <2>4. row[t] \notin Settled
    <3> SUFFICES ASSUME row[t] \in Settled PROVE FALSE
      OBVIOUS
    <3>1. PICK v \in Workers : job[v] = t /\ pc[v] = "delete"
      BY <2>3 DEF SettledIsLeaving
    <3>2. v = w
      BY <3>1, <2>2, <2>3, InTimeMeans DEF JobsAreHeld, Busy
    <3> QED BY <3>1, <3>2, <2>3
  <2>5. row[t] # "none"
    BY <2>3 DEF RowsExist
  <2> QED BY <2>4, <2>5 DEF Settled, Active
<1> QED BY <1>1, <1>2

--------------------------------------------------------------------------------
(* The inductive invariant of the runs *)

\* A load test is requested, or being prepared, only after the e2e tests of its
\* run have passed.
TestedBeforeRequest ==
  \A r \in Runs :
    /\ stage[r] = "start" => data[r] = "e2e"
    /\ stage[r] = "request" => data[r] = "load"
    /\ data[r] = "load" \/ queue[r] # "absent" => e2e[r] /\ remote

\* There is nothing in a database that does not exist.
DatabaseComesFirst == db # {} => "database" \in db

\* The freshly restored data of the load test and a running backend.
Ready ==
  /\ db \ {"migrations"} = LoadTestData
  /\ "unchecked" \in faults \/ (up /\ "migrations" \in db)

\* Runs one after the other do not restore at the same time, so that what a run
\* has restored is still there,
RestoresInTurn ==
  OneAfterTheOther =>
    /\ \A r, s \in Runs : UnderWay(r) /\ UnderWay(s) => r = s
    /\ \A r \in Runs : data[r] = "load" =>
         /\ stage[r] \in {"create", "init", "load", "migrate"} => "unchecked" \in faults \/ up
         /\ stage[r] = "restart" => "database" \in db
         /\ stage[r] = "load" => db = {"database", "tables"}
         /\ stage[r] = "migrate" => db = LoadTestData
         /\ stage[r] = "request" => Ready

\* ... and stays as long as its load test waits or runs.
NoRestoreBehindARequest ==
  OneAfterTheOther /\ (\E r \in Runs : row[r] \in Active) =>
    Ready /\ \A s \in Runs : ~UnderWay(s)

RInv ==
  /\ RunTypeOK
  /\ TestedBeforeRequest
  /\ DatabaseComesFirst
  /\ RestoresInTurn
  /\ NoRestoreBehindARequest
  /\ RequestsDoNotMeet

(* The VM as init.sh has left it satisfies RInv. *)
LEMMA InitRInv == RunInit => RInv
<1> SUFFICES ASSUME RunInit PROVE RInv
  OBVIOUS
<1> USE RunAssumption, InitIInv DEF RunInit
<1>1. TypeOK
  BY DEF IInv
<1>2. RunTypeOK
  BY <1>1 DEF RunTypeOK, Stages
<1>3. \A t \in Tests : row[t] = "none" /\ queue[t] = "absent"
  BY DEF Init
<1>4. TestedBeforeRequest /\ NoRestoreBehindARequest /\ RequestsDoNotMeet
  BY <1>3 DEF TestedBeforeRequest, NoRestoreBehindARequest, RequestsDoNotMeet, Active
<1>5. DatabaseComesFirst /\ RestoresInTurn
  BY DEF DatabaseComesFirst, RestoresInTurn, UnderWay, LoadTestData
<1> QED BY <1>2, <1>4, <1>5 DEF RInv

--------------------------------------------------------------------------------
(* Every step keeps RInv: one lemma per action. *)

(* The workers, and the other requests, neither prepare nor request a run. *)
LEMMA ServeKeeps ==
  ASSUME IInv, IInv', RInv, UNCHANGED runVars,
         Serve \/ \E t \in Tests \ Runs : Enqueue(t)
  PROVE  RInv'
<1> USE RunAssumption DEF RInv, runVars, vmVars
<1>1. /\ UNCHANGED faults
      /\ crashes' = 0 => crashes = 0
      /\ \A r \in Runs : queue'[r] # "absent" => queue[r] # "absent"
  BY ServeRequestsNothing DEF Enqueue, IInv, TypeOK
<1>2. ASSUME InTime', crashes' = 0, NEW r \in Runs, row'[r] \in Active
      PROVE  row[r] \in Active
  <2>1. InTime /\ crashes = 0 /\ r \in Tests \ Malformed
    BY <1>1, <1>2 DEF InTime, Malformed
  <2>2. CASE Serve
    BY <1>2, <2>1, <2>2, SettledStays
  <2>3. CASE \E t \in Tests \ Runs : Enqueue(t)
    BY <1>2, <2>1, <2>3 DEF Enqueue, IInv, TypeOK, tableVars
  <2> QED BY <2>2, <2>3
<1>3. RunTypeOK'
  BY DEF RunTypeOK, IInv
<1>4. TestedBeforeRequest' /\ DatabaseComesFirst'
  BY <1>1 DEF TestedBeforeRequest, DatabaseComesFirst
<1>5. OneAfterTheOther' => OneAfterTheOther
  BY <1>1 DEF OneAfterTheOther, InTime
<1>6. RestoresInTurn'
  BY <1>1, <1>5 DEF RestoresInTurn, UnderWay, Ready
<1>7. NoRestoreBehindARequest'
  BY <1>1, <1>2, <1>5 DEF NoRestoreBehindARequest, UnderWay, Ready, OneAfterTheOther
<1>8. RequestsDoNotMeet'
  BY <1>1, <1>2 DEF RequestsDoNotMeet, Active, InTime
<1> QED BY <1>3, <1>4, <1>6, <1>7, <1>8

(* A run starts only when no request of the team waits or runs and, unless runs *)
(* overlap, when no other run is under way.                                     *)
LEMMA CheckExistenceKeeps ==
  ASSUME IInv, RInv, NEW r \in Runs, CheckExistence(r) PROVE RInv'
<1> USE RunAssumption DEF RInv, CheckExistence, vars, vmVars
<1>1. RunTypeOK'
  BY DEF RunTypeOK, TypeOK, Proceed, Show, Stages
<1>2. TestedBeforeRequest' /\ DatabaseComesFirst' /\ RequestsDoNotMeet'
  BY DEF TestedBeforeRequest, DatabaseComesFirst, RequestsDoNotMeet, RunTypeOK, Proceed, InTime
<1>3. RestoresInTurn'
  BY DEF RestoresInTurn, RunTypeOK, UnderWay, Ready, OneAfterTheOther, InTime, Proceed,
         TestedBeforeRequest
<1>4. NoRestoreBehindARequest'
  <2> SUFFICES ASSUME OneAfterTheOther, NEW s \in Runs, row[s] \in Active
               PROVE  Ready' /\ \A t \in Runs : ~UnderWay(t)'
    BY DEF NoRestoreBehindARequest, OneAfterTheOther, InTime
  <2>1. Ready /\ \A t \in Runs : ~UnderWay(t)
    BY DEF NoRestoreBehindARequest
  <2>2. remote
    BY DEF IInv, RowsExist, Active, TestedBeforeRequest
  <2>3. Exists(r) /\ ~NoReply
    BY DEF Exists, Teammates, Active, NoReply, OneAfterTheOther
  <2>4. stage' = [stage EXCEPT ![r] = "ended"]
    BY <2>2, <2>3 DEF Proceed
  <2> QED BY <2>1, <2>4 DEF Ready, UnderWay, RunTypeOK
<1> QED BY <1>1, <1>2, <1>3, <1>4

(* A restart with the data of the load test finds a database, the one the e2e *)
(* tests have run on.                                                         *)
LEMMA RestartContainerKeeps ==
  ASSUME RInv, NEW r \in Runs, RestartContainer(r) PROVE RInv'
<1> USE RunAssumption DEF RInv, RestartContainer, vars
<1>1. RunTypeOK'
  <2>1. TypeOK'
    BY DEF RunTypeOK, TypeOK
  <2>2. up' \in BOOLEAN
    <3>1. BackendStarts \in BOOLEAN
      BY DEF BackendStarts
    <3>2. up' = BackendStarts \/ up' = FALSE
      OBVIOUS
    <3> QED BY ONLY <3>1, <3>2
  <2> QED BY <2>1, <2>2 DEF RunTypeOK, Proceed, Stages
<1>2. TestedBeforeRequest' /\ DatabaseComesFirst' /\ RequestsDoNotMeet'
  BY DEF TestedBeforeRequest, DatabaseComesFirst, RequestsDoNotMeet, RunTypeOK, Proceed, InTime
<1>3. RestoresInTurn'
  BY DEF RestoresInTurn, RunTypeOK, UnderWay, Ready, OneAfterTheOther, InTime, Proceed,
         BackendStarts
<1>4. NoRestoreBehindARequest'
  BY DEF NoRestoreBehindARequest, RunTypeOK, UnderWay, OneAfterTheOther, InTime
<1> QED BY <1>1, <1>2, <1>3, <1>4

(* The restore, command by command. *)
LEMMA RestoreKeeps ==
  ASSUME RInv, NEW r \in Runs, Recreate(r) \/ InitSql(r) \/ LoadData(r) \/ Migrate(r)
  PROVE  RInv'
<1> USE RunAssumption DEF RInv, Recreate, InitSql, LoadData, Migrate, vars
<1>1. RunTypeOK'
  <2>1. TypeOK'
    BY DEF RunTypeOK, TypeOK
  <2>2. db' \subseteq LoadTestData \cup E2eData \cup {"migrations"}
    BY DEF RunTypeOK, LoadTestData, E2eData
  <2>3. stage' \in [Runs -> Stages]
    BY DEF RunTypeOK, Proceed, Stages
  <2> QED BY <2>1, <2>2, <2>3 DEF RunTypeOK
<1>2. TestedBeforeRequest' /\ RequestsDoNotMeet'
  BY DEF TestedBeforeRequest, RequestsDoNotMeet, RunTypeOK, Proceed, InTime
<1>3. DatabaseComesFirst'
  BY DEF DatabaseComesFirst
<1>4. RestoresInTurn'
  BY DEF RestoresInTurn, RunTypeOK, UnderWay, Ready, OneAfterTheOther, InTime, Proceed, LoadTestData
<1>5. NoRestoreBehindARequest'
  BY DEF NoRestoreBehindARequest, RunTypeOK, UnderWay, OneAfterTheOther, InTime
<1> QED BY <1>1, <1>2, <1>3, <1>4, <1>5

(* On the VM a run goes on to the load test only when the tests have passed. *)
LEMMA E2eKeeps ==
  ASSUME RInv, NEW r \in Runs, E2eRemote(r) \/ E2eLocal(r) PROVE RInv'
<1> USE RunAssumption DEF RInv, E2eRemote, E2eLocal, vars, vmVars
<1>1. RunTypeOK'
  <2>1. TypeOK'
    BY DEF RunTypeOK, TypeOK
  <2>2. e2e' \in [Runs -> BOOLEAN]
    BY DEF RunTypeOK
  <2> QED BY <2>1, <2>2 DEF RunTypeOK, Proceed, Stages
<1>2. TestedBeforeRequest'
  BY DEF TestedBeforeRequest, RunTypeOK, Proceed
<1>3. DatabaseComesFirst' /\ RequestsDoNotMeet'
  BY DEF DatabaseComesFirst, RequestsDoNotMeet, InTime
<1>4. RestoresInTurn'
  BY DEF RestoresInTurn, RunTypeOK, UnderWay, Ready, OneAfterTheOther, InTime, Proceed,
         E2ePasses, E2eData, DatabaseComesFirst
<1>5. NoRestoreBehindARequest'
  BY DEF NoRestoreBehindARequest, RunTypeOK, UnderWay, OneAfterTheOther, InTime
<1> QED BY <1>1, <1>2, <1>3, <1>4, <1>5

(* A touched counter adds at most MaxCount, and one that was not touched nothing. *)
LEMMA ScoresAreSums ==
  \A raw \in RawData : ComputeFinalScoreFromK6(raw) \in 0 .. 2 * MaxCount
<1> TAKE raw \in RawData
<1>1. PICK C : raw \in [C -> 0 .. MaxCount]
  BY DEF RawData
<1>2. MaxCount \in Nat
  BY RunAssumption
<1> QED BY <1>1, <1>2 DEF ComputeFinalScoreFromK6

(* The local runner and the status script end a run and leave the VM alone. *)
LEMMA OutcomeKeeps ==
  ASSUME RInv, NEW r \in Runs, RunnerMain(r) \/ GetStatus(r) PROVE RInv'
<1> USE RunAssumption DEF RInv, RunnerMain, GetStatus, vars, vmVars
<1>1. RunTypeOK'
  <2>1. TypeOK'
    BY DEF RunTypeOK, TypeOK
  <2>2. score' \in [Runs -> 0 .. 2 * MaxCount]
    BY ScoresAreSums DEF RunTypeOK
  <2>3. shown' \in [Runs -> {"nothing", "refused", "score", "failed", "unknown"}]
    BY DEF RunTypeOK, Show
  <2> QED BY <2>1, <2>2, <2>3 DEF RunTypeOK, Proceed, Stages
<1>2. TestedBeforeRequest'
  BY DEF TestedBeforeRequest, RunTypeOK, Proceed
<1>3. DatabaseComesFirst' /\ RequestsDoNotMeet'
  BY DEF DatabaseComesFirst, RequestsDoNotMeet, InTime
<1>4. RestoresInTurn'
  BY DEF RestoresInTurn, RunTypeOK, UnderWay, Ready, OneAfterTheOther, InTime, Proceed
<1>5. NoRestoreBehindARequest'
  BY DEF NoRestoreBehindARequest, RunTypeOK, UnderWay, Ready, OneAfterTheOther, InTime, Proceed
<1> QED BY <1>1, <1>2, <1>3, <1>4, <1>5

(* A request is taken only when no other of the team waits or runs, and it     *)
(* finds the VM as its run has prepared it.                                    *)
LEMMA RequestLoadTestKeeps ==
  ASSUME IInv, IInv', RInv, NEW r \in Runs, RequestLoadTest(r) PROVE RInv'
<1> USE RunAssumption DEF RInv, RequestLoadTest, vmVars
<1>1. CASE UNCHANGED vars
  <2> USE <1>1 DEF vars
  <2>1. RunTypeOK'
    BY DEF RunTypeOK, IInv, Proceed, Show, Stages
  <2>2. TestedBeforeRequest' /\ DatabaseComesFirst' /\ RequestsDoNotMeet'
    BY DEF TestedBeforeRequest, DatabaseComesFirst, RequestsDoNotMeet, RunTypeOK, Proceed, InTime
  <2>3. RestoresInTurn'
    BY DEF RestoresInTurn, RunTypeOK, UnderWay, Ready, OneAfterTheOther, InTime, Proceed
  <2>4. NoRestoreBehindARequest'
    BY DEF NoRestoreBehindARequest, RunTypeOK, UnderWay, Ready, OneAfterTheOther, InTime
  <2> QED BY <2>1, <2>2, <2>3, <2>4
<1>2. CASE ~Exists(r) /\ Enqueue(r)
  <2>1. /\ UNCHANGED <<faults, crashes, remote, data, e2e, vmVars>>
        /\ \A t \in Runs \ {r} : row'[t] = row[t] /\ queue'[t] = queue[t]
        /\ \A t \in Runs : row[t] \notin Active
    BY <1>2 DEF Enqueue, tableVars, IInv, TypeOK, Exists, Teammates, Active
  <2>2. stage[r] = "request" /\ \E place \in {"poll", "ended"} : stage' = [stage EXCEPT ![r] = place]
    BY DEF Proceed
  <2>3. RunTypeOK'
    BY <2>2 DEF RunTypeOK, IInv, Show, Stages
  <2>4. TestedBeforeRequest'
    BY <2>1, <2>2 DEF TestedBeforeRequest, RunTypeOK
  <2>5. DatabaseComesFirst' /\ RequestsDoNotMeet'
    BY <2>1 DEF DatabaseComesFirst, RequestsDoNotMeet, Active
  <2>6. RestoresInTurn'
    BY <2>1, <2>2 DEF RestoresInTurn, RunTypeOK, UnderWay, Ready, OneAfterTheOther, InTime
  <2>7. NoRestoreBehindARequest'
    BY <2>1, <2>2 DEF NoRestoreBehindARequest, RestoresInTurn, TestedBeforeRequest, RunTypeOK,
                      UnderWay, Ready, OneAfterTheOther, InTime
  <2> QED BY <2>3, <2>4, <2>5, <2>6, <2>7
<1> QED BY <1>1, <1>2

(* Whatever happens, RInv stays true. *)
LEMMA StepRInv ==
  ASSUME IInv, IInv', RInv, [RunNext]_allVars PROVE RInv'
<1>1. CASE UNCHANGED allVars
  <2> USE <1>1 DEF allVars, runVars, vmVars, vars, RInv
  <2>1. RunTypeOK'
    BY DEF RunTypeOK, TypeOK
  <2>2. TestedBeforeRequest' /\ DatabaseComesFirst' /\ RequestsDoNotMeet'
    BY DEF TestedBeforeRequest, DatabaseComesFirst, RequestsDoNotMeet, InTime
  <2>3. RestoresInTurn' /\ NoRestoreBehindARequest'
    BY DEF RestoresInTurn, NoRestoreBehindARequest, UnderWay, Ready, OneAfterTheOther, InTime
  <2> QED BY <2>1, <2>2, <2>3
<1>2. CASE RunNext
  BY <1>2, ServeKeeps, CheckExistenceKeeps, RestartContainerKeeps, RestoreKeeps, E2eKeeps,
     OutcomeKeeps, RequestLoadTestKeeps DEF RunNext, RunStep
<1> QED BY <1>1, <1>2

(* ... and so holds in every reachable state, with what holds of the workers. *)
THEOREM RunInvariance == RunSpec => [](IInv /\ RInv)
<1>1. RunSpec => []IInv
  BY QueueOfRuns, Invariance, PTL
<1>2. RInv /\ [](IInv) /\ [][RunNext]_allVars => []RInv
  <2>1. IInv /\ IInv' /\ RInv /\ [RunNext]_allVars => RInv'
    BY StepRInv
  <2> QED BY <2>1, PTL
<1> QED BY <1>1, <1>2, InitRInv, PTL DEF RunSpec

(* Every variable of the composition keeps its type. *)
THEOREM RunTypeCorrect == RunSpec => []RunTypeOK
<1>1. RInv => RunTypeOK
  BY DEF RInv
<1> QED BY <1>1, RunInvariance, PTL

(* A team never has two requests under way: the refusals of the intermediate    *)
(* server are enough for that, overlapping runs and lost replies included, as    *)
(* long as no worker crashes or is overrun.                                      *)
THEOREM OneRequest == RunSpec => []RequestsDoNotMeet
<1>1. RInv => RequestsDoNotMeet
  BY DEF RInv
<1> QED BY <1>1, RunInvariance, PTL

(* A load test is run on a system that has passed its e2e tests and, of runs     *)
(* one after the other, on the freshly restored data: run.sh, the restore and    *)
(* the workers together.                                                         *)
THEOREM Prepared == RunSpec => []TestIsPrepared
<1>1. IInv /\ RInv => TestIsPrepared
  <2> SUFFICES ASSUME IInv, RInv, NEW w \in Workers, pc[w] = "test", job[w] \in Runs
               PROVE  /\ e2e[job[w]]
                      /\ OneAfterTheOther => Ready
    BY DEF TestIsPrepared, Ready
  <2>1. e2e[job[w]]
    BY DEF IInv, JobsExist, Busy, RInv, TestedBeforeRequest
  <2>2. OneAfterTheOther => row[job[w]] \in Active
    BY InTimeMeans DEF IInv, NothingIsLost, RowsFollowWork, Marked, Active, OneAfterTheOther
  <2>3. OneAfterTheOther => Ready
    BY <2>2 DEF RInv, NoRestoreBehindARequest
  <2> QED BY <2>1, <2>3
<1> QED BY <1>1, RunInvariance, PTL

================================================================================
