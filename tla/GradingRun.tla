------------------------------ MODULE GradingRun -------------------------------
(***************************************************************************)
(* run.sh on a team's VM, together with the load-test workers.  A run asks  *)
(* the intermediate server whether a request of the team is under way,      *)
(* restores the database, runs the e2e tests, restores again with the data  *)
(* of the load test, and requests it; get_test_status.sh then waits for the *)
(* outcome.  On a machine of one's own (local) the load test follows the    *)
(* e2e tests at once.  The run and its request have the same name.          *)
(*                                                                          *)
(* More faults than those of LoadTestQueue:                                 *)
(*   "overlap"     run.sh is started while another run is under way         *)
(*   "replies"     a curl of a script gets no reply                         *)
(*   "unchecked"   what the restore does not look at fails: the restart of  *)
(*                 the containers, a migration                              *)
(***************************************************************************)
EXTENDS LoadTestQueue

CONSTANTS
  Runs,     \* the runs of run.sh, of one team
  MaxCount  \* bound: successes a k6 counter shows

ASSUME RunAssumption ==
  /\ Runs \subseteq Tests \ Unreadable
  /\ \A r, s \in Runs : Team[r] = Team[s]
  /\ MaxCount \in Nat

VARIABLES
  remote,  \* the host is a VM of the contest
  stage,   \* the step each run is at
  data,    \* what it restores: "e2e", later "load"
  e2e,     \* its e2e tests have passed
  db,      \* what the database holds, {} when it does not exist
  up,      \* the backend is running
  shown,   \* the outcome a run, or the status script after it, has shown
  score    \* the score the local runner has printed

vmVars == <<db, up>>
runVars == <<remote, stage, data, e2e, vmVars, shown, score>>
allVars == <<vars, runVars>>

LoadTestData == {"database", "tables", "loadData"}
E2eData == {"e2eUsers", "e2eProducts", "e2eOrders"}
Stages == {"start", "restart", "create", "init", "load", "migrate", "e2e",
           "request", "poll", "localTest", "ended"}

RunTypeOK ==
  /\ TypeOK
  /\ remote \in BOOLEAN /\ up \in BOOLEAN
  /\ stage \in [Runs -> Stages]
  /\ data \in [Runs -> {"e2e", "load"}]
  /\ e2e \in [Runs -> BOOLEAN]
  /\ db \subseteq LoadTestData \cup E2eData \cup {"migrations"}
  /\ shown \in [Runs -> {"nothing", "refused", "score", "failed", "unknown"}]
  /\ score \in [Runs -> 0 .. 2 * MaxCount]

\* The VM has been set up by init.sh, with the data of the load test.
RunInit ==
  /\ Init
  /\ remote \in BOOLEAN
  /\ stage = [r \in Runs |-> "start"]
  /\ data = [r \in Runs |-> "e2e"]
  /\ e2e = [r \in Runs |-> FALSE]
  /\ db = LoadTestData \cup {"migrations"}
  /\ up = TRUE
  /\ shown = [r \in Runs |-> "nothing"]
  /\ score = [r \in Runs |-> 0]

--------------------------------------------------------------------------------

Proceed(r, place) == stage' = [stage EXCEPT ![r] = place]
Show(r, outcome) == shown' = [shown EXCEPT ![r] = outcome]

\* run.sh is between its first and its last line.
UnderWay(r) == stage[r] \notin {"start", "poll", "ended"}

\* The intermediate server: the team has a request that waits or runs.
Exists(r) == \E t \in Teammates(r) \cup {r} : row[t] \in {"waiting", "running"}

NoReply == "replies" \in faults

\* Without a reply IS_EXISTS is empty, and run.sh goes on.
CheckExistence(r) ==
  /\ stage[r] = "start"
  /\ "overlap" \in faults \/ \A s \in Runs : ~UnderWay(s)
  /\ \/ remote /\ Exists(r) /\ Show(r, "refused") /\ Proceed(r, "ended")
     \/ (remote /\ Exists(r) => NoReply) /\ Proceed(r, "restart") /\ UNCHANGED shown
  /\ UNCHANGED <<vars, remote, data, e2e, vmVars, score>>

\* InitDBConnection: the ping needs the database, and main ends without it.
BackendStarts == "database" \in db

\* The data directory survives the containers.  The exit status is not looked at.
RestartContainer(r) ==
  /\ stage[r] = "restart"
  /\ up' = BackendStarts \/ ("unchecked" \in faults /\ up' = FALSE)
  /\ Proceed(r, "create")
  /\ UNCHANGED <<vars, remote, data, e2e, db, shown, score>>

\* A failing command of the restore ends the run.
\* DROP DATABASE; CREATE DATABASE
Recreate(r) ==
  /\ stage[r] = "create"
  /\ \/ db' = {"database"} /\ Proceed(r, "init")
     \/ db' \in {db, {}} /\ Proceed(r, "ended")
  /\ UNCHANGED <<vars, remote, data, e2e, up, shown, score>>

InitSql(r) ==
  /\ stage[r] = "init"
  /\ \/ "database" \in db /\ db' = {"database", "tables"} /\ Proceed(r, "load")
     \/ UNCHANGED db /\ Proceed(r, "ended")
  /\ UNCHANGED <<vars, remote, data, e2e, up, shown, score>>

\* Three commands for the e2e data, of which only the last is looked at; one for
\* the data of the load test.
LoadData(r) ==
  /\ stage[r] = "load"
  /\ LET all  == IF data[r] = "e2e" THEN E2eData ELSE {"loadData"}
         last == IF data[r] = "e2e" THEN "e2eOrders" ELSE "loadData"
     IN \E D \in SUBSET all :
          /\ D # {} => "tables" \in db
          /\ db' = db \cup D
          /\ Proceed(r, IF last \in D THEN "migrate" ELSE "ended")
  /\ UNCHANGED <<vars, remote, data, e2e, up, shown, score>>

\* A migration that fails is taken for a success.
Migrate(r) ==
  /\ stage[r] = "migrate"
  /\ \/ "tables" \in db /\ db' = db \cup {"migrations"}
     \/ ("tables" \notin db \/ "unchecked" \in faults) /\ UNCHANGED db
  /\ Proceed(r, IF data[r] = "e2e" THEN "e2e" ELSE "request")
  /\ UNCHANGED <<vars, remote, data, e2e, up, shown, score>>

\* The tests log in, search products and look at the orders.
E2ePasses == up /\ E2eData \subseteq db

\* Defect: the exit status is not looked at.
E2eUnchecked(r) ==
  /\ stage[r] = "e2e" /\ remote
  /\ \E passed \in BOOLEAN : (passed => E2ePasses) /\ e2e' = [e2e EXCEPT ![r] = passed]
  /\ data' = [data EXCEPT ![r] = "load"]
  /\ Proceed(r, "restart")
  /\ UNCHANGED <<vars, remote, vmVars, shown, score>>

\* set -e on the VM: the run ends here when the tests fail.
E2eRemote(r) ==
  /\ stage[r] = "e2e" /\ remote
  /\ \/ /\ E2ePasses
        /\ e2e' = [e2e EXCEPT ![r] = TRUE]
        /\ data' = [data EXCEPT ![r] = "load"]
        /\ Proceed(r, "restart")
     \/ Proceed(r, "ended") /\ UNCHANGED <<data, e2e>>
  /\ UNCHANGED <<vars, remote, vmVars, shown, score>>

\* The exit status of run_e2e_test.sh is not looked at.
E2eLocal(r) ==
  /\ stage[r] = "e2e" /\ ~remote
  /\ \E passed \in BOOLEAN : (passed => E2ePasses) /\ e2e' = [e2e EXCEPT ![r] = passed]
  /\ Proceed(r, "localTest")
  /\ UNCHANGED <<vars, remote, data, vmVars, shown, score>>

\* What k6 wrote: the counters that were touched, {} for an unreadable file.
RawData == UNION {[C -> 0 .. MaxCount] :
                    C \in SUBSET {"bench_uj_success_count", "bench_robot_success_count"}}

ComputeFinalScoreFromK6(raw) ==
  LET get(name) == IF name \in DOMAIN raw THEN raw[name] ELSE 0
  IN get("bench_uj_success_count") + get("bench_robot_success_count")

\* The local runner: nothing is printed when k6 fails.
RunnerMain(r) ==
  /\ stage[r] = "localTest"
  /\ \/ \E raw \in RawData :
          /\ score' = [score EXCEPT ![r] = ComputeFinalScoreFromK6(raw)]
          /\ Show(r, "score")
     \/ Show(r, "failed") /\ UNCHANGED score
  /\ Proceed(r, "ended")
  /\ UNCHANGED <<vars, remote, data, e2e, vmVars>>

\* Defect: a second request of a team is taken.
RequestUnchecked(r) ==
  /\ stage[r] = "request"
  /\ Enqueue(r) /\ Proceed(r, "poll")
  /\ UNCHANGED <<remote, data, e2e, vmVars, shown, score>>

\* The intermediate server refuses a second request of a team.  A run whose call
\* fails, or gets no reply, ends.
RequestLoadTest(r) ==
  /\ stage[r] = "request"
  /\ \/ Exists(r) /\ Show(r, "refused") /\ Proceed(r, "ended") /\ UNCHANGED vars
     \/ ~Exists(r) /\ Enqueue(r) /\ Proceed(r, "poll") /\ UNCHANGED shown
     \/ ~Exists(r) /\ Enqueue(r) /\ NoReply /\ Proceed(r, "ended") /\ UNCHANGED shown
     \/ NoReply /\ Proceed(r, "ended") /\ UNCHANGED <<vars, shown>>
  /\ UNCHANGED <<remote, data, e2e, vmVars, score>>

\* get_test_status.sh asks again while the request waits or runs.
GetStatus(r) ==
  /\ stage[r] = "poll"
  /\ \/ row[r] = "finished" /\ Show(r, IF posted[r] > 0 THEN "score" ELSE "unknown")
     \/ row[r] = "failed" /\ Show(r, "failed")
     \/ row[r] \notin {"waiting", "running", "finished", "failed"} /\ Show(r, "unknown")
     \/ NoReply /\ Show(r, "unknown")
  /\ Proceed(r, "ended")
  /\ UNCHANGED <<vars, remote, data, e2e, vmVars, score>>

RunStep(r) ==
  \/ RestartContainer(r) \/ Recreate(r) \/ InitSql(r) \/ LoadData(r) \/ Migrate(r)
  \/ E2eRemote(r) \/ E2eLocal(r) \/ RunnerMain(r) \/ RequestLoadTest(r) \/ GetStatus(r)

RunNext ==
  \/ \E r \in Runs : CheckExistence(r) \/ RunStep(r)
  \/ (Serve \/ \E t \in Tests \ Runs : Enqueue(t)) /\ UNCHANGED runVars

RunSpec == RunInit /\ [][RunNext]_allVars

\* Every command of a script ends; nobody has to start one.
RunFairSpec ==
  /\ RunSpec
  /\ ServeFairness
  /\ \A r \in Runs : WF_allVars(RunStep(r))

--------------------------------------------------------------------------------
(* Properties *)

(* A team never has two requests under way, overlapping runs and lost replies *)
(* included, unless a worker's crash brings a settled one back.               *)
RequestsDoNotMeet ==
  InTime /\ crashes = 0 =>
    \A r, s \in Runs :
      row[r] \in {"waiting", "running"} /\ row[s] \in {"waiting", "running"} => r = s

\* Each run finds what the one before it has left.
OneAfterTheOther == InTime /\ crashes = 0 /\ faults \cap {"overlap", "replies"} = {}

(* A load test is run only on a system that has passed the e2e tests of its   *)
(* run; and, of runs one after the other, on the freshly restored data of the *)
(* load test and a running backend: the next run.sh waits for the worker.     *)
TestIsPrepared ==
  \A w \in Workers : pc[w] = "test" /\ job[w] \in Runs =>
    /\ e2e[job[w]]
    /\ (OneAfterTheOther =>
         /\ db \ {"migrations"} = LoadTestData
         /\ "unchecked" \in faults \/ (up /\ "migrations" \in db))

(* Whoever waits for an outcome is shown one, unless a crash has made two      *)
(* requests of the team meet, which then skip each other for ever.            *)
OutcomeIsShown ==
  \A r \in Runs :
    stage[r] = "poll" ~>
      \/ shown[r] # "nothing"
      \/ \E s \in Runs \ {r} : crashes > 0 /\ row[s] \in {"waiting", "running"}
================================================================================
