\* Two requests of one team, two workers; crashes, failing calls,
\* overruns, or a message that is not JSON.
CONSTANTS
  w1 = w1  w2 = w2  t1 = t1  t2 = t2
  Workers <- TwoWorkers
  Tests <- TwoTests
  Team <- SameTeam
  Unreadable <- SecondTest
  FaultSets <- SafetyFaults
  MaxCrashes = 1
  MaxPosted = 3
SPECIFICATION Spec
INVARIANTS OneTestInTime DeletedIsSettled ScoredOnce DeletedIsAccountedFor
PROPERTIES ImplementsRequests
SYMMETRY WorkerSymmetry
\* Once the queue is empty the workers only poll it.
CHECK_DEADLOCK FALSE
