\* One request whose visibility timeout passes during its load test.
CONSTANTS
  w1 = w1  w2 = w2  t1 = t1  t2 = t2
  Workers <- TwoWorkers
  Tests <- OneTest
  Team <- SameTeam
  Unreadable <- NoTest
  FaultSets <- LongTest
  MaxCrashes = 0
  MaxPosted = 2
SPECIFICATION Spec
INVARIANTS OneTestPerTeam
\* Once the queue is empty the workers only poll it.
CHECK_DEADLOCK FALSE
