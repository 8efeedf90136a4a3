\* Two requests of one team, one worker, nothing fails.
CONSTANTS
  w1 = w1  w2 = w2  t1 = t1  t2 = t2
  Workers <- OneWorker
  Tests <- TwoTests
  Team <- SameTeam
  Unreadable <- NoTest
  FaultSets <- NoFaults
  MaxCrashes = 0
  MaxPosted = 2
SPECIFICATION FairSpec
PROPERTIES RequestsSettle
\* Once the queue is empty the workers only poll it.
CHECK_DEADLOCK FALSE
