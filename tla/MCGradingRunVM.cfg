\* Two runs of one team after each other or at once, two workers, one crash.
CONSTANTS
  w1 = w1  w2 = w2  r1 = r1  r2 = r2  other = other
  Workers <- TwoWorkers
  Tests <- RunsAndOther
  Team <- Teams
  Unreadable <- OnlyOther
  Runs <- TwoRuns
  FaultSets <- AllFaults
  MaxCrashes = 1
  MaxPosted = 2
  MaxCount = 1
SPECIFICATION RunFairSpec
INVARIANTS RunTypeOK RequestsDoNotMeet TestIsPrepared
PROPERTIES OutcomeIsShown
\* Nobody has to start another run, and the workers only poll.
CHECK_DEADLOCK FALSE
