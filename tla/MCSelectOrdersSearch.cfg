\* Five orders of four kinds, up to three of any small kind; capacities that cut
\* no branch, some and all of them.
CONSTANTS
  OrderLists <- AllLists
  Capacities <- SomeCapacities
  CheckEvery = 4
SPECIFICATION Spec
INVARIANTS TypeOK PlanIsBest CancelIsSeen
PROPERTIES SearchEnds
\* The search ends.
CHECK_DEADLOCK FALSE
