\* One robot with fair timers, up to two plans, one cart of two pieces.
CONSTANTS
  c1 = c1  c2 = c2  r1 = r1  r2 = r2  light = light  heavy = heavy
  Carts <- OneCart
  ItemLists <- OneOfEach
  Robots <- OneRobot
  Products <- TwoProducts
  Weight <- ProductWeight
  Value <- ProductValue
  Capacity = 2
  MaxOrders = 2
  MaxPlans = 2
SPECIFICATION FairSpec
INVARIANTS TypeOK ReportedOnce SendNeverBlocks
PROPERTIES ImplementsLifecycle RequestsEnd LocksReleased
\* The bounds on orders and plans, and carts sent once, let every actor finish.
CHECK_DEADLOCK FALSE
