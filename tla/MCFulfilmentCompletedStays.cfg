\* Two robots, one plan each, one order.
CONSTANTS
  c1 = c1  c2 = c2  r1 = r1  r2 = r2  light = light  heavy = heavy
  Carts <- OneCart
  ItemLists <- OneLight
  Robots <- TwoRobots
  Products <- TwoProducts
  Weight <- ProductWeight
  Value <- ProductValue
  Capacity = 2
  MaxOrders = 1
  MaxPlans = 2
SPECIFICATION Spec
PROPERTIES CompletedStays
\* The bounds on orders and plans, and carts sent once, let every actor finish.
CHECK_DEADLOCK FALSE
