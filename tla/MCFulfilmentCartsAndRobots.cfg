\* Two robots whose plans overlap beside one cart, or two carts beside one plan.
CONSTANTS
  c1 = c1  c2 = c2  r1 = r1  r2 = r2  light = light  heavy = heavy
  Carts <- TwoCarts
  ItemLists <- SomeLists
  Robots <- TwoRobots
  Products <- TwoProducts
  Weight <- ProductWeight
  Value <- ProductValue
  Capacity = 2
  MaxOrders = 4
  MaxPlans = 2
SPECIFICATION BoundedSpec
INVARIANTS CartsAreAtomic CartsHoldWhatWasAsked OkMeansDurable TakenIsPlanned
PROPERTIES NeverBackToShipping
\* The bounds on orders and plans, and carts sent once, let every actor finish.
CHECK_DEADLOCK FALSE
