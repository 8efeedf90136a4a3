\* The pages of the order history.
CONSTANTS
  Kinds <- Orders
  Tables <- AllTables
  PageSizes <- Sizes
SPECIFICATION Spec
INVARIANTS OrderPagesCoverTheList
\* The walk ends with the last page.
CHECK_DEADLOCK FALSE
