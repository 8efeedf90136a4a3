\* The pages of both lists.
CONSTANTS
  Kinds <- Both
  Tables <- AllTables
  PageSizes <- Sizes
SPECIFICATION Spec
INVARIANTS TypeOK ProductPagesCoverTheList ShownIsTheHead DirectionsMirror
\* The walk ends with the last page.
CHECK_DEADLOCK FALSE
