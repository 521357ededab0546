SPECIFICATION Spec
CONSTANTS
  Plans <- MCPlans
  MaxSize = 4
  MaxFields = 2
  MaxLabels = 1
CHECK_DEADLOCK FALSE
INVARIANTS
  GlobalsBetweenFields
