SPECIFICATION Spec
CONSTANTS
  Plans <- MCPlans
  MaxSize = 4
  MaxFields = 2
  MaxLabels = 2
CHECK_DEADLOCK FALSE
PROPERTIES
  PromiseKept
INVARIANTS
  TypeOK
  PlacedIffFits
  NeverBehind
  ReadsBack
