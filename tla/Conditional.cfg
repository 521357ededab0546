SPECIFICATION CondSpec
CONSTANTS
  Width = 5
  MaxOpen = 7
INVARIANTS
  CondTypeOK
  LevelMarked
  ActiveMeansChosen
PROPERTIES
  ImplementsNesting
