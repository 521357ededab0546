SPECIFICATION FileSpec
CONSTANTS
  Files <- MCFiles
  Word = 200
  Names = {3, 255, 300}
  Sizes = {0, 448}
  Reserved = {0, 16}
  Relocs = {0, 7}
  MaxSegments = 3
  Versions = {1, 2}
  Objects = {TRUE}
CHECK_DEADLOCK FALSE
INVARIANTS
  SegmentsInSequence
  ExpressTells
  NumbersArePlaces
