SPECIFICATION FileSpec
CONSTANTS
  Files <- MCFiles
  Word = 200
  Names = {3, 255}
  Sizes = {448, 600}
  Reserved = {0, 16}
  Relocs = {0, 7}
  MaxSegments = 3
  Versions = {1}
  Objects = {TRUE}
CHECK_DEADLOCK FALSE
INVARIANTS
  PaddedToBlock
