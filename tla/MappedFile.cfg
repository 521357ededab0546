SPECIFICATION MapSpec
CONSTANTS
  Objects = {a, b}
  Handles = {h1, h2, h3, h4, h5}
  Views = {v1, v2, v3}
  Lengths = {0, 1, 2}
  nullptr = nullptr
  NoCall = NoCall
CHECK_DEADLOCK FALSE
INVARIANTS
  MapTypeOK
  EachHeldOnce
  OpenIsWhole
PROPERTIES
  HoldsAsPromised
