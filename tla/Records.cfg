SPECIFICATION Spec
CONSTANTS
  Radix = 8
  SuperSegments = 2
  Segnums = {1, 3}
  Fixups <- MCFixups
CHECK_DEADLOCK FALSE
INVARIANTS
  LoaderSeesRelocations
  SizeIsWritten
PROPERTIES
  PagesAscend
