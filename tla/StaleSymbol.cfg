SPECIFICATION LinkerSpec
CONSTANTS
  Names <- MCNames
  Units = {"main", "lib", "late"}
  Rel <- LinkRel
  Binaries = {}
  Bin <- NoBin
  Path <- MCPath
  EntryName <- MCEntryName
  Page = 4
  Defines <- NoOptions
  Outputs = {"out"}
  OutputOption = {}
  Operands <- LinkOperands
  Defined = {}
  MaxBank = 7
  EncodedSizes = {}
  MaxSegments = 4
  MaxLinks = 3
CHECK_DEADLOCK FALSE
INVARIANTS
  NoLinksToOtherFiles
