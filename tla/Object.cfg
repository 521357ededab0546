SPECIFICATION LinkerSpec
CONSTANTS
  Names <- MCNames
  Units <- MCUnits
  Rel <- MCRel
  Binaries <- MCBinaries
  Bin <- MCBin
  Path <- MCPath
  EntryName <- MCEntryName
  Page = 4
  Defines <- NoOptions
  Outputs = {"out"}
  OutputOption = {}
  Operands <- ObjectOperands
  Defined = {}
  MaxBank = 7
  EncodedSizes = {20}
  MaxSegments = 3
  MaxLinks = 3
CHECK_DEADLOCK FALSE
INVARIANTS
  ReferencesAccounted
  BindsToDefinition
  HandedOver
PROPERTIES
  LeavesWritten
