SPECIFICATION LinkerSpec
CONSTANTS
  Names <- MCNames
  Units = {"lib"}
  Rel <- SettingRel
  Binaries = {}
  Bin <- NoBin
  Path <- MCPath
  EntryName <- MCEntryName
  Page = 4
  Defines <- NoOptions
  Outputs = {"out"}
  OutputOption = {}
  Operands <- SettingOperands
  Defined = {"bar"}
  MaxBank = 7
  EncodedSizes = {}
  MaxSegments = 2
  MaxLinks = 1
CHECK_DEADLOCK FALSE
INVARIANTS
  LinkerTypeOK
PROPERTIES
  ClosedSegmentsKeep
  FirstDefinitionStays
