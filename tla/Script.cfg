SPECIFICATION FairSpec
CONSTANTS
  Names <- MCNames
  Units <- MCUnits
  Rel <- MCRel
  Binaries = {"icon", "gone"}
  Bin <- MCBin
  Path <- MCPath
  EntryName <- MCEntryName
  Page = 4
  Defines <- MCDefines
  Outputs = {"out"}
  OutputOption = {}
  Operands <- NoOperands
  Defined = {}
  MaxBank = 3
  EncodedSizes = {}
  MaxSegments = 4
  MaxLinks = 3
  Width = 3
  MaxOpen = 3
  Scripts <- MCScripts
  BlockLength = 7
  LabelLength = 4
  MaxErrors = 2
CHECK_DEADLOCK FALSE
INVARIANTS
  ScriptTypeOK
  FailedOutputTold
PROPERTIES
  OnlyChosenLinesLink
  EndIsFinal
  RejectedLineChangesNothing
  ErrorIsTold
