SPECIFICATION FairSpec
CONSTANTS
  NSections = 2
  Byte = {0, 1}
  Offset <- MCVersionOffset
  Size <- MCVersionSize
  FileSize = 4
  VersionSections = {1}
  VersionWidth = 1
  WritesMayFail = FALSE
  MaxRegions = 2
INVARIANTS
  IInv
  FlagIsSound
PROPERTIES
  RefinesWriteBack
  SaveEnds
