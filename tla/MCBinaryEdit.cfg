SPECIFICATION Spec
CONSTANTS
  NSections = 1
  Byte = {b0, b1}
  Offset <- MCOffset
  Size <- MCSize
  FileSize = 3
  VersionSections = {}
  VersionWidth = 1
  WritesMayFail = TRUE
  MaxRegions = 2
SYMMETRY Bytes
INVARIANTS
  UncoveredIsOnFile
  NewestRegionWins
PROPERTIES
  WritesOnlyEdits
