SPECIFICATION Spec
CONSTANTS
  NSections = 2
  ObjectOf <- MCObject
  Byte = {0, 1}
  Offset <- MCOffset
  Size <- MCSize
  FileSize = 4
  MaxRegions = 2
  MaxSub = 2
CONSTRAINT OneSetOfRegions
INVARIANTS
  AttachedIsSnapshot
  RestoresOnlySaved
  FlagIsSound
PROPERTIES
  RestoresInnerRegions
