SPECIFICATION FairSpec
CONSTANTS
  b1 = b1
  b2 = b2
  Binary = {b1, b2}
  NoBinary = none
  Users <- MCUsers
  MaxQueue = 3
  MaxTimers = 2
  MaxDepth = 3
CHECK_DEADLOCK FALSE
INVARIANTS
  NoFault
  SavesOwnRegions
  TagsAreNoticed
  QuitsClean
PROPERTIES
  TagsAreNotDropped
  LoadsEnd
