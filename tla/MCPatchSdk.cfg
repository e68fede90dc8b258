SPECIFICATION PatchSpec
CONSTANTS
  Files <- MCFiles
  Requests <- MCRequests
  List <- MCList
CHECK_DEADLOCK FALSE
INVARIANTS
  FindsAllSections
  SectionsApart
  StubsAreNamed
  PatchTakesEffect
PROPERTY PatchesOnlyTargets
