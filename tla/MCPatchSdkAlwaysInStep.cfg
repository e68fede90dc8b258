SPECIFICATION PatchSpec
CONSTANTS
  Files <- MCFiles
  Requests <- MCRequests
  List <- MCList
CHECK_DEADLOCK FALSE
INVARIANT AlwaysInStep
