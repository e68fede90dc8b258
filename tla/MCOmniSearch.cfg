SPECIFICATION Spec
CONSTANTS
  Tag = {"t1", "t2"}
  Visited = {5}
  Signed = 5
  Code <- MCCode
  CodeAddress = 0
  Symbols <- MCSymbols
  StringData <- MCStringData
  StringAddress = 5
  VersionsAddress = 1
  DumpAddress = 5
  Width = 2
  MaxLine = 5
  Pattern <- MCPattern
  Threads = {1, 6, 200}
  Limit = 5
INVARIANTS
  TagsReadBack
  TagsAreOnShow
  ToggleIsRebuild
  FindsEachMatchOnce
PROPERTY ActivationLeadsThere
