SPECIFICATION Spec
CONSTANTS
  Size = 3
  RowSize = 2
  Gap = 1
  MinorMod = 2
  Keys = {0}
  MaxEdits = 2
  Samples <- MCSamples
CHECK_DEADLOCK FALSE
INVARIANTS
  EditorsShowData
  DisassemblyIsCurrent
  MainViewIsCurrent
PROPERTY OkWritesWhatIsShown
