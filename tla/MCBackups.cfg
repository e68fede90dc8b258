SPECIFICATION Spec
CONSTANTS
  Base = 2
  Width = 2
  Amounts = {0, 1, 2, 3}
  CopyMayFail = TRUE
  MaxSaves = 6
CHECK_DEADLOCK FALSE
PROPERTIES
  KeepsAmount
  KeepsNewest
