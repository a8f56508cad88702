CONSTANTS
  RamTop = 5
  CmdAddrs = {4}
  MaxLen = 3
  CmdLens = {1, 2, 3}
  Screen = 0
  Cols = 1
  Rows = 2
  Font = 3
  Fixed = {4}
  Stalls = FALSE
  Boots = "never"
  Breaks = "never"
SPECIFICATION Spec
PROPERTY
  MismatchTold
CHECK_DEADLOCK FALSE
