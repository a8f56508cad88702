CONSTANTS
  RamTop = 5
  CmdAddrs = {4}
  MaxLen = 3
  CmdLens = {1, 3}
  Screen = 0
  Cols = 1
  Rows = 2
  Font = 3
  Fixed = {}
  Stalls = TRUE
  Boots = "quiet"
  Breaks = "first"
SPECIFICATION Spec
INVARIANTS
  TypeOK
  VectorsHome
PROPERTIES
  OnlyAsked
  MonitorTellsTruth
  WaitsEnd
