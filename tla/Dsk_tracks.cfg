CONSTANTS
  A = A
  B = B
  Drives = {0}
  Sides = {0, 1}
  Media = {A}
  NoDisk = NoDisk
  MaxTrack = 2
  Tracks <- TwoTracks
  Start <- OneMounted
  Geometry <- BySides
  SecLen = 2
  Budget = 0
  FifoDepth = 1
  MaxWrites = 3
  Ops = {"STEP", "RESTORE", "WTRACK", "WSEC"}
  Flags = {"UPD"}
  IrqEnables = {FALSE}
  DrainsDrq = TRUE
  SlowCore0 = FALSE
  Swaps = "never"
SPECIFICATION Spec
INVARIANTS
  ImagesIntact
  NoStoredWriteLost
