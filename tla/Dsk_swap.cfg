CONSTANTS
  A = A
  B = B
  Drives = {0}
  Sides = {0}
  Media = {A, B}
  NoDisk = NoDisk
  MaxTrack = 1
  Tracks <- OneTrack
  Start <- OneMounted
  Geometry <- BySides
  SecLen = 2
  Budget = 0
  FifoDepth = 1
  MaxWrites = 1
  Ops = {"RTRACK", "RADDR", "WSEC"}
  Flags = {"UPD"}
  IrqEnables = {FALSE, TRUE}
  DrainsDrq = TRUE
  SlowCore0 = TRUE
  Swaps = "idle"
SPECIFICATION Spec
INVARIANTS
  ImagesIntact
