CONSTANTS
  A = A
  B = B
  Drives = {0, 1}
  Sides = {0}
  Media = {A, B}
  NoDisk = NoDisk
  MaxTrack = 2
  Tracks <- TwoTracks
  Start <- BothMounted
  Geometry <- BySides
  SecLen = 2
  Budget = 1
  FifoDepth = 2
  MaxWrites = 1
  Ops = {"SEEK", "RSEC", "WSEC"}
  Flags = {"UPD", "VERIFY"}
  IrqEnables = {FALSE}
  DrainsDrq = TRUE
  SlowCore0 = FALSE
  Swaps = "never"
SPECIFICATION Spec
INVARIANTS
  TypeOK
  ServesAddressedTrack
  CommandOnItsDrive
  BytesInOrder
  NoByteDropped
PROPERTIES
  CommandsEnd
