CONSTANTS
  Chunks = 1
  LociOn = {"flash"}
  InFlash = {"basic10"}
  InRaw = {"microdis"}
  Requests = {{"fast", "tap"}, {"fast", "fdc"}, {"fast", "fdc", "resume"}}
  Carts = {TRUE, FALSE}
  Masked = TRUE
  Faults = {}
  Breaks = "calm"
  Patient = TRUE
  Null = Null
SPECIFICATION FairSpec
INVARIANTS
  TypeOK
  RunsWhatWasMeant
  VectorsBack
  TrapWatched
PROPERTIES
  ResumesAsLeft
  PressAnswered
  BootComesUp
