CONSTANTS
  Sticks = {1}
  LockMax = 2
  Null = Null
  StdFat = {3}
  StdLfs = {19}
  Drives = {0}
  Configs = {0, 1}
  Names = {"x"}
  Images = {"x"}
  Faults = {"open", "flash"}
  MaxFails = 1
  MaxMounts = 2
  Tidy = TRUE
  Hotplug = "quiet"
SPECIFICATION Spec
INVARIANTS
  TypeOK
  LeaksAreFailures
  LocksOwned
  DriveHasItsFile
PROPERTIES
  ImplementsPool
