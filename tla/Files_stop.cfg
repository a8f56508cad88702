CONSTANTS
  Sticks = {1}
  LockMax = 2
  Null = Null
  StdFat = {3}
  StdLfs = {19}
  Drives = {0}
  Configs = {0, 1, 2}
  Names = {"x"}
  Images = {"x"}
  Faults = {}
  MaxFails = 0
  MaxMounts = 1
  Tidy = FALSE
  Hotplug = "quiet"
SPECIFICATION Spec
INVARIANT
  StopsClean
