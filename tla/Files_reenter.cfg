CONSTANTS
  Sticks = {1, 2}
  LockMax = 2
  Null = Null
  StdFat = {3}
  StdLfs = {}
  Drives = {0}
  Configs = {0, 1}
  Names = {"x", "y"}
  Images = {"x", "y"}
  Faults = {}
  MaxFails = 0
  MaxMounts = 3
  Tidy = TRUE
  Hotplug = "any"
SPECIFICATION Spec
CHECK_DEADLOCK FALSE
PROPERTY
  OpensItsName
