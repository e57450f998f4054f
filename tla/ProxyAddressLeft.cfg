SPECIFICATION ConfigSpec
CONSTANTS
  Ports = {1, 2}
  Foreign = {}
  NoPAC = NoPAC
  dir1 = dir1
  dir2 = dir2
  MaxFaults = 0
  MaxCrashes = 1
  MaxForeign = 0
  MaxTx = 2
  NoTx = NoTx
  Settings <- SomeSettings
INVARIANTS
  NoneOfOursLeft
CHECK_DEADLOCK FALSE
