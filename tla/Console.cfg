SPECIFICATION ConsoleSpec
CONSTANTS
  Ports = {1, 2}
  Foreign = {f1}
  NoPAC = NoPAC
  dir1 = dir1
  dir2 = dir2
  MaxFaults = 1
  MaxCrashes = 1
  MaxForeign = 1
  MaxTx = 2
  NoTx = NoTx
  Settings <- SomeSettings
  r1 = r1
  u1 = u1
  Plain = {"lspatch", "module"}
  Zipped = {"platform-tools"}
  LSPatch = "lspatch"
  Module = "module"
  PlatformTools = "platform-tools"
  Provided = {}
  Uploads = {u1, u2}
  Requesters = {r1, r2}
  MaxJobs = 2
  MaxInstalls = 2
  MaxRemovals = 1
  NoUpload = NoUpload
INVARIANTS
  AppliedTogether
  TheirsGivenBack
  ReportedIsThere
  
PROPERTIES
  SwitchedAlone
VIEW Moving
CHECK_DEADLOCK FALSE
