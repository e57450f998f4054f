SPECIFICATION FilesSpec
CONSTANTS
  h = h
  kh = kh
  v1 = v1
  v2 = v2
  b1 = b1
  c1 = c1
  c2 = c2
  image = image
  old = old
  new = new
  b2 = b2
  NoName = NoName
  None = None
  Corrupt = Corrupt
  Names = {h}
  Alt <- NoAlias
  Canon <- OneCanon
  Shared = {h}
  Contents = {v1, v2}
  Bases = {b1}
  Clients = {c1, c2}
  Workers = {}
  QueueCap = 1
  MayForget = FALSE
  DiskFails = TRUE
  RepairModes = {TRUE}
  Files = {image, old, new}
  VersionOf <- Versions
  Keep = 1
  CacheBases = {b1, b2}
  TaskKinds = {"scan", "clear", "slim", "both", "live"}
  Busy = {old}
  MaxStamp = 2
  MaxGen = 2
  NoFile = NoFile
INVARIANTS
  DeletedStaysGone
  DirectoryHeld
  CompletedMeansGone
  SnapshotForgetsDeleted
  SharedPairsAgree
PROPERTIES
  NewerSurvives
SYMMETRY PayloadSymmetry
VIEW WithoutHistory
CHECK_DEADLOCK FALSE
