SPECIFICATION SpecAlive
CONSTANTS
  x = x
  ax = ax
  h = h
  kx = kx
  kh = kh
  NoName = NoName
  None = None
  Corrupt = Corrupt
  v1 = v1
  v2 = v2
  b1 = b1
  b2 = b2
  c1 = c1
  c2 = c2
  w1 = w1
  w2 = w2
  Names = {h}
  Alt <- NoAlias
  Canon <- OneCanon
  Shared = {}
  Contents = {v1}
  Bases = {b1, b2}
  Clients = {c1}
  Workers = {}
  QueueCap = 1
  MayForget = FALSE
  DiskFails = FALSE
  RepairModes = {FALSE}
INVARIANTS
  OldDirectoryLeft
CHECK_DEADLOCK FALSE
