SPECIFICATION ServicesSpec
CONSTANTS
  Services = {"listener", "health", "tasks", "prefetch", "migration", "update",
              "upstreams"}
  Addrs <- ThreeAddrs
  Conns = {c1, c2}
  MaxLGen = 4
  NoAddr = NoAddr
  TaskKinds = {"audit", "slim", "boost", "scan", "clear_category", "clear_all"}
  Disablers = {d1}
  MaxTasks = 2
  MaxGen = 4
  a1 = a1
  a2 = a2
  a3 = a3
  script = script
  gameData = gameData
  Assets = {a1, a2, a3}
  PrioOf <- SomePrios
  Scripts = {script}
  GameData = {gameData}
  RefsOf <- SomeRefs
  ChannelCap = 1
  QueueCap = 1
  SeenLimit = 1
  FlightLimit = 4
  DeadCap = 1
  NoAsset = NoAsset
  Cached = {m1}
  Named = {n1}
  Residue = {t1}
  Own = {o1}
  MaxRuns = 2
  MaxDeaths = 1
  Missing = Missing
  Proxies = 2
  MaxDownloads = 2
  r1 = r1
  r2 = r2
  NoRequest = NoRequest
  Requests = {r1, r2}
  Confs <- AllConfs
  MayStall = FALSE
INVARIANTS
  OneTask
  SwitchedOffStaysOff
  OneListener
  StopCutsAll
  FixedPlaneServes
  InflightExact
  NothingLost
  ProgramSurvives
  TrialNotLeaked
  CountBelowLimit
  BackupClientExists
SYMMETRY RequestSymmetry
VIEW Moving
CHECK_DEADLOCK FALSE
