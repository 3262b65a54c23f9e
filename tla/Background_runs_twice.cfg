SPECIFICATION MCSpec
CONSTANTS
  x1 = x1
  x2 = x2
  x3 = x3
  x4 = x4
  x5 = x5
  x6 = x6
  Items = {x1, x2, x3, x4, x5, x6}
  NoItem = NoItem
  Priorities = {1, 2}
  p1 = p1
  p2 = p2
  Nil = Nil
  NoTime = NoTime
  Pods = {p1, p2}
  LeaderCalls = {"call"}
  MaxTimers = 1
  LeaderFaults = 2
  JobIds = {p1, p2}
  JobRefs = {p1, p2}
  JobSpecs <- MCSpecs
  TimerRange = 2
  MaxCopies = 3
  LastCheck = 4
  CacheKeys = {x1, x2, x3}
  CacheSets = {p1, p2}
  Ttls = {1}
  MaxSize = 1
  ReadsToAdapt = 1
  AlertAt = 1
  CacheTime = 2
  MaxReads = 1
  RequestKinds <- MCKinds
  Burst = 5000
  AlertsKept = 3
  AlertLife = 1
  AlertLimits <- MCThresholds
  LimitUpdates <- MCUpdates
  DashboardTime = 1
  LoadKinds <- MCLoads
  LoadLimits <- Unreached
  HistoryLife = 1
  Detections = 2
SYMMETRY Symmetric
INVARIANT ExecutedOneTime
