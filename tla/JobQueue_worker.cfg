SPECIFICATION Spec
CONSTANTS
  a = a
  b = b
  c1 = c1
  c2 = c2
  Ids = {a, b}
  Callers = {c1, c2}
  Owns <- UniqueIds
  Priorities = {1, 2}
  DefaultPriority = 2
  Targets = {"completed", "failed"}
  FacadeIds = {}
  FacadeStatuses = {"completed"}
  WorkersDequeueFirst = TRUE
  DbMayFail = FALSE
  MayClear = FALSE
  MaxRows = 2
  MaxHistory = 3
  MaxObjs = 3
  MaxRestarts = 1
INVARIANTS PendingIffQueued RunningCount FinishedIsPersisted
PROPERTIES CancelSticks
CHECK_DEADLOCK FALSE
