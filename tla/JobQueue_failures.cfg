SPECIFICATION Spec
CONSTANTS
  a = a
  b = b
  c1 = c1
  c2 = c2
  Ids = {a, b}
  Callers = {c1}
  Owns <- OneCallerA
  Priorities = {2}
  DefaultPriority = 2
  Targets = {"running", "completed"}
  FacadeIds = {b}
  FacadeStatuses = {"completed"}
  WorkersDequeueFirst = TRUE
  DbMayFail = TRUE
  MayClear = TRUE
  MaxRows = 3
  MaxHistory = 3
  MaxObjs = 2
  MaxRestarts = 1
INVARIANTS TypeOK PendingCount AcceptedIsDurable
PROPERTIES RecoveryComplete
CHECK_DEADLOCK FALSE
