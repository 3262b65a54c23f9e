SPECIFICATION Spec
CONSTANTS
  a = a
  b = b
  c1 = c1
  c2 = c2
  Ids = {a}
  Callers = {c1}
  Owns <- OneCallerA
  Priorities = {2}
  DefaultPriority = 2
  Targets = {"failed"}
  FacadeIds = {}
  FacadeStatuses = {"completed"}
  WorkersDequeueFirst = TRUE
  DbMayFail = FALSE
  MayClear = FALSE
  MaxRows = 2
  MaxHistory = 3
  MaxObjs = 3
  MaxRestarts = 1
INVARIANTS RecoveredOnce
CHECK_DEADLOCK FALSE
