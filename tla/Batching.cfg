SPECIFICATION FairSpec
CONSTANTS
  Timeouts = {1, 3}
  DefaultTimeout = 2
  MaxRequests = 3
  MaxBatch = 3
PROPERTIES BatchEnds
CHECK_DEADLOCK FALSE
