SPECIFICATION FairSpec
CONSTANTS
  Clients = {c1, c2}
  Handler = Handler
  MaxStarts = 2
  MaxPosts = 2
  MaxTime = 1
  Delays = {0, 1}
  SerialControl = TRUE
  NULL = NULL
INVARIANTS SerialHandlers NeverUsedAfterFree StopJoins
PROPERTIES Implements StopTerminates EventuallyDelivered
CHECK_DEADLOCK FALSE
