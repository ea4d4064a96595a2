CONSTANTS
  Nodes = {n1, n2}
  Fds = {3, 4, 5}
  None = None
  Intervals = {0, 1}
  MaxRunning = 2
  Monitor = FALSE
  MainDeletes = TRUE
  ThreadMayFail = TRUE
SPECIFICATION FairSpec
INVARIANT OneFdPerNode
INVARIANT RunningHasThread
INVARIANT StoppedIsQuiet
PROPERTY StopReturns
CHECK_DEADLOCK FALSE
