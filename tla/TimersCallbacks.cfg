CONSTANTS
  Nodes = {n1, n2, n3}
  Fds = {3, 4}
  None = None
  Intervals = {0, 1}
  MaxRunning = 2
  Monitor = TRUE
  MainDeletes = FALSE
  ThreadMayFail = FALSE
SPECIFICATION FairSpec
PROPERTY ImplementsService
PROPERTY DueIsServed
