SPECIFICATION FairSpec
CONSTANTS
  Devices <- TwoDevices
  Nodes = {n1, n2, n3}
  None = None
  Counts = {1, 2, 256}
  Periods = {0, 1}
  MaxCommands = 3
  MaxFailures = 1
  Modes = {"ended", "between", "any"}
INVARIANT HandleIsTheTimer
PROPERTY LoneJobEnds
CHECK_DEADLOCK FALSE
