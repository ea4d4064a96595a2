CONSTANTS
  Nodes = {n1, n2, n3}
  None = None
  Intervals = {0, 2}
  MaxCommands = 3
  MaxFailures = 1
  Programs = {"monitor", "emissions"}
SPECIFICATION FairSpec
INVARIANT TimersBalanced
INVARIANT DarkAfterEmissions
PROPERTY Blinks
CHECK_DEADLOCK FALSE
