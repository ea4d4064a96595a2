CONSTANTS
  MaxRequests = 2
  MaxChanges = 3
  MaxFaults = 2
SPECIFICATION WwanFairSpec
INVARIANT TimerMatchesState
PROPERTY StableIsShown
CHECK_DEADLOCK FALSE
