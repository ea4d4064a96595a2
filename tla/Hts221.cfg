CONSTANTS
  MaxRounds = 1
  MaxFaults = 1
  MainUploads = FALSE
SPECIFICATION HtsSpec
PROPERTY AloneIsExact
PROPERTY ReadingsEnd
CHECK_DEADLOCK FALSE
