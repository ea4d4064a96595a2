CONSTANTS
  GPS_TO = 4
SPECIFICATION Spec
INVARIANT MalExclusive
INVARIANT GpsReleased
INVARIANT XioVerdict
PROPERTY SearchIsFull
PROPERTY SearchEnds
