\* A ring of 3 slots over 11 hours of 2 seconds; the u32 never wraps.
CONSTANTS
  SLOTS = 3
  SECONDS_PER_HOUR = 2
  U32 = 64
  Amounts = {1, 2}
  Limits = {2, 3}
  MAX_TIME = 21
SPECIFICATION Spec
INVARIANTS TypeOK HoursPassedIsElapsed NoStaleRejection HourlyInflowBound RoomNextHour
