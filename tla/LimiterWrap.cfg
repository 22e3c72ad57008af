\* The clock passes a u32 modulus that is no multiple of the hour.
CONSTANTS
  SLOTS = 3
  SECONDS_PER_HOUR = 2
  U32 = 9
  Amounts = {1, 2}
  Limits = {2}
  MAX_TIME = 14
SPECIFICATION Spec
INVARIANTS HoursPassedIsElapsed
