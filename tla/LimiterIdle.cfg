\* Up to three ring turns of idle time, one limit.
CONSTANTS
  SLOTS = 3
  SECONDS_PER_HOUR = 1
  U32 = 64
  Amounts = {1, 2}
  Limits = {2}
  MAX_TIME = 9
SPECIFICATION Spec
INVARIANTS SameHourCapped
