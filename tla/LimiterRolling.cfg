\* Consecutive hours, one limit, no idle time beyond a ring turn.
CONSTANTS
  SLOTS = 3
  SECONDS_PER_HOUR = 1
  U32 = 64
  Amounts = {1, 2}
  Limits = {2}
  MAX_TIME = 3
SPECIFICATION Spec
INVARIANTS RollingWindowCapped
