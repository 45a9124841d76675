\* Readings on both sides of a full second; a clock set once or twice.
SPECIFICATION ClockSpec
CONSTANTS
  MILLION = 3
  ULONG = 32
  MaxClock = 8
  MaxSets = 2
INVARIANTS
  ClockTypeOK
PROPERTIES
  DurationExact
CHECK_DEADLOCK FALSE
