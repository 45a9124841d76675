\* Command lines of up to 5 options, and the windows measured with their group,
\* also of one counter more than the buffers hold.
SPECIFICATION Spec
CONSTANTS
  MAX_COUNTERS = 4
  VALS = 3
  MaxCount = 1
  MaxOptions = 5
  Options <- MixedOptions
INVARIANTS
  TypeOK
  GroupIsComplete
  RatioBelongsToPair
  HeaderMatchesRow
PROPERTIES
  ImplementsWindow
CHECK_DEADLOCK FALSE
