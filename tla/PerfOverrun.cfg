\* The sizes of perf.c and the options of README.md.
SPECIFICATION Spec
CONSTANTS
  MAX_COUNTERS = 10
  VALS = 6
  MaxCount = 0
  MaxOptions = 4
  Options <- ReadmeOptions
INVARIANTS
  ReadsFit
CHECK_DEADLOCK FALSE
