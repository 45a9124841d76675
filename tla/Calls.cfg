\* Both builds, with and without messages, up to eight calls in progress.
SPECIFICATION Spec
CONSTANTS
  MaxDepth = 8
INVARIANTS
  CallsLand
  JemallocNotReentered
CHECK_DEADLOCK FALSE
