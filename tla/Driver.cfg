\* The driver with no counter, one, or one more than the buffers hold.
SPECIFICATION Spec
CONSTANTS
  MAX_COUNTERS = 2
  VALS = 1
  MaxCount = 0
  MaxOptions = 2
  Options <- OneCounter
  Args <- AllArgs
  DefaultLoops <- FewLoops
  UnorderedFactor = 2
  NULL = NULL
INVARIANTS
  TypeOK
  RowsBelongToLines
  DurationsBelongToLines
  GemmMatricesLive
  GemmPoolSuffices
  NoLeaks
  CallsInOrder
PROPERTIES
  Terminates
  SelectedTestsReport
CHECK_DEADLOCK FALSE
