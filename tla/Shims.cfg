\* Both builds; jemalloc's own threshold below, at and above that of s_calloc.
SPECIFICATION Spec
CONSTANTS
  PAGES = 5
  FirstBreak = 1
  SIZE_T = 16
  INT = 8
  THRESHOLD = 2
  Larges = {1, 2}
  Lengths = {2, 5}
  Requests <- FewRequests
INVARIANTS
  TypeOK
  BlocksKeepContents
  ChunksApart
CHECK_DEADLOCK FALSE
