\* Every disassembly of up to four lines.
SPECIFICATION Spec
CONSTANTS
  Names = {"exit", "sin", "other"}
  Unsafe = {"exit"}
  Static = {"sin"}
  Lines <- FewLines
  MaxLines = 4
  NONE = NONE
INVARIANTS
  TypeOK
  ReportTruthful
CHECK_DEADLOCK FALSE
