\* Every file of up to five lines, with a context of two lines.
SPECIFICATION Spec
CONSTANTS
  Regs = {"x8", "x9"}
  Lines <- FewLines
  AFTER = 2
  MaxLines = 5
  NONE = NONE
INVARIANTS
  TypeOK
  HalvesMeet
  DataFound
CHECK_DEADLOCK FALSE
