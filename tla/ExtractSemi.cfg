\* make semi.
SPECIFICATION Spec
CONSTANTS
  NONE = NONE
  Builds = {"semihosting"}
  Files <- TheFiles
  Libraries <- TheLibraries
  Unsafe = {"setjmp", "exit", "abort"}
  Static <- TheStatic
  Toolchain <- TheToolchain
INVARIANTS
  CompleteLinks
CHECK_DEADLOCK FALSE
