\* make android.
SPECIFICATION Spec
CONSTANTS
  NONE = NONE
  Builds = {"native"}
  Files <- TheFiles
  Libraries <- TheLibraries
  Unsafe = {"setjmp", "exit", "abort"}
  Static <- TheStatic
  Toolchain <- TheToolchain
INVARIANTS
  OnlyLastIsCut
  CompleteLinks
CHECK_DEADLOCK FALSE
