\* Every layout and table, in both builds, from breaks below and above the
\* heap; among them the images of the executables whose headers compile.
SPECIFICATION Spec
CONSTANTS
  PAGE_SIZE = 2
  HEAP_START = 32
  BreakStep = 2
  FirstBreaks = {4, 30, 31, 40}
  Images <- AllImages
  Elfs <- SmallElfs
  LIB_START <- Starts
  LIB_SIZE = 8
  TwoDigits = 2
  Exported <- Symbols
  s_ <- Shims
INVARIANTS
  TypeOK
  LibrariesAsLinked
  BootFaultsOnSharedPage
  OnlyTextSealed
  HeapPastLibraries
  MemoryAsElfAsks
  PointersLand
PROPERTIES
  Boots
CHECK_DEADLOCK FALSE
