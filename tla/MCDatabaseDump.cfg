SPECIFICATION DumpSpec
CONSTANTS
  MaxRow = 5
  PageSize = 2
  ReadAhead = 1
  MaxFaults = 1
  p1 = p1
  p2 = p2
  whole = whole
  broken = broken
  headless = headless
  NoDump = NoDump
  Paths <- TwoPaths
  Dumps <- ThreeDumps
  Size <- Sizes
  Frames <- FrameCounts
  Good <- GoodCounts
  Headless <- NoHeader
  MaxBadWrites = 1
INVARIANTS
  TypeOK
  DumpIsRight
  ImportTypeOK
  NothingIsSkipped
PROPERTY ExportReturns
CHECK_DEADLOCK FALSE
