SPECIFICATION FairSpec
CONSTANTS
  L1I <- OneWay
  L1D <- OneWay
  L2 <- TwoWays
  MemoryLatency = 1
  MaxWB = 0
  Cells = {w}
  Values = {zero, a}
  Zero = zero
  DataBlocks <- TwoBlocks
  Program <- OneBlockProgram
  MaxUses = 3
  MaxQueued = 2
INVARIANTS
  TypeOK
  AllLinesTracked
  Inclusion
  CleanCopiesAgree
  NewestKept
  LoadsReturnLatest
  FetchesProgram
PROPERTIES
  WriteBacksLand
CHECK_DEADLOCK FALSE
