SPECIFICATION Spec
CONSTANTS
  L1I <- OneWay
  L1D <- OneWay
  L2 <- TwoWays
  MemoryLatency = 1
  MaxWB = 1
  Cells = {w}
  Values = {zero, a}
  Zero = zero
  DataBlocks <- TwoBlocks
  Program <- OneBlockProgram
  MaxUses = 3
  MaxQueued = 2
INVARIANTS
  Coherent
CHECK_DEADLOCK FALSE
