SPECIFICATION Spec
CONSTANTS
  L1I <- OneWay
  L1D <- OneWay
  L2 <- TwoWays
  MemoryLatency = 1
  MaxWB = 1
  Cells = {w}
  Values = {zero, a}
  Zero = zero
  VPNs = {v1, v2}
  NumFrames = 2
  NumEntries = 2
  TLBLatency = 1
  WalkLatency = 1
  FaultLatency = 1
  MaxSB = 1
INVARIANTS
  PagesReadBack
CHECK_DEADLOCK FALSE
