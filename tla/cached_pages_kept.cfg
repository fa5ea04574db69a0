SPECIFICATION Spec
CONSTANTS
  L1I <- NoWait
  L1D <- NoWait
  L2 <- NoWait
  MemoryLatency = 3
  MaxWB = 1
  Cells = {w}
  Values = {zero, a}
  Zero = zero
  VPNs = {v1, v2, v3}
  NumFrames = 3
  NumEntries = 1
  TLBLatency = 0
  WalkLatency = 1
  FaultLatency = 2
  MaxSB = 1
INVARIANTS
  UndisturbedPagesReadBack
CONSTRAINT SomethingUndisturbed
CHECK_DEADLOCK FALSE
SYMMETRY PageSymmetry
