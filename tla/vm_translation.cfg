SPECIFICATION HSpec
CONSTANTS
  VPNs = {v1, v2, v3, v4}
  NumFrames = 3
  NumEntries = 2
  Contents = {zero, a}
  Zero = zero
  Stores = {TRUE, FALSE}
  ByteLevel = TRUE
INVARIANTS
  TypeOK
  TLBCoherent
  SlotsTracked
  FramesOwned
  RaisesOnlyExhausted
  TLBOrderIsRecency
PROPERTIES
  DirtyPagesSurvive
  NeverForeignBytes
CHECK_DEADLOCK FALSE
SYMMETRY PageSymmetry
