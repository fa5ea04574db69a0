SPECIFICATION HSpec
CONSTANTS
  VPNs = {v1, v2, v3, v4}
  NumFrames = 4
  NumEntries = 8
  Contents = {zero, a}
  Zero = zero
  Stores = {TRUE, FALSE}
  ByteLevel = FALSE
PROPERTIES
  EvictsOnlyWhenFull
CHECK_DEADLOCK FALSE
SYMMETRY PageSymmetry
