SPECIFICATION HSpec
CONSTANTS
  VPNs = {v1, v2, v3}
  NumFrames = 3
  NumEntries = 2
  Contents = {zero, a}
  Zero = zero
  Stores = {TRUE, FALSE}
  ByteLevel = TRUE
PROPERTIES
  KeepsEveryPage
CHECK_DEADLOCK FALSE
SYMMETRY PageSymmetry
