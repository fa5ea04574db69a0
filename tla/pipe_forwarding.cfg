SPECIFICATION Spec
CONSTANTS
  WordHalf = 1000000
  Programs <- Pool
  Images <- Image
  Regs = {1, 2}
  Addrs <- Words
  Forwarding = TRUE
  LatencyAdd = 2
  LatencyMul = 3
  LoadTimes = {1, 3}
  StoreTimes = {1, 2}
  FetchTimes = {1, 2}
  DrainTimes = {1, 4}
  MaxSB = 2
  MaxBody = 4
INVARIANTS
  FinalState
PROPERTIES
  Sequential
CONSTRAINT
  Followed
