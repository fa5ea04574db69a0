SPECIFICATION Spec
CONSTANTS
  WordHalf = 1000000
  Programs <- EndsWithLoad
  Images <- Image
  Regs = {1, 2}
  Addrs <- Words
  Forwarding = TRUE
  LatencyAdd = 1
  LatencyMul = 1
  LoadTimes = {3}
  StoreTimes = {2}
  FetchTimes = {1, 2}
  DrainTimes = {1, 3}
  MaxSB = 4
  MaxBody = 0
INVARIANTS
  FinalState
