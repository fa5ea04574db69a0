SPECIFICATION Spec
CONSTANTS
  WordHalf = 1000000
  Programs <- Pool
  Images <- Image
  Regs = {1, 2}
  Addrs <- Words
  Forwarding = TRUE
  LatencyAdd = 4
  LatencyMul = 3
  LoadTimes = {3}
  StoreTimes = {2}
  FetchTimes = {1, 2}
  DrainTimes = {1, 3}
  MaxSB = 4
  MaxBody = 2
PROPERTIES
  Sequential
