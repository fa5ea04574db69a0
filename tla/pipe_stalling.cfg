SPECIFICATION FairSpec
CONSTANTS
  WordHalf = 1000000
  Programs <- Pool
  Images <- Image
  Regs = {1, 2}
  Addrs <- Words
  Forwarding = FALSE
  LatencyAdd = 2
  LatencyMul = 3
  LoadTimes = {1, 3}
  StoreTimes = {1, 2}
  FetchTimes = {1, 2}
  DrainTimes = {0, 3}
  MaxSB = 1
  MaxBody = 4
INVARIANTS
  TypeOK
  StoreBufferBounded
  ResultKeptBack
PROPERTIES
  Sequential
  Termination
