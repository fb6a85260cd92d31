SPECIFICATION WorkersSpec
CONSTANTS
  p1 = p1
  p2 = p2
  Procs = {p1, p2}
  InstanceOf <- TwoWorkers
  Tasks <- Serving
  Cap = 1
  MaxPhysical = 9
  MaxClock = 3
  Ttl = 1
  PreBorrow = 1
  SafetyGap = 1
  MaxSkew = 1
  MaxClockRewind = 9
  FutureBorrows = {0}
  FloorIndices = {0}
  Counts = {1}
  MaxRev = 4
  MaxOrphans = 0
CHECK_DEADLOCK FALSE
SYMMETRY MCSymmetry
INVARIANTS FencedUnique LeaseExclusive
PROPERTIES FloorNeverFalls
