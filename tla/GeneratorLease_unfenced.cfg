SPECIFICATION AloneSpec
CONSTANTS
  p1 = p1
  p2 = p2
  Procs = {p1, p2}
  InstanceOf <- TwoWorkers
  Tasks <- LateTasks
  Cap = 1
  MaxPhysical = 9
  MaxClock = 4
  Ttl = 1
  PreBorrow = 1
  SafetyGap = 1
  MaxSkew = 1
  MaxClockRewind = 9
  FutureBorrows = {0}
  FloorIndices = {0}
  Counts = {1}
  MaxRev = 3
  MaxOrphans = 0
CHECK_DEADLOCK FALSE
INVARIANTS
  NeverReissued
