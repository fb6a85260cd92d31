SPECIFICATION MCSpec
CONSTANTS
    Threads = {r1, r2}
    Writers = {"flight", "beside"}
    Cap = 2
    Nows = {1}
    Floors = {0, 3}
    Counts = {1}
    Borrow = 1
    Rewind = 1
    Retries = 2
    Starts = {2}
    Bounds = {3}
    MaxToken = 1
    Callers = {r1, r2}
    Epoch = 1
    MaxPhysical = 1
    Before = 1
    WallTo = 3
    MaxTime = 2
    t1 = t1
    t2 = t2
    k1 = k1
    k2 = k2
    w1 = w1
    w2 = w2
SYMMETRY Interchangeable
INVARIANTS NeverBack KeepsPace AheadBounded 
PROPERTIES AllocatesAtomically GrantsWithinLease SharedJumpBounded
CHECK_DEADLOCK FALSE
