SPECIFICATION TwiceSpec
CONSTANTS
    PhysCap = 4
    GenCap = 4
    SeqCap = 4
    MaxCount = 6
    h1 = h1
    h2 = h2
    r1 = r1
    r2 = r2
SYMMETRY Interchangeable
VIEW MCView
INVARIANTS TimelineOrdered
CHECK_DEADLOCK FALSE
