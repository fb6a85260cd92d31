SPECIFICATION LiveSpec
CONSTANTS
    Processes = {p1, p2}
    Leases = {l1, l2}
    Ttl = 2
    p1 = p1
    t1 = t1
PROPERTIES ServiceEnds
