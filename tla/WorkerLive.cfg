SPECIFICATION LiveSpec
CONSTANTS
    Callers = {a1, a2, a3}
    Flights = {o1, o2}
    a1 = a1
    a2 = a2
    a3 = a3
    o1 = o1
    o2 = o2
    o3 = o3
    o4 = o4
    k1 = k1
    k2 = k2
    k3 = k3
CHECK_DEADLOCK FALSE
PROPERTIES EveryoneGoesOn
