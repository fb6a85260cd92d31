SPECIFICATION MCSpec
CONSTANTS
    Keys = {k1, k2}
    Calls = {a1, a2}
    Recovers = FALSE
    MaxAttempts = 3
    a1 = a1
    a2 = a2
    a3 = a3
    b1 = b1
    b2 = b2
INVARIANTS AnswersAreTrue IndexFitsRecords KeysApart MarkedIndexExact WalkComplete
PROPERTIES Promised StepsKeepPromises
CHECK_DEADLOCK FALSE
