CONSTANTS
    d = d
    t1 = t1
    t2 = t2
    Saver = d
    Others <- MCOthers
    Nobody = Nobody
    Statements = 2
    Unchecked <- MCUnchecked
    MaxSaves = 1
    MaxLosses = 1
SPECIFICATION Spec
INVARIANTS
    SaveAtomic
CHECK_DEADLOCK FALSE
