CONSTANTS
    d = d
    t1 = t1
    t2 = t2
    Saver = d
    Others <- MCOthers
    Nobody = Nobody
    Statements = 3
    Unchecked <- MCUnchecked
    MaxSaves = 2
    MaxLosses = 1
SPECIFICATION FairSpec
INVARIANTS
    LockDiscipline
    SaveAtomicConnected
    ReportedIsDurable
PROPERTIES
    CallsReturn
CHECK_DEADLOCK FALSE
