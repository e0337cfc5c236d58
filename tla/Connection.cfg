CONSTANTS
    m1 = m1
    m2 = m2
    m3 = m3
    Messages <- MCMessages
    NameLength = 3
SPECIFICATION FairSpec
INVARIANTS
    OneReadOneWrite
    InOrder
    GracefulDelivers
PROPERTIES
    ClosedMeansGone
CHECK_DEADLOCK FALSE
