CONSTANTS
    self = self
    net = net
    q1 = q1
    q2 = q2
    q3 = q3
    NoQuery = NoQuery
    Self = self
    Threads <- MCThreads
    Queries <- MCQueries
    WithCallback <- MCWithCallback
SPECIFICATION FairSpec
INVARIANTS
    FlushCovers
PROPERTIES
    CallsReturn
    ImplementsWorkQueue
CHECK_DEADLOCK FALSE
