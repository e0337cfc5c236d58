CONSTANTS
    self = self
    net = net
    main = main
    t1 = t1
    t2 = t2
    t3 = t3
    u1 = u1
    Terminator = Terminator
    NoTask = NoTask
    Self = self
    Threads <- MCThreads
    Tasks <- MCTasks
    Urgent <- MCUrgent
    Perishable <- MCPerishable
SPECIFICATION FairSpec
INVARIANTS
    TypeOK
    NoLostWakeup
    DrainedAtExit
PROPERTIES
    ShutdownEndsThread
    ImplementsWorkQueue
CHECK_DEADLOCK FALSE
