CONSTANTS
    self = self
    net = net
    e1 = e1
    e2 = e2
    NoEvent = NoEvent
    Self = self
    Threads <- MCThreads
    Events <- MCEvents
    Delays <- MCDelays
    MaxTime = 2
    IdLimit = 2
SPECIFICATION FairSpec
PROPERTIES
    ThreadEnds
CHECK_DEADLOCK FALSE
