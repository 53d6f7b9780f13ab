SPECIFICATION Spec
CONSTANTS
    s1 = s1
    s2 = s2
    t1 = t1
    i1 = i1
    i2 = i2
    n1 = n1
    n2 = n2
    None = None
    Senders <- MCSenders
    Threads <- MCThreads
    Irps <- MCIrps
    Notes <- MCNotes
    Capacity = 2
INVARIANTS
    TypeOK
    IrpOwnership
    NoLostWakeup
PROPERTIES
    CounterDrift
    ChannelSpec
    CallsReturn
    CleanupAnswers
