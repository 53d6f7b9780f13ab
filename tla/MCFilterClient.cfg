SPECIFICATION Spec
CONSTANTS
    c1 = c1
    u1 = u1
    a1 = a1
    None = None
    Cpus <- MCCpus
    Updaters <- MCUpdaters
    Addrs <- MCAddrs
    MaxSets = 2
    Capacity = 1
CHECK_DEADLOCK FALSE
INVARIANTS
    TypeOK
    BlockLabelsLive
    CallbackAlive
PROPERTIES
    ReaderStops
