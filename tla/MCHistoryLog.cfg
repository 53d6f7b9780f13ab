SPECIFICATION Spec
CONSTANTS
    MaxRows = 3
    MaxTime = 4
    Interval = 2
    FaultSets = {{"crash", "full"}, {"insert", "archive"}}
CHECK_DEADLOCK FALSE
INVARIANTS TypeOK InOrderOnce Accounted ArchivedFirst
PROPERTIES OldestRemoved QueueDrains
