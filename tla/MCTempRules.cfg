SPECIFICATION Spec
CONSTANTS
    Addresses = {a1}
    Short = 1
    Long = 2
    MaxTime = 3
    MaxRules = 2
    Mishaps = {"queued", "thread"}
CHECK_DEADLOCK FALSE
INVARIANTS TypeOK AllowLasts HttpAsAsked
PROPERTIES TempEnds
